CONSTANTS
  a = a
  b = b
  c = c
  d = d
  s1 = s1
  s2 = s2
  s3 = s3
  s4 = s4
  v1 = v1
  v2 = v2
  w2 = w2
  w3 = w3
  w4 = w4
  task = task
  other = other
  NoSql = NoSql
  NoTable = NoTable
  NoTask = NoTask
  Tables = {a, b, c, d}
  Sqls = {s1, s2, s3, s4}
  Active = {s1, s2, s3}
  Cron = cron
  ByHand = {}
  TmpTables = {b, c}
  Versions <- TmpVersions
  Reads <- TmpReads
  Writes <- TmpWrites
  Task <- OneTask
  FailTexts = {}
  SlowTexts = {}
  Drawings = {}
  EdgeDelta = 1000
  ClosureDelta = 1000
  Threshold = 1
  Changes = 1
  Hooks = 2
  Faults = 0
SPECIFICATION Spec
INVARIANTS
  RebuildHidesOnlyTmp
