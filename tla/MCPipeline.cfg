CONSTANTS
  a = a
  b = b
  c = c
  s1 = s1
  s2 = s2
  v1 = v1
  v2 = v2
  w1 = w1
  NoSql = NoSql
  NoTable = NoTable
  NoTask = NoTask
  Tables = {a, b, c}
  Sqls = {s1, s2}
  Active = {s1, s2}
  Cron = cron
  ByHand = {}
  TmpTables = {}
  Versions <- ChainVersions
  Reads <- ChainReads
  Writes <- ChainWrites
  Task <- NoTasks
  FailTexts = {v2}
  SlowTexts = {v1}
  Drawings <- DrawOrErase
  EdgeDelta = 60
  ClosureDelta = 50
  Threshold = 3
  Changes = 1
  Hooks = 1
  Faults = 1
SPECIFICATION FairSpec
INVARIANTS
  TypeOK
  PublishedInOrder
  SuccessPublishesBoth
  DrawnLineageStays
  HookedLineageStays
PROPERTIES
  ServesWholeGraphs
  NightlyConverges
