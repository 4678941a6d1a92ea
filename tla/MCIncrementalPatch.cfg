CONSTANTS
  a = a
  b = b
  c = c
  d = d
  s1 = s1
  s2 = s2
  s3 = s3
  NoTarget = NoTarget
  Tables = {a, b, c, d}
  Sqls = {s1, s2, s3}
  Registered <- Targets
  Results <- Sources
  Threshold = 8
  AtOnce = 2
  Failures = 1
SPECIFICATION Spec
INVARIANTS
  KnownUpstreamPairsExact
  KnownUpstreamRowsExact
  NewUpstreamOnlyOmits
  NoDuplicateRow
