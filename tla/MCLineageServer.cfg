CONSTANTS
  r1 = r1
  r2 = r2
  Tables = {1, 2, 3, 4}
  Graphs <- TheGraphs
  Readers = {r1, r2}
  QueriesOf <- TheQueriesOf
  Found <- TheFound
  TasksOf <- TheTasks
  MaxDepth = 2
  MaxNodes = 3
  DayLength = 3
  MinTtl = 2
  LastTick = 4
  Changes = 1
SPECIFICATION ServerSpec
INVARIANTS
  ServerTypeOK
  LineageExact
  PathIsShortest
  PagesComplete
  FamiliesExact
PROPERTIES
  EveryCallReturns
CHECK_DEADLOCK FALSE
