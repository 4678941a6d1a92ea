CONSTANTS
  c1 = c1
  c2 = c2
  w1 = w1
  Chats = {c1, c2}
  Writes = {w1}
  NoWrite = NoWrite
  PoolSize = 3
  LlmEnabled = TRUE
  MaxRounds = 1
  MaxTools = 1
  Faults = 2
SPECIFICATION Spec
INVARIANTS
  TypeOK
  AuditNamesEveryCall
  
  ConnectionsComeBack
PROPERTIES
  EverythingEnds
CHECK_DEADLOCK FALSE
