CONSTANTS
  a = a
  b = b
  c = c
  d = d
  NoTable = NoTable
  Tables = {a, b, c, d}
  Adjacencies <- Graphs
SPECIFICATION Spec
INVARIANTS
  RowsExact
  ExpandedIsFinal
  ConnectivityExact
PROPERTIES
  Terminates
