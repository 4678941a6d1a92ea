CONSTANTS
  c1 = c1
  c2 = c2
  c3 = c3
  t1 = t1
  t2 = t2
  k1 = k1
  ann = ann
  bob = bob
  long = long
  short = short
  net = net
  gross = gross
  Columns = {c1, c2, c3}
  TableOf <- TheTables
  Terms = {k1}
  Words = {long, short}
  Calibers = {net, gross}
  Admitted = {long}
  Gone = Gone
  Editors = {ann, bob}
  Chosen = {"pending_review", "active"}
  BatchSize = 2
  LastDay = 2
  Changes = 3
  Faults = 1
SPECIFICATION Spec
INVARIANTS
  TypeOK
  SearchFindsNothingOlder
  SnapshotFitsCatalogue
PROPERTIES
  CertificationStays
SYMMETRY Alike
