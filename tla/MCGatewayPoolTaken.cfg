CONSTANTS
  org_no = org_no
  org_name = org_name
  cust_no = cust_no
  secret = secret
  nodim = nodim
  amount = amount
  base = base
  o = o
  user_orgs = user_orgs
  dws = dws
  DWS = DWS
  cust = cust
  CUST = CUST
  m1 = m1
  q1 = q1
  q2 = q2
  m2 = m2
  Dims <- TheDims
  L3 = {cust_no}
  L4 = {secret}
  CustomerDims = {cust_no}
  Measure = amount
  JoinOf <- TheJoins
  Base = base
  PolicyVars = {user_orgs}
  HardLimit = 2
  Blacklist = {cust}
  Lower <- TheLower
  MetricRequests = {m1}
  AdhocRequests = {q1, q2}
  Plans <- ThePlans
  Contexts <- TheContexts
  TableLists <- TheTableLists
  Statements <- TheStatements
  PlatformPool = 2
  MaxConcurrency = 1
  Faults = 0
SPECIFICATION Spec
PROPERTIES
  RefusalLeavesTrace
CHECK_DEADLOCK FALSE
