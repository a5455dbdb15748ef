SPECIFICATION Spec
CONSTANTS
  u1 = u1
  n1 = n1
  a1 = a1
  a2 = a2
  p1 = p1
  p2 = p2
  i1 = i1
  i2 = i2
  r1 = r1
  m1 = m1
  NoApp = NoApp
  RootUser = u0
  UserId = {u0, u1}
  RootName = n0
  Username = {n0, n1}
  AppId = {a1, a2}
  Package = {p1, p2}
  ProcUuid = {i1, i2}
  RuleId = {r1}
  Matcher = {m1}
  InitialStates <- MCInitialStates
  Requests <- MCRequests
INVARIANTS
  TypeOK
  OneProcessPerApp
  OneAppPerPackage
  UsernamesUnique
  OwnersExist
  ChainIsMigratedData
PROPERTIES
  Lifecycle
  MigrationKeepsRecords
