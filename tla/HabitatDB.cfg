SPECIFICATION Spec
CONSTANTS
  RootUser = u0
  u1 = u1
  UserId = {u0, u1}
  RootName = n0
  n1 = n1
  Username = {n0, n1}
  a1 = a1
  AppId = {a1}
  NoApp = NoApp
  p1 = p1
  Package = {p1}
  i1 = i1
  ProcUuid = {i1}
  r1 = r1
  RuleId = {r1}
  m1 = m1
  Matcher = {m1}
  Client = {c1, c2}
  NoClient = NoClient
  InitialStates <- MCInitialStates
  Requests <- MCRequests
INVARIANTS
  FileMatchesMemory
  ReadersSeeCurrentState
PROPERTIES
  ImplementsRegistry
  CallsReturn
CHECK_DEADLOCK FALSE
