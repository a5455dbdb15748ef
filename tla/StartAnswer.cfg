SPECIFICATION Spec
CONSTANTS
  u1 = u1
  n1 = n1
  a1 = a1
  a2 = a2
  p1 = p1
  p2 = p2
  i1 = i1
  i2 = i2
  i3 = i3
  r1 = r1
  r2 = r2
  m1 = m1
  NoApp = NoApp
  NoProc = NoProc
  RootUser = u0
  UserId = {u0, u1}
  RootName = n0
  Username = {n0, n1}
  AppId = {a1, a2}
  Package = {p1, p2}
  ProcUuid = {i1, i2, i3}
  RuleId = {r1, r2}
  Matcher = {m1}
  Thread = {t1}
  DefaultApps <- MCDefaultApps
  DefaultRules <- MCDefaultRules
  InstallRequests <- DockerInstall
  Targets = {}
  Faults = {"docker"}
  MaxBoots = 1
PROPERTY
  StartedIsRecorded
CHECK_DEADLOCK FALSE
