\* Two calls at a time over one directory; two requests through three rules.
CONSTANTS
  short = short
  long = long
  index = index
  script = script
  Sources = {short, long}
  Bundle <- MCBundle
  Calls = {c1, c2}
  MaxInstalls = 3
  MaxRemovals = 1
  MaxFaults = 1
  None = None
  RuleId = {r1, r2, r3}
  Rule <- NestedRules
  Path <- NestedPaths
  Segment <- MCSegment
  Missing = {"nowhere"}
  Request = {x1, x2}
  NoRule = norule
  Changes = 3
SYMMETRY Symmetry
SPECIFICATION MCSpec
INVARIANTS LongestMatchServes
INVARIANTS LastInstallServes ReinstallKeepsServing AnswersAreTrue
CHECK_DEADLOCK FALSE
