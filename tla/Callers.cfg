\* Two users and an app with two requests in flight; two challenges with three
\* answers to them.
CONSTANTS
  Users = {alice, bob}
  Apps = {app1}
  Slots = {q1, q2}
  CookieRoom = 2
  MaxFlows = 3
  MaxCallbacks = 2
  MaxExchanges = 1
  MaxFaults = 1
  Dids = {alice, bob}
  Keys = {k1, k2}
  SessionIds = {s1, s2}
  Requests = {r1, r2, r3}
  None = none
SYMMETRY Symmetry
SPECIFICATION MCSpec
INVARIANTS CodesHoldOneFlow  OwnerAuthenticated FailuresArePaidFor
INVARIANTS NoTokenFromSpent TokensAreEarned
CHECK_DEADLOCK FALSE
