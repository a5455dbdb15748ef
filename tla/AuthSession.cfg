\* Two requests in flight, lost responses and repeated nonce demands.
CONSTANTS
  Accounts = {alice, bob}
  None = none
  Slots = {q1, q2}
  MaxLogins = 3
  MaxRequests = 5
  MaxExpiries = 2
  MaxFaults = 2
SYMMETRY Symmetry
SPECIFICATION Spec
INVARIANTS TypeOK TokenOfIdentity RotationReachesBrowser BoundTokenIsServed
INVARIANTS FailuresArePaidFor
PROPERTIES NewTokenFitsKey
CHECK_DEADLOCK FALSE
