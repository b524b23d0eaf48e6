\* Three calls on one event loop, answers after 1 or 2, timeout 5, hang 6.
CONSTANTS
  Charges = {c1, c2, c3}
  GATEWAY_TIMEOUT_MS = 5
  HANG = 1
  PROB <- MCProb
  MaxTime = 8
SPECIFICATION Spec
SYMMETRY Symmetry
INVARIANTS
  TypeOK
  GuardedUntilSettled
PROPERTIES
  MisjudgedOnlyIfHeldUp
\* Time is bounded.
CHECK_DEADLOCK FALSE
