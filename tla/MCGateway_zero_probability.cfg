\* One call, with the failure probability set to 0.
CONSTANTS
  Charges = {c1}
  GATEWAY_TIMEOUT_MS = 5
  HANG = 1
  PROB <- MCProb
  MaxTime = 8
SPECIFICATION Spec
INVARIANTS
  OutcomesAsConfigured
\* Time is bounded.
CHECK_DEADLOCK FALSE
