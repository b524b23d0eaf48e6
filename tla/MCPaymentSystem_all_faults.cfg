\* Every kind of fault, two sweeps at once.
CONSTANTS
  Payments = {p1}
  NoPayment = NoPayment
  Workers = {w1, w2}
  NoWorker = NoWorker
  Sweepers = {s1, s2}
  Events = {e1}
  MAX_PAYMENT_ATTEMPTS = 2
  JobAttempts = 2
  MaxStalled = 1
  RetryDelays = {1}
  Grain = 1
  Faults = {"request_lost", "worker_crash", "sweep_crash", "claim_error", "settle_error",
            "ack_lost", "handler_error", "lock_lost", "slow_claim", "shutdown"}
  MaxFaults = 2
SPECIFICATION FairSystemSpec
INVARIANTS
  SystemTypeOK
PROPERTIES
  ClaimsResolve
  ImplementsService
  ExitKillsNothing
  ShutdownEnds
\* The system rests when every payment is settled or out of everybody's sight.
CHECK_DEADLOCK FALSE
