\* A live worker is held up: its lock expires and its claim grows stale.
CONSTANTS
  Payments = {p1}
  NoPayment = NoPayment
  Workers = {w1, w2}
  NoWorker = NoWorker
  Sweepers = {s1}
  Events = {}
  MAX_PAYMENT_ATTEMPTS = 2
  JobAttempts = 2
  MaxStalled = 1
  RetryDelays = {1}
  Grain = 1
  Faults = {"lock_lost", "slow_claim"}
  MaxFaults = 2
SPECIFICATION SystemSpec
INVARIANTS
  ExclusiveProcessing
\* The system rests when every payment is settled or out of everybody's sight.
CHECK_DEADLOCK FALSE
