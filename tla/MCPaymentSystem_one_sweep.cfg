\* Workers and the only sweep die, lose their transactions or their locks, two
\* payments; rows have an attempt more than jobs.
CONSTANTS
  Payments = {p1, p2}
  NoPayment = NoPayment
  Workers = {w1, w2}
  NoWorker = NoWorker
  Sweepers = {s1}
  Events = {}
  MAX_PAYMENT_ATTEMPTS = 3
  JobAttempts = 2
  MaxStalled = 1
  RetryDelays = {1}
  Grain = 1
  Faults = {"worker_crash", "sweep_crash", "settle_error", "ack_lost", "lock_lost"}
  MaxFaults = 2
SPECIFICATION SystemSpec
SYMMETRY Symmetry
INVARIANTS
  ExclusiveProcessing
PROPERTIES
  OnlyStaleRecovered
\* The system rests when every payment is settled or out of everybody's sight.
CHECK_DEADLOCK FALSE
