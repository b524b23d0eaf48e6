\* One worker dies, two processes sweep.
CONSTANTS
  Payments = {p1}
  NoPayment = NoPayment
  Workers = {w1, w2}
  NoWorker = NoWorker
  Sweepers = {s1, s2}
  Events = {}
  MAX_PAYMENT_ATTEMPTS = 2
  JobAttempts = 2
  MaxStalled = 1
  RetryDelays = {1}
  Grain = 1
  Faults = {"worker_crash"}
  MaxFaults = 1
SPECIFICATION SystemSpec
PROPERTIES
  OnlyStaleRecovered
\* The system rests when every payment is settled or out of everybody's sight.
CHECK_DEADLOCK FALSE
