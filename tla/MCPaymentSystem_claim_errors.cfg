\* Transactions of phase 1 fail, up to the attempts of a job, while two
\* payments share the workers; jobs have an attempt more than rows.
CONSTANTS
  Payments = {p1, p2}
  NoPayment = NoPayment
  Workers = {w1, w2}
  NoWorker = NoWorker
  Sweepers = {s1}
  Events = {e1}
  MAX_PAYMENT_ATTEMPTS = 3
  JobAttempts = 4
  MaxStalled = 1
  RetryDelays = {1, 2, 3, 150, 5000}
  Grain = 12
  Faults = {"claim_error"}
  MaxFaults = 4
SPECIFICATION FairSystemSpec
INVARIANTS
  NeverStranded
  ConfirmedNotFailed
PROPERTIES
  EventuallySettled
  GivesUpOnlyIdle
  DelaysGrow
\* The system rests when every payment is settled or out of everybody's sight.
CHECK_DEADLOCK FALSE
