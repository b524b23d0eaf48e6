\* The API or Redis fails between INSERT and enqueue.
CONSTANTS
  Payments = {p1}
  NoPayment = NoPayment
  Workers = {w1}
  NoWorker = NoWorker
  Sweepers = {s1}
  Events = {}
  MAX_PAYMENT_ATTEMPTS = 2
  JobAttempts = 2
  MaxStalled = 1
  RetryDelays = {1}
  Grain = 1
  Faults = {"request_lost"}
  MaxFaults = 1
SPECIFICATION FairSystemSpec
PROPERTIES
  EventuallySettled
\* The system rests when every payment is settled or out of everybody's sight.
CHECK_DEADLOCK FALSE
