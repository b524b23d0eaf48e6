\* Two workers and two callers share a payment, a callback and a pool of three
\* connections.
CONSTANTS
  Payments = {p1}
  NoPayment = NoPayment
  Workers = {w1, w2}
  Sessions = {s1, s2}
  Events = {e1}
  NoEventId = NoEventId
  PoolSize = 3
  MAX_PAYMENT_ATTEMPTS = 1
SPECIFICATION TransactionsSpec
SYMMETRY Symmetry
INVARIANTS
  TransactionsTypeOK
  ReadIsCurrent
  AckedIsSettled
  NoCircularWait
PROPERTIES
  ImplementsService
