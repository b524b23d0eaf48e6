\* Three workers and two callbacks on one payment with a budget of three attempts.
CONSTANTS
  Payments = {p1}
  NoPayment = NoPayment
  Workers = {w1, w2, w3}
  Events = {e1, e2}
  MAX_PAYMENT_ATTEMPTS = 3
SPECIFICATION Spec
SYMMETRY Symmetry
INVARIANTS
  TypeOK
  AttemptsWithinBudget
  OneChargePerAttempt
  NoFalseSuccess
  ProcessedEventDecides
  IgnoredEventIsMoot
  SweepableClaims
PROPERTIES
  TerminalRowsFrozen
  ImplementsLifecycle
