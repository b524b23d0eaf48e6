\* Three requests, two keys, two amounts; everything may fail.
CONSTANTS
  Requests = {r1, r2, r3}
  Keys = {k1, k2}
  Amounts = {100, 200}
  NoKey = NoKey
SPECIFICATION FairSpec
INVARIANTS
  TypeOK
  AnswersAgree
PROPERTIES
  ImplementsIdempotent
  EventuallyQueued
\* Every request ends.
CHECK_DEADLOCK FALSE
