------------------------- MODULE PaymentInitiation -------------------------
(***************************************************************************)
(* POST /api/payments: initiatePayment as concurrent requests run it.      *)
(* Each request inserts a row under its Idempotency-Key, reads it back and *)
(* enqueues it, or finds the key taken and reads the payment that has it.  *)
(* A client may send the same key again, at the same time or after a       *)
(* failure, and with another amount.                                       *)
(*                                                                         *)
(* PaymentSystem has one request for each payment; this module says why    *)
(* that is all there is to see of several.                                 *)
(***************************************************************************)
EXTENDS Integers, FiniteSets

CONSTANTS
  Requests,      \* HTTP requests, each handled once
  Keys,          \* values of the Idempotency-Key header
  Amounts,       \* amounts in the request bodies
  NoKey          \* the key of a request that was not sent

ASSUME PaymentInitiationAssumption ==
  /\ NoKey \notin Keys
  /\ IsFiniteSet(Requests)

VARIABLES
  rows,       \* the payments table: id -> key and amount
  lastId,     \* the table's auto-increment counter
  jobs,       \* payments for which a job was added
  requests    \* what each request is doing, and its answer

vars == <<rows, lastId, jobs, requests>>

Row == [key : Keys, amount : Amounts]

(* pc "read": inserted; "enqueue": read back; "reply": the job was added;  *)
(* "lookup": the key was taken; "answered" with 201 or 200, "failed" with  *)
(* 500 or a broken connection.  0 is no payment.                           *)
Request == [pc : {"idle", "insert", "read", "enqueue", "reply", "lookup",
                  "answered", "failed"},
            key : Keys \cup {NoKey},
            amount : Amounts \cup {0},
            payment : Nat,
            created : BOOLEAN]

NotSent == [pc |-> "idle", key |-> NoKey, amount |-> 0,
            payment |-> 0, created |-> FALSE]

Init ==
  /\ rows = [id \in {} |-> NotSent]
  /\ lastId = 0
  /\ jobs = {}
  /\ requests = [r \in Requests |-> NotSent]

Send(r, key, amount) ==
  /\ requests[r].pc = "idle"
  /\ requests' = [requests EXCEPT
       ![r] = [NotSent EXCEPT !.pc = "insert", !.key = key, !.amount = amount]]
  /\ UNCHANGED <<rows, lastId, jobs>>

(* A key that counts as taken only once its creator has read its row back. *)
KeySeen(key) ==
  \E r \in Requests :
    requests[r].key = key /\ requests[r].pc \in {"enqueue", "reply", "answered"}

(* The UNIQUE index on idempotency_key. *)
KeyTaken(key) == \E id \in DOMAIN rows : rows[id].key = key

(* An id is taken from the counter one insert too early. *)
InsertEarlyId(r) ==
  /\ requests[r].pc = "insert"
  /\ ~KeyTaken(requests[r].key)
  /\ rows' = [id \in DOMAIN rows \cup {lastId} |->
                IF id = lastId
                  THEN [key |-> requests[r].key, amount |-> requests[r].amount]
                  ELSE rows[id]]
  /\ lastId' = lastId + 1
  /\ requests' = [requests EXCEPT ![r].pc = "read", ![r].payment = lastId]
  /\ UNCHANGED jobs

(* PaymentRepository.create: the INSERT. *)
Insert(r) ==
  LET id == lastId + 1 IN
  /\ requests[r].pc = "insert"
  /\ ~KeyTaken(requests[r].key)
  /\ rows' = [i \in DOMAIN rows \cup {id} |->
                IF i = id
                  THEN [key |-> requests[r].key, amount |-> requests[r].amount]
                  ELSE rows[i]]
  /\ lastId' = id
  /\ requests' = [requests EXCEPT ![r].pc = "read", ![r].payment = id]
  /\ UNCHANGED jobs

(* ER_DUP_ENTRY.  The failed insert has used up an id. *)
InsertRefused(r) ==
  /\ requests[r].pc = "insert"
  /\ KeyTaken(requests[r].key)
  /\ lastId' = lastId + 1
  /\ requests' = [requests EXCEPT ![r].pc = "lookup"]
  /\ UNCHANGED <<rows, jobs>>

(* A creation that never gets to its enqueue. *)
ReadAndAnswer(r) ==
  /\ requests[r].pc = "read"
  /\ requests' = [requests EXCEPT ![r].pc = "answered", ![r].created = TRUE]
  /\ UNCHANGED <<rows, lastId, jobs>>

(* create: findById. *)
ReadBack(r) ==
  LET id == requests[r].payment IN
  /\ requests[r].pc = "read"
  /\ requests' = [requests EXCEPT ![r].pc = "enqueue",
                                  ![r].amount = rows[id].amount]
  /\ UNCHANGED <<rows, lastId, jobs>>

(* enqueuePayment. *)
Enqueue(r) ==
  /\ requests[r].pc = "enqueue"
  /\ jobs' = jobs \cup {requests[r].payment}
  /\ requests' = [requests EXCEPT ![r].pc = "reply"]
  /\ UNCHANGED <<rows, lastId>>

(* 201. *)
ReplyCreated(r) ==
  /\ requests[r].pc = "reply"
  /\ requests' = [requests EXCEPT ![r].pc = "answered", ![r].created = TRUE]
  /\ UNCHANGED <<rows, lastId, jobs>>

(* A lookup that answers with the amount that was asked for. *)
LookupOwnAmount(r) ==
  /\ requests[r].pc = "lookup"
  /\ \E id \in DOMAIN rows :
       /\ rows[id].key = requests[r].key
       /\ requests' = [requests EXCEPT ![r].pc = "answered", ![r].payment = id]
  /\ UNCHANGED <<rows, lastId, jobs>>

(* findByIdempotencyKey, and 200 with what the row says. *)
Lookup(r) ==
  /\ requests[r].pc = "lookup"
  /\ \E id \in DOMAIN rows :
       /\ rows[id].key = requests[r].key
       /\ requests' = [requests EXCEPT ![r].pc = "answered", ![r].payment = id,
                                       ![r].amount = rows[id].amount]
  /\ UNCHANGED <<rows, lastId, jobs>>

(* A query or the enqueue throws something else than a duplicate key, or   *)
(* the process dies: the request ends without an answer that names a       *)
(* payment, and what it wrote stays, a job that was added unseen included. *)
Fail(r) ==
  /\ requests[r].pc \in {"insert", "read", "enqueue", "reply", "lookup"}
  /\ requests' = [requests EXCEPT ![r].pc = "failed"]
  /\ \/ UNCHANGED jobs
     \/ requests[r].pc = "enqueue" /\ jobs' = jobs \cup {requests[r].payment}
  /\ UNCHANGED <<rows, lastId>>

Handle(r) ==
  \/ Insert(r) \/ InsertRefused(r) \/ Lookup(r)
  \/ ReadBack(r) \/ Enqueue(r) \/ ReplyCreated(r)

Next ==
  \E r \in Requests :
    \/ \E key \in Keys, amount \in Amounts : Send(r, key, amount)
    \/ Handle(r)
    \/ Fail(r)

Spec == Init /\ [][Next]_vars

(* A request that was received is handled; nothing makes a client send. *)
FairSpec == Spec /\ \A r \in Requests : WF_vars(Handle(r))

----------------------------------------------------------------------------
TypeOK ==
  /\ lastId \in Nat
  /\ DOMAIN rows \subseteq 1..lastId
  /\ \A id \in DOMAIN rows : rows[id] \in Row
  /\ jobs \subseteq DOMAIN rows
  /\ requests \in [Requests -> Request]

Answered(r) == requests[r].pc = "answered"

(* README: "the DB lets exactly one win".  All requests with one key that  *)
(* are answered name the same payment and tell the same amount, that of    *)
(* the request that won, and no two of them claim to have created it.      *)
AnswersAgree ==
  \A q, r \in Requests :
    /\ Answered(q) /\ Answered(r)
    /\ requests[q].key = requests[r].key
    => /\ requests[q].payment = requests[r].payment
       /\ requests[q].amount = requests[r].amount
       /\ requests[q].created /\ requests[r].created => q = r

(* As long as no request fails, every payment is enqueued in the end, also *)
(* when it was answered 200 to others before.                              *)
EventuallyQueued ==
  [](\A r \in Requests : requests[r].pc # "failed") =>
    \A r \in Requests : Answered(r) ~> requests[r].payment \in jobs

(* Seen from outside, a request decides its key's payment in one step and  *)
(* for good: the requests implement the idempotent creation.               *)
Idempotent == INSTANCE IdempotentCreation WITH
  Ids <- 1..Cardinality(Requests),
  paymentOf <- [k \in Keys |-> {id \in DOMAIN rows : rows[id].key = k}],
  told <- [k \in Keys |->
             {requests[r].payment : r \in {q \in Requests :
                                             Answered(q) /\ requests[q].key = k}}]

ImplementsIdempotent == Idempotent!Spec

=============================================================================
