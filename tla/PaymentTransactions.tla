------------------------ MODULE PaymentTransactions ------------------------
(***************************************************************************)
(* The engine one level down.  PaymentService takes a database transaction *)
(* for one step; here it is the statements the code sends: a connection    *)
(* from knex's pool and BEGIN, SELECT ... FOR UPDATE, which waits for the  *)
(* row lock, the INSERT of a callback's event, which waits for another     *)
(* session's uncommitted one, and the writes with the COMMIT.  What is     *)
(* written is decided by the row that was read.                            *)
(*                                                                         *)
(* Callbacks are here from the HTTP request to the reply: the schema, the  *)
(* handler, 200 or the error handler's 500, and a provider that sends its  *)
(* callbacks as often as it likes.                                         *)
(*                                                                         *)
(* No transaction looks at the age of a claim, so claims do not grow old   *)
(* here.  The locks are InnoDB's, under REPEATABLE READ: a FOR UPDATE on   *)
(* an id that has no row locks the gap, which keeps nobody out but an      *)
(* INSERT.                                                                 *)
(***************************************************************************)
EXTENDS PaymentService, FiniteSets

CONSTANTS
  Sessions,   \* callers of handleWebhook, failPayment and recoverStalePayment
  NoEventId,  \* the event of a session that handles no callback
  PoolSize    \* connections in the pool, fewer than a process may ask for

ASSUME PaymentTransactionsAssumption ==
  /\ Workers \cap Sessions = {}
  /\ NoEventId \notin Events
  /\ PoolSize \in Nat \ {0}

VARIABLES
  trx,     \* the transaction each client is in
  tasks,   \* what each session was called for
  acked    \* history: events of known payments the provider got a 200 for

Clients == Workers \cup Sessions

engine == <<payments, events, calls, charged, confirmed>>
database == <<payments, events, calls, charged, confirmed, trx, tasks, acked>>

(* pc "lock": connected; "insert": the row is locked; "write": about to    *)
(* write and commit, with the event of a callback inserted; "duplicate":   *)
(* the event was refused.  row: what FOR UPDATE read.                      *)
Trx == [pc : {"none", "lock", "insert", "write", "duplicate"}, row : Row]

NoTrx == [pc |-> "none", row |-> NoRow]

Task == [kind : {"none", "webhook", "fail", "recover"},
         payment : Payments \cup {NoPayment},
         event : Events \cup {NoEventId},
         status : {SUCCESS, FAILED, NONE}]

NoTask == [kind |-> "none", payment |-> NoPayment, event |-> NoEventId,
           status |-> NONE]

TransactionsInit ==
  /\ Init
  /\ trx = [c \in Clients |-> NoTrx]
  /\ tasks = [s \in Sessions |-> NoTask]
  /\ acked = {}

----------------------------------------------------------------------------
(* Statements, the same for every transaction. *)

Paying(c) == IF c \in Workers THEN calls[c].payment ELSE tasks[c].payment

(* The client is in repository.transaction(fn), or waits to be. *)
Transacts(c) ==
  IF c \in Workers THEN calls[c].pc \in {"claim", "settle"}
                   ELSE tasks[c].kind # "none"

IsCallback(c) == c \in Sessions /\ tasks[c].kind = "webhook"

Holds(c, p) == trx[c].pc \in {"insert", "write", "duplicate"} /\ Paying(c) = p

Inserted(s, e) ==
  /\ IsCallback(s) /\ tasks[s].event = e
  /\ trx[s].pc = "write" /\ trx[s].row.status # NONE

Ends(c) == trx' = [trx EXCEPT ![c] = NoTrx]

(* What a client can wait for: a connection of the pool, the lock of its   *)
(* row, and an event that another session has inserted.                    *)
ConnectionFree == Cardinality({d \in Clients : trx[d].pc # "none"}) < PoolSize

RowFree(c) == Exists(Paying(c)) => \A d \in Clients : ~Holds(d, Paying(c))

(* An INSERT outside the transaction: on another connection, where its     *)
(* foreign key waits for the row that the transaction has locked.          *)
EventFreeOutside(s) == \A d \in Clients : ~Holds(d, Paying(s))

EventFree(s) == \A d \in Sessions : ~Inserted(d, tasks[s].event)

Connect(c) ==
  /\ Transacts(c)
  /\ trx[c].pc = "none"
  /\ ConnectionFree
  /\ trx' = [trx EXCEPT ![c].pc = "lock"]
  /\ UNCHANGED <<engine, tasks, acked>>

(* The row as the client has just read it. *)
Reads(c) ==
  trx' = [trx EXCEPT
    ![c] = [pc |-> IF IsCallback(c) /\ Exists(Paying(c)) THEN "insert" ELSE "write",
            row |-> payments[Paying(c)]]]

(* A SELECT without FOR UPDATE. *)
findById(c) ==
  /\ trx[c].pc = "lock"
  /\ Reads(c)
  /\ UNCHANGED <<engine, tasks, acked>>

findByIdForUpdate(c) ==
  /\ trx[c].pc = "lock"
  /\ RowFree(c)
  /\ Reads(c)
  /\ UNCHANGED <<engine, tasks, acked>>

insertUnique(s) ==
  /\ trx[s].pc = "insert"
  /\ EventFree(s)
  /\ trx' = [trx EXCEPT ![s].pc =
       IF events[tasks[s].event].status = "none" THEN "write" ELSE "duplicate"]
  /\ UNCHANGED <<engine, tasks, acked>>

----------------------------------------------------------------------------
(* The transactions of process(): _claim and _settle. *)

WorkerRow(w) ==
  LET row == trx[w].row IN
  IF calls[w].pc = "claim"
    THEN IF Claimable(row) THEN ClaimedRow(row) ELSE row
    ELSE IF Settleable(row) THEN SettledRow(row, calls[w].outcome) ELSE row

WorkerWrites(w) ==
  /\ Transacts(w)
  /\ trx[w].pc = "write"
  /\ Ends(w)
  /\ payments' = [payments EXCEPT ![calls[w].payment] = WorkerRow(w)]
  /\ UNCHANGED <<events, charged, confirmed, tasks, acked>>

ClaimCommits(w) ==
  /\ calls[w].pc = "claim"
  /\ WorkerWrites(w)
  /\ IF Claimable(trx[w].row)
       THEN calls' = [calls EXCEPT ![w].pc = "charge",
                                   ![w].attempt = trx[w].row.attempts + 1]
       ELSE Goto(w, "returned")

SettleCommits(w) ==
  /\ calls[w].pc = "settle"
  /\ WorkerWrites(w)
  /\ Goto(w, IF Settleable(trx[w].row) /\ WorkerRow(w).status = PENDING
               THEN "threw" ELSE "returned")

WorkerUnseen(w) == WorkerWrites(w) /\ Goto(w, "threw")

(* Nothing is written; before BEGIN, the pool's acquire has timed out. *)
WorkerFails(w) ==
  /\ Rollback(w)
  /\ Ends(w)
  /\ UNCHANGED <<tasks, acked>>

WorkerDies(w) ==
  /\ Crash(w)
  /\ Ends(w)
  /\ UNCHANGED <<tasks, acked>>

----------------------------------------------------------------------------
(* Sessions. *)

Called(s, task) ==
  /\ tasks[s].kind = "none"
  /\ tasks' = [tasks EXCEPT ![s] = task]
  /\ UNCHANGED <<engine, trx, acked>>

(* A schema that lets every status of a payment through. *)
AnyStatus(status) == status \in ePaymentStatus

(* webhookSchema: any other body is answered 400 and goes no further. *)
WellFormed(status) == status \in {SUCCESS, FAILED}

Deliver(s, e, p, status) ==
  /\ WellFormed(status)
  /\ Called(s, [kind |-> "webhook", payment |-> p, event |-> e, status |-> status])

(* The failed handler's; a job was added for a row that exists. *)
CallFailPayment(s, p) ==
  /\ Exists(p)
  /\ Called(s, [NoTask EXCEPT !.kind = "fail", !.payment = p])

(* The sweep's, for a row it has read without a lock. *)
CallRecover(s, p) ==
  /\ payments[p].status = PROCESSING
  /\ Called(s, [NoTask EXCEPT !.kind = "recover", !.payment = p])

(* What is written to payments; hasRef: the body carries a providerRef. *)
SessionRow(s, hasRef) ==
  LET row == trx[s].row
      task == tasks[s]
  IN CASE /\ task.kind = "fail" /\ canTransition(row.status, FAILED) ->
            [row EXCEPT !.status = FAILED]
       [] task.kind = "recover" /\ row.status = PROCESSING -> RecoveredRow(row)
       [] /\ task.kind = "webhook" /\ trx[s].pc = "write"
          /\ canTransition(row.status, task.status) ->
            WebhookRow(row, task.status, hasRef)
       [] OTHER -> row

(* What is written to webhook_events, under an event id that was inserted. *)
SessionEvent(s) ==
  [payment |-> tasks[s].payment, reported |-> tasks[s].status,
   status |-> IF canTransition(trx[s].row.status, tasks[s].status)
                THEN "processed" ELSE "ignored"]

(* A handler that acknowledges whatever happened. *)
AlwaysAcks(threw) == 200

(* The controller acks whatever handleWebhook returns; what it throws is   *)
(* the error handler's.                                                    *)
statusCode(threw) == IF threw THEN 500 ELSE 200

(* The session is done.  A callback is replied to, and the reply may get   *)
(* lost; what was told of an unknown payment is not remembered.            *)
Answers(s, threw) ==
  /\ Ends(s)
  /\ tasks' = [tasks EXCEPT ![s] = NoTask]
  /\ \/ UNCHANGED acked
     \/ /\ IsCallback(s) /\ statusCode(threw) = 200
        /\ Exists(tasks[s].payment)
        /\ acked' = acked \cup {tasks[s].event}

SessionWrites(s) ==
  /\ trx[s].pc \in {"write", "duplicate"}
  /\ \E hasRef \in BOOLEAN :
       payments' = [payments EXCEPT ![tasks[s].payment] = SessionRow(s, hasRef)]
  /\ events' = [e \in Events |-> IF Inserted(s, e) THEN SessionEvent(s) ELSE events[e]]
  /\ UNCHANGED <<calls, charged, confirmed>>

SessionCommits(s) == SessionWrites(s) /\ Answers(s, FALSE)

SessionUnseen(s) == SessionWrites(s) /\ Answers(s, TRUE)

(* Nothing is written: an error, a timeout of the pool, or a crash. *)
SessionFails(s) ==
  /\ Transacts(s)
  /\ Answers(s, TRUE)
  /\ UNCHANGED engine

----------------------------------------------------------------------------
(* An INSERT of the row waits for those who have seen that it is missing.  *)
CreateWaits(p) ==
  /\ \A c \in Clients : ~Holds(c, p)
  /\ Create(p)
  /\ UNCHANGED <<trx, tasks, acked>>

WorkerMoves(w) ==
  \/ /\ \/ \E p \in Payments : Exists(p) /\ StartProcess(w, p)
        \/ BeginCharge(w)
        \/ \E outcome \in Outcome : EndCharge(w, outcome)
        \/ Finish(w)
     /\ UNCHANGED <<trx, tasks, acked>>
  \/ ClaimCommits(w) \/ SettleCommits(w)
  \/ WorkerUnseen(w) \/ WorkerFails(w) \/ WorkerDies(w)

SessionMoves(s) ==
  \/ \E p \in Payments :
       \/ \E e \in Events, status \in ePaymentStatus : Deliver(s, e, p, status)
       \/ CallFailPayment(s, p)
       \/ CallRecover(s, p)
  \/ insertUnique(s)
  \/ SessionCommits(s) \/ SessionUnseen(s) \/ SessionFails(s)

TransactionsNext ==
  \/ \E c \in Clients : Connect(c) \/ findByIdForUpdate(c)
  \/ \E w \in Workers : WorkerMoves(w)
  \/ \E s \in Sessions : SessionMoves(s)
  \/ \E p \in Payments : CreateWaits(p)

TransactionsSpec == TransactionsInit /\ [][TransactionsNext]_database

----------------------------------------------------------------------------
TransactionsTypeOK ==
  /\ TypeOK
  /\ trx \in [Clients -> Trx]
  /\ tasks \in [Sessions -> Task]
  /\ acked \subseteq Events

(* Properties. *)

(* "lock the row for the life of the transaction": what a transaction read *)
(* is still so when it writes, whoever else has read, written, rolled back *)
(* or died in between.                                                     *)
ReadIsCurrent ==
  \A c \in Clients : \A p \in Payments : Holds(c, p) => trx[c].row = payments[p]

(* A 200 is final: what the provider was told it need not send again has   *)
(* been recorded, by a transaction that committed, and its payment is      *)
(* settled.                                                                *)
AckedIsSettled ==
  \A e \in acked :
    /\ events[e].status # "none"
    /\ isTerminal(payments[events[e].payment].status)

(* Statement by statement, the transactions do what the engine does in one *)
(* step each: all safety properties of PaymentService hold of them.        *)
ImplementsService == Spec

(* What a client can send next: BEGIN, FOR UPDATE and INSERT wait for what *)
(* is not free, a COMMIT for nothing.                                      *)
CanGoOn(c) ==
  \/ trx[c].pc = "none" /\ ConnectionFree
  \/ trx[c].pc = "lock" /\ RowFree(c)
  \/ trx[c].pc = "insert" /\ EventFree(c)
  \/ trx[c].pc \in {"write", "duplicate"}

(* Nobody waits in a circle, be it for rows, events or connections of the  *)
(* pool: as long as a client has to wait, there is another one that can go *)
(* on, also when these two are all that have not ended yet.                *)
NoCircularWait ==
  \A c \in Clients :
    Transacts(c) /\ ~CanGoOn(c) =>
      \E d \in Clients : d # c /\ Transacts(d) /\ CanGoOn(d)

=============================================================================
