--------------------- MODULE PaymentTransactionsProofs ---------------------
(***************************************************************************)
(* Machine-checked proofs about PaymentTransactions, for any number of     *)
(* payments, workers, sessions, callbacks and connections: what FOR UPDATE *)
(* read is current when it is written, the statements implement the steps  *)
(* of PaymentService, a callback that was acknowledged is settled, and     *)
(* nobody waits in a circle for rows, events and connections.              *)
(***************************************************************************)
EXTENDS PaymentTransactions, PaymentServiceProofs, FiniteSetTheorems

Holding == {"insert", "write", "duplicate"}

(* A client on its own: it is in a transaction as long as trx says so, and *)
(* only a callback inserts.                                                *)
ClientInv(c) ==
  /\ trx[c].pc # "none" => Transacts(c)
  /\ Transacts(c) => Paying(c) \in Payments
  /\ trx[c].pc \in {"insert", "duplicate"} => IsCallback(c)
  /\ IsCallback(c) => tasks[c].event \in Events /\ tasks[c].status \in {SUCCESS, FAILED}

ClientsInv ==
  /\ trx \in [Clients -> Trx]
  /\ tasks \in [Sessions -> Task]
  /\ acked \subseteq Events
  /\ \A c \in Clients : ClientInv(c)

(* Two clients hold the same lock only if it is a gap.                     *)
LocksExclude ==
  \A c, d \in Clients : \A p \in Payments :
    c # d /\ Holds(c, p) /\ Holds(d, p) => ~Exists(p)

(* An event that is inserted and not committed is nobody else's; one that  *)
(* was refused has been committed.                                         *)
EventsReserved ==
  /\ \A s \in Sessions : \A e \in Events :
       Inserted(s, e) => /\ events[e].status = "none"
                         /\ \A z \in Sessions : Inserted(z, e) => z = s
  /\ \A s \in Sessions :
       trx[s].pc = "duplicate" => events[tasks[s].event].status # "none"
  /\ \A e \in acked : events[e].status # "none"

LockInv == LocksExclude /\ ReadIsCurrent

TransactionsInv == BudgetInv /\ ClientsInv /\ LockInv /\ EventsReserved

(* The other clients do not move. *)
OthersStay(c) ==
  \A d \in Clients \ {c} : /\ trx'[d] = trx[d]
                           /\ d \in Workers => calls'[d] = calls[d]
                           /\ d \in Sessions => tasks'[d] = tasks[d]

(* Who is left alone keeps its payment, its locks and its invariant.       *)
LEMMA OthersHold ==
  ASSUME NEW c \in Clients, OthersStay(c)
  PROVE  /\ \A d \in Clients \ {c} :
              /\ Paying(d)' = Paying(d)
              /\ Transacts(d)' = Transacts(d)
              /\ ClientInv(d) => ClientInv(d)'
              /\ \A p : Holds(d, p)' = Holds(d, p)
         /\ \A s \in Sessions \ {c} : \A e : Inserted(s, e)' = Inserted(s, e)
BY PaymentTransactionsAssumption
DEF OthersStay, Paying, Transacts, Holds, Inserted, IsCallback, Clients, ClientInv

----------------------------------------------------------------------------
(* Locks.                                                                  *)

(* A client that holds no lock after its step has changed no row but the   *)
(* one it held alone.                                                      *)
LEMMA LocksReleased ==
  ASSUME LockInv, NEW c \in Clients, OthersStay(c), trx'[c].pc \notin Holding,
         \A p \in Payments : payments'[p] # payments[p] => Holds(c, p) /\ Exists(p)
  PROVE  LockInv'
<1>1. \A d \in Clients : \A p \in Payments : Holds(d, p)' => d # c /\ Holds(d, p)
  BY OthersHold DEF Holds, Holding
<1>2. \A d \in Clients : \A p \in Payments : Holds(d, p)' => payments'[p] = payments[p]
  BY <1>1 DEF LockInv, LocksExclude
<1>3. QED
  BY <1>1, <1>2, OthersHold
  DEF LockInv, LocksExclude, ReadIsCurrent, Exists, OthersStay

(* A client that takes a lock, on a row that nobody has locked or on a gap.*)
LEMMA LockTaken ==
  ASSUME ClientsInv, LockInv, NEW c \in Clients, findByIdForUpdate(c)
  PROVE  LockInv'
<1>1. OthersStay(c) /\ Paying(c)' = Paying(c)
  BY DEF findByIdForUpdate, Reads, ClientsInv, OthersStay, Paying, engine
<1>2. trx'[c].row = payments[Paying(c)]
  BY DEF findByIdForUpdate, Reads, ClientsInv
<1>3. \A d \in Clients \ {c} : \A p \in Payments :
        Holds(d, p)' /\ p = Paying(c) => ~Exists(p)
  BY <1>1, OthersHold DEF findByIdForUpdate, RowFree
<1>4. \A p \in Payments : Holds(c, p)' => p = Paying(c)
  BY <1>1 DEF Holds
<1>5. UNCHANGED payments
  BY DEF findByIdForUpdate, engine
<1>6. LocksExclude'
  BY <1>1, <1>3, <1>4, <1>5, OthersHold DEF LockInv, LocksExclude, Exists
<1>7. ReadIsCurrent'
  BY <1>1, <1>2, <1>4, <1>5, OthersHold DEF LockInv, ReadIsCurrent, OthersStay
<1>8. QED
  BY <1>6, <1>7 DEF LockInv

(* A client that keeps the lock it has.                                    *)
LEMMA LockKept ==
  ASSUME ClientsInv, LockInv, NEW s \in Sessions, insertUnique(s)
  PROVE  LockInv'
<1>1. s \in Clients
  BY DEF Clients
<1>2. OthersStay(s) /\ Paying(s)' = Paying(s) /\ UNCHANGED payments
  BY <1>1 DEF insertUnique, ClientsInv, OthersStay, Paying, engine
<1>3. trx'[s].row = trx[s].row
  BY <1>1 DEF insertUnique, ClientsInv, Trx
<1>4. \A p \in Payments : Holds(s, p)' => Holds(s, p)
  BY <1>2 DEF insertUnique, Holds
<1>5. \A d \in Clients : \A p \in Payments : Holds(d, p)' => Holds(d, p)
  BY <1>1, <1>2, <1>4, OthersHold
<1>6. \A d \in Clients : trx'[d].row = trx[d].row
  BY <1>1, <1>2, <1>3 DEF OthersStay
<1>7. QED
  BY <1>2, <1>5, <1>6 DEF LockInv, LocksExclude, ReadIsCurrent, Exists

(* A row that appears: nobody has seen that it was missing.                *)
LEMMA LocksCreated ==
  ASSUME LockInv, NEW p \in Payments, CreateWaits(p), payments \in [Payments -> Row]
  PROVE  LockInv'
<1>1. \A d \in Clients : \A q \in Payments : Holds(d, q)' = Holds(d, q)
  BY DEF CreateWaits, Create, Holds, Paying
<1>2. \A q \in Payments \ {p} : payments'[q] = payments[q]
  BY DEF CreateWaits, Create
<1>3. \A d \in Clients : trx'[d] = trx[d] /\ ~Holds(d, p)
  BY DEF CreateWaits
<1>4. QED
  BY <1>1, <1>2, <1>3 DEF LockInv, LocksExclude, ReadIsCurrent, Exists

----------------------------------------------------------------------------
(* Every statement is a step of the engine, or none.                       *)

(* A worker that writes holds the row it read, and it is current.          *)
LEMMA WorkerRead ==
  ASSUME TransactionsInv, NEW w \in Workers, WorkerWrites(w)
  PROVE  /\ calls[w].payment \in Payments
         /\ Holds(w, calls[w].payment)
         /\ trx[w].row = payments[calls[w].payment]
         /\ calls[w].pc \in {"claim", "settle"}
<1>1. w \in Clients /\ Paying(w) = calls[w].payment /\ Transacts(w)
  BY DEF Clients, Paying, WorkerWrites
<1>2. calls[w].payment \in Payments
  BY <1>1 DEF TransactionsInv, ClientsInv, ClientInv
<1>3. Holds(w, calls[w].payment)
  BY <1>1 DEF Holds, WorkerWrites
<1>4. QED
  BY <1>1, <1>2, <1>3 DEF TransactionsInv, LockInv, ReadIsCurrent, Transacts

(* A commit of _claim or _settle is the engine's step.                     *)
LEMMA WorkerCommitImplements ==
  ASSUME TransactionsInv, NEW w \in Workers,
         ClaimCommits(w) \/ SettleCommits(w) \/ WorkerUnseen(w)
  PROVE  WorkerStep(w)
<1>1. PICK p \in Payments : p = calls[w].payment /\ trx[w].row = payments[p]
  BY WorkerRead DEF ClaimCommits, SettleCommits, WorkerUnseen
<1>2. /\ payments' = [payments EXCEPT ![p] = WorkerRow(w)]
      /\ UNCHANGED <<events, charged, confirmed>>
      /\ calls[w].pc \in {"claim", "settle"}
  BY <1>1, WorkerRead DEF ClaimCommits, SettleCommits, WorkerUnseen, WorkerWrites
<1>3. WorkerRow(w) = payments[p] => UNCHANGED payments
  BY <1>2 DEF TransactionsInv, BudgetInv, TypeOK
<1>4. CASE ClaimCommits(w) /\ Claimable(payments[p])
  BY <1>1, <1>2, <1>4 DEF ClaimCommits, WorkerRow, ClaimWon, WorkerStep
<1>5. CASE ClaimCommits(w) /\ ~Claimable(payments[p])
  BY <1>1, <1>2, <1>3, <1>5 DEF ClaimCommits, WorkerRow, ClaimRefused, WorkerStep
<1>6. CASE SettleCommits(w) /\ Settleable(payments[p])
  BY <1>1, <1>2, <1>6 DEF SettleCommits, WorkerRow, Settle, WorkerStep
<1>7. CASE SettleCommits(w) /\ ~Settleable(payments[p])
  <2>1. Goto(w, "returned") /\ UNCHANGED payments
    BY <1>1, <1>3, <1>7 DEF SettleCommits, WorkerRow
  <2>2. QED
    BY <1>1, <1>2, <1>7, <2>1 DEF SettleCommits, SettleNoop, WorkerStep
<1>8. CASE WorkerUnseen(w) /\ UNCHANGED payments
  BY <1>2, <1>8 DEF WorkerUnseen, Rollback, WorkerStep
<1>9. CASE WorkerUnseen(w) /\ ~UNCHANGED payments
  <2>1. \/ calls[w].pc = "claim" /\ Claimable(payments[p]) /\ WorkerRow(w) = ClaimedRow(payments[p])
        \/ /\ calls[w].pc = "settle" /\ Settleable(payments[p])
           /\ WorkerRow(w) = SettledRow(payments[p], calls[w].outcome)
    BY <1>1, <1>2, <1>3, <1>9 DEF WorkerRow
  <2>2. QED
    BY <1>1, <1>2, <1>9, <2>1 DEF WorkerUnseen, AckLost, WorkerStep
<1>10. QED
  BY <1>4, <1>5, <1>6, <1>7, <1>8, <1>9

(* A session that writes holds the row it read, and it is current.         *)
LEMMA SessionRead ==
  ASSUME TransactionsInv, NEW s \in Sessions, trx[s].pc \in {"write", "duplicate"}
  PROVE  /\ s \in Clients
         /\ tasks[s].payment \in Payments
         /\ Holds(s, tasks[s].payment)
         /\ trx[s].row = payments[tasks[s].payment]
         /\ IsCallback(s) => tasks[s].event \in Events /\ tasks[s].status \in {SUCCESS, FAILED}
         /\ tasks[s].kind \in {"webhook", "fail", "recover"}
<1>1. s \in Clients /\ s \notin Workers
  BY PaymentTransactionsAssumption DEF Clients
<1>2. Paying(s) = tasks[s].payment /\ Transacts(s)
  BY <1>1 DEF Paying, TransactionsInv, ClientsInv, ClientInv
<1>3. tasks[s].payment \in Payments
  BY <1>1, <1>2 DEF TransactionsInv, ClientsInv, ClientInv
<1>4. Holds(s, tasks[s].payment)
  BY <1>2 DEF Holds
<1>5. tasks[s].kind \in {"webhook", "fail", "recover"}
  BY <1>1, <1>2 DEF Transacts, TransactionsInv, ClientsInv, Task
<1>6. QED
  BY <1>1, <1>3, <1>4, <1>5
  DEF TransactionsInv, LockInv, ReadIsCurrent, ClientsInv, ClientInv

(* What a callback that has inserted its event writes.                     *)
LEMMA InsertedImplements ==
  ASSUME TransactionsInv, NEW s \in Sessions, SessionWrites(s),
         IsCallback(s), trx[s].pc = "write", Exists(tasks[s].payment)
  PROVE  /\ \E p \in Payments : PaymentStep(p)
         /\ events'[tasks[s].event].status # "none"
<1>1. PICK p \in Payments, e \in Events, target \in {SUCCESS, FAILED} :
        /\ p = tasks[s].payment /\ e = tasks[s].event /\ target = tasks[s].status
        /\ trx[s].row = payments[p]
  BY SessionRead
<1>2. \A f \in Events : Inserted(s, f) <=> f = e
  BY <1>1 DEF Inserted, Exists
<1>3. events[e].status = "none"
  BY <1>1, <1>2 DEF TransactionsInv, EventsReserved
<1>4. events' = [events EXCEPT ![e] = SessionEvent(s)]
  BY <1>2 DEF SessionWrites, TransactionsInv, BudgetInv, TypeOK
<1>5. PICK hasRef \in BOOLEAN : payments' = [payments EXCEPT ![p] = SessionRow(s, hasRef)]
  BY <1>1 DEF SessionWrites
<1>6. tasks[s].kind = "webhook" /\ UNCHANGED <<calls, charged, confirmed>>
  BY DEF IsCallback, SessionWrites
<1>7. CASE canTransition(payments[p].status, target)
  <2>1. SessionRow(s, hasRef) = WebhookRow(payments[p], target, hasRef)
    BY <1>1, <1>6, <1>7 DEF SessionRow
  <2>2. SessionEvent(s) = [payment |-> p, reported |-> target, status |-> "processed"]
    BY <1>1, <1>7 DEF SessionEvent
  <2>3. WebhookApplied(e, p, target, hasRef)
    BY <1>1, <1>3, <1>4, <1>5, <1>6, <1>7, <2>1, <2>2 DEF WebhookApplied
  <2>4. QED
    BY <1>1, <1>4, <2>2, <2>3 DEF PaymentStep, handleWebhook, TransactionsInv, BudgetInv, TypeOK
<1>8. CASE ~canTransition(payments[p].status, target)
  <2>1. SessionRow(s, hasRef) = payments[p]
    BY <1>1, <1>6, <1>8 DEF SessionRow
  <2>2. SessionEvent(s) = [payment |-> p, reported |-> target, status |-> "ignored"]
    BY <1>1, <1>8 DEF SessionEvent
  <2>3. UNCHANGED payments
    BY <1>5, <2>1 DEF TransactionsInv, BudgetInv, TypeOK
  <2>4. WebhookIgnored(e, p, target)
    BY <1>1, <1>3, <1>4, <1>6, <1>8, <2>2, <2>3 DEF WebhookIgnored
  <2>5. QED
    BY <1>1, <1>4, <2>2, <2>4 DEF PaymentStep, handleWebhook, TransactionsInv, BudgetInv, TypeOK
<1>9. QED
  BY <1>7, <1>8

(* So is a commit of a session.                                            *)
LEMMA SessionCommitImplements ==
  ASSUME TransactionsInv, NEW s \in Sessions, SessionWrites(s)
  PROVE  (\E p \in Payments : PaymentStep(p)) \/ UNCHANGED vars
<1>1. PICK p \in Payments : p = tasks[s].payment /\ trx[s].row = payments[p]
  BY SessionRead DEF SessionWrites
<1>2. PICK hasRef \in BOOLEAN : payments' = [payments EXCEPT ![p] = SessionRow(s, hasRef)]
  BY <1>1 DEF SessionWrites
<1>3. UNCHANGED <<calls, charged, confirmed>>
  BY DEF SessionWrites
<1>4. CASE IsCallback(s) /\ trx[s].pc = "write" /\ Exists(p)
  BY <1>1, <1>4, InsertedImplements
<1>5. CASE ~(IsCallback(s) /\ trx[s].pc = "write" /\ Exists(p))
  <2>1. UNCHANGED events
    BY <1>1, <1>5 DEF SessionWrites, Inserted, Exists, TransactionsInv, BudgetInv, TypeOK
  <2>2. CASE tasks[s].kind = "fail" /\ canTransition(payments[p].status, FAILED)
    BY <1>1, <1>2, <1>3, <2>1, <2>2 DEF SessionRow, FailPayment, PaymentStep
  <2>3. CASE tasks[s].kind = "recover" /\ payments[p].status = PROCESSING
    BY <1>1, <1>2, <1>3, <2>1, <2>3 DEF SessionRow, RecoverStale, PaymentStep
  <2>4. CASE ~(\/ tasks[s].kind = "fail" /\ canTransition(payments[p].status, FAILED)
               \/ tasks[s].kind = "recover" /\ payments[p].status = PROCESSING)
    <3>1. ~Exists(p) => ~canTransition(payments[p].status, tasks[s].status)
      BY DEF Exists, canTransition, transitions, ePaymentStatus, NONE, PENDING, PROCESSING,
             SUCCESS, FAILED
    <3>2. SessionRow(s, hasRef) = payments[p]
      BY <1>1, <1>5, <2>4, <3>1 DEF SessionRow, IsCallback
    <3>3. QED
      BY <1>2, <1>3, <2>1, <3>2 DEF vars, TransactionsInv, BudgetInv, TypeOK
  <2>5. QED
    BY <2>2, <2>3, <2>4
<1>6. QED
  BY <1>4, <1>5

(* Every statement is a step of the engine, or invisible to it.            *)
LEMMA StatementImplements ==
  ASSUME TransactionsInv, [TransactionsNext]_database
  PROVE  [Next]_vars
<1>1. CASE UNCHANGED vars
  BY <1>1
<1>2. ASSUME NEW c \in Clients, Connect(c) \/ findByIdForUpdate(c)
      PROVE  UNCHANGED vars
  BY <1>2 DEF Connect, findByIdForUpdate, engine, vars
<1>3. ASSUME NEW w \in Workers, WorkerMoves(w)
      PROVE  Next
  <2>1. WorkerStep(w)
    BY <1>3, WorkerCommitImplements DEF WorkerMoves, WorkerFails, WorkerDies, WorkerStep
  <2>2. QED
    BY <2>1 DEF Next
<1>4. ASSUME NEW s \in Sessions, SessionMoves(s)
      PROVE  (\E p \in Payments : PaymentStep(p)) \/ UNCHANGED vars
  <2>1. CASE SessionCommits(s) \/ SessionUnseen(s)
    BY <2>1, SessionCommitImplements DEF SessionCommits, SessionUnseen
  <2>2. CASE ~(SessionCommits(s) \/ SessionUnseen(s))
    BY <1>4, <2>2 DEF SessionMoves, Deliver, CallFailPayment, CallRecover, Called,
                      insertUnique, SessionFails, engine, vars
  <2>3. QED
    BY <2>1, <2>2
<1>5. ASSUME NEW p \in Payments, CreateWaits(p)
      PROVE  PaymentStep(p)
  BY <1>5 DEF CreateWaits, PaymentStep
<1>6. QED
  BY <1>1, <1>2, <1>3, <1>4, <1>5 DEF TransactionsNext, Next, database, vars

----------------------------------------------------------------------------
(* The invariant.                                                          *)

(* One client moves, alone.                                                *)
LEMMA ClientMoves ==
  ASSUME ClientsInv, NEW c \in Clients, OthersStay(c), ClientInv(c)',
         trx' \in [Clients -> Trx], tasks' \in [Sessions -> Task], acked' \subseteq Events
  PROVE  ClientsInv'
BY OthersHold DEF ClientsInv

(* One client moves that has nothing inserted after it: it may have        *)
(* committed what it had, and have been told so.                           *)
LEMMA ReservedKept ==
  ASSUME EventsReserved, NEW c \in Clients, OthersStay(c),
         \A e \in Events : /\ events'[e] # events[e] => c \in Sessions /\ Inserted(c, e)
                           /\ events[e].status # "none" => events'[e].status # "none",
         \A s \in Sessions : trx[s].pc = "duplicate" => tasks[s].event \in Events,
         c \in Sessions => /\ trx'[c].pc # "duplicate"
                           /\ \A e \in Events : ~Inserted(c, e)',
         \A e \in acked' : events'[e].status # "none"
  PROVE  EventsReserved'
<1>1. \A s \in Sessions : \A e \in Events :
        Inserted(s, e)' => s # c /\ Inserted(s, e) /\ events'[e] = events[e]
  BY OthersHold DEF EventsReserved
<1>2. \A s \in Sessions :
        trx'[s].pc = "duplicate" => /\ trx[s].pc = "duplicate"
                                    /\ tasks'[s].event = tasks[s].event
  BY DEF OthersStay, Clients
<1>3. QED
  BY <1>1, <1>2 DEF EventsReserved

(* A duplicate is of an event there is.                                    *)
LEMMA DuplicateTypes ==
  ASSUME ClientsInv
  PROVE  \A s \in Sessions : trx[s].pc = "duplicate" => tasks[s].event \in Events
BY DEF ClientsInv, ClientInv, Clients

(* A client that is not in a transaction after its step, or has not read   *)
(* yet, without a word to the events table.                                *)
LEMMA QuietClient ==
  ASSUME TransactionsInv, NEW c \in Clients, OthersStay(c), ClientInv(c)',
         trx' \in [Clients -> Trx], tasks' \in [Sessions -> Task],
         trx'[c].pc \in {"none", "lock"}, UNCHANGED <<events, acked>>,
         \A p \in Payments : payments'[p] # payments[p] => Holds(c, p) /\ Exists(p)
  PROVE  (ClientsInv /\ LockInv /\ EventsReserved)'
<1>1. ClientsInv'
  BY ClientMoves DEF TransactionsInv, ClientsInv
<1>2. LockInv'
  BY LocksReleased DEF TransactionsInv, Holding
<1>3. EventsReserved'
  BY ReservedKept, DuplicateTypes DEF TransactionsInv, Inserted, EventsReserved
<1>4. QED
  BY <1>1, <1>2, <1>3

(* A connection is no lock yet.                                            *)
LEMMA ConnectKeeps ==
  ASSUME TransactionsInv, NEW c \in Clients, Connect(c)
  PROVE  (ClientsInv /\ LockInv /\ EventsReserved)'
<1> USE DEF TransactionsInv, ClientsInv, Connect, engine
<1>1. trx' \in [Clients -> Trx] /\ trx'[c].pc = "lock" /\ OthersStay(c)
  BY DEF Trx, OthersStay
<1>2. ClientInv(c)'
  BY <1>1 DEF ClientInv, Transacts, Paying, IsCallback
<1>3. QED
  BY <1>1, <1>2, QuietClient

(* SELECT ... FOR UPDATE takes the lock that nobody holds.                 *)
LEMMA ReadKeeps ==
  ASSUME TransactionsInv, NEW c \in Clients, findByIdForUpdate(c)
  PROVE  (ClientsInv /\ LockInv /\ EventsReserved)'
<1> USE DEF TransactionsInv, findByIdForUpdate, engine
<1>1. Paying(c) \in Payments /\ ClientInv(c)
  BY DEF ClientsInv, ClientInv
<1>2. payments[Paying(c)] \in Row
  BY <1>1 DEF BudgetInv, TypeOK
<1>3. trx' \in [Clients -> Trx] /\ OthersStay(c)
  BY <1>2 DEF Reads, ClientsInv, Trx, OthersStay
<1>4. /\ trx'[c].pc = IF IsCallback(c) /\ Exists(Paying(c)) THEN "insert" ELSE "write"
      /\ trx'[c].row = payments[Paying(c)]
  BY DEF Reads, ClientsInv
<1>5. ClientInv(c)'
  BY <1>1, <1>4 DEF ClientInv, Transacts, Paying, IsCallback
<1>6. ClientsInv'
  BY <1>3, <1>5, ClientMoves DEF ClientsInv
<1>7. LockInv'
  BY LockTaken
<1>8. ASSUME NEW e \in Events, c \in Sessions
      PROVE  ~Inserted(c, e)' /\ trx'[c].pc # "duplicate"
  BY <1>4, <1>8, PaymentTransactionsAssumption
  DEF Inserted, IsCallback, Exists, Paying
<1>9. c \in Sessions => trx'[c].pc # "duplicate"
  BY <1>4
<1>10. EventsReserved'
  BY <1>3, <1>8, <1>9, ReservedKept, DuplicateTypes DEF EventsReserved
<1>11. QED
  BY <1>6, <1>7, <1>10

(* An event is reserved by one session at a time.                          *)
LEMMA InsertKeeps ==
  ASSUME TransactionsInv, NEW s \in Sessions, insertUnique(s)
  PROVE  (ClientsInv /\ LockInv /\ EventsReserved)'
<1> USE DEF TransactionsInv, insertUnique, engine
<1>1. s \in Clients /\ s \notin Workers
  BY PaymentTransactionsAssumption DEF Clients
<1>2. ClientInv(s) /\ IsCallback(s)
  BY <1>1 DEF ClientsInv, ClientInv
<1>3. PICK e \in Events : e = tasks[s].event
  BY <1>2 DEF ClientInv
<1>4. /\ trx'[s].pc = IF events[e].status = "none" THEN "write" ELSE "duplicate"
      /\ trx'[s].row = trx[s].row
      /\ trx' \in [Clients -> Trx] /\ OthersStay(s)
  BY <1>1, <1>3 DEF ClientsInv, Trx, OthersStay
<1>5. ClientInv(s)'
  BY <1>1, <1>2, <1>4 DEF ClientInv, Transacts, Paying, IsCallback
<1>6. ClientsInv'
  BY <1>1, <1>4, <1>5, ClientMoves DEF ClientsInv
<1>7. LockInv'
  BY LockKept
<1>8. \A z \in Sessions \ {s} : \A f \in Events : Inserted(z, f)' <=> Inserted(z, f)
  BY <1>1, <1>4, OthersHold
<1>9. \A f \in Events : Inserted(s, f)' => f = e /\ events[e].status = "none"
  BY <1>3, <1>4 DEF Inserted, IsCallback
<1>10. \A z \in Sessions : ~Inserted(z, e)
  BY <1>3 DEF EventFree
<1>11. ASSUME NEW z \in Sessions, trx'[z].pc = "duplicate"
       PROVE  events'[tasks'[z].event].status # "none"
  BY <1>1, <1>3, <1>4, <1>11 DEF EventsReserved, OthersStay, Clients
<1>12. EventsReserved'
  BY <1>8, <1>9, <1>10, <1>11 DEF EventsReserved
<1>13. QED
  BY <1>6, <1>7, <1>12

(* A worker writes no event, and is in no transaction after its step.      *)
LEMMA WorkerKeeps ==
  ASSUME TransactionsInv, BudgetInv', NEW w \in Workers, WorkerMoves(w)
  PROVE  (ClientsInv /\ LockInv /\ EventsReserved)'
<1> USE DEF TransactionsInv
<1>1. w \in Clients /\ w \notin Sessions /\ ClientInv(w)
  BY PaymentTransactionsAssumption DEF Clients, ClientsInv
<1>2. UNCHANGED <<events, tasks, acked>>
  BY DEF WorkerMoves, StartProcess, BeginCharge, EndCharge, Finish, ClaimCommits,
         SettleCommits, WorkerUnseen, WorkerWrites, WorkerFails, WorkerDies, Rollback, Crash
<1>3. ASSUME Ends(w)
      PROVE  trx' \in [Clients -> Trx] /\ trx'[w].pc = "none"
  <2>1. NoTrx \in Trx /\ NoTrx.pc = "none"
    BY RowTypes DEF NoTrx, Trx, NoRow, Row
  <2>2. QED
    BY <1>1, <1>3, <2>1 DEF Ends, ClientsInv
<1>4. trx' \in [Clients -> Trx] /\ trx'[w].pc = "none"
  <2>1. CASE ~(\/ ClaimCommits(w) \/ SettleCommits(w) \/ WorkerUnseen(w)
               \/ WorkerFails(w) \/ WorkerDies(w))
    <3>1. UNCHANGED trx /\ ~Transacts(w)
      BY <2>1 DEF WorkerMoves, StartProcess, BeginCharge, EndCharge, Finish, Transacts
    <3>2. QED
      BY <1>1, <3>1 DEF ClientInv, ClientsInv
  <2>2. QED
    BY <1>3, <2>1 DEF ClaimCommits, SettleCommits, WorkerUnseen, WorkerWrites,
                      WorkerFails, WorkerDies
<1>5. OthersStay(w)
  <2>1. \A d \in Workers \ {w} : calls'[d] = calls[d]
    BY DEF WorkerMoves, StartProcess, BeginCharge, EndCharge, Finish, ClaimCommits, Goto,
           SettleCommits, WorkerUnseen, WorkerWrites, WorkerFails, WorkerDies, Rollback,
           Crash, BudgetInv, TypeOK
  <2>2. \A d \in Clients \ {w} : trx'[d] = trx[d]
    BY DEF WorkerMoves, ClaimCommits, SettleCommits, WorkerUnseen, WorkerWrites,
           WorkerFails, WorkerDies, Ends, ClientsInv
  <2>3. QED
    BY <1>2, <2>1, <2>2 DEF OthersStay
<1>6. ClientInv(w)'
  BY <1>1, <1>4 DEF ClientInv, Transacts, Paying, IsCallback, BudgetInv, CallsInv
<1>7. ASSUME NEW p \in Payments, payments'[p] # payments[p]
      PROVE  Holds(w, p) /\ Exists(p)
  <2>1. WorkerWrites(w)
    BY <1>7 DEF WorkerMoves, StartProcess, BeginCharge, EndCharge, Finish, ClaimCommits,
                SettleCommits, WorkerUnseen, WorkerFails, WorkerDies, Rollback, Crash
  <2>2. p = calls[w].payment
    BY <1>7, <2>1 DEF WorkerWrites, BudgetInv, TypeOK
  <2>3. WorkerRow(w) # payments[p]
    BY <1>7, <2>1, <2>2 DEF WorkerWrites, BudgetInv, TypeOK
  <2>4. Claimable(payments[p]) \/ Settleable(payments[p])
    BY <2>1, <2>2, <2>3, WorkerRead DEF WorkerRow
  <2>5. QED
    BY <2>1, <2>2, <2>4, WorkerRead
    DEF Claimable, Settleable, Exists, NONE, PENDING, PROCESSING
<1>8. tasks' \in [Sessions -> Task]
  BY <1>2 DEF ClientsInv
<1>9. QED
  BY <1>1, <1>2, <1>4, <1>5, <1>6, <1>7, <1>8, QuietClient

(* A session that is called holds nothing.                                 *)
LEMMA CalledKeeps ==
  ASSUME TransactionsInv, NEW s \in Sessions, NEW task \in Task, Called(s, task),
         task.payment \in Payments,
         task.kind = "webhook" => task.event \in Events /\ task.status \in {SUCCESS, FAILED}
  PROVE  (ClientsInv /\ LockInv /\ EventsReserved)'
<1> USE DEF TransactionsInv, Called, engine
<1>1. s \in Clients /\ s \notin Workers /\ ClientInv(s)
  BY PaymentTransactionsAssumption DEF Clients, ClientsInv
<1>2. trx[s].pc = "none"
  BY <1>1 DEF ClientInv, Transacts
<1>3. tasks' \in [Sessions -> Task] /\ tasks'[s] = task /\ OthersStay(s)
  BY DEF ClientsInv, OthersStay
<1>4. ClientInv(s)'
  BY <1>1, <1>2, <1>3 DEF ClientInv, Transacts, Paying, IsCallback
<1>5. UNCHANGED <<payments, events, acked, trx>>
  OBVIOUS
<1>6. QED
  BY <1>1, <1>2, <1>3, <1>4, <1>5, QuietClient DEF ClientsInv

(* So it is for each of its callers.                                       *)
LEMMA NewTaskKeeps ==
  ASSUME TransactionsInv, NEW s \in Sessions, NEW p \in Payments,
         \/ \E e \in Events, status \in ePaymentStatus : Deliver(s, e, p, status)
         \/ CallFailPayment(s, p)
         \/ CallRecover(s, p)
  PROVE  (ClientsInv /\ LockInv /\ EventsReserved)'
<1>1. ASSUME NEW e \in Events, NEW status \in ePaymentStatus, Deliver(s, e, p, status)
      PROVE  (ClientsInv /\ LockInv /\ EventsReserved)'
  <2> DEFINE task == [kind |-> "webhook", payment |-> p, event |-> e, status |-> status]
  <2>1. task \in Task /\ task.payment \in Payments /\ task.event \in Events
        /\ task.status \in {SUCCESS, FAILED} /\ Called(s, task)
    BY <1>1 DEF Deliver, WellFormed, Task
  <2> HIDE DEF task
  <2>2. QED
    BY <2>1, CalledKeeps
<1>2. ASSUME NEW kind \in {"fail", "recover"},
             Called(s, [NoTask EXCEPT !.kind = kind, !.payment = p])
      PROVE  (ClientsInv /\ LockInv /\ EventsReserved)'
  <2> DEFINE task == [NoTask EXCEPT !.kind = kind, !.payment = p]
  <2>1. task \in Task /\ task.payment \in Payments /\ task.kind # "webhook"
    BY DEF NoTask, Task
  <2>2. Called(s, task)
    BY <1>2
  <2> HIDE DEF task
  <2>3. QED
    BY <2>1, <2>2, CalledKeeps
<1>3. QED
  BY <1>1, <1>2 DEF CallFailPayment, CallRecover

(* The end of a session's transaction: what it has inserted is committed   *)
(* or gone, and only what is committed is acknowledged.                    *)
LEMMA AnswerKeeps ==
  ASSUME TransactionsInv, NEW s \in Sessions, NEW threw \in BOOLEAN, Answers(s, threw),
         threw => UNCHANGED engine \/ SessionWrites(s),
         ~threw => SessionWrites(s)
  PROVE  (ClientsInv /\ LockInv /\ EventsReserved)'
<1> USE DEF TransactionsInv
<1>1. s \in Clients /\ s \notin Workers /\ ClientInv(s)
  BY PaymentTransactionsAssumption DEF Clients, ClientsInv
<1>2. /\ trx' \in [Clients -> Trx] /\ trx'[s] = NoTrx
      /\ tasks' \in [Sessions -> Task] /\ tasks'[s] = NoTask
      /\ \A d \in Clients \ {s} : trx'[d] = trx[d]
      /\ \A d \in Sessions \ {s} : tasks'[d] = tasks[d]
  BY <1>1, RowTypes DEF Answers, Ends, ClientsInv, Trx, NoTrx, NoRow, Row, Task, NoTask
<1>3. UNCHANGED calls
  BY DEF engine, SessionWrites
<1>4. OthersStay(s) /\ ClientInv(s)'
  BY <1>1, <1>2, <1>3
  DEF OthersStay, ClientInv, Transacts, Paying, IsCallback, NoTrx, NoTask, Clients
<1>5. ASSUME NEW p \in Payments, payments'[p] # payments[p]
      PROVE  Holds(s, p) /\ Exists(p)
  <2>1. SessionWrites(s)
    BY <1>5 DEF engine
  <2>2. PICK hasRef \in BOOLEAN :
          payments' = [payments EXCEPT ![tasks[s].payment] = SessionRow(s, hasRef)]
    BY <2>1 DEF SessionWrites
  <2>3. p = tasks[s].payment /\ SessionRow(s, hasRef) # payments[p]
    BY <1>5, <2>2 DEF BudgetInv, TypeOK
  <2>4. payments[p].status # NONE
    BY <2>1, <2>3, SessionRead
    DEF SessionWrites, SessionRow, canTransition, transitions, ePaymentStatus,
        NONE, PENDING, PROCESSING, SUCCESS, FAILED
  <2>5. QED
    BY <2>1, <2>3, <2>4, SessionRead DEF SessionWrites, Exists
<1>6. LockInv'
  BY <1>1, <1>2, <1>4, <1>5, LocksReleased DEF NoTrx, Holding
<1>7. ASSUME NEW e \in Events
      PROVE  /\ events'[e] # events[e] => Inserted(s, e)
             /\ events[e].status # "none" => events'[e].status # "none"
  BY DEF engine, SessionWrites, SessionEvent, EventsReserved, BudgetInv, TypeOK
<1>8. \A e \in Events : ~Inserted(s, e)'
  BY <1>2 DEF Inserted, NoTrx
<1>9. acked' \subseteq Events /\ \A e \in acked' : events'[e].status # "none"
  <2>1. CASE UNCHANGED acked
    BY <1>7, <2>1 DEF EventsReserved, ClientsInv
  <2>2. CASE /\ IsCallback(s) /\ statusCode(threw) = 200
             /\ Exists(tasks[s].payment)
             /\ acked' = acked \cup {tasks[s].event}
    <3>1. SessionWrites(s) /\ tasks[s].event \in Events
      BY <1>1, <2>2 DEF statusCode, ClientInv
    <3>2. events'[tasks[s].event].status # "none"
      <4>1. CASE trx[s].pc = "write"
        BY <2>2, <3>1, <4>1, InsertedImplements
      <4>2. CASE trx[s].pc = "duplicate"
        BY <1>7, <3>1, <4>2 DEF EventsReserved
      <4>3. QED
        BY <3>1, <4>1, <4>2 DEF SessionWrites
    <3>3. QED
      BY <1>7, <2>2, <3>1, <3>2 DEF EventsReserved, ClientsInv
  <2>3. QED
    BY <2>1, <2>2 DEF Answers
<1>10. ClientsInv'
  BY <1>1, <1>2, <1>4, <1>9, ClientMoves
<1>11. EventsReserved'
  BY <1>1, <1>2, <1>4, <1>7, <1>8, <1>9, ReservedKept, DuplicateTypes DEF NoTrx
<1>12. QED
  BY <1>6, <1>10, <1>11

(* A new row was not locked by anybody.                                    *)
LEMMA CreateKeeps ==
  ASSUME TransactionsInv, NEW p \in Payments, CreateWaits(p)
  PROVE  (ClientsInv /\ LockInv /\ EventsReserved)'
<1> USE DEF TransactionsInv
<1>1. UNCHANGED <<calls, events, trx, tasks, acked>>
  BY DEF CreateWaits, Create
<1>2. ClientsInv' /\ EventsReserved'
  BY <1>1 DEF ClientsInv, ClientInv, Transacts, Paying, IsCallback, EventsReserved, Inserted
<1>3. LockInv'
  BY LocksCreated DEF BudgetInv, TypeOK
<1>4. QED
  BY <1>2, <1>3

(* Every step preserves the invariant.                                     *)
LEMMA TransactionsStep ==
  ASSUME TransactionsInv, [TransactionsNext]_database
  PROVE  TransactionsInv'
<1>1. BudgetInv'
  BY StatementImplements, BudgetStep DEF TransactionsInv
<1>2. SUFFICES (ClientsInv /\ LockInv /\ EventsReserved)'
  BY <1>1 DEF TransactionsInv
<1>3. CASE UNCHANGED database
  <2>1. UNCHANGED <<payments, events, calls, trx, tasks, acked>>
    BY <1>3 DEF database
  <2>2. QED
    BY <2>1 DEF TransactionsInv, ClientsInv, ClientInv, Transacts, Paying, IsCallback,
                LockInv, LocksExclude, ReadIsCurrent, Holds, Exists, EventsReserved, Inserted
<1>4. ASSUME NEW s \in Sessions, SessionMoves(s)
      PROVE  (ClientsInv /\ LockInv /\ EventsReserved)'
  <2>1. CASE SessionCommits(s)
    BY <2>1, AnswerKeeps DEF SessionCommits
  <2>2. CASE SessionUnseen(s)
    BY <2>2, AnswerKeeps DEF SessionUnseen
  <2>3. CASE SessionFails(s)
    BY <2>3, AnswerKeeps DEF SessionFails
  <2>4. QED
    BY <1>4, <2>1, <2>2, <2>3, NewTaskKeeps, InsertKeeps DEF SessionMoves
<1>5. QED
  BY <1>1, <1>3, <1>4, ConnectKeeps, ReadKeeps, WorkerKeeps, CreateKeeps
  DEF TransactionsNext

(* It holds before the first statement.                                    *)
LEMMA TransactionsStart ==
  ASSUME TransactionsInit
  PROVE  TransactionsInv
<1>1. BudgetInv
  BY BudgetInit DEF TransactionsInit
<1>2. ClientsInv
  BY RowTypes, PaymentTransactionsAssumption
  DEF TransactionsInit, Init, ClientsInv, ClientInv, NoTrx, Trx, NoTask, Task, Transacts,
      Paying, IsCallback, Idle, NoRow, Row, Clients
<1>3. LockInv /\ EventsReserved
  BY DEF TransactionsInit, LockInv, LocksExclude, ReadIsCurrent, Holds, EventsReserved,
         Inserted, NoTrx, Clients
<1>4. QED
  BY <1>1, <1>2, <1>3 DEF TransactionsInv

(* Locks exclude, reads are current and inserted events are reserved,      *)
(* together with the engine's budget.                                      *)
LEMMA TransactionsInvariant == TransactionsSpec => []TransactionsInv
<1>1. TransactionsInit => TransactionsInv
  BY TransactionsStart
<1>2. TransactionsInv /\ [TransactionsNext]_database => TransactionsInv'
  BY TransactionsStep
<1>3. QED
  BY <1>1, <1>2, PTL DEF TransactionsSpec

(* Every variable keeps its type, statement by statement.                  *)
THEOREM TransactionsTypeCorrect == TransactionsSpec => []TransactionsTypeOK
<1>1. TransactionsInv => TransactionsTypeOK
  BY DEF TransactionsInv, BudgetInv, ClientsInv, TransactionsTypeOK
<1>2. QED
  BY <1>1, TransactionsInvariant, PTL

(* What FOR UPDATE has read is still so when it is written, for any number *)
(* of clients that claim, settle, recover, fail and report a payment.      *)
THEOREM ReadsAreCurrent == TransactionsSpec => []ReadIsCurrent
<1>1. TransactionsInv => ReadIsCurrent
  BY DEF TransactionsInv, LockInv
<1>2. QED
  BY <1>1, TransactionsInvariant, PTL

(* The transactions, statement by statement, do what the engine does in a  *)
(* step each: its atomicity is the row lock's doing.                       *)
THEOREM TransactionsImplementService == TransactionsSpec => ImplementsService
<1>1. TransactionsInit => Init
  BY DEF TransactionsInit
<1>2. TransactionsInv /\ [TransactionsNext]_database => [Next]_vars
  BY StatementImplements
<1>3. QED
  BY <1>1, <1>2, TransactionsInvariant, PTL DEF TransactionsSpec, Spec, ImplementsService

(* A 200 is final: what was acknowledged is recorded and its payment is    *)
(* settled, whatever transactions rolled back, broke or were repeated.     *)
THEOREM AcksAreFinal == TransactionsSpec => []AckedIsSettled
<1>1. TransactionsInv /\ SettlementInv => AckedIsSettled
  <2> SUFFICES ASSUME TransactionsInv, SettlementInv, NEW e \in acked
               PROVE  /\ events[e].status # "none"
                      /\ isTerminal(payments[events[e].payment].status)
    BY DEF AckedIsSettled
  <2>1. e \in Events /\ events[e].status \in {"processed", "ignored"} /\ events[e] \in Event
    BY DEF TransactionsInv, ClientsInv, EventsReserved, BudgetInv, TypeOK, Event
  <2>2. CASE events[e].status = "ignored"
    BY <2>1, <2>2 DEF SettlementInv, IgnoredEventIsMoot
  <2>3. CASE events[e].status = "processed"
    <3>1. events[e].reported \in {SUCCESS, FAILED}
      BY <2>1, <2>3 DEF SettlementInv, EventsAreComplete
    <3>2. payments[events[e].payment].status = events[e].reported
      BY <2>1, <2>3 DEF SettlementInv, ProcessedEventDecides
    <3>3. QED
      BY <2>3, <3>1, <3>2 DEF isTerminal, transitions, ePaymentStatus, PENDING, PROCESSING,
                              SUCCESS, FAILED
  <2>4. QED
    BY <2>1, <2>2, <2>3
<1>2. TransactionsSpec => []SettlementInv
  BY TransactionsImplementService, SettlementInvariant, PTL DEF ImplementsService
<1>3. QED
  BY <1>1, <1>2, TransactionsInvariant, PTL

----------------------------------------------------------------------------
(* Waiting.                                                                *)

(* Whoever has locked a row goes on, or waits for a session that has only  *)
(* its COMMIT left: locks are taken in the order row, event.               *)
LEMMA HolderGoesOn ==
  ASSUME ClientsInv, NEW c \in Clients, trx[c].pc \in Holding
  PROVE  \E d \in Clients : trx[d].pc \in Holding /\ CanGoOn(d)
<1>1. CASE trx[c].pc # "insert" \/ EventFree(c)
  BY <1>1 DEF CanGoOn, Holding
<1>2. CASE ~EventFree(c)
  <2>1. PICK d \in Sessions : Inserted(d, tasks[c].event)
    BY <1>2 DEF EventFree
  <2>2. d \in Clients /\ trx[d].pc = "write"
    BY <2>1 DEF Inserted, Clients
  <2>3. QED
    BY <2>2 DEF CanGoOn, Holding
<1>3. QED
  BY <1>1, <1>2

(* Whoever is connected goes on, or waits for one that holds the row.      *)
LEMMA ConnectedGoesOn ==
  ASSUME ClientsInv, NEW c \in Clients, trx[c].pc # "none"
  PROVE  \E d \in Clients : trx[d].pc # "none" /\ CanGoOn(d)
<1>1. trx[c].pc \in {"lock", "insert", "write", "duplicate"}
  BY DEF ClientsInv, Trx
<1>2. CASE trx[c].pc = "lock" /\ RowFree(c)
  BY <1>2 DEF CanGoOn
<1>3. CASE trx[c].pc = "lock" /\ ~RowFree(c)
  BY <1>3, HolderGoesOn DEF RowFree, Holds, Holding
<1>4. CASE trx[c].pc # "lock"
  BY <1>1, <1>4, HolderGoesOn DEF Holding
<1>5. QED
  BY <1>2, <1>3, <1>4

(* A pool that has no connection left has given them to somebody.          *)
LEMMA PoolInUse ==
  ASSUME ~ConnectionFree
  PROVE  \E d \in Clients : trx[d].pc # "none"
<1>1. SUFFICES ASSUME {d \in Clients : trx[d].pc # "none"} = {}
               PROVE  ConnectionFree
  OBVIOUS
<1>2. QED
  BY <1>1, FS_EmptySet, PaymentTransactionsAssumption DEF ConnectionFree

(* Nobody waits in a circle for rows, events and connections, whatever the *)
(* number of clients and however small the pool: connection, row and event *)
(* are taken in this order, and whoever has all it needs can commit.       *)
THEOREM WaitsEnd == TransactionsSpec => []NoCircularWait
<1>1. ASSUME ClientsInv, NEW c \in Clients, Transacts(c), ~CanGoOn(c)
      PROVE  \E d \in Clients : d # c /\ trx[d].pc # "none" /\ CanGoOn(d)
  <2>1. CASE trx[c].pc = "none"
    BY <1>1, <2>1, PoolInUse, ConnectedGoesOn DEF CanGoOn
  <2>2. CASE trx[c].pc # "none"
    BY <1>1, <2>2, ConnectedGoesOn
  <2>3. QED
    BY <2>1, <2>2
<1>2. TransactionsInv => NoCircularWait
  BY <1>1 DEF NoCircularWait, TransactionsInv, ClientsInv, ClientInv
<1>3. QED
  BY <1>2, TransactionsInvariant, PTL

=============================================================================
