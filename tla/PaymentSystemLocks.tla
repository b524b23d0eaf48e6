------------------------- MODULE PaymentSystemLocks -------------------------
(***************************************************************************)
(* Machine-checked proofs about the locks of jobs.  A live worker holds    *)
(* the lock of the job it runs, and as long as it does not lose it         *)
(* (LocksAreKept), no other worker runs that job: one worker processes a   *)
(* payment, whatever sweeps there are and however slow the worker is.      *)
(*                                                                         *)
(* If calls also run to their end, with their transactions done            *)
(* (CallsComplete), a payment whose job is given up is nobody's; if they   *)
(* do so before STALE_PROCESSING_MS (PromptClaims), what the gateway has   *)
(* confirmed is never failed, and a PENDING payment never loses everybody  *)
(* who could settle it.                                                    *)
(***************************************************************************)
EXTENDS PaymentSystemExclusion

(* No live worker loses the lock of its job. *)
LocksAreKept == "lock_lost" \notin Faults

(* No call is cut off between its claim and the end of its job. *)
CallsComplete ==
  Faults \cap {"worker_crash", "settle_error", "ack_lost", "lock_lost"} = {}

TypedInv == SystemInv /\ JobsInv /\ UsersInv

Runs(w, p) == calls[w].pc # "idle" /\ calls[w].payment = p

(* Only an active job is locked, and a call holds the lock of its job. *)
LockInv(p) ==
  /\ jobs[p].lock # NoWorker => jobs[p].state = "active"
  /\ \A w \in Workers : Runs(w, p) => Queue!Holds(w, p)

LocksInv == \A p \in Payments : LockInv(p)

(* Types, as an invariant to build on.                                     *)
LEMMA TypedInvariant == SystemSpec => []TypedInv
<1>1. SystemInit => JobsInv /\ UsersInv
  BY PaymentSystemAssumption
  DEF SystemInit, Queue!Init, Queue!Job, Queue!NoJob, JobsInv, LiveJob, UsersInv
<1>2. SystemInv /\ JobsInv /\ UsersInv /\ [SystemNext]_system => (JobsInv /\ UsersInv)'
  BY StepKeepsJobs, StepKeepsUsers DEF SystemInv
<1>3. QED
  BY <1>1, <1>2, SystemInvariant, PTL DEF SystemSpec, TypedInv

(* The queue writes one job at a time.                                     *)
LEMMA SetsOneJob ==
  ASSUME JobsInv, NEW p \in Payments, NEW job, Queue!Set(p, job)
  PROVE  jobs'[p] = job /\ \A q \in Payments \ {p} : jobs'[q] = jobs[q]
BY DEF JobsInv, Queue!Set

(* A call that runs a job is one of a payment.                             *)
LEMMA RunsPayment ==
  ASSUME SystemInv, NEW w \in Workers, calls[w].pc # "idle"
  PROVE  calls[w].payment \in Payments
BY DEF SystemInv, BudgetInv, CallsInv

(* One job, one call.                                                      *)
LEMMA OneRuns ==
  ASSUME NEW p, LockInv(p), NEW v \in Workers, NEW w \in Workers,
         Runs(v, p), Runs(w, p)
  PROVE  v = w
BY DEF LockInv, Queue!Holds

(* A job that nobody touches and nobody else begins to run stays locked.   *)
LEMMA QuietLock ==
  ASSUME NEW p, LockInv(p), jobs'[p] = jobs[p],
         \A w \in Workers : Runs(w, p)' => Runs(w, p)
  PROVE  LockInv(p)'
BY DEF LockInv, Queue!Holds

(* What a step of process() or a fault of it does to the calls: w's call   *)
(* stays with its payment or ends, the others are as before.               *)
LEMMA CallsStay ==
  ASSUME SystemInv, NEW w \in Workers,
         \/ RunCall(w) \/ CallFault(w) \/ Finish(w)
  PROVE  \A v \in Workers, p \in Payments : Runs(v, p)' => Runs(v, p)
<1>1. CASE ClaimWon(w)
  BY <1>1 DEF ClaimWon, Runs, SystemInv, BudgetInv, TypeOK, Call
<1>2. ASSUME NEW outcome \in Outcome, EndCharge(w, outcome)
      PROVE  \A v \in Workers, p \in Payments : Runs(v, p)' => Runs(v, p)
  BY <1>2 DEF EndCharge, Runs, SystemInv, BudgetInv, TypeOK, Call
<1>3. ASSUME NEW pc, Goto(w, pc), calls[w].pc # "idle"
      PROVE  \A v \in Workers, p \in Payments : Runs(v, p)' => Runs(v, p)
  BY <1>3 DEF Goto, Runs, SystemInv, BudgetInv, TypeOK, Call
<1>4. CASE Finish(w) \/ Crash(w)
  BY <1>4 DEF Finish, Crash, Idle, Runs, SystemInv, BudgetInv, TypeOK
<1>5. CASE \/ ClaimRefused(w) \/ BeginCharge(w) \/ Settle(w) \/ SettleNoop(w)
           \/ Rollback(w) \/ AckLost(w)
  <2>1. calls[w].pc # "idle" /\ \E pc : Goto(w, pc)
    BY <1>5 DEF ClaimRefused, BeginCharge, Settle, SettleNoop, Rollback, AckLost
  <2>2. QED
    BY <1>3, <2>1
<1>6. QED
  BY <1>1, <1>2, <1>4, <1>5 DEF RunCall, CallFault

(* Every step of a worker keeps the locks.                                 *)
LEMMA WorkerKeepsLocks ==
  ASSUME TypedInv, LocksInv, NEW w \in Workers,
         \/ \E p \in Payments : TakeJob(w, p)
         \/ RunCall(w) \/ JobCompleted(w) \/ JobFailed(w) \/ CallFault(w)
  PROVE  LocksInv'
<1>1. CASE RunCall(w) \/ CallFault(w)
  <2>1. jobs' = jobs
    BY <1>1 DEF RunCall, CallFault
  <2>2. QED
    BY <1>1, <2>1, CallsStay, QuietLock DEF TypedInv, LocksInv
<1>2. ASSUME NEW p \in Payments, TakeJob(w, p)
      PROVE  LocksInv'
  <2> DEFINE taken == [jobs[p] EXCEPT !.state = "active", !.lock = w]
  <2>1. taken.state = "active" /\ taken.lock = w
    BY DEF TypedInv, JobsInv, Queue!Job
  <2>2. jobs'[p] = taken /\ \A q \in Payments \ {p} : jobs'[q] = jobs[q]
    BY <1>2, SetsOneJob DEF TakeJob, Queue!Take, TypedInv
  <2> HIDE DEF taken
  <2>3. /\ \A v \in Workers \ {w} : calls'[v] = calls[v]
        /\ calls'[w].payment = p
    BY <1>2 DEF TakeJob, StartProcess, Idle, TypedInv, SystemInv, BudgetInv, TypeOK
  <2>4. \A v \in Workers : ~Runs(v, p)
    BY <1>2 DEF TakeJob, Queue!Take, LocksInv, LockInv, Queue!Holds
  <2>5. LockInv(p)'
    BY <2>1, <2>2, <2>3, <2>4 DEF LockInv, Queue!Holds, Runs
  <2>6. ASSUME NEW q \in Payments \ {p}
        PROVE  LockInv(q)'
    <3>1. \A v \in Workers : Runs(v, q)' => Runs(v, q)
      BY <2>3 DEF Runs
    <3>2. QED
      BY <2>2, <3>1, QuietLock DEF LocksInv
  <2>7. QED
    BY <2>5, <2>6 DEF LocksInv
<1>3. CASE JobCompleted(w) \/ JobFailed(w)
  <2>p. PICK p \in Payments : p = calls[w].payment
    BY <1>3, RunsPayment DEF JobCompleted, JobFailed, TypedInv
  <2>1. Finish(w) /\ calls[w].pc # "idle"
    BY <1>3 DEF JobCompleted, JobFailed
  <2>2. \A v \in Workers, q \in Payments : Runs(v, q)' => Runs(v, q)
    BY <2>1, CallsStay DEF TypedInv
  <2>3. \A v \in Workers : ~Runs(v, p)'
    <3>1. ~Runs(w, p)'
      BY <2>1 DEF Finish, Idle, Runs, TypedInv, SystemInv, BudgetInv, TypeOK
    <3>2. \A v \in Workers : Runs(v, p) => v = w
      BY <2>p, <2>1, OneRuns DEF LocksInv, Runs
    <3>3. QED
      BY <2>2, <3>1, <3>2
  <2>4. (\E job : Queue!Set(p, job) /\ job.lock = NoWorker) \/ UNCHANGED jobs
    <3>1. Queue!NoJob.lock = NoWorker /\ Queue!Failure(jobs[p]).lock = NoWorker
      BY DEF Queue!NoJob, Queue!Failure, TypedInv, JobsInv, Queue!Job
    <3>2. QED
      BY <1>3, <2>p, <3>1 DEF JobCompleted, JobFailed, Queue!Complete, Queue!Fail
  <2>5. /\ jobs'[p].lock # NoWorker => jobs'[p].state = "active"
        /\ \A q \in Payments \ {p} : jobs'[q] = jobs[q]
    BY <2>4, SetsOneJob DEF TypedInv, LocksInv, LockInv
  <2>6. LockInv(p)'
    BY <2>3, <2>5 DEF LockInv
  <2>7. QED
    BY <2>2, <2>5, <2>6, QuietLock DEF LocksInv
<1>4. QED
  BY <1>1, <1>2, <1>3

(* A job that nobody runs may be replaced by one that is not locked.       *)
LEMMA SetKeepsLocks ==
  ASSUME TypedInv, LocksInv, UNCHANGED calls, NEW p \in Payments, NEW job,
         Queue!Set(p, job), job.lock = NoWorker,
         \A w \in Workers : ~Runs(w, p)
  PROVE  LocksInv'
<1>1. \A q \in Payments, w \in Workers : Runs(w, q)' <=> Runs(w, q)
  BY DEF Runs
<1>2. LockInv(p)'
  BY <1>1, SetsOneJob DEF TypedInv, LockInv
<1>3. QED
  BY <1>1, <1>2, SetsOneJob, QuietLock DEF TypedInv, LocksInv

(* Every other step keeps the locks.                                       *)
LEMMA StepKeepsLocks ==
  ASSUME LocksAreKept, TypedInv, LocksInv, [SystemNext]_system
  PROVE  LocksInv'
<1>1. CASE UNCHANGED <<calls, jobs>>
  BY <1>1, QuietLock DEF LocksInv, Runs
<1>2. ASSUME NEW p \in Payments, EnqueueNew(p) \/ LockExpires(p) \/ JobTimer(p)
      PROVE  LocksInv'
  <2>1. UNCHANGED calls
    BY <1>2 DEF EnqueueNew, LockExpires, JobTimer, service
  <2>2. ASSUME NEW w \in Workers, Runs(w, p), ~UNCHANGED jobs
        PROVE  FALSE
    <3>1. jobs[p].state = "active" /\ jobs[p].lock = w /\ w # NoWorker
      BY <2>2, PaymentSystemAssumption DEF LocksInv, LockInv, Queue!Holds
    <3>2. QED
      BY <1>2, <2>2, <3>1
      DEF EnqueueNew, Queue!enqueuePayment, LockExpires, Fault, LocksAreKept, Runs,
          JobTimer, Queue!Promote, Queue!Stalled, Queue!StalledOut, Queue!Orphaned
  <2>3. \/ UNCHANGED jobs
        \/ \E job : Queue!Set(p, job) /\ job.lock = NoWorker
    <3>1. /\ [Queue!NoJob EXCEPT !.state = "waiting"].lock = NoWorker
          /\ [jobs[p] EXCEPT !.lock = NoWorker].lock = NoWorker
      BY DEF Queue!NoJob, TypedInv, JobsInv, Queue!Job
    <3>2. jobs[p].state # "active" \/ Queue!Orphaned(p) =>
            /\ [jobs[p] EXCEPT !.state = "waiting"].lock = NoWorker
            /\ [jobs[p] EXCEPT !.state = "waiting", !.stalled = @ + 1].lock = NoWorker
            /\ [jobs[p] EXCEPT !.state = "failed", !.attemptsMade = @ + 1].lock = NoWorker
      BY DEF LocksInv, LockInv, Queue!Orphaned, TypedInv, JobsInv, Queue!Job
    <3>3. CASE EnqueueNew(p)
      BY <3>1, <3>3 DEF EnqueueNew, Queue!enqueuePayment
    <3>4. CASE LockExpires(p)
      BY <3>1, <3>4 DEF LockExpires, Queue!LockExpires
    <3>5. CASE JobTimer(p)
      BY <3>2, <3>5 DEF JobTimer, Queue!Promote, Queue!Stalled, Queue!StalledOut
    <3>6. QED
      BY <1>2, <3>3, <3>4, <3>5
  <2>4. QED
    BY <1>1, <2>1, <2>2, <2>3, SetKeepsLocks
<1>3. ASSUME NEW p \in Payments,
             \/ Initiate(p) \/ RequestLost(p) \/ OnFailed(p) \/ OnFailedLost(p)
             \/ ClaimAges(p) \/ Callback(p)
      PROVE  LocksInv'
  <2>1. UNCHANGED <<calls, jobs>>
    BY <1>3 DEF Initiate, Create, RequestLost, OnFailed, FailPayment, OnFailedLost,
                ClaimAges, BecomeStale, Callback, handleWebhook, WebhookApplied,
                WebhookIgnored, service
  <2>2. QED
    BY <1>1, <2>1
<1>4. ASSUME NEW s \in Sweepers, SweepStep(s) \/ SweepCrashes(s)
      PROVE  LocksInv'
  <2>1. UNCHANGED calls
    BY <1>4 DEF SweepStep, SweepBegins, SweepSkips, SweepRecovers, SweepRemoves,
                SweepEnqueues, SweepCrashes, RecoverStale, service
  <2>2. CASE SweepRemoves(s) \/ SweepEnqueues(s)
    <3> DEFINE p == sweeps[s].row
               new == [Queue!NoJob EXCEPT !.state = "waiting"]
    <3>1. Queue!NoJob.lock = NoWorker /\ new.lock = NoWorker
      BY DEF Queue!NoJob
    <3>2. \/ UNCHANGED jobs
          \/ /\ \E job : Queue!Set(p, job) /\ job.lock = NoWorker
             /\ jobs[p].lock = NoWorker \/ jobs[p].state # "active"
      BY <2>2, <3>1
      DEF SweepRemoves, SweepEnqueues, Queue!remove, Queue!enqueuePayment
    <3>3. p \notin Payments => UNCHANGED jobs
      BY <3>2 DEF Queue!Set, TypedInv, JobsInv
    <3> HIDE DEF p
    <3>4. CASE p \in Payments /\ ~UNCHANGED jobs
      <4>1. \A w \in Workers : ~Runs(w, p)
        BY <3>2, <3>4, PaymentSystemAssumption DEF LocksInv, LockInv, Queue!Holds
      <4>2. QED
        BY <2>1, <3>2, <3>4, <4>1, SetKeepsLocks
    <3>5. QED
      BY <1>1, <2>1, <3>3, <3>4
  <2>3. CASE \/ SweepBegins(s) \/ SweepCrashes(s)
             \/ \E p \in Payments : SweepSkips(s, p) \/ SweepRecovers(s, p)
    BY <1>1, <2>1, <2>3 DEF SweepBegins, SweepCrashes, SweepSkips, SweepRecovers
  <2>4. QED
    BY <1>4, <2>2, <2>3 DEF SweepStep
<1>5. CASE Signal \/ WorkerClosed \/ Exit \/ Start
  <2>1. UNCHANGED <<calls, jobs>>
    BY <1>5, ExitIsQuiet DEF Signal, WorkerClosed, Exit, Start, service, TypedInv
  <2>2. QED
    BY <1>1, <2>1
<1>6. QED
  BY <1>1, <1>2, <1>3, <1>4, <1>5, WorkerKeepsLocks DEF SystemNext, system

(* Jobs are locked by the calls that run them.                             *)
LEMMA LocksInvariant == ASSUME LocksAreKept PROVE SystemSpec => []LocksInv
<1>1. SystemInit => LocksInv
  BY DEF SystemInit, Init, Queue!Init, Queue!NoJob, LocksInv, LockInv, Runs, Idle
<1>2. TypedInv /\ LocksInv /\ [SystemNext]_system => LocksInv'
  BY StepKeepsLocks
<1>3. QED
  BY <1>1, <1>2, TypedInvariant, PTL DEF SystemSpec

(* Exactly one worker processes a payment as long as no live worker loses  *)
(* the lock of its job: then it does not matter how many processes sweep,  *)
(* nor whether a claim outlasts STALE_PROCESSING_MS and is released under  *)
(* its worker, nor which calls die or fail.                                *)
THEOREM LocksExcludeWorkers ==
  ASSUME LocksAreKept
  PROVE  SystemSpec => []ExclusiveProcessing
<1>1. TypedInv /\ LocksInv => ExclusiveProcessing
  <2> SUFFICES ASSUME TypedInv, LocksInv, NEW v \in Workers, NEW w \in Workers,
                      InFlight(v), InFlight(w), calls[v].payment = calls[w].payment
               PROVE  v = w
    BY DEF ExclusiveProcessing
  <2>1. calls[w].payment \in Payments /\ calls[v].pc # "idle" /\ calls[w].pc # "idle"
    BY RunsPayment DEF TypedInv, InFlight
  <2>2. QED
    BY <2>1, OneRuns DEF LocksInv, Runs
<1>2. QED
  BY <1>1, LocksInvariant, TypedInvariant, PTL

----------------------------------------------------------------------------
(* Steps are about one payment.                                            *)

(* A sweep has released p and not yet enqueued it. *)
Releases(s, p) == sweeps[s].pc \in {"remove", "enqueue"} /\ sweeps[s].row = p

(* All that is said of p below is as before, or less. *)
Same(p) ==
  /\ UNCHANGED <<payments[p], jobs[p], requests[p]>>
  /\ p \in failing' <=> p \in failing
  /\ p \in confirmed' => p \in confirmed
  /\ \A w \in Workers : /\ Runs(w, p)' <=> Runs(w, p)
                        /\ Runs(w, p) => calls'[w] = calls[w]
  /\ \A s \in Sweepers : Releases(s, p)' => Releases(s, p)

OnlyTouches(p) == \A q \in Payments \ {p} : Same(q)

(* A step that writes p's row, p's job, p's request and p's mark, and      *)
(* leaves calls, sweeps and confirmations alone.                           *)
LEMMA TouchesPayment ==
  ASSUME TypedInv, NEW p \in Payments,
         UNCHANGED <<calls, sweeps, confirmed>>,
         UNCHANGED payments \/ \E row : payments' = [payments EXCEPT ![p] = row],
         UNCHANGED jobs \/ \E job : Queue!Set(p, job),
         UNCHANGED requests \/ \E r : requests' = [requests EXCEPT ![p] = r],
         UNCHANGED failing \/ failing' = failing \ {p} \/ failing' = failing \cup {p}
  PROVE  OnlyTouches(p)
<1> SUFFICES ASSUME NEW q \in Payments \ {p}
             PROVE  Same(q)
  BY DEF OnlyTouches
<1>1. payments'[q] = payments[q] /\ requests'[q] = requests[q]
  BY DEF TypedInv, SystemInv, BudgetInv, TypeOK, UsersInv
<1>2. jobs'[q] = jobs[q]
  BY SetsOneJob DEF TypedInv
<1>3. QED
  BY <1>1, <1>2 DEF Same, Runs, Releases

(* The steps of requests, handlers, timers and callbacks.                  *)
LEMMA PaymentStepTouches ==
  ASSUME TypedInv, NEW p \in Payments,
         \/ Initiate(p) \/ EnqueueNew(p) \/ RequestLost(p) \/ OnFailed(p)
         \/ OnFailedLost(p) \/ LockExpires(p) \/ JobTimer(p) \/ ClaimAges(p)
         \/ Callback(p)
  PROVE  OnlyTouches(p)
<1>1. CASE Initiate(p) \/ ClaimAges(p)
  <2>1. \E row : payments' = [payments EXCEPT ![p] = row]
    BY <1>1 DEF Initiate, Create, ClaimAges, BecomeStale
  <2>2. /\ UNCHANGED <<calls, sweeps, confirmed, jobs, failing>>
        /\ UNCHANGED requests \/ \E r : requests' = [requests EXCEPT ![p] = r]
    BY <1>1 DEF Initiate, Create, ClaimAges, BecomeStale
  <2>3. QED
    BY <2>1, <2>2, TouchesPayment
<1>2. CASE EnqueueNew(p) \/ RequestLost(p) \/ OnFailedLost(p)
  BY <1>2, TouchesPayment
  DEF EnqueueNew, RequestLost, OnFailedLost, Queue!enqueuePayment, service
<1>3. CASE OnFailed(p)
  <2>1. UNCHANGED payments \/ \E row : payments' = [payments EXCEPT ![p] = row]
    BY <1>3 DEF OnFailed, FailPayment, service
  <2>2. UNCHANGED <<calls, sweeps, confirmed, jobs, requests>> /\ failing' = failing \ {p}
    BY <1>3 DEF OnFailed, FailPayment, service
  <2>3. QED
    BY <2>1, <2>2, TouchesPayment
<1>4. CASE LockExpires(p) \/ JobTimer(p)
  <2>1. \E job : Queue!Set(p, job)
    BY <1>4 DEF LockExpires, Queue!LockExpires, JobTimer, Queue!Promote,
                Queue!Stalled, Queue!StalledOut
  <2>2. UNCHANGED <<payments, calls, sweeps, confirmed, requests>>
    BY <1>4 DEF LockExpires, JobTimer, service
  <2>3. UNCHANGED failing \/ failing' = failing \cup {p}
    BY <1>4 DEF LockExpires, JobTimer
  <2>4. QED
    BY <2>1, <2>2, <2>3, TouchesPayment
<1>5. CASE Callback(p)
  <2>1. UNCHANGED payments \/ \E row : payments' = [payments EXCEPT ![p] = row]
    BY <1>5 DEF Callback, handleWebhook, WebhookApplied, WebhookIgnored
  <2>2. UNCHANGED <<calls, sweeps, confirmed, jobs, requests, failing>>
    BY <1>5 DEF Callback, handleWebhook, WebhookApplied, WebhookIgnored
  <2>3. QED
    BY <2>1, <2>2, TouchesPayment
<1>6. QED
  BY <1>1, <1>2, <1>3, <1>4, <1>5

(* The steps of a call, which are about the payment it is for.             *)
LEMMA CallTouches ==
  ASSUME TypedInv, NEW w \in Workers, NEW p \in Payments, NEW call,
         calls' = [calls EXCEPT ![w] = call],
         calls[w] = Idle \/ calls[w].payment = p,
         call = Idle \/ call.payment = p,
         UNCHANGED <<sweeps, requests>>,
         UNCHANGED payments \/ \E row : payments' = [payments EXCEPT ![p] = row],
         UNCHANGED jobs \/ \E job : Queue!Set(p, job),
         UNCHANGED failing \/ failing' = failing \cup {p},
         UNCHANGED confirmed \/ confirmed' = confirmed \cup {p}
  PROVE  OnlyTouches(p)
<1> SUFFICES ASSUME NEW q \in Payments \ {p}
             PROVE  Same(q)
  BY DEF OnlyTouches
<1>1. payments'[q] = payments[q]
  BY DEF TypedInv, SystemInv, BudgetInv, TypeOK
<1>2. jobs'[q] = jobs[q]
  BY SetsOneJob DEF TypedInv
<1>3. calls'[w] = call /\ \A v \in Workers \ {w} : calls'[v] = calls[v]
  BY DEF TypedInv, SystemInv, BudgetInv, TypeOK
<1>4. ~Runs(w, q) /\ ~Runs(w, q)'
  BY <1>3 DEF Runs, Idle
<1>5. QED
  BY <1>1, <1>2, <1>3, <1>4 DEF Same, Runs, Releases

(* What the call of w becomes: idle, or another call for its payment.      *)
LEMMA WorkerStepTouches ==
  ASSUME TypedInv, NEW w \in Workers, NEW p \in Payments, p = calls[w].payment,
         \/ RunCall(w) \/ JobCompleted(w) \/ JobFailed(w) \/ CallFault(w)
  PROVE  OnlyTouches(p)
<1>1. \E call : calls' = [calls EXCEPT ![w] = call] /\ (call = Idle \/ call.payment = p)
  <2>1. CASE \/ ClaimRefused(w) \/ BeginCharge(w) \/ Settle(w) \/ SettleNoop(w)
             \/ Rollback(w) \/ AckLost(w)
    <3>1. PICK pc : Goto(w, pc)
      BY <2>1 DEF ClaimRefused, BeginCharge, Settle, SettleNoop, Rollback, AckLost
    <3> DEFINE call == [calls[w] EXCEPT !.pc = pc]
    <3>2. call.payment = p
      BY DEF TypedInv, SystemInv, BudgetInv, TypeOK, Call
    <3>3. calls' = [calls EXCEPT ![w] = call]
      BY <3>1 DEF Goto
    <3>4. QED
      BY <3>2, <3>3
  <2>2. CASE ClaimWon(w)
    <3> DEFINE call == [calls[w] EXCEPT !.pc = "charge",
                          !.attempt = payments[calls[w].payment].attempts + 1]
    <3>1. call.payment = p
      BY DEF TypedInv, SystemInv, BudgetInv, TypeOK, Call
    <3>2. calls' = [calls EXCEPT ![w] = call]
      BY <2>2 DEF ClaimWon
    <3>3. QED
      BY <3>1, <3>2
  <2>3. ASSUME NEW outcome \in Outcome, EndCharge(w, outcome)
        PROVE  <1>1
    <3> DEFINE call == [calls[w] EXCEPT !.pc = "settle", !.outcome = outcome]
    <3>1. call.payment = p
      BY DEF TypedInv, SystemInv, BudgetInv, TypeOK, Call
    <3>2. calls' = [calls EXCEPT ![w] = call]
      BY <2>3 DEF EndCharge
    <3>3. QED
      BY <3>1, <3>2
  <2>4. CASE Finish(w) \/ Crash(w)
    BY <2>4 DEF Finish, Crash
  <2>5. QED
    BY <2>1, <2>2, <2>3, <2>4 DEF RunCall, JobCompleted, JobFailed, CallFault
<1>2. UNCHANGED payments \/ \E row : payments' = [payments EXCEPT ![p] = row]
  BY DEF RunCall, CallFault, JobCompleted, JobFailed, ClaimWon, ClaimRefused, BeginCharge,
         EndCharge, Settle, SettleNoop, Finish, Rollback, AckLost, Crash
<1>3. UNCHANGED confirmed \/ confirmed' = confirmed \cup {p}
  BY DEF RunCall, CallFault, JobCompleted, JobFailed, ClaimWon, ClaimRefused, BeginCharge,
         EndCharge, Settle, SettleNoop, Finish, Rollback, AckLost, Crash
<1>4. UNCHANGED jobs \/ \E job : Queue!Set(p, job)
  BY DEF RunCall, CallFault, JobCompleted, JobFailed, Queue!Complete, Queue!Fail
<1>5. /\ UNCHANGED <<sweeps, requests>>
      /\ UNCHANGED failing \/ failing' = failing \cup {p}
  BY DEF RunCall, CallFault, JobCompleted, JobFailed
<1>6. QED
  BY <1>1, <1>2, <1>3, <1>4, <1>5, CallTouches

(* The steps of a sweep that has p in hand.                                *)
LEMMA SweepTouches ==
  ASSUME TypedInv, NEW s \in Sweepers, NEW p \in Payments,
         UNCHANGED <<calls, requests, failing, confirmed>>,
         \A q \in Payments \ {p}, z \in Sweepers : Releases(z, q)' => Releases(z, q),
         UNCHANGED payments \/ \E row : payments' = [payments EXCEPT ![p] = row],
         UNCHANGED jobs \/ \E job : Queue!Set(p, job)
  PROVE  OnlyTouches(p)
<1> SUFFICES ASSUME NEW q \in Payments \ {p}
             PROVE  Same(q)
  BY DEF OnlyTouches
<1>1. payments'[q] = payments[q]
  BY DEF TypedInv, SystemInv, BudgetInv, TypeOK
<1>2. jobs'[q] = jobs[q]
  BY SetsOneJob DEF TypedInv
<1>3. QED
  BY <1>1, <1>2 DEF Same, Runs, Releases

(* A sweep that is done with its row has none in hand.                     *)
LEMMA NextRowReleases ==
  ASSUME TypedInv, NEW s \in Sweepers, NEW p, NextRow(s, p)
  PROVE  \A z \in Sweepers, q \in Payments :
           /\ Releases(z, q)' => Releases(z, q)
           /\ ~Releases(s, q)'
<1> DEFINE rows == sweeps[s].rows \ {p}
           sweep == IF rows = {} THEN NoSweep
                      ELSE [NoSweep EXCEPT !.pc = "recover", !.rows = rows]
<1>1. sweep.pc \in {"idle", "recover"}
  BY DEF NoSweep
<1>2. sweeps'[s] = sweep /\ \A z \in Sweepers \ {s} : sweeps'[z] = sweeps[z]
  BY DEF NextRow, TypedInv, SystemInv, ProcessInv
<1> HIDE DEF sweep
<1>3. QED
  BY <1>1, <1>2 DEF Releases

----------------------------------------------------------------------------
(* Jobs, calls, handlers and sweeps of a payment.                          *)

(* While calls complete: a job is active because a call runs it, a row is  *)
(* PROCESSING because a call is at work on it, and requests, handlers and  *)
(* sweeps have their turns with a payment one after the other.             *)
CompletionInv(p) ==
  /\ jobs[p].state = "active" => \E w \in Workers : Runs(w, p)
  /\ payments[p].status = PROCESSING => Attended(p)
  /\ requests[p] # "answered" =>
       /\ jobs[p].state = "none" /\ p \notin failing
       /\ \A s \in Sweepers : ~Releases(s, p)
  /\ p \in failing => jobs[p].state = "failed"
  /\ \A s \in Sweepers : Releases(s, p) =>
       /\ payments[p].status # PROCESSING
       /\ p \notin failing
       /\ \/ jobs[p].state = "none"
          \/ \E w \in Workers : Runs(w, p) /\ (InFlight(w) \/ calls[w].pc = "returned")
       /\ \A z \in Sweepers : Releases(z, p) => z = s

CompletionsInv == \A p \in Payments : CompletionInv(p)

(* What a step does not touch stays so.                                    *)
LEMMA QuietCompletion ==
  ASSUME NEW p, CompletionInv(p), Same(p)
  PROVE  CompletionInv(p)'
<1>1. Attended(p) => Attended(p)'
  BY DEF Same, Attended, InFlight, Runs
<1>2. ASSUME NEW w \in Workers, Runs(w, p)
      PROVE  Runs(w, p)' /\ (InFlight(w)' <=> InFlight(w)) /\ calls'[w].pc = calls[w].pc
  BY <1>2 DEF Same, InFlight
<1>3. QED
  BY <1>1, <1>2 DEF Same, CompletionInv

(* A PROCESSING row has its call, and thereby its job; a job that is not   *)
(* active has nobody.                                                      *)
LEMMA ActiveMeansRun ==
  ASSUME NEW p, LockInv(p), CompletionInv(p)
  PROVE  /\ payments[p].status = PROCESSING => jobs[p].state = "active"
         /\ jobs[p].state = "active" => jobs[p].lock \in Workers
         /\ jobs[p].state # "active" => \A w \in Workers : ~Runs(w, p)
BY DEF LockInv, CompletionInv, Attended, InFlight, Runs, Queue!Holds

(* Steps of requests, handlers, timers and callbacks.                      *)
LEMMA PaymentStepCompletion ==
  ASSUME CallsComplete, TypedInv, LocksInv, CompletionsInv, NEW p \in Payments,
         \/ Initiate(p) \/ EnqueueNew(p) \/ RequestLost(p) \/ OnFailed(p)
         \/ OnFailedLost(p) \/ LockExpires(p) \/ JobTimer(p) \/ ClaimAges(p)
         \/ Callback(p)
  PROVE  CompletionInv(p)'
<1>inv. LockInv(p) /\ CompletionInv(p)
  BY DEF LocksInv, CompletionsInv
<1>calls. ASSUME UNCHANGED calls, payments'[p].attempts = payments[p].attempts
          PROVE  Attended(p)' <=> Attended(p)
  BY <1>calls DEF Attended, InFlight
<1>1. CASE Initiate(p)
  <2>1. payments'[p] = NewRow /\ requests'[p] = "enqueue" /\ UNCHANGED <<calls, jobs, sweeps, failing>>
    BY <1>1 DEF Initiate, Create, TypedInv, SystemInv, BudgetInv, TypeOK, UsersInv
  <2>2. payments'[p].status # PROCESSING /\ requests[p] # "answered"
    BY <1>1, <2>1 DEF Initiate, NewRow, NoRow, PENDING, PROCESSING
  <2>3. QED
    BY <1>inv, <2>1, <2>2 DEF CompletionInv, Releases, Runs
<1>2. CASE EnqueueNew(p)
  <2>1. UNCHANGED <<payments, calls, sweeps, failing>> /\ requests[p] = "enqueue"
    BY <1>2 DEF EnqueueNew, service
  <2>2. jobs'[p].state = "waiting" /\ requests'[p] = "answered"
    <3>1. [Queue!NoJob EXCEPT !.state = "waiting"].state = "waiting"
      BY DEF Queue!NoJob
    <3>2. QED
      BY <1>2, <1>inv, <2>1, <3>1
      DEF EnqueueNew, Queue!enqueuePayment, Queue!Set, CompletionInv, TypedInv, JobsInv, UsersInv
  <2>3. QED
    BY <1>inv, <1>calls, <2>1, <2>2 DEF CompletionInv, Releases
<1>3. CASE RequestLost(p) \/ OnFailedLost(p)
  <2>1. /\ UNCHANGED <<payments, calls, jobs, sweeps>>
        /\ p \in failing' => p \in failing
        /\ requests'[p] # "answered" => requests[p] # "answered"
    BY <1>3 DEF RequestLost, OnFailedLost, service, TypedInv, UsersInv
  <2>2. QED
    BY <1>inv, <1>calls, <2>1 DEF CompletionInv, Releases, Runs, InFlight
<1>4. CASE OnFailed(p)
  <2>1. UNCHANGED <<calls, jobs, requests, sweeps>> /\ p \notin failing'
    BY <1>4 DEF OnFailed, FailPayment, service
  <2>2. payments'[p] = payments[p] \/ payments'[p].status = FAILED
    BY <1>4 DEF OnFailed, FailPayment, service, TypedInv, SystemInv, BudgetInv, TypeOK, Row
  <2>3. QED
    BY <1>inv, <1>calls, <2>1, <2>2
    DEF CompletionInv, Releases, Runs, InFlight, FAILED, PROCESSING
<1>5. CASE LockExpires(p)
  <2>1. jobs[p].lock # NoWorker
    BY <1>5 DEF LockExpires, Queue!LockExpires
  <2>2. \E w \in Workers : jobs[p].lock = w /\ calls[w].payment = p
    BY <1>inv, <2>1 DEF CompletionInv, LockInv, Runs, Queue!Holds
  <2>3. QED
    BY <1>5, <2>2 DEF LockExpires, Fault, CallsComplete
<1>6. CASE JobTimer(p)
  <2>1. ~Queue!Orphaned(p)
    BY <1>inv, ActiveMeansRun, PaymentSystemAssumption DEF Queue!Orphaned
  <2>2. Queue!Promote(p) /\ UNCHANGED <<payments, calls, requests, sweeps, failing>>
    BY <1>6, <2>1 DEF JobTimer, Queue!Stalled, Queue!StalledOut, service
  <2>3. jobs[p].state = "delayed" /\ jobs'[p].state = "waiting"
    BY <2>2 DEF Queue!Promote, Queue!Set, TypedInv, JobsInv, Queue!Job
  <2>4. \A w \in Workers : ~Runs(w, p)
    BY <1>inv, <2>3, ActiveMeansRun
  <2>5. QED
    BY <1>inv, <1>calls, <2>2, <2>3, <2>4 DEF CompletionInv, Releases
<1>7. CASE ClaimAges(p)
  <2>1. UNCHANGED <<calls, jobs, requests, sweeps, failing>> /\ payments[p].status = PROCESSING
    BY <1>7 DEF ClaimAges, BecomeStale
  <2>2. /\ payments'[p].status = payments[p].status
        /\ payments'[p].attempts = payments[p].attempts
    BY <1>7 DEF ClaimAges, BecomeStale, TypedInv, SystemInv, BudgetInv, TypeOK, Row
  <2>3. QED
    BY <1>inv, <1>calls, <2>1, <2>2 DEF CompletionInv, Releases, Runs, InFlight
<1>8. CASE Callback(p)
  <2>1. UNCHANGED <<calls, jobs, requests, sweeps, failing>>
    BY <1>8 DEF Callback, handleWebhook, WebhookApplied, WebhookIgnored
  <2>2. payments'[p] = payments[p] \/ payments'[p].status \in {SUCCESS, FAILED}
    <3>1. ASSUME NEW target \in {SUCCESS, FAILED}, NEW hasRef
          PROVE  WebhookRow(payments[p], target, hasRef).status \in {SUCCESS, FAILED}
      BY RowStatus DEF TypedInv, SystemInv, BudgetInv, TypeOK
    <3>2. QED
      BY <1>8, <3>1 DEF Callback, handleWebhook, WebhookApplied, WebhookIgnored,
                        TypedInv, SystemInv, BudgetInv, TypeOK
  <2>3. QED
    BY <1>inv, <1>calls, <2>1, <2>2
    DEF CompletionInv, Releases, Runs, InFlight, SUCCESS, FAILED, PROCESSING
<1>9. QED
  BY <1>1, <1>2, <1>3, <1>4, <1>5, <1>6, <1>7, <1>8

(* Who runs a job has it to itself: its request was answered, nobody fails *)
(* the payment, and a sweep that released it waits.                        *)
LEMMA RunMeansAlone ==
  ASSUME NEW p, LockInv(p), CompletionInv(p), NEW w \in Workers, Runs(w, p)
  PROVE  /\ Queue!Holds(w, p) /\ requests[p] = "answered" /\ p \notin failing
         /\ \A v \in Workers : Runs(v, p) => v = w
         /\ payments[p].status = PROCESSING =>
              InFlight(w) /\ calls[w].attempt = payments[p].attempts
         /\ \A s \in Sweepers : Releases(s, p) => InFlight(w) \/ calls[w].pc = "returned"
BY OneRuns DEF LockInv, CompletionInv, Queue!Holds, Attended, InFlight, Runs

(* A call that goes on: if its row is PROCESSING then, it is at work on    *)
(* it, and a sweep that released the payment finds it still there.         *)
LEMMA MoveCompletion ==
  ASSUME NEW p, LockInv(p), CompletionInv(p), NEW w \in Workers, Runs(w, p),
         UNCHANGED <<jobs, requests, sweeps, failing>>,
         Runs(w, p)',
         payments'[p].status = PROCESSING =>
           /\ InFlight(w)' /\ calls'[w].attempt = payments'[p].attempts
           /\ \A s \in Sweepers : ~Releases(s, p),
         \A s \in Sweepers : Releases(s, p) => InFlight(w)' \/ calls'[w].pc = "returned"
  PROVE  CompletionInv(p)'
<1>1. /\ jobs[p].state = "active" /\ requests[p] = "answered" /\ p \notin failing
  BY RunMeansAlone DEF Queue!Holds
<1>2. payments'[p].status = PROCESSING => Attended(p)'
  BY DEF Attended, Runs
<1>3. \A s \in Sweepers : Releases(s, p)' <=> Releases(s, p)
  BY DEF Releases
<1>4. \A s \in Sweepers : Releases(s, p) => \A z \in Sweepers : Releases(z, p) => z = s
  BY DEF CompletionInv
<1>5. QED
  BY <1>1, <1>2, <1>3, <1>4 DEF CompletionInv

(* The steps of a call.                                                    *)
LEMMA WorkerStepCompletion ==
  ASSUME CallsComplete, TypedInv, LocksInv, CompletionsInv, NEW w \in Workers,
         NEW p \in Payments, p = calls[w].payment,
         RunCall(w) \/ JobCompleted(w) \/ JobFailed(w) \/ CallFault(w)
  PROVE  CompletionInv(p)'
<1>inv. LockInv(p) /\ CompletionInv(p)
  BY DEF LocksInv, CompletionsInv
<1>types. /\ calls \in [Workers -> Call] /\ payments \in [Payments -> Row]
          /\ jobs \in [Payments -> Queue!Job]
  BY DEF TypedInv, SystemInv, BudgetInv, TypeOK, JobsInv
<1>runs. Runs(w, p)
  BY DEF RunCall, JobCompleted, JobFailed, CallFault, ClaimWon, ClaimRefused, BeginCharge,
         EndCharge, Settle, SettleNoop, Rollback, AckLost, Crash, Runs
<1>alone. /\ Queue!Holds(w, p) /\ requests[p] = "answered" /\ p \notin failing
          /\ \A v \in Workers : Runs(v, p) => v = w
          /\ payments[p].status = PROCESSING =>
               InFlight(w) /\ calls[w].attempt = payments[p].attempts
          /\ \A s \in Sweepers : Releases(s, p) => InFlight(w) \/ calls[w].pc = "returned"
  BY <1>inv, <1>runs, RunMeansAlone
<1>busy. payments[p].status = PROCESSING => \A s \in Sweepers : ~Releases(s, p)
  BY <1>inv DEF CompletionInv
<1>1. ASSUME UNCHANGED <<payments, jobs, requests, sweeps, failing>>,
             calls[w].pc = "claim", NEW pc \in {"returned", "threw"}, Goto(w, pc)
      PROVE  CompletionInv(p)'
  <2>1. Runs(w, p)'
    BY <1>1, <1>types DEF Goto, Call, Runs
  <2>2. payments[p].status # PROCESSING /\ \A s \in Sweepers : ~Releases(s, p)
    BY <1>1, <1>alone DEF InFlight
  <2>3. QED
    BY <1>1, <1>inv, <1>runs, <2>1, <2>2, MoveCompletion
<1>2. CASE RunCall(w) /\ ClaimWon(w)
  <2>1. /\ calls'[w].pc = "charge" /\ calls'[w].payment = p
        /\ calls'[w].attempt = payments[p].attempts + 1
    BY <1>2, <1>types DEF ClaimWon, Call
  <2>2. payments'[p].attempts = payments[p].attempts + 1
    BY <1>2, <1>types DEF ClaimWon, ClaimedRow, Row
  <2>3. \A s \in Sweepers : ~Releases(s, p)
    BY <1>2, <1>alone DEF ClaimWon, InFlight
  <2>4. UNCHANGED <<jobs, requests, sweeps, failing>>
    BY <1>2 DEF RunCall
  <2>5. Runs(w, p)' /\ InFlight(w)'
    BY <2>1 DEF Runs, InFlight
  <2>6. QED
    BY <1>inv, <1>runs, <2>1, <2>2, <2>3, <2>4, <2>5, MoveCompletion
<1>3. ASSUME RunCall(w), BeginCharge(w) \/ \E outcome \in Outcome : EndCharge(w, outcome)
      PROVE  CompletionInv(p)'
  <2>1. /\ InFlight(w) /\ calls'[w].pc \in {"charging", "settle"} /\ calls'[w].payment = p
        /\ calls'[w].attempt = calls[w].attempt
    BY <1>3, <1>types DEF BeginCharge, EndCharge, Goto, Call, InFlight
  <2>2. Runs(w, p)' /\ InFlight(w)'
    BY <2>1 DEF Runs, InFlight
  <2>3. UNCHANGED <<payments, jobs, requests, sweeps, failing>>
    BY <1>3 DEF RunCall, BeginCharge, EndCharge
  <2>4. QED
    BY <1>inv, <1>runs, <1>alone, <1>busy, <2>1, <2>2, <2>3, MoveCompletion
<1>4. CASE RunCall(w) /\ Settle(w)
  <2>1. PICK pc \in {"returned", "threw"} : Goto(w, pc)
    BY <1>4 DEF Settle
  <2>2. Runs(w, p)'
    BY <2>1, <1>types DEF Goto, Call, Runs
  <2>3. \A s \in Sweepers : ~Releases(s, p)
    BY <1>4, <1>busy DEF Settle, Settleable
  <2>4. payments'[p].status # PROCESSING
    <3>1. payments'[p] = SettledRow(payments[p], calls[w].outcome)
      BY <1>4, <1>types DEF Settle
    <3>2. QED
      BY <3>1, <1>types, RowStatus DEF PENDING, PROCESSING, SUCCESS, FAILED
  <2>5. UNCHANGED <<jobs, requests, sweeps, failing>>
    BY <1>4 DEF RunCall
  <2>6. QED
    BY <1>inv, <1>runs, <2>2, <2>3, <2>4, <2>5, MoveCompletion
<1>5. CASE RunCall(w) /\ SettleNoop(w)
  <2>1. calls'[w].pc = "returned" /\ calls'[w].payment = p
    BY <1>5, <1>types DEF SettleNoop, Goto, Call
  <2>2. payments[p].status # PROCESSING /\ UNCHANGED <<payments, jobs, requests, sweeps, failing>>
    BY <1>5 DEF SettleNoop, Settleable, RunCall
  <2>3. Runs(w, p)'
    BY <2>1 DEF Runs
  <2>4. QED
    BY <1>inv, <1>runs, <2>1, <2>2, <2>3, MoveCompletion
<1>6. CASE JobCompleted(w) \/ JobFailed(w)
  <2>1. /\ UNCHANGED <<payments, requests, sweeps>>
        /\ payments[p].status # PROCESSING
    BY <1>6, <1>alone DEF JobCompleted, JobFailed, Finish, InFlight
  <2>2. \A v \in Workers : ~Runs(v, p)'
    <3>1. Finish(w)
      BY <1>6 DEF JobCompleted, JobFailed
    <3>2. ~Runs(w, p)' /\ \A v \in Workers : Runs(v, p)' => Runs(v, p)
      BY <3>1, <1>types, CallsStay DEF Finish, Idle, Runs, TypedInv
    <3>3. QED
      BY <3>2, <1>alone
  <2>3. CASE JobCompleted(w)
    <3>1. jobs'[p].state = "none" /\ p \notin failing'
      BY <2>3, <1>alone, <1>types
      DEF JobCompleted, Queue!Complete, Queue!Set, Queue!NoJob
    <3>2. QED
      BY <1>inv, <1>alone, <2>1, <2>2, <3>1 DEF CompletionInv, Releases
  <2>4. CASE JobFailed(w)
    <3>1. \A s \in Sweepers : ~Releases(s, p)
      BY <2>4, <1>alone DEF JobFailed, InFlight
    <3>2. jobs'[p] = Queue!Failure(jobs[p])
      BY <2>4, <1>alone, <1>types DEF JobFailed, Queue!Fail, Queue!Set
    <3>3. /\ Queue!Failure(jobs[p]).state \in {"delayed", "failed"}
          /\ AttemptsSpent(jobs[p]) => Queue!Failure(jobs[p]).state = "failed"
      <4>1. jobs[p] \in Queue!Job /\ jobs[p].attemptsMade \in Nat /\ JobAttempts \in Nat
        BY <1>types, PaymentSystemAssumption DEF Queue!Job
      <4>2. QED
        BY <4>1 DEF Queue!Job, Queue!Failure, AttemptsSpent
    <3>4. p \in failing' => AttemptsSpent(jobs[p])
      BY <2>4, <1>alone DEF JobFailed
    <3>5. QED
      BY <1>alone, <2>1, <2>2, <3>1, <3>2, <3>3, <3>4 DEF CompletionInv, Releases
  <2>5. QED
    BY <1>6, <2>3, <2>4
<1>7. CASE CallFault(w)
  <2>1. calls[w].pc = "claim" /\ Rollback(w) /\ UNCHANGED <<jobs, requests, sweeps, failing>>
    BY <1>7 DEF CallFault, Fault, CallsComplete
  <2>2. QED
    BY <1>1, <2>1 DEF Rollback
<1>8. CASE RunCall(w) /\ ClaimRefused(w)
  BY <1>1, <1>8 DEF RunCall, ClaimRefused
<1>9. QED
  BY <1>2, <1>3, <1>4, <1>5, <1>6, <1>7, <1>8 DEF RunCall

(* A job is taken by a call that then has it to itself.                    *)
LEMMA TakeJobCompletion ==
  ASSUME TypedInv, LocksInv, CompletionsInv, NEW w \in Workers, NEW p \in Payments,
         TakeJob(w, p)
  PROVE  OnlyTouches(p) /\ CompletionInv(p)'
<1>inv. LockInv(p) /\ CompletionInv(p)
  BY DEF LocksInv, CompletionsInv
<1>1. PICK call : /\ calls' = [calls EXCEPT ![w] = call] /\ call.payment = p
                  /\ call.pc = "claim"
  <2> DEFINE call == [Idle EXCEPT !.pc = "claim", !.payment = p]
  <2>1. call.payment = p /\ call.pc = "claim"
    BY DEF Idle
  <2>2. calls' = [calls EXCEPT ![w] = call]
    BY DEF TakeJob, StartProcess
  <2>3. QED
    BY <2>1, <2>2
<1>2. calls[w] = Idle
  BY DEF TakeJob, StartProcess, TypedInv, SystemInv, ProcessInv
<1>3. PICK job : Queue!Set(p, job) /\ job.state = "active"
  <2> DEFINE job == [jobs[p] EXCEPT !.state = "active", !.lock = w]
  <2>1. job.state = "active" /\ Queue!Set(p, job)
    BY DEF TakeJob, Queue!Take, TypedInv, JobsInv, Queue!Job
  <2>2. QED
    BY <2>1
<1>4. UNCHANGED <<payments, confirmed, sweeps, requests, failing>>
  BY DEF TakeJob, StartProcess
<1>5. OnlyTouches(p)
  BY <1>1, <1>2, <1>3, <1>4, CallTouches
<1>6. jobs[p].state = "waiting"
  BY DEF TakeJob, Queue!Take
<1>7. /\ payments[p].status # PROCESSING /\ requests[p] = "answered" /\ p \notin failing
      /\ \A s \in Sweepers : ~Releases(s, p)
  BY <1>inv, <1>6, ActiveMeansRun DEF CompletionInv
<1>8. Runs(w, p)' /\ jobs'[p].state = "active"
  BY <1>1, <1>3, SetsOneJob DEF Runs, TypedInv, SystemInv, BudgetInv, TypeOK
<1>9. QED
  BY <1>4, <1>5, <1>7, <1>8 DEF CompletionInv, Releases

(* The steps of a sweep.  What it recovers still has its worker, what it   *)
(* removes is then nobody's, what it enqueues it no longer has in hand.    *)
LEMMA SweepStepCompletion ==
  ASSUME TypedInv, LocksInv, CompletionsInv, NEW s \in Sweepers,
         SweepStep(s) \/ SweepCrashes(s)
  PROVE  CompletionsInv'
<1>quiet. ASSUME \A q \in Payments : Same(q)
          PROVE  CompletionsInv'
  BY <1>quiet, QuietCompletion DEF CompletionsInv
<1>focus. ASSUME NEW p \in Payments, OnlyTouches(p), CompletionInv(p)'
          PROVE  CompletionsInv'
  BY <1>focus, QuietCompletion DEF CompletionsInv, OnlyTouches
<1>sweeps. sweeps \in [Sweepers -> Sweep]
  BY DEF TypedInv, SystemInv, ProcessInv
<1>1. ASSUME NEW p \in Payments, SweepSkips(s, p)
      PROVE  CompletionsInv'
  <2>1. \A z \in Sweepers, q \in Payments : Releases(z, q)' => Releases(z, q)
    BY <1>1, NextRowReleases DEF SweepSkips
  <2>2. QED
    BY <1>1, <1>quiet, <2>1 DEF SweepSkips, service, Same, Runs
<1>2. CASE SweepBegins(s) \/ SweepCrashes(s)
  <2>1. \E sweep : sweeps' = [sweeps EXCEPT ![s] = sweep] /\ sweep.pc \in {"idle", "recover"}
    <3>1. NoSweep.pc = "idle" /\ [NoSweep EXCEPT !.pc = "recover", !.rows = findStale].pc = "recover"
      BY DEF NoSweep
    <3>2. QED
      BY <1>2, <3>1 DEF SweepBegins, SweepCrashes
  <2>2. \A z \in Sweepers, q \in Payments : Releases(z, q)' => Releases(z, q)
    BY <1>sweeps, <2>1 DEF Releases
  <2>3. UNCHANGED <<payments, jobs, requests, failing, confirmed, calls>>
    BY <1>2 DEF SweepBegins, SweepCrashes, service
  <2>4. QED
    BY <1>quiet, <2>2, <2>3 DEF Same, Runs
<1>3. ASSUME NEW p \in Payments, SweepRecovers(s, p)
      PROVE  CompletionsInv'
  <2>inv. LockInv(p) /\ CompletionInv(p)
    BY DEF LocksInv, CompletionsInv
  <2>1. /\ payments[p].status = PROCESSING /\ sweeps[s].pc = "recover"
        /\ payments' = [payments EXCEPT ![p] = RecoveredRow(payments[p])]
        /\ UNCHANGED <<calls, jobs, requests, failing, confirmed>>
    BY <1>3 DEF SweepRecovers, RecoverStale
  <2>2. PICK w \in Workers : Runs(w, p) /\ InFlight(w)
    BY <2>inv, <2>1 DEF CompletionInv, Attended, Runs, InFlight
  <2>3. /\ Queue!Holds(w, p) /\ requests[p] = "answered" /\ p \notin failing
    BY <2>inv, <2>2, RunMeansAlone
  <2>4. payments'[p].status # PROCESSING
    BY <2>1, RowStatus DEF TypedInv, SystemInv, BudgetInv, TypeOK, PENDING, PROCESSING, FAILED
  <2>5. \A z \in Sweepers, q \in Payments :
          Releases(z, q)' => Releases(z, q) \/ (z = s /\ q = p)
    <3>1. CASE NextRow(s, p)
      BY <3>1, NextRowReleases
    <3>2. CASE sweeps' = [sweeps EXCEPT ![s].pc = "remove", ![s].row = p]
      BY <1>sweeps, <3>2 DEF Releases, Sweep
    <3>3. QED
      BY <1>3, <3>1, <3>2 DEF SweepRecovers
  <2>6. OnlyTouches(p)
    BY <2>1, <2>5, SweepTouches
  <2>7. CompletionInv(p)'
    <3>1. \A z \in Sweepers : Releases(z, p)' => z = s
      BY <2>inv, <2>1, <2>5 DEF CompletionInv
    <3>2. Runs(w, p)' /\ InFlight(w)'
      BY <2>1, <2>2 DEF Runs, InFlight
    <3>3. QED
      BY <2>1, <2>3, <2>4, <3>1, <3>2 DEF CompletionInv, Queue!Holds
  <2>8. QED
    BY <1>focus, <2>6, <2>7
<1>4. CASE SweepRemoves(s) \/ SweepEnqueues(s)
  <2>p. PICK p : p = sweeps[s].row
    OBVIOUS
  <2>1. UNCHANGED <<payments, calls, requests, failing, confirmed>>
    BY <1>4 DEF SweepRemoves, SweepEnqueues, service
  <2>2. \A z \in Sweepers, q \in Payments : Releases(z, q)' => Releases(z, q)
    <3>1. CASE SweepRemoves(s)
      BY <1>sweeps, <3>1 DEF SweepRemoves, Releases, Sweep
    <3>2. CASE SweepEnqueues(s)
      BY <2>p, <3>2, NextRowReleases DEF SweepEnqueues
    <3>3. QED
      BY <1>4, <3>1, <3>2
  <2>3. UNCHANGED jobs \/ \E job : Queue!Set(p, job)
    BY <1>4, <2>p DEF SweepRemoves, SweepEnqueues, Queue!remove, Queue!enqueuePayment
  <2>4. CASE p \notin Payments
    <3>1. UNCHANGED jobs
      BY <2>3, <2>4 DEF Queue!Set, TypedInv, JobsInv
    <3>2. QED
      BY <1>quiet, <2>1, <2>2, <3>1 DEF Same, Runs
  <2>5. CASE p \in Payments
    <3>inv. LockInv(p) /\ CompletionInv(p) /\ Releases(s, p)
      BY <1>4, <2>p, <2>5 DEF LocksInv, CompletionsInv, SweepRemoves, SweepEnqueues, Releases
    <3>1. OnlyTouches(p)
      BY <2>1, <2>2, <2>3, <2>5, SweepTouches
    <3>2. /\ payments[p].status # PROCESSING /\ p \notin failing
          /\ requests[p] = "answered" /\ \A z \in Sweepers : Releases(z, p) => z = s
          /\ \/ jobs[p].state = "none"
             \/ \E w \in Workers : Runs(w, p) /\ (InFlight(w) \/ calls[w].pc = "returned")
      BY <3>inv DEF CompletionInv
    <3>3. \A w \in Workers : /\ Runs(w, p)' <=> Runs(w, p)
                             /\ InFlight(w)' <=> InFlight(w)
      BY <2>1 DEF Runs, InFlight
    <3>4. ASSUME jobs[p].state = "none"
          PROVE  CompletionInv(p)'
      <4>1. CASE SweepRemoves(s)
        <5>1. jobs'[p].state = "none"
          BY <2>5, <2>p, <3>4, <4>1, SetsOneJob
          DEF SweepRemoves, Queue!remove, Queue!NoJob, TypedInv
        <5>2. QED
          BY <2>1, <2>2, <2>5, <3>2, <5>1 DEF CompletionInv
      <4>2. CASE SweepEnqueues(s)
        <5>1. \A z \in Sweepers : ~Releases(z, p)'
          BY <2>2, <2>5, <2>p, <3>2, <4>2, NextRowReleases DEF SweepEnqueues
        <5>2. jobs'[p].state = "waiting"
          <6>1. [Queue!NoJob EXCEPT !.state = "waiting"].state = "waiting"
            BY DEF Queue!NoJob
          <6>2. QED
            BY <2>5, <2>p, <3>4, <4>2, <6>1, SetsOneJob
            DEF SweepEnqueues, Queue!enqueuePayment, TypedInv
        <5>3. QED
          BY <2>1, <3>2, <5>1, <5>2 DEF CompletionInv
      <4>3. QED
        BY <1>4, <4>1, <4>2
    <3>5. ASSUME \E w \in Workers : Runs(w, p) /\ (InFlight(w) \/ calls[w].pc = "returned")
          PROVE  CompletionInv(p)'
      <4>1. PICK w \in Workers : Runs(w, p) /\ (InFlight(w) \/ calls[w].pc = "returned")
        BY <3>5
      <4>2. jobs[p].state = "active" /\ jobs[p].lock = w /\ w # NoWorker
        BY <3>inv, <4>1, PaymentSystemAssumption DEF LockInv, Queue!Holds
      <4>3. UNCHANGED jobs
        BY <1>4, <2>p, <4>2 DEF SweepRemoves, SweepEnqueues, Queue!remove, Queue!enqueuePayment
      <4>4. QED
        BY <2>1, <2>2, <2>5, <3>2, <3>3, <4>1, <4>3 DEF CompletionInv
    <3>6. QED
      BY <1>focus, <2>5, <3>1, <3>2, <3>4, <3>5
  <2>6. QED
    BY <2>4, <2>5
<1>5. QED
  BY <1>1, <1>2, <1>3, <1>4 DEF SweepStep

(* Every step.                                                             *)
LEMMA CompletionStep ==
  ASSUME CallsComplete, TypedInv, LocksInv, CompletionsInv, [SystemNext]_system
  PROVE  CompletionsInv'
<1>focus. ASSUME NEW p \in Payments, OnlyTouches(p), CompletionInv(p)'
          PROVE  CompletionsInv'
  BY <1>focus, QuietCompletion DEF CompletionsInv, OnlyTouches
<1>1. ASSUME NEW p \in Payments,
             \/ Initiate(p) \/ EnqueueNew(p) \/ RequestLost(p) \/ OnFailed(p)
             \/ OnFailedLost(p) \/ LockExpires(p) \/ JobTimer(p) \/ ClaimAges(p)
             \/ Callback(p)
      PROVE  CompletionsInv'
  BY <1>1, <1>focus, PaymentStepTouches, PaymentStepCompletion
<1>2. ASSUME NEW w \in Workers, RunCall(w) \/ JobCompleted(w) \/ JobFailed(w) \/ CallFault(w)
      PROVE  CompletionsInv'
  <2>1. calls[w].pc # "idle"
    BY <1>2 DEF RunCall, JobCompleted, JobFailed, CallFault, ClaimWon, ClaimRefused,
                BeginCharge, EndCharge, Settle, SettleNoop, Rollback, AckLost, Crash
  <2>2. calls[w].payment \in Payments
    BY <2>1, RunsPayment DEF TypedInv
  <2>3. QED
    BY <1>2, <1>focus, <2>2, WorkerStepTouches, WorkerStepCompletion
<1>3. ASSUME NEW w \in Workers, NEW p \in Payments, TakeJob(w, p)
      PROVE  CompletionsInv'
  BY <1>3, <1>focus, TakeJobCompletion
<1>4. CASE Signal \/ WorkerClosed \/ Exit \/ Start \/ UNCHANGED system
  <2>1. UNCHANGED <<payments, calls, jobs, requests, sweeps>>
    BY <1>4, ExitIsQuiet DEF Signal, WorkerClosed, Exit, Start, service, system, TypedInv
  <2>2. \A p \in Payments : p \in failing' => p \in failing
    BY <1>4 DEF Signal, WorkerClosed, Exit, Start, system
  <2>3. QED
    BY <2>1, <2>2 DEF CompletionsInv, CompletionInv, Attended, InFlight, Runs, Releases
<1>5. QED
  BY <1>1, <1>2, <1>3, <1>4, SweepStepCompletion DEF SystemNext

(* Turns are kept.                                                         *)
LEMMA CompletionsInvariant == ASSUME CallsComplete PROVE SystemSpec => []CompletionsInv
<1>1. LocksAreKept
  BY DEF CallsComplete, LocksAreKept
<1>2. SystemInit => CompletionsInv
  BY DEF SystemInit, Init, Queue!Init, Queue!NoJob, CompletionsInv, CompletionInv, Runs,
         Idle, Releases, NoSweep, NoRow, NONE, PROCESSING
<1>3. TypedInv /\ LocksInv /\ CompletionsInv /\ [SystemNext]_system => CompletionsInv'
  BY CompletionStep
<1>4. QED
  BY <1>1, <1>2, <1>3, TypedInvariant, LocksInvariant, PTL DEF SystemSpec

(* The failed handler is the last word on a job as long as calls complete: *)
(* no worker is at work on the payment it fails.  Sweeps may die, claims   *)
(* outlast STALE_PROCESSING_MS, first transactions fail: a job that is     *)
(* given up has nobody who runs it, and a sweep enqueues no second one     *)
(* while the first is kept as failed.                                      *)
THEOREM FailedHandlerIsLast == ASSUME CallsComplete PROVE SystemSpec => GivesUpOnlyIdle
<1>1. LocksAreKept
  BY DEF CallsComplete, LocksAreKept
<1>2. LocksInv /\ CompletionsInv /\ [SystemNext]_system =>
        [\A p \in Payments :
           OnFailed(p) /\ payments[p].status = PROCESSING =>
             \A w \in Workers : InFlight(w) => calls[w].payment # p]_system
  <2> SUFFICES ASSUME LocksInv, CompletionsInv, NEW p \in Payments, OnFailed(p),
                      NEW w \in Workers, InFlight(w), calls[w].payment = p
               PROVE  FALSE
    OBVIOUS
  <2>1. Runs(w, p) /\ p \in failing
    BY DEF Runs, InFlight, OnFailed
  <2>2. QED
    BY <2>1, RunMeansAlone DEF LocksInv, CompletionsInv
<1>3. QED
  BY <1>1, <1>2, LocksInvariant, CompletionsInvariant, PTL DEF SystemSpec, GivesUpOnlyIdle

----------------------------------------------------------------------------
(* What the gateway has confirmed.                                         *)

(* A callback of the provider has settled p. *)
Decided(p) == \E e \in Events : events[e].payment = p /\ events[e].status = "processed"

(* p is settled as the gateway said, or as the provider did. *)
Spoken(p) ==
  payments[p].status = SUCCESS \/ (payments[p].status = FAILED /\ Decided(p))

(* A call has the gateway's confirmation of p and has yet to settle it. *)
Confirming(p) ==
  \E w \in Workers :
    Runs(w, p) /\ calls[w].pc = "settle" /\ calls[w].outcome = "success"

(* While calls complete in time: no claim grows stale, who is at work on a *)
(* payment finds its row PROCESSING or settled by a callback, and what the *)
(* gateway has confirmed is about to be settled, or is.                    *)
OutcomeInv(p) ==
  /\ ~IsStale(payments[p])
  /\ \A w \in Workers :
       Runs(w, p) /\ InFlight(w) => payments[p].status = PROCESSING \/ Spoken(p)
  /\ p \in confirmed =>
       Spoken(p) \/ (payments[p].status = PROCESSING /\ Confirming(p))

OutcomesInv ==
  /\ \A s \in Sweepers : sweeps[s].pc = "idle"
  /\ \A p \in Payments : OutcomeInv(p)

(* What the provider has decided stays decided: no event is recorded twice. *)
LEMMA DecidedStays ==
  ASSUME TypedInv, [SystemNext]_system
  PROVE  \A p \in Payments : Decided(p) => Decided(p)'
<1>types. events \in [Events -> Event]
  BY DEF TypedInv, SystemInv, BudgetInv, TypeOK
<1>1. ASSUME NEW p \in Payments, Callback(p)
      PROVE  \A e \in Events : events[e].status = "processed" => events'[e] = events[e]
  BY <1>1, <1>types DEF Callback, handleWebhook, WebhookApplied, WebhookIgnored
<1>2. ASSUME NEW p \in Payments,
             \/ Initiate(p) \/ EnqueueNew(p) \/ RequestLost(p) \/ OnFailed(p)
             \/ OnFailedLost(p) \/ LockExpires(p) \/ JobTimer(p) \/ ClaimAges(p)
      PROVE  UNCHANGED events
  BY <1>2 DEF Initiate, Create, EnqueueNew, RequestLost, OnFailed, FailPayment,
              OnFailedLost, LockExpires, JobTimer, ClaimAges, BecomeStale, service
<1>3. ASSUME NEW w \in Workers,
             \/ \E p \in Payments : TakeJob(w, p)
             \/ RunCall(w) \/ JobCompleted(w) \/ JobFailed(w) \/ CallFault(w)
      PROVE  UNCHANGED events
  BY <1>3 DEF TakeJob, StartProcess, RunCall, JobCompleted, JobFailed, CallFault,
              ClaimWon, ClaimRefused, BeginCharge, EndCharge, Settle, SettleNoop,
              Finish, Rollback, AckLost, Crash
<1>4. ASSUME NEW s \in Sweepers, SweepStep(s) \/ SweepCrashes(s)
      PROVE  UNCHANGED events
  BY <1>4 DEF SweepStep, SweepBegins, SweepSkips, SweepRecovers, RecoverStale,
              SweepRemoves, SweepEnqueues, SweepCrashes, service
<1>5. ASSUME Signal \/ WorkerClosed \/ Exit \/ Start \/ UNCHANGED system
      PROVE  UNCHANGED events
  BY <1>5 DEF Signal, WorkerClosed, Exit, Start, service, system
<1>6. ASSUME NEW e \in Events, events[e].status = "processed"
      PROVE  events'[e] = events[e]
  BY <1>1, <1>2, <1>3, <1>4, <1>5, <1>6 DEF SystemNext
<1>7. QED
  BY <1>6 DEF Decided

(* What a step does not touch stays so.                                    *)
LEMMA QuietOutcome ==
  ASSUME NEW p, OutcomeInv(p), Same(p), Decided(p) => Decided(p)'
  PROVE  OutcomeInv(p)'
<1>1. Spoken(p) => Spoken(p)'
  BY DEF Same, Spoken
<1>2. Confirming(p) => Confirming(p)'
  BY DEF Same, Confirming, Runs
<1>3. \A w \in Workers : Runs(w, p)' /\ InFlight(w)' => Runs(w, p) /\ InFlight(w)
  BY DEF Same, InFlight
<1>4. QED
  BY <1>1, <1>2, <1>3 DEF OutcomeInv, Same, IsStale

(* A row that is settled, or put back, while nobody is at work on it any   *)
(* more, and the gateway has not confirmed it unless it is SUCCESS.        *)
LEMMA RestingOutcome ==
  ASSUME NEW p, payments'[p].status # PROCESSING,
         \A w \in Workers : ~(Runs(w, p) /\ InFlight(w))',
         p \in confirmed' => payments'[p].status = SUCCESS
  PROVE  OutcomeInv(p)'
BY DEF OutcomeInv, IsStale, Spoken

(* Steps of requests, handlers, timers and callbacks.                      *)
LEMMA PaymentStepOutcome ==
  ASSUME PromptClaims, TypedInv, LocksInv, CompletionsInv, OutcomesInv, NEW p \in Payments,
         Decided(p) => Decided(p)',
         \/ Initiate(p) \/ EnqueueNew(p) \/ RequestLost(p) \/ OnFailed(p)
         \/ OnFailedLost(p) \/ LockExpires(p) \/ JobTimer(p) \/ ClaimAges(p)
         \/ Callback(p)
  PROVE  OutcomeInv(p)'
<1>inv. LockInv(p) /\ CompletionInv(p) /\ OutcomeInv(p)
  BY DEF LocksInv, CompletionsInv, OutcomesInv
<1>types. payments \in [Payments -> Row] /\ events \in [Events -> Event]
  BY DEF TypedInv, SystemInv, BudgetInv, TypeOK
<1>quiet. ASSUME UNCHANGED <<payments, calls, confirmed>>
          PROVE  OutcomeInv(p)'
  BY <1>quiet, <1>inv DEF OutcomeInv, Spoken, Confirming, Runs, InFlight
<1>1. CASE Initiate(p)
  <2>1. /\ payments[p].status = NONE /\ payments'[p].status = PENDING
        /\ UNCHANGED <<calls, confirmed>>
    BY <1>1, <1>types, RowStatus DEF Initiate, Create, Exists
  <2>2. p \notin confirmed /\ \A w \in Workers : ~(Runs(w, p) /\ InFlight(w))
    BY <1>inv, <2>1 DEF OutcomeInv, Spoken, NONE, SUCCESS, FAILED, PROCESSING
  <2>3. QED
    BY <2>1, <2>2, RestingOutcome DEF Runs, InFlight, PENDING, PROCESSING
<1>2. CASE EnqueueNew(p) \/ RequestLost(p) \/ OnFailedLost(p) \/ LockExpires(p) \/ JobTimer(p)
  BY <1>2, <1>quiet DEF EnqueueNew, RequestLost, OnFailedLost, LockExpires, JobTimer, service
<1>3. CASE OnFailed(p) /\ FailPayment(p)
  <2>1. \A w \in Workers : ~Runs(w, p)
    BY <1>3, <1>inv, RunMeansAlone DEF OnFailed
  <2>2. payments'[p].status = FAILED /\ UNCHANGED <<calls, confirmed>>
    BY <1>3, <1>types DEF FailPayment, Row
  <2>3. payments[p].status \notin {SUCCESS, FAILED}
    BY <1>3 DEF FailPayment, canTransition, transitions, ePaymentStatus,
                PENDING, PROCESSING, SUCCESS, FAILED
  <2>4. p \notin confirmed
    BY <1>inv, <2>1, <2>3 DEF OutcomeInv, Spoken, Confirming
  <2>5. QED
    BY <2>1, <2>2, <2>4, RestingOutcome DEF Runs, FAILED, PROCESSING
<1>4. CASE OnFailed(p) /\ UNCHANGED service
  BY <1>4, <1>quiet DEF service
<1>5. CASE ClaimAges(p)
  BY <1>5, <1>inv DEF ClaimAges, BecomeStale, Fault, PromptClaims, CompletionInv
<1>6. CASE Callback(p)
  <2>1. UNCHANGED <<calls, confirmed>>
    BY <1>6 DEF Callback, handleWebhook, WebhookApplied, WebhookIgnored
  <2>2. ASSUME NEW e \in Events, NEW target \in {SUCCESS, FAILED}, NEW hasRef \in BOOLEAN,
               WebhookApplied(e, p, target, hasRef)
        PROVE  OutcomeInv(p)'
    <3>1. payments'[p].status = target
      BY <2>2, <1>types, RowStatus DEF WebhookApplied
    <3>2. Decided(p)'
      <4>1. events'[e] = [payment |-> p, reported |-> target, status |-> "processed"]
        BY <2>2, <1>types DEF WebhookApplied
      <4>2. QED
        BY <4>1 DEF Decided
    <3>3. Spoken(p)' /\ payments'[p].status # PROCESSING
      BY <3>1, <3>2 DEF Spoken, SUCCESS, FAILED, PROCESSING
    <3>4. QED
      BY <3>3 DEF OutcomeInv, IsStale
  <2>3. QED
    BY <1>6, <1>quiet, <2>1, <2>2 DEF Callback, handleWebhook, WebhookIgnored
<1>7. QED
  BY <1>1, <1>2, <1>3, <1>4, <1>5, <1>6 DEF OnFailed

(* The steps of a call, which has its payment to itself.                   *)
LEMMA WorkerStepOutcome ==
  ASSUME CallsComplete, TypedInv, LocksInv, CompletionsInv, OutcomesInv, NEW w \in Workers,
         NEW p \in Payments, p = calls[w].payment, Decided(p) => Decided(p)',
         RunCall(w) \/ JobCompleted(w) \/ JobFailed(w) \/ CallFault(w)
  PROVE  OutcomeInv(p)'
<1>inv. LockInv(p) /\ CompletionInv(p) /\ OutcomeInv(p)
  BY DEF LocksInv, CompletionsInv, OutcomesInv
<1>types. calls \in [Workers -> Call] /\ payments \in [Payments -> Row]
  BY DEF TypedInv, SystemInv, BudgetInv, TypeOK
<1>runs. Runs(w, p)
  BY DEF RunCall, JobCompleted, JobFailed, CallFault, ClaimWon, ClaimRefused, BeginCharge,
         EndCharge, Settle, SettleNoop, Rollback, AckLost, Crash, Runs
<1>alone. /\ \A v \in Workers : Runs(v, p) => v = w
          /\ payments[p].status = PROCESSING => InFlight(w)
  BY <1>inv, <1>runs, RunMeansAlone
<1>stay. \A v \in Workers : Runs(v, p)' => v = w
  BY <1>alone, CallsStay DEF TypedInv, JobCompleted, JobFailed
<1>1. ASSUME UNCHANGED <<payments, confirmed>>, ~InFlight(w)', calls[w].pc # "settle"
      PROVE  OutcomeInv(p)'
  <2>1. ~Confirming(p)
    BY <1>1, <1>alone DEF Confirming
  <2>2. p \in confirmed => Spoken(p)'
    BY <1>1, <1>inv, <2>1 DEF OutcomeInv, Spoken
  <2>3. QED
    BY <1>1, <1>inv, <1>stay, <2>2 DEF OutcomeInv
<1>2. CASE RunCall(w) /\ ClaimWon(w)
  <2>1. /\ payments[p].status = PENDING /\ payments'[p] = ClaimedRow(payments[p])
        /\ UNCHANGED confirmed
    BY <1>2, <1>types DEF ClaimWon, Claimable
  <2>2. payments'[p].status = PROCESSING /\ ~IsStale(payments'[p])
    BY <2>1, <1>types DEF ClaimedRow, IsStale, Row
  <2>3. p \notin confirmed
    BY <1>inv, <2>1 DEF OutcomeInv, Spoken, PENDING, PROCESSING, SUCCESS, FAILED
  <2>4. QED
    BY <2>1, <2>2, <2>3 DEF OutcomeInv
<1>3. CASE RunCall(w) /\ BeginCharge(w)
  <2>1. UNCHANGED <<payments, confirmed>> /\ InFlight(w) /\ ~Confirming(p)
    BY <1>3, <1>alone DEF BeginCharge, InFlight, Confirming
  <2>2. Spoken(p)' <=> payments[p].status = SUCCESS \/ (payments[p].status = FAILED /\ Decided(p)')
    BY <2>1 DEF Spoken
  <2>3. p \in confirmed => Spoken(p)'
    BY <1>inv, <2>1, <2>2 DEF OutcomeInv, Spoken
  <2>4. payments[p].status = PROCESSING \/ Spoken(p)'
    BY <1>inv, <1>runs, <2>1, <2>2 DEF OutcomeInv, Spoken
  <2>5. QED
    BY <1>inv, <2>1, <2>3, <2>4 DEF OutcomeInv
<1>4. ASSUME NEW outcome \in Outcome, RunCall(w), EndCharge(w, outcome)
      PROVE  OutcomeInv(p)'
  <2>1. /\ UNCHANGED payments /\ InFlight(w) /\ ~Confirming(p)
        /\ confirmed' = IF outcome = "success" THEN confirmed \cup {p} ELSE confirmed
    BY <1>4, <1>alone DEF EndCharge, InFlight, Confirming
  <2>2. /\ calls'[w].pc = "settle" /\ calls'[w].outcome = outcome /\ calls'[w].payment = p
    BY <1>4, <1>types DEF EndCharge, Call
  <2>3. Spoken(p) => Spoken(p)'
    BY <2>1 DEF Spoken
  <2>4. payments[p].status = PROCESSING \/ Spoken(p)'
    BY <1>inv, <1>runs, <2>1, <2>3 DEF OutcomeInv
  <2>5. outcome = "success" => Confirming(p)'
    BY <2>2 DEF Confirming, Runs
  <2>6. p \in confirmed => Spoken(p)'
    BY <1>inv, <2>1, <2>3 DEF OutcomeInv
  <2>7. QED
    BY <1>inv, <2>1, <2>4, <2>5, <2>6 DEF OutcomeInv
<1>5. CASE RunCall(w) /\ Settle(w)
  <2>1. /\ payments[p].status = PROCESSING /\ UNCHANGED confirmed
        /\ payments'[p] = SettledRow(payments[p], calls[w].outcome)
        /\ calls[w].pc = "settle"
    BY <1>5, <1>types DEF Settle, Settleable
  <2>2. ~InFlight(w)'
    BY <1>5, <1>types DEF Settle, Goto, InFlight, Call
  <2>3. p \in confirmed => calls[w].outcome = "success"
    BY <1>inv, <1>alone, <2>1 DEF OutcomeInv, Spoken, Confirming, PROCESSING, SUCCESS, FAILED
  <2>4. calls[w].outcome = "success" => payments'[p].status = SUCCESS
    BY <2>1, <1>types DEF SettledRow, Succeeded, Row
  <2>5. payments'[p].status # PROCESSING
    BY <2>1, <1>types, RowStatus DEF PENDING, PROCESSING, SUCCESS, FAILED
  <2>6. QED
    BY <1>stay, <2>1, <2>2, <2>3, <2>4, <2>5, RestingOutcome
<1>6. CASE RunCall(w) /\ SettleNoop(w)
  <2>1. /\ payments[p].status # PROCESSING /\ UNCHANGED <<payments, confirmed>>
        /\ ~InFlight(w)'
    BY <1>6, <1>types DEF SettleNoop, Settleable, Goto, InFlight, Call
  <2>2. QED
    BY <1>inv, <1>stay, <2>1 DEF OutcomeInv, Spoken
<1>7. CASE JobCompleted(w) \/ JobFailed(w)
  <2>1. UNCHANGED <<payments, confirmed>> /\ ~InFlight(w)' /\ calls[w].pc # "settle"
    BY <1>7, <1>types DEF JobCompleted, JobFailed, Finish, Idle, InFlight
  <2>2. QED
    BY <1>1, <2>1
<1>8. CASE CallFault(w) \/ (RunCall(w) /\ ClaimRefused(w))
  <2>1. /\ calls[w].pc = "claim" /\ UNCHANGED <<payments, confirmed>>
        /\ Goto(w, "threw") \/ Goto(w, "returned")
    BY <1>8 DEF CallFault, Fault, CallsComplete, Rollback, ClaimRefused
  <2>2. ~InFlight(w)'
    BY <2>1, <1>types DEF Goto, InFlight, Call
  <2>3. QED
    BY <1>1, <2>1, <2>2
<1>9. QED
  BY <1>2, <1>3, <1>4, <1>5, <1>6, <1>7, <1>8 DEF RunCall

(* Every step; sweeps find nothing.                                        *)
LEMMA OutcomeStep ==
  ASSUME CallsComplete, PromptClaims, TypedInv, LocksInv, CompletionsInv, OutcomesInv,
         [SystemNext]_system
  PROVE  OutcomesInv' /\ (UNCHANGED sweeps)
<1>decided. \A p \in Payments : Decided(p) => Decided(p)'
  BY DecidedStays
<1>focus. ASSUME NEW p \in Payments, OnlyTouches(p), OutcomeInv(p)', UNCHANGED sweeps
          PROVE  OutcomesInv'
  BY <1>focus, <1>decided, QuietOutcome DEF OutcomesInv, OnlyTouches
<1>1. ASSUME NEW p \in Payments,
             \/ Initiate(p) \/ EnqueueNew(p) \/ RequestLost(p) \/ OnFailed(p)
             \/ OnFailedLost(p) \/ LockExpires(p) \/ JobTimer(p) \/ ClaimAges(p)
             \/ Callback(p)
      PROVE  OutcomesInv' /\ UNCHANGED sweeps
  <2>1. UNCHANGED sweeps
    BY <1>1 DEF Initiate, EnqueueNew, RequestLost, OnFailed, OnFailedLost, LockExpires,
                JobTimer, ClaimAges, Callback
  <2>2. OutcomesInv'
    BY <1>1, <1>focus, <1>decided, <2>1, PaymentStepTouches, PaymentStepOutcome
  <2>3. QED
    BY <2>1, <2>2
<1>2. ASSUME NEW w \in Workers, RunCall(w) \/ JobCompleted(w) \/ JobFailed(w) \/ CallFault(w)
      PROVE  OutcomesInv' /\ UNCHANGED sweeps
  <2>1. calls[w].pc # "idle" /\ UNCHANGED sweeps
    BY <1>2 DEF RunCall, JobCompleted, JobFailed, CallFault, ClaimWon, ClaimRefused,
                BeginCharge, EndCharge, Settle, SettleNoop, Rollback, AckLost, Crash
  <2>2. calls[w].payment \in Payments
    BY <2>1, RunsPayment DEF TypedInv
  <2>3. QED
    BY <1>2, <1>focus, <1>decided, <2>1, <2>2, WorkerStepTouches, WorkerStepOutcome
<1>3. ASSUME NEW w \in Workers, NEW p \in Payments, TakeJob(w, p)
      PROVE  OutcomesInv' /\ UNCHANGED sweeps
  <2>1. UNCHANGED <<sweeps, payments, confirmed>> /\ OnlyTouches(p)
    BY <1>3, TakeJobCompletion DEF TakeJob, StartProcess
  <2>2. calls'[w].pc = "claim" /\ \A v \in Workers \ {w} : calls'[v] = calls[v]
    BY <1>3 DEF TakeJob, StartProcess, Idle, TypedInv, SystemInv, BudgetInv, TypeOK
  <2>3. calls[w].pc = "idle"
    BY <1>3 DEF TakeJob, StartProcess
  <2>4. Confirming(p) => Confirming(p)'
    BY <2>2, <2>3 DEF Confirming, Runs
  <2>5. \A v \in Workers : Runs(v, p)' /\ InFlight(v)' => Runs(v, p) /\ InFlight(v)
    BY <2>2 DEF Runs, InFlight
  <2>6. Spoken(p) => Spoken(p)'
    BY <2>1, <1>decided DEF Spoken
  <2>7. OutcomeInv(p)'
    BY <2>1, <2>4, <2>5, <2>6 DEF OutcomesInv, OutcomeInv
  <2>8. QED
    BY <1>focus, <2>1, <2>7
<1>4. ASSUME NEW s \in Sweepers, SweepStep(s) \/ SweepCrashes(s)
      PROVE  FALSE
  <2>1. sweeps[s].pc = "idle" /\ findStale = {}
    BY DEF OutcomesInv, OutcomeInv, findStale, IsStale
  <2>2. QED
    BY <1>4, <2>1 DEF SweepStep, SweepBegins, SweepSkips, SweepRecovers, SweepRemoves,
                      SweepEnqueues, SweepCrashes
<1>5. CASE Signal \/ WorkerClosed \/ Exit \/ Start \/ UNCHANGED system
  <2>1. UNCHANGED <<payments, calls, sweeps, confirmed, events>>
    BY <1>5, ExitIsQuiet DEF Signal, WorkerClosed, Exit, Start, service, system, TypedInv
  <2>2. QED
    BY <2>1 DEF OutcomesInv, OutcomeInv, Spoken, Decided, Confirming, InFlight, Runs
<1>6. QED
  BY <1>1, <1>2, <1>3, <1>4, <1>5 DEF SystemNext

(* Confirmations are kept.                                                 *)
LEMMA OutcomesInvariant ==
  ASSUME CallsComplete, PromptClaims
  PROVE  SystemSpec => []OutcomesInv
<1>1. LocksAreKept
  BY DEF CallsComplete, LocksAreKept
<1>2. SystemInit => OutcomesInv
  BY DEF SystemInit, Init, OutcomesInv, OutcomeInv, Runs, Idle, NoSweep, IsStale, NoRow,
         NONE, PROCESSING
<1>3. TypedInv /\ LocksInv /\ CompletionsInv /\ OutcomesInv /\ [SystemNext]_system
        => OutcomesInv'
  BY OutcomeStep
<1>4. QED
  BY <1>1, <1>2, <1>3, TypedInvariant, LocksInvariant, CompletionsInvariant, PTL
  DEF SystemSpec

(* What the gateway has confirmed is not failed, as long as calls complete *)
(* within STALE_PROCESSING_MS: first transactions may roll back, requests  *)
(* and failed handlers be lost, the process be shut down, and callbacks    *)
(* say what they like.                                                     *)
THEOREM ConfirmedStaysConfirmed ==
  ASSUME CallsComplete, PromptClaims
  PROVE  SystemSpec => []ConfirmedNotFailed
<1>1. TypedInv /\ OutcomesInv => ConfirmedNotFailed
  <2> SUFFICES ASSUME TypedInv, OutcomesInv, NEW p \in confirmed, payments[p].status = FAILED
               PROVE  Decided(p)
    BY DEF ConfirmedNotFailed, Decided
  <2>1. p \in Payments
    BY DEF TypedInv, SystemInv, BudgetInv, TypeOK
  <2>2. QED
    BY <2>1 DEF OutcomesInv, OutcomeInv, Spoken, SUCCESS, FAILED, PROCESSING
<1>2. QED
  BY <1>1, TypedInvariant, OutcomesInvariant, PTL

----------------------------------------------------------------------------
(* What pulls a PENDING payment.                                           *)

(* No failed handler is lost, neither to an error nor to a shutdown. *)
HandlersAct == Faults \cap {"handler_error", "shutdown"} = {}

(* A job has an attempt for each of its row, and none is spent without a   *)
(* claim: when the job gives up, the row already has. *)
JobsOutlastRows == "claim_error" \notin Faults /\ MAX_PAYMENT_ATTEMPTS <= JobAttempts

(* A call that has claimed an attempt its job has yet to count. *)
Spends(w) == InFlight(w) \/ calls[w].pc = "threw"

(* A job's attempts against its row's. *)
AttemptsInv(p) ==
  /\ jobs[p].state # "none" => jobs[p].attemptsMade <= payments[p].attempts
  /\ \A w \in Workers :
       Runs(w, p) /\ Spends(w) => jobs[p].attemptsMade < payments[p].attempts
  /\ jobs[p].state = "failed" => payments[p].status # PENDING

(* A row is enqueued by the request that inserted it and has its job until *)
(* it is settled; a job that ends leaves no PENDING row, unless the failed *)
(* handler has it. *)
PullInv(p) ==
  /\ payments[p].status = NONE => requests[p] = "none"
  /\ \A w \in Workers :
       Runs(w, p) /\ calls[w].pc = "returned" => payments[p].status \notin {NONE, PENDING}
  /\ payments[p].status = PENDING =>
       LiveJob(jobs[p]) \/ requests[p] = "enqueue" \/ p \in failing
  /\ JobsOutlastRows => AttemptsInv(p)

PullsInv ==
  /\ HandlersAct => process = "running"
  /\ \A p \in Payments : PullInv(p)

(* What a step does not touch stays so.                                    *)
LEMMA QuietPull ==
  ASSUME NEW p, PullInv(p), Same(p)
  PROVE  PullInv(p)'
<1>1. \A w \in Workers : /\ Runs(w, p)' <=> Runs(w, p)
                         /\ Runs(w, p) => calls'[w] = calls[w]
  BY DEF Same
<1>2. \A w \in Workers : Runs(w, p) => (Spends(w)' <=> Spends(w))
  BY <1>1 DEF Spends, InFlight
<1>3. AttemptsInv(p) => AttemptsInv(p)'
  BY <1>1, <1>2 DEF AttemptsInv, Same
<1>4. QED
  BY <1>1, <1>3 DEF PullInv, Same, JobsOutlastRows

(* A payment that is settled needs no pull, whatever else a step does to   *)
(* it that leaves its attempts, its job and its calls alone.               *)
LEMMA SettledPull ==
  ASSUME NEW p, PullInv(p), UNCHANGED <<jobs, calls, requests>>,
         payments'[p].status \in {SUCCESS, FAILED},
         payments'[p].attempts = payments[p].attempts
  PROVE  PullInv(p)'
<1>1. payments'[p].status \notin {NONE, PENDING}
  BY DEF NONE, PENDING, SUCCESS, FAILED
<1>2. \A w \in Workers : /\ Runs(w, p)' <=> Runs(w, p)
                         /\ Spends(w)' <=> Spends(w)
  BY DEF Runs, Spends, InFlight
<1>3. AttemptsInv(p) => AttemptsInv(p)'
  BY <1>1, <1>2 DEF AttemptsInv
<1>4. QED
  BY <1>1, <1>3 DEF PullInv, JobsOutlastRows

(* Steps of requests, handlers, timers and callbacks.                      *)
LEMMA PaymentStepPull ==
  ASSUME CallsComplete, "request_lost" \notin Faults, HandlersAct \/ JobsOutlastRows,
         TypedInv, LocksInv, CompletionsInv, PullsInv, NEW p \in Payments,
         \/ Initiate(p) \/ EnqueueNew(p) \/ RequestLost(p) \/ OnFailed(p)
         \/ OnFailedLost(p) \/ LockExpires(p) \/ JobTimer(p) \/ ClaimAges(p)
         \/ Callback(p)
  PROVE  PullInv(p)'
<1>inv. LockInv(p) /\ CompletionInv(p) /\ PullInv(p)
  BY DEF LocksInv, CompletionsInv, PullsInv
<1>types. /\ payments \in [Payments -> Row] /\ jobs \in [Payments -> Queue!Job]
          /\ requests \in [Payments -> {"none", "enqueue", "answered"}]
          /\ payments[p].attempts \in Nat
  BY DEF TypedInv, SystemInv, BudgetInv, TypeOK, JobsInv, UsersInv, Row
<1>1. CASE Initiate(p)
  <2>1. /\ payments'[p].status = PENDING /\ requests'[p] = "enqueue"
        /\ requests[p] = "none" /\ UNCHANGED <<calls, jobs>>
    BY <1>1, <1>types, RowStatus DEF Initiate, Create
  <2>2. jobs[p].state = "none" /\ \A w \in Workers : ~Runs(w, p)
    BY <1>inv, <2>1, RunMeansAlone DEF CompletionInv
  <2>3. \A w \in Workers : ~Runs(w, p)'
    BY <2>1, <2>2 DEF Runs
  <2>4. QED
    BY <2>1, <2>2, <2>3 DEF PullInv, AttemptsInv, NONE, PENDING
<1>2. CASE EnqueueNew(p)
  <2>1. /\ UNCHANGED <<payments, calls>> /\ requests[p] = "enqueue"
    BY <1>2 DEF EnqueueNew, service
  <2>2. jobs[p].state = "none" /\ \A w \in Workers : ~Runs(w, p)
    BY <1>inv, <2>1, RunMeansAlone DEF CompletionInv
  <2>3. jobs'[p].state = "waiting" /\ jobs'[p].attemptsMade = 0
    <3> DEFINE new == [Queue!NoJob EXCEPT !.state = "waiting"]
    <3>1. new.state = "waiting" /\ new.attemptsMade = 0
      BY DEF Queue!NoJob
    <3>2. jobs'[p] = new
      BY <1>2, <1>types, <2>2 DEF EnqueueNew, Queue!enqueuePayment, Queue!Set
    <3>3. QED
      BY <3>1, <3>2
  <2>4. \A w \in Workers : ~Runs(w, p)'
    BY <2>1, <2>2 DEF Runs
  <2>5. payments[p].status # NONE
    BY <1>inv, <2>1 DEF PullInv
  <2>6. QED
    BY <1>types, <2>1, <2>3, <2>4, <2>5 DEF PullInv, AttemptsInv, LiveJob
<1>3. CASE RequestLost(p)
  BY <1>3 DEF RequestLost, Fault
<1>4. CASE OnFailed(p)
  <2>1. UNCHANGED <<calls, jobs, requests>>
    BY <1>4 DEF OnFailed, FailPayment, service
  <2>2. CASE FailPayment(p)
    BY <1>inv, <1>types, <2>1, <2>2, SettledPull DEF FailPayment, Row
  <2>3. CASE UNCHANGED payments /\ payments[p].status # PENDING
    BY <1>inv, <2>1, <2>3
    DEF PullInv, AttemptsInv, Runs, Spends, InFlight, JobsOutlastRows
  <2>4. QED
    BY <1>4, <2>2, <2>3
    DEF OnFailed, service, canTransition, transitions, ePaymentStatus,
        PENDING, PROCESSING, SUCCESS, FAILED
<1>5. CASE OnFailedLost(p)
  <2>1. p \in failing /\ UNCHANGED <<payments, calls, jobs, requests>> /\ JobsOutlastRows
    BY <1>5 DEF OnFailedLost, service, Fault, HandlersAct
  <2>2. payments[p].status # PENDING
    BY <1>inv, <2>1 DEF CompletionInv, PullInv, AttemptsInv
  <2>3. QED
    BY <1>inv, <2>1, <2>2
    DEF PullInv, AttemptsInv, Runs, Spends, InFlight, JobsOutlastRows
<1>6. CASE LockExpires(p)
  <2>1. jobs[p].lock # NoWorker
    BY <1>6 DEF LockExpires, Queue!LockExpires
  <2>2. \E w \in Workers : jobs[p].lock = w /\ calls[w].payment = p
    BY <1>inv, <2>1 DEF CompletionInv, LockInv, Runs, Queue!Holds
  <2>3. QED
    BY <1>6, <2>2 DEF LockExpires, Fault, CallsComplete
<1>7. CASE JobTimer(p)
  <2>1. ~Queue!Orphaned(p)
    BY <1>inv, ActiveMeansRun, PaymentSystemAssumption DEF Queue!Orphaned
  <2>2. Queue!Promote(p) /\ UNCHANGED <<payments, calls, requests>>
    BY <1>7, <2>1 DEF JobTimer, Queue!Stalled, Queue!StalledOut, service
  <2>3. /\ jobs[p].state = "delayed" /\ jobs'[p].state = "waiting"
        /\ jobs'[p].attemptsMade = jobs[p].attemptsMade
    BY <1>types, <2>2 DEF Queue!Promote, Queue!Set, Queue!Job
  <2>4. \A w \in Workers : ~Runs(w, p)'
    BY <1>inv, <2>2, <2>3, ActiveMeansRun DEF Runs
  <2>5. QED
    BY <1>inv, <2>2, <2>3, <2>4 DEF PullInv, AttemptsInv, LiveJob, JobsOutlastRows
<1>8. CASE ClaimAges(p)
  <2>1. /\ payments[p].status = PROCESSING /\ UNCHANGED <<calls, jobs, requests>>
        /\ payments'[p].status = payments[p].status
        /\ payments'[p].attempts = payments[p].attempts
    BY <1>8, <1>types DEF ClaimAges, BecomeStale, Row
  <2>2. QED
    BY <1>inv, <2>1
    DEF PullInv, AttemptsInv, Runs, Spends, InFlight, JobsOutlastRows,
        NONE, PENDING, PROCESSING
<1>9. CASE Callback(p)
  <2>1. UNCHANGED <<calls, jobs, requests, failing>>
    BY <1>9 DEF Callback, handleWebhook, WebhookApplied, WebhookIgnored
  <2>2. ASSUME NEW e \in Events, NEW target \in {SUCCESS, FAILED}, NEW hasRef \in BOOLEAN,
               WebhookApplied(e, p, target, hasRef)
        PROVE  PullInv(p)'
    <3>1. /\ payments'[p].status \in {SUCCESS, FAILED}
          /\ payments'[p].attempts = payments[p].attempts
      BY <2>2, <1>types, RowStatus, RowAttempts DEF WebhookApplied
    <3>2. QED
      BY <1>inv, <2>1, <3>1, SettledPull
  <2>3. CASE UNCHANGED payments
    BY <1>inv, <2>1, <2>3
    DEF PullInv, AttemptsInv, Runs, Spends, InFlight, JobsOutlastRows
  <2>4. QED
    BY <1>9, <2>2, <2>3 DEF Callback, handleWebhook, WebhookIgnored
<1>10. QED
  BY <1>1, <1>2, <1>3, <1>4, <1>5, <1>6, <1>7, <1>8, <1>9

(* A call that goes on keeps its job, and the job counts no attempt yet.   *)
LEMMA MovePull ==
  ASSUME NEW p, LockInv(p), NEW w \in Workers, Runs(w, p), UNCHANGED jobs,
         \A v \in Workers : Runs(v, p)' => v = w,
         payments'[p].status # NONE,
         calls'[w].pc = "returned" => payments'[p].status # PENDING,
         JobsOutlastRows =>
           /\ jobs[p].attemptsMade <= payments'[p].attempts
           /\ Spends(w)' => jobs[p].attemptsMade < payments'[p].attempts
  PROVE  PullInv(p)'
<1>1. jobs[p].state = "active"
  BY DEF LockInv, Queue!Holds
<1>2. LiveJob(jobs[p])' /\ jobs'[p].state # "failed"
  BY <1>1 DEF LiveJob
<1>3. JobsOutlastRows => AttemptsInv(p)'
  BY <1>2 DEF AttemptsInv
<1>4. QED
  BY <1>2, <1>3 DEF PullInv, JobsOutlastRows

(* The steps of a call.                                                    *)
LEMMA WorkerStepPull ==
  ASSUME CallsComplete, TypedInv, LocksInv, CompletionsInv, OutcomesInv, PullsInv,
         NEW w \in Workers, NEW p \in Payments, p = calls[w].payment,
         RunCall(w) \/ JobCompleted(w) \/ JobFailed(w) \/ CallFault(w)
  PROVE  PullInv(p)'
<1>inv. LockInv(p) /\ CompletionInv(p) /\ OutcomeInv(p) /\ PullInv(p)
  BY DEF LocksInv, CompletionsInv, OutcomesInv, PullsInv
<1>types. /\ calls \in [Workers -> Call] /\ payments \in [Payments -> Row]
          /\ jobs \in [Payments -> Queue!Job]
          /\ payments[p] \in Row /\ payments[p].attempts \in Nat
          /\ jobs[p] \in Queue!Job /\ jobs[p].attemptsMade \in Nat
  BY PaymentSystemAssumption
  DEF TypedInv, SystemInv, BudgetInv, TypeOK, JobsInv, Row, Queue!Job
<1>runs. Runs(w, p)
  BY DEF RunCall, JobCompleted, JobFailed, CallFault, ClaimWon, ClaimRefused, BeginCharge,
         EndCharge, Settle, SettleNoop, Rollback, AckLost, Crash, Runs
<1>alone. /\ Queue!Holds(w, p) /\ requests[p] = "answered" /\ payments[p].status # NONE
          /\ \A v \in Workers : Runs(v, p) => v = w
  BY <1>inv, <1>runs, RunMeansAlone DEF PullInv
<1>stay. \A v \in Workers : Runs(v, p)' => v = w
  BY <1>alone, CallsStay DEF TypedInv, JobCompleted, JobFailed
<1>counts. JobsOutlastRows =>
             /\ jobs[p].attemptsMade <= payments[p].attempts
             /\ Spends(w) => jobs[p].attemptsMade < payments[p].attempts
  BY <1>inv, <1>runs, <1>alone DEF PullInv, AttemptsInv, Queue!Holds
<1>1. CASE RunCall(w) /\ ClaimWon(w)
  <2>1. payments'[p] = ClaimedRow(payments[p]) /\ UNCHANGED jobs
    BY <1>1, <1>types DEF ClaimWon, RunCall
  <2>2. /\ payments'[p].status = PROCESSING
        /\ payments'[p].attempts = payments[p].attempts + 1
    BY <1>types, <2>1, RowStatus, RowAttempts
  <2>3. JobsOutlastRows => /\ jobs[p].attemptsMade <= payments'[p].attempts
                           /\ jobs[p].attemptsMade < payments'[p].attempts
    BY <1>types, <1>counts, <2>2
  <2>4. QED
    BY <1>inv, <1>runs, <1>stay, <2>1, <2>2, <2>3, MovePull
    DEF NONE, PENDING, PROCESSING
<1>2. CASE RunCall(w) /\ ClaimRefused(w)
  <2>1. /\ calls'[w].pc = "returned" /\ payments[p].status # PENDING
        /\ UNCHANGED <<payments, jobs>>
    BY <1>2, <1>types DEF ClaimRefused, Claimable, RunCall, Goto, Call
  <2>2. ~Spends(w)'
    BY <2>1 DEF Spends, InFlight
  <2>3. QED
    BY <1>inv, <1>runs, <1>stay, <1>alone, <1>counts, <2>1, <2>2, MovePull
<1>3. CASE RunCall(w) /\ (BeginCharge(w) \/ \E outcome \in Outcome : EndCharge(w, outcome))
  <2>1. /\ calls'[w].pc # "returned" /\ Spends(w) /\ UNCHANGED <<payments, jobs>>
    BY <1>3, <1>types DEF BeginCharge, EndCharge, RunCall, Goto, Call, Spends, InFlight
  <2>2. QED
    BY <1>inv, <1>runs, <1>stay, <1>alone, <1>counts, <2>1, MovePull
<1>4. CASE RunCall(w) /\ Settle(w)
  <2> DEFINE row == SettledRow(payments[p], calls[w].outcome)
  <2>1. payments'[p] = row /\ UNCHANGED jobs /\ Spends(w)
    BY <1>4, <1>types DEF Settle, RunCall, Spends, InFlight
  <2>2. calls'[w].pc = "returned" => row.status # PENDING
    BY <1>4, <1>types DEF Settle, Goto, Call
  <2>3. row.attempts = payments[p].attempts /\ row.status \in {PENDING, FAILED, SUCCESS}
    BY <1>types, RowStatus, RowAttempts
  <2> HIDE DEF row
  <2>4. row.status # NONE
    BY <2>3 DEF NONE, PENDING, FAILED, SUCCESS
  <2>5. QED
    BY <1>inv, <1>runs, <1>stay, <1>counts, <2>1, <2>2, <2>3, <2>4, MovePull
<1>5. CASE RunCall(w) /\ SettleNoop(w)
  <2>1. /\ payments[p].status # PROCESSING /\ InFlight(w) /\ UNCHANGED <<payments, jobs>>
    BY <1>5 DEF SettleNoop, Settleable, RunCall, InFlight
  <2>2. payments[p].status # PENDING
    BY <1>inv, <1>runs, <2>1 DEF OutcomeInv, Spoken, PENDING, SUCCESS, FAILED
  <2>3. Spends(w)
    BY <2>1 DEF Spends
  <2>4. QED
    BY <1>inv, <1>runs, <1>stay, <1>alone, <1>counts, <2>1, <2>2, <2>3, MovePull
<1>6. CASE CallFault(w)
  <2>1. /\ calls'[w].pc = "threw" /\ UNCHANGED <<payments, jobs>> /\ ~JobsOutlastRows
    BY <1>6, <1>types
    DEF CallFault, Fault, CallsComplete, Rollback, Goto, Call, JobsOutlastRows
  <2>2. QED
    BY <1>inv, <1>runs, <1>stay, <1>alone, <2>1, MovePull
<1>idle. ASSUME Finish(w)
         PROVE  \A v \in Workers : ~Runs(v, p)'
  BY <1>idle, <1>stay, <1>types DEF Finish, Idle, Runs
<1>7. CASE JobCompleted(w)
  <2>1. jobs'[p].state = "none" /\ UNCHANGED payments
    BY <1>7, <1>alone, <1>types
    DEF JobCompleted, Finish, Queue!Complete, Queue!Set, Queue!NoJob
  <2>2. payments[p].status \notin {NONE, PENDING}
    BY <1>7, <1>inv, <1>runs DEF JobCompleted, PullInv
  <2>3. QED
    BY <1>7, <1>idle, <2>1, <2>2 DEF JobCompleted, PullInv, AttemptsInv
<1>8. CASE JobFailed(w)
  <2> DEFINE job == Queue!Failure(jobs[p])
  <2>1. jobs'[p] = job /\ UNCHANGED payments /\ Spends(w)
    BY <1>8, <1>alone, <1>types
    DEF JobFailed, Finish, Queue!Fail, Queue!Set, Spends
  <2>2. /\ job.attemptsMade = jobs[p].attemptsMade + 1
        /\ job.state = IF jobs[p].attemptsMade + 1 < JobAttempts THEN "delayed" ELSE "failed"
    BY <1>types DEF Queue!Failure, Queue!Job
  <2>3. p \in failing' \/ LiveJob(job)
    BY <1>8, <1>alone, <1>types, <2>2, PaymentSystemAssumption
    DEF JobFailed, AttemptsSpent, LiveJob
  <2>4. ASSUME JobsOutlastRows
        PROVE  /\ job.attemptsMade <= payments[p].attempts
               /\ job.state = "failed" => payments[p].status # PENDING
    <3>1. job.attemptsMade <= payments[p].attempts
      BY <1>types, <1>counts, <2>1, <2>2, <2>4
    <3>2. ASSUME job.state = "failed"
          PROVE  payments[p].attempts >= MAX_PAYMENT_ATTEMPTS
      BY <1>types, <2>2, <2>4, <3>1, <3>2, PaymentSystemAssumption, PaymentServiceAssumption
      DEF JobsOutlastRows
    <3>3. payments[p].status = PENDING => payments[p].attempts < MAX_PAYMENT_ATTEMPTS
      BY DEF TypedInv, SystemInv, BudgetInv, AttemptsWithinBudget, AttemptsLeft
    <3>4. QED
      BY <1>types, <3>1, <3>2, <3>3, PaymentServiceAssumption
  <2> HIDE DEF job
  <2>5. Finish(w)
    BY <1>8 DEF JobFailed
  <2>6. JobsOutlastRows => AttemptsInv(p)'
    BY <1>idle, <2>1, <2>4, <2>5 DEF AttemptsInv
  <2>7. QED
    BY <1>idle, <1>alone, <2>1, <2>3, <2>5, <2>6 DEF PullInv, JobsOutlastRows
<1>9. QED
  BY <1>1, <1>2, <1>3, <1>4, <1>5, <1>6, <1>7, <1>8 DEF RunCall

(* A job that is taken was waiting, and is counted as before.              *)
LEMMA TakeJobPull ==
  ASSUME TypedInv, LocksInv, CompletionsInv, PullsInv, NEW w \in Workers,
         NEW p \in Payments, TakeJob(w, p)
  PROVE  PullInv(p)'
<1>inv. LockInv(p) /\ CompletionInv(p) /\ PullInv(p)
  BY DEF LocksInv, CompletionsInv, PullsInv
<1>1. jobs[p].state = "waiting" /\ UNCHANGED <<payments, requests>>
  BY DEF TakeJob, StartProcess, Queue!Take
<1>2. jobs'[p].state = "active" /\ jobs'[p].attemptsMade = jobs[p].attemptsMade
  BY DEF TakeJob, Queue!Take, Queue!Set, TypedInv, JobsInv, Queue!Job
<1>3. calls'[w].pc = "claim" /\ \A v \in Workers \ {w} : calls'[v] = calls[v]
  BY DEF TakeJob, StartProcess, Idle, TypedInv, SystemInv, BudgetInv, TypeOK
<1>4. \A v \in Workers : Runs(v, p)' => v = w
  BY <1>inv, <1>1, <1>3, ActiveMeansRun DEF Runs
<1>5. JobsOutlastRows => AttemptsInv(p)'
  BY <1>inv, <1>1, <1>2, <1>3, <1>4 DEF PullInv, AttemptsInv, Spends, InFlight
<1>6. QED
  BY <1>inv, <1>1, <1>2, <1>3, <1>4, <1>5 DEF PullInv, LiveJob, JobsOutlastRows

(* Every step, with no sweep about.                                        *)
LEMMA PullStep ==
  ASSUME CallsComplete, PromptClaims, "request_lost" \notin Faults,
         HandlersAct \/ JobsOutlastRows,
         TypedInv, LocksInv, CompletionsInv, OutcomesInv, PullsInv, [SystemNext]_system
  PROVE  PullsInv'
<1>focus. ASSUME NEW p \in Payments, OnlyTouches(p), PullInv(p)', UNCHANGED process
          PROVE  PullsInv'
  BY <1>focus, QuietPull DEF PullsInv, OnlyTouches
<1>1. ASSUME NEW p \in Payments,
             \/ Initiate(p) \/ EnqueueNew(p) \/ RequestLost(p) \/ OnFailed(p)
             \/ OnFailedLost(p) \/ LockExpires(p) \/ JobTimer(p) \/ ClaimAges(p)
             \/ Callback(p)
      PROVE  PullsInv'
  <2>1. UNCHANGED process
    BY <1>1 DEF Initiate, EnqueueNew, RequestLost, OnFailed, OnFailedLost, LockExpires,
                JobTimer, ClaimAges, Callback
  <2>2. QED
    BY <1>1, <1>focus, <2>1, PaymentStepTouches, PaymentStepPull
<1>2. ASSUME NEW w \in Workers, RunCall(w) \/ JobCompleted(w) \/ JobFailed(w) \/ CallFault(w)
      PROVE  PullsInv'
  <2>1. calls[w].pc # "idle" /\ UNCHANGED process
    BY <1>2 DEF RunCall, JobCompleted, JobFailed, CallFault, ClaimWon, ClaimRefused,
                BeginCharge, EndCharge, Settle, SettleNoop, Rollback, AckLost, Crash
  <2>2. calls[w].payment \in Payments
    BY <2>1, RunsPayment DEF TypedInv
  <2>3. QED
    BY <1>2, <1>focus, <2>1, <2>2, WorkerStepTouches, WorkerStepPull
<1>3. ASSUME NEW w \in Workers, NEW p \in Payments, TakeJob(w, p)
      PROVE  PullsInv'
  BY <1>3, <1>focus, TakeJobCompletion, TakeJobPull DEF TakeJob
<1>4. ASSUME NEW s \in Sweepers, SweepStep(s) \/ SweepCrashes(s)
      PROVE  FALSE
  <2>1. sweeps[s].pc = "idle" /\ findStale = {}
    BY DEF OutcomesInv, OutcomeInv, findStale, IsStale
  <2>2. QED
    BY <1>4, <2>1 DEF SweepStep, SweepBegins, SweepSkips, SweepRecovers, SweepRemoves,
                      SweepEnqueues, SweepCrashes
<1>5. CASE Signal \/ WorkerClosed \/ Exit \/ Start \/ UNCHANGED system
  <2>1. UNCHANGED <<payments, calls, jobs, requests>>
    BY <1>5, ExitIsQuiet DEF Signal, WorkerClosed, Exit, Start, service, system, TypedInv
  <2>2. HandlersAct => UNCHANGED <<process, failing>>
    BY <1>5 DEF Signal, Fault, WorkerClosed, Exit, Start, PullsInv, HandlersAct, system
  <2>3. ASSUME NEW p \in Payments
        PROVE  PullInv(p)'
    <3>1. JobsOutlastRows => AttemptsInv(p)'
      BY <2>1 DEF PullsInv, PullInv, AttemptsInv, Runs, Spends, InFlight
    <3>2. JobsOutlastRows => (p \in failing => payments[p].status # PENDING)
      BY DEF PullsInv, PullInv, AttemptsInv, CompletionsInv, CompletionInv
    <3>3. QED
      BY <2>1, <2>2, <3>1, <3>2 DEF PullsInv, PullInv, Runs, JobsOutlastRows
  <2>4. QED
    BY <2>2, <2>3 DEF PullsInv, HandlersAct
<1>6. QED
  BY <1>1, <1>2, <1>3, <1>4, <1>5 DEF SystemNext

(* A PENDING payment always has something pulling it, if calls complete    *)
(* within STALE_PROCESSING_MS and no request is lost between INSERT and    *)
(* enqueue, in two cases: failed handlers are not lost, neither to an      *)
(* error nor to a shutdown; or each job is given at least as many attempts *)
(* as its row and no claim fails, so that a job only gives up on a payment *)
(* that process() has already failed.                                      *)
THEOREM PendingIsPulled ==
  ASSUME CallsComplete, PromptClaims, "request_lost" \notin Faults,
         HandlersAct \/ JobsOutlastRows
  PROVE  SystemSpec => []NeverStranded
<1>1. LocksAreKept
  BY DEF CallsComplete, LocksAreKept
<1>2. SystemInit => PullsInv
  BY DEF SystemInit, Init, Queue!Init, Queue!NoJob, PullsInv, PullInv, AttemptsInv, Runs,
         Idle, NoRow, NONE, PENDING
<1>3. TypedInv /\ LocksInv /\ CompletionsInv /\ OutcomesInv /\ PullsInv
        /\ [SystemNext]_system => PullsInv'
  BY PullStep
<1>4. PullsInv => NeverStranded
  BY DEF PullsInv, PullInv, NeverStranded, LiveJob, Underway
<1>5. QED
  BY <1>1, <1>2, <1>3, <1>4, TypedInvariant, LocksInvariant, CompletionsInvariant,
     OutcomesInvariant, PTL DEF SystemSpec

=============================================================================
