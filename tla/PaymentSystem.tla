--------------------------- MODULE PaymentSystem ---------------------------
(***************************************************************************)
(* The whole pipeline: API requests insert and enqueue payments, workers   *)
(* take jobs and run process(), the failed handler gives up on them, and   *)
(* the reconciler's sweeps release the payments that a dead worker left in *)
(* PROCESSING.  The engine is PaymentService, the queue RetryQueue; this   *)
(* module says who calls them, and when.                                   *)
(*                                                                         *)
(* Table and queue are two stores: no step writes both.  What can go wrong *)
(* between two steps is a fault; Faults names the kinds of an instance and *)
(* MaxFaults bounds how many of them happen.                               *)
(***************************************************************************)
EXTENDS PaymentService

CONSTANTS
  NoWorker,     \* the lock of a job that nobody runs
  Sweepers,     \* sweeps that can run at once: a process runs one at a time,
                \* so each stands for a process
  JobAttempts,  \* the attempts a job is enqueued with: MAX_PAYMENT_ATTEMPTS as
                \* configured then, which may differ from its value at the INSERT
  MaxStalled,   \* BullMQ's maxStalledCount
  RetryDelays,  \* values of RETRY_BACKOFF_DELAY_MS
  Grain,        \* bound: how finely Math.random() is told apart
  Faults,       \* the kinds of faults that happen
  MaxFaults     \* bound: how many faults happen

FaultKinds ==
  {"request_lost",   \* Redis or the API dies between INSERT and enqueue
   "worker_crash",   \* a job slot dies with its process
   "sweep_crash",    \* a sweep dies or throws
   "claim_error",    \* phase 1 rolls back
   "settle_error",   \* phase 3 rolls back
   "ack_lost",       \* a transaction of process() commits unseen
   "handler_error",  \* the failed handler's failPayment is lost
   "lock_lost",      \* a live worker does not renew its job's lock in time
   "slow_claim",     \* a live worker outlasts STALE_PROCESSING_MS
   "shutdown"}       \* the worker process is told to stop

ASSUME PaymentSystemAssumption ==
  /\ Faults \subseteq FaultKinds
  /\ MaxFaults \in Nat
  /\ JobAttempts \in Nat \ {0}
  /\ MaxStalled \in Nat
  /\ NoWorker \notin Workers
  /\ RetryDelays \subseteq Nat \ {0}
  /\ Grain \in Nat \ {0}
VARIABLES
  jobs,      \* the queue: a job for each payment id
  requests,  \* initiatePayment: the request that created each payment
  sweeps,    \* reconcileStale: the sweep each sweeper is in
  failing,   \* payments whose job died and whose failed handler has yet to act
  process,   \* the state of the worker process, which runs Workers and Sweepers;
             \* where there are several, they are stopped together
  faults     \* faults that happened

service == <<payments, events, calls, charged, confirmed>>
system == <<payments, events, calls, charged, confirmed,
            jobs, requests, sweeps, failing, process, faults>>

Queue == INSTANCE RetryQueue

Fault(kind) == kind \in Faults /\ faults < MaxFaults /\ faults' = faults + 1

(* pc "recover": in the loop over rows; "remove" and "enqueue": row was    *)
(* released.                                                               *)
Sweep == [pc : {"idle", "recover", "remove", "enqueue"},
          rows : SUBSET Payments,
          row : Payments \cup {NoPayment}]

NoSweep == [pc |-> "idle", rows |-> {}, row |-> NoPayment]

(* From the signal on: worker.close() and then reconcileWorker.close() are *)
(* awaited, then the process exits.                                        *)
Process == {"running", "worker.close", "reconcileWorker.close", "exited"}

SystemInit ==
  /\ Init
  /\ Queue!Init
  /\ requests = [p \in Payments |-> "none"]
  /\ sweeps = [s \in Sweepers |-> NoSweep]
  /\ failing = {}
  /\ process = "running"
  /\ faults = 0

----------------------------------------------------------------------------
(* initiatePayment.  A request repeated under the same idempotency key     *)
(* finds the row and returns it, which changes nothing.                    *)

(* A creation that writes over the row it finds. *)
InitiateUpsert(p) ==
  /\ requests[p] # "enqueue"
  /\ payments' = [payments EXCEPT ![p] = NewRow]
  /\ requests' = [requests EXCEPT ![p] = "enqueue"]
  /\ UNCHANGED <<events, calls, charged, confirmed, jobs, sweeps, failing, process, faults>>

Initiate(p) ==
  /\ requests[p] = "none"
  /\ Create(p)
  /\ requests' = [requests EXCEPT ![p] = "enqueue"]
  /\ UNCHANGED <<jobs, sweeps, failing, process, faults>>

EnqueueNew(p) ==
  /\ requests[p] = "enqueue"
  /\ Queue!enqueuePayment(p)
  /\ requests' = [requests EXCEPT ![p] = "answered"]
  /\ UNCHANGED <<service, sweeps, failing, process, faults>>

RequestLost(p) ==
  /\ Fault("request_lost")
  /\ requests[p] = "enqueue"
  /\ requests' = [requests EXCEPT ![p] = "answered"]
  /\ UNCHANGED <<service, jobs, sweeps, failing, process>>

----------------------------------------------------------------------------
(* The payment worker. *)

TakeJob(w, p) ==
  /\ process = "running"
  /\ Queue!Take(w, p)
  /\ StartProcess(w, p)
  /\ UNCHANGED <<requests, sweeps, failing, process, faults>>

(* process() moves on. *)
RunCall(w) ==
  /\ \/ ClaimWon(w)
     \/ ClaimRefused(w)
     \/ BeginCharge(w)
     \/ \E outcome \in Outcome : EndCharge(w, outcome)
     \/ Settle(w)
     \/ SettleNoop(w)
  /\ UNCHANGED <<jobs, requests, sweeps, failing, process, faults>>

JobCompleted(w) ==
  /\ calls[w].pc = "returned"
  /\ Finish(w)
  /\ Queue!Complete(w, calls[w].payment)
  /\ UNCHANGED <<requests, sweeps, failing, process, faults>>

(* A failed handler that gives up one failure too early. *)
AttemptsSpentEarly(job) == Queue!Failure(job).attemptsMade >= JobAttempts - 1

(* One that gives up one failure too late. *)
AttemptsSpentLate(job) == Queue!Failure(job).attemptsMade > JobAttempts

(* The failed handler counts the attempts this failure left. *)
AttemptsSpent(job) == Queue!Failure(job).attemptsMade >= JobAttempts

JobFailed(w) ==
  LET p == calls[w].payment IN
  /\ calls[w].pc = "threw"
  /\ Finish(w)
  /\ Queue!Fail(w, p)
  /\ failing' = IF Queue!Holds(w, p) /\ AttemptsSpent(jobs[p])
                  THEN failing \cup {p} ELSE failing
  /\ UNCHANGED <<requests, sweeps, process, faults>>

(* The handler's transaction; a settled payment is left alone. *)
OnFailed(p) ==
  /\ p \in failing
  /\ \/ FailPayment(p)
     \/ ~canTransition(payments[p].status, FAILED) /\ UNCHANGED service
  /\ failing' = failing \ {p}
  /\ UNCHANGED <<jobs, requests, sweeps, process, faults>>

OnFailedLost(p) ==
  /\ Fault("handler_error")
  /\ p \in failing
  /\ failing' = failing \ {p}
  /\ UNCHANGED <<service, jobs, requests, sweeps, process>>

(* What befalls a call.  A process that dies takes all of its slots, its   *)
(* sweep and its failed handlers along, which is several faults in a row:  *)
(* worker_crash for each slot, sweep_crash, handler_error.                 *)
CallFault(w) ==
  /\ \/ Fault("worker_crash") /\ Crash(w)
     \/ Fault("claim_error") /\ calls[w].pc = "claim" /\ Rollback(w)
     \/ Fault("settle_error") /\ calls[w].pc = "settle" /\ Rollback(w)
     \/ Fault("ack_lost") /\ AckLost(w)
  /\ UNCHANGED <<jobs, requests, sweeps, failing, process>>

----------------------------------------------------------------------------
(* BullMQ's own timers; those on jobs run in its workers. *)

(* A dead holder's lock runs out by itself, a live one renews it. *)
LockExpires(p) ==
  /\ IF \E w \in Workers : jobs[p].lock = w /\ calls[w].payment = p
       THEN Fault("lock_lost") ELSE UNCHANGED faults
  /\ Queue!LockExpires(p)
  /\ UNCHANGED <<service, requests, sweeps, failing, process>>

JobTimer(p) ==
  /\ process = "running"
  /\ \/ Queue!Promote(p) /\ UNCHANGED failing
     \/ Queue!Stalled(p) /\ UNCHANGED failing
     \/ /\ Queue!StalledOut(p)
        /\ failing' = IF AttemptsSpent(jobs[p]) THEN failing \cup {p} ELSE failing
  /\ UNCHANGED <<service, requests, sweeps, process, faults>>

----------------------------------------------------------------------------
(* The reconciler. *)

(* A claim that somebody is still working on. *)
Attended(p) ==
  \E w \in Workers : /\ InFlight(w)
                     /\ calls[w].payment = p
                     /\ calls[w].attempt = payments[p].attempts

(* GATEWAY_TIMEOUT_MS is far below STALE_PROCESSING_MS: a claim that is    *)
(* attended only grows stale when its worker is held up.                   *)
ClaimAges(p) ==
  /\ IF Attended(p) THEN Fault("slow_claim") ELSE UNCHANGED faults
  /\ BecomeStale(p)
  /\ UNCHANGED <<jobs, requests, sweeps, failing, process>>

(* A cutoff that is not compared. *)
findProcessing == {p \in Payments : payments[p].status = PROCESSING}

findStale ==
  {p \in Payments : /\ payments[p].status = PROCESSING
                    /\ payments[p].processing_started_at = "stale"}

(* A sweep that finds nothing changes nothing. *)
SweepBegins(s) ==
  /\ process \in {"running", "worker.close"}
  /\ sweeps[s].pc = "idle"
  /\ findStale # {}
  /\ sweeps' = [sweeps EXCEPT ![s] = [NoSweep EXCEPT !.pc = "recover",
                                                     !.rows = findStale]]
  /\ UNCHANGED <<service, jobs, requests, failing, process, faults>>

(* The loop is done with p. *)
NextRow(s, p) ==
  LET rows == sweeps[s].rows \ {p} IN
  sweeps' = [sweeps EXCEPT ![s] = IF rows = {} THEN NoSweep
                                    ELSE [NoSweep EXCEPT !.pc = "recover",
                                                         !.rows = rows]]

SweepSkips(s, p) ==
  /\ sweeps[s].pc = "recover" /\ p \in sweeps[s].rows
  /\ payments[p].status # PROCESSING
  /\ NextRow(s, p)
  /\ UNCHANGED <<service, jobs, requests, failing, process, faults>>

SweepRecovers(s, p) ==
  /\ sweeps[s].pc = "recover" /\ p \in sweeps[s].rows
  /\ RecoverStale(p)
  /\ IF payments'[p].status = PENDING
       THEN sweeps' = [sweeps EXCEPT ![s].pc = "remove", ![s].row = p]
       ELSE NextRow(s, p)
  /\ UNCHANGED <<jobs, requests, failing, process, faults>>

SweepRemoves(s) ==
  /\ sweeps[s].pc = "remove"
  /\ Queue!remove(sweeps[s].row)
  /\ sweeps' = [sweeps EXCEPT ![s].pc = "enqueue"]
  /\ UNCHANGED <<service, requests, failing, process, faults>>

SweepEnqueues(s) ==
  /\ sweeps[s].pc = "enqueue"
  /\ Queue!enqueuePayment(sweeps[s].row)
  /\ NextRow(s, sweeps[s].row)
  /\ UNCHANGED <<service, requests, failing, process, faults>>

SweepCrashes(s) ==
  /\ Fault("sweep_crash")
  /\ sweeps[s].pc # "idle"
  /\ sweeps' = [sweeps EXCEPT ![s] = NoSweep]
  /\ UNCHANGED <<service, jobs, requests, failing, process>>

Callback(p) ==
  /\ \E e \in Events, target \in {SUCCESS, FAILED} : handleWebhook(e, p, target)
  /\ UNCHANGED <<jobs, requests, sweeps, failing, process, faults>>

----------------------------------------------------------------------------
(* The worker process: shutdown, and the start that follows. *)

Signal ==
  /\ Fault("shutdown")
  /\ process = "running"
  /\ process' = "worker.close"
  /\ UNCHANGED <<service, jobs, requests, sweeps, failing>>

(* A worker.close() that nobody awaits. *)
WorkerCloseForced ==
  /\ process = "worker.close"
  /\ process' = "reconcileWorker.close"
  /\ UNCHANGED <<service, jobs, requests, sweeps, failing, faults>>

(* A shutdown that waits for the queue to be empty. *)
WorkerCloseDrained ==
  /\ process = "worker.close"
  /\ \A p \in Payments : jobs[p].state = "none"
  /\ process' = "reconcileWorker.close"
  /\ UNCHANGED <<service, jobs, requests, sweeps, failing, faults>>

(* The jobs in progress have ended, their failed handlers perhaps not. *)
WorkerClosed ==
  /\ process = "worker.close"
  /\ \A w \in Workers : calls[w].pc = "idle"
  /\ process' = "reconcileWorker.close"
  /\ UNCHANGED <<service, jobs, requests, sweeps, failing, faults>>

(* process.exit: whatever is still running dies. *)
Exit ==
  /\ process = "reconcileWorker.close"
  /\ \A s \in Sweepers : sweeps[s].pc = "idle"
  /\ process' = "exited"
  /\ calls' = [w \in Workers |-> Idle]
  /\ sweeps' = [s \in Sweepers |-> NoSweep]
  /\ failing' = {}
  /\ UNCHANGED <<payments, events, charged, confirmed, jobs, requests, faults>>

Start ==
  /\ process = "exited"
  /\ process' = "running"
  /\ UNCHANGED <<service, jobs, requests, sweeps, failing, faults>>

----------------------------------------------------------------------------
SweepStep(s) ==
  \/ SweepBegins(s)
  \/ \E p \in Payments : SweepSkips(s, p) \/ SweepRecovers(s, p)
  \/ SweepRemoves(s)
  \/ SweepEnqueues(s)

SystemNext ==
  \/ \E p \in Payments :
       \/ Initiate(p)
       \/ EnqueueNew(p)
       \/ RequestLost(p)
       \/ OnFailed(p)
       \/ OnFailedLost(p)
       \/ LockExpires(p)
       \/ JobTimer(p)
       \/ ClaimAges(p)
       \/ Callback(p)
  \/ \E w \in Workers :
       \/ \E p \in Payments : TakeJob(w, p)
       \/ RunCall(w)
       \/ JobCompleted(w)
       \/ JobFailed(w)
       \/ CallFault(w)
  \/ \E s \in Sweepers : SweepStep(s) \/ SweepCrashes(s)
  \/ Signal \/ WorkerClosed \/ Exit \/ Start

SystemSpec == SystemInit /\ [][SystemNext]_system

(* Requests, calls and sweeps that are running go on; timers fire; BullMQ  *)
(* hands out waiting jobs in their order, so none waits forever (SF); a    *)
(* process that is closing goes on with it, and one that has exited is     *)
(* started again.                                                          *)
(* Nothing makes a request, a callback or a fault happen.                  *)
Fairness ==
  /\ \A p \in Payments :
       /\ WF_system(EnqueueNew(p))
       /\ WF_system(OnFailed(p))
       /\ WF_system(LockExpires(p) /\ UNCHANGED faults)
       /\ WF_system(JobTimer(p))
       /\ WF_system(ClaimAges(p) /\ UNCHANGED faults)
       /\ SF_system(\E w \in Workers : TakeJob(w, p))
  /\ \A w \in Workers : WF_system(RunCall(w) \/ JobCompleted(w) \/ JobFailed(w))
  /\ \A s \in Sweepers : WF_system(SweepStep(s))
  /\ WF_system(WorkerClosed \/ Exit \/ Start)

FairSystemSpec == SystemSpec /\ Fairness

----------------------------------------------------------------------------
SystemTypeOK ==
  /\ TypeOK
  /\ jobs \in [Payments -> Queue!Job]
  /\ requests \in [Payments -> {"none", "enqueue", "answered"}]
  /\ sweeps \in [Sweepers -> Sweep]
  /\ failing \subseteq Payments
  /\ process \in Process
  /\ faults \in 0..MaxFaults

(* Properties. *)

(* Somebody is on the way to put p into the queue, or to give it up. *)
Underway(p) ==
  \/ requests[p] = "enqueue"
  \/ p \in failing
  \/ \E s \in Sweepers : sweeps[s].pc \in {"remove", "enqueue"} /\ sweeps[s].row = p

(* A PENDING payment always has something pulling it: a job that can still *)
(* run, or somebody about to enqueue it or to fail it.  The sweep only     *)
(* looks at PROCESSING rows, so a PENDING one without a job stays so.      *)
NeverStranded ==
  \A p \in Payments :
    payments[p].status = PENDING =>
      \/ jobs[p].state \in {"waiting", "delayed", "active"}
      \/ Underway(p)

(* At any time at most one worker is between its claim and its settle of a *)
(* payment: "exactly one worker processes a payment".                      *)
ExclusiveProcessing ==
  \A v, w \in Workers :
    InFlight(v) /\ InFlight(w) /\ calls[v].payment = calls[w].payment => v = w

(* A payment that the gateway has confirmed is not FAILED, unless a        *)
(* callback of the provider said so.                                       *)
ConfirmedNotFailed ==
  \A p \in confirmed :
    payments[p].status = FAILED =>
      \E e \in Events : events[e].payment = p /\ events[e].status = "processed"

(* The failed handler is the last word on a job: when it fails a payment,  *)
(* no worker is processing that payment.                                   *)
GivesUpOnlyIdle ==
  [][\A p \in Payments :
       OnFailed(p) /\ payments[p].status = PROCESSING =>
         \A w \in Workers : InFlight(w) => calls[w].payment # p]_system

(* Recovery only touches claims that are older than STALE_PROCESSING_MS.   *)
OnlyStaleRecovered ==
  [][\A s \in Sweepers, p \in Payments :
       SweepRecovers(s, p) => payments[p].processing_started_at = "stale"]_system

(* "await worker.close()", "await reconcileWorker.close()": process.exit   *)
(* kills no call and no sweep, so that an orderly shutdown abandons no     *)
(* claim and no release half way, whatever was begun while it closed.      *)
ExitKillsNothing == [][Exit => UNCHANGED <<calls, sweeps>>]_system

(* The retries of a job come at growing intervals, whatever the jitter of  *)
(* each: the longest delay after one failure stays below the shortest      *)
(* after the next.                                                         *)
DelaysGrow ==
  [][\A p \in Payments :
       jobs[p].attemptsMade > 0 /\ jobs'[p].attemptsMade > jobs[p].attemptsMade =>
         \A base \in RetryDelays :
           \A d \in Queue!backoffStrategy(base, jobs[p].attemptsMade),
              e \in Queue!backoffStrategy(base, jobs'[p].attemptsMade) : d < e]_system

(* The pipeline does to payments what the engine allows, and no more: all  *)
(* safety properties of PaymentService hold of it.                         *)
ImplementsService == Spec

(* Every payment that was created is settled in the end. *)
EventuallySettled ==
  \A p \in Payments : Exists(p) ~> isTerminal(payments[p].status)

(* No payment stays PROCESSING forever: whatever became of its worker, it  *)
(* is settled or released.                                                 *)
ClaimsResolve ==
  \A p \in Payments :
    payments[p].status = PROCESSING ~> payments[p].status # PROCESSING

(* A shutdown comes to its end: no job and no sweep in progress can hold   *)
(* it up for ever.                                                         *)
ShutdownEnds == process = "worker.close" ~> process = "exited"

=============================================================================
