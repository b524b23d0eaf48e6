------------------------ MODULE PaymentSystemProofs ------------------------
(***************************************************************************)
(* Machine-checked proofs about PaymentSystem, for any number of payments, *)
(* workers, sweeps, callbacks and faults, and any budgets of attempts:     *)
(* types, the implementation of PaymentService, with the engine's safety   *)
(* properties that follow, and what a shutdown may not kill.               *)
(***************************************************************************)
EXTENDS PaymentSystem, PaymentServiceProofs

(* What is idle holds nothing, and a process whose workers have closed     *)
(* runs no call.                                                           *)
ProcessInv ==
  /\ sweeps \in [Sweepers -> Sweep]
  /\ process \in Process
  /\ \A w \in Workers : calls[w].pc = "idle" => calls[w] = Idle
  /\ \A s \in Sweepers : sweeps[s].pc = "idle" => sweeps[s] = NoSweep
  /\ process \in {"reconcileWorker.close", "exited"} =>
       \A w \in Workers : calls[w].pc = "idle"

SystemInv == BudgetInv /\ ProcessInv

(* A process that exits has nothing left to kill: its step is a stutter of *)
(* the calls and the sweeps.                                               *)
LEMMA ExitIsQuiet ==
  ASSUME SystemInv, Exit
  PROVE  UNCHANGED <<calls, sweeps>>
<1>1. calls' = calls
  BY DEF SystemInv, ProcessInv, BudgetInv, TypeOK, Exit
<1>2. sweeps' = sweeps
  BY DEF SystemInv, ProcessInv, Exit
<1>3. QED
  BY <1>1, <1>2

----------------------------------------------------------------------------
(* Every step of the pipeline is a step of the engine, or none.            *)

(* The steps that the queue, requests and callbacks take.                  *)
LEMMA PaymentStepImplements ==
  ASSUME NEW p \in Payments,
         \/ Initiate(p) \/ EnqueueNew(p) \/ RequestLost(p) \/ OnFailed(p)
         \/ OnFailedLost(p) \/ LockExpires(p) \/ JobTimer(p) \/ ClaimAges(p)
         \/ Callback(p)
  PROVE  [Next]_vars
<1>1. CASE EnqueueNew(p) \/ RequestLost(p) \/ OnFailedLost(p) \/ LockExpires(p) \/ JobTimer(p)
  BY <1>1 DEF EnqueueNew, RequestLost, OnFailedLost, LockExpires, JobTimer, service, vars
<1>2. CASE Initiate(p)
  BY <1>2 DEF Initiate, Next, PaymentStep
<1>3. CASE OnFailed(p)
  BY <1>3 DEF OnFailed, Next, PaymentStep, service, vars
<1>4. CASE ClaimAges(p)
  BY <1>4 DEF ClaimAges, Next, PaymentStep
<1>5. CASE Callback(p)
  BY <1>5 DEF Callback, Next, PaymentStep
<1>6. QED
  BY <1>1, <1>2, <1>3, <1>4, <1>5

(* The steps of calls: process() itself, its job and its faults.           *)
LEMMA CallStepImplements ==
  ASSUME NEW w \in Workers,
         \/ \E p \in Payments : TakeJob(w, p)
         \/ RunCall(w) \/ JobCompleted(w) \/ JobFailed(w) \/ CallFault(w)
  PROVE  WorkerStep(w)
BY DEF TakeJob, RunCall, JobCompleted, JobFailed, CallFault, WorkerStep

(* The steps of sweeps: only a recovery is seen in the table.              *)
LEMMA SweepStepImplements ==
  ASSUME NEW s \in Sweepers, SweepStep(s) \/ SweepCrashes(s)
  PROVE  [Next]_vars
<1>1. CASE \E p \in Payments : SweepRecovers(s, p)
  BY <1>1 DEF SweepRecovers, Next, PaymentStep
<1>2. CASE \/ \E p \in Payments : SweepSkips(s, p)
           \/ SweepBegins(s) \/ SweepRemoves(s) \/ SweepEnqueues(s) \/ SweepCrashes(s)
  BY <1>2 DEF SweepSkips, SweepBegins, SweepRemoves, SweepEnqueues, SweepCrashes,
              service, vars
<1>3. QED
  BY <1>1, <1>2 DEF SweepStep

(* Every step of the pipeline is one of the engine, or invisible to it.    *)
LEMMA StepImplements ==
  ASSUME SystemInv, [SystemNext]_system
  PROVE  [Next]_vars
<1>1. CASE Signal \/ WorkerClosed \/ Start
  BY <1>1 DEF Signal, WorkerClosed, Start, service, vars
<1>2. CASE Exit
  BY <1>2, ExitIsQuiet DEF Exit, vars
<1>3. CASE UNCHANGED system
  BY <1>3 DEF system, vars
<1>4. ASSUME NEW w \in Workers, WorkerStep(w)
      PROVE  Next
  BY <1>4 DEF Next
<1>5. QED
  BY <1>1, <1>2, <1>3, <1>4, PaymentStepImplements, CallStepImplements, SweepStepImplements
  DEF SystemNext
----------------------------------------------------------------------------
(* The process.                                                            *)

(* One call moves: one that is idle again holds nothing, and one is only   *)
(* started while the process runs.                                         *)
LEMMA CallMoves ==
  ASSUME SystemInv, NEW w \in Workers, NEW call,
         calls' = [calls EXCEPT ![w] = call],
         call.pc = "idle" => call = Idle,
         call.pc # "idle" => calls[w].pc # "idle" \/ process = "running",
         UNCHANGED <<sweeps, process>>
  PROVE  ProcessInv'
BY DEF SystemInv, BudgetInv, TypeOK, ProcessInv, Process

(* A call that moves on is still a call of its process.                    *)
LEMMA GotoKeepsProcess ==
  ASSUME SystemInv, NEW w \in Workers, calls[w].pc # "idle",
         NEW pc \in {"charging", "settle", "returned", "threw"},
         Goto(w, pc), UNCHANGED <<sweeps, process>>
  PROVE  ProcessInv'
<1> DEFINE call == [calls[w] EXCEPT !.pc = pc]
<1>1. call.pc = pc
  BY DEF SystemInv, BudgetInv, TypeOK, Call
<1>2. calls' = [calls EXCEPT ![w] = call]
  BY DEF Goto
<1> HIDE DEF call
<1>3. QED
  BY <1>1, <1>2, CallMoves

(* Every step of a worker keeps ProcessInv.                                *)
LEMMA CallStepKeepsProcess ==
  ASSUME SystemInv, NEW w \in Workers,
         \/ \E p \in Payments : TakeJob(w, p)
         \/ RunCall(w) \/ JobCompleted(w) \/ JobFailed(w) \/ CallFault(w)
  PROVE  ProcessInv'
<1>1. UNCHANGED <<sweeps, process>>
  BY DEF TakeJob, RunCall, JobCompleted, JobFailed, CallFault
<1>2. ASSUME NEW p \in Payments, TakeJob(w, p)
      PROVE  ProcessInv'
  BY <1>1, <1>2, CallMoves DEF TakeJob, StartProcess, Idle
<1>3. CASE \/ ClaimRefused(w) \/ BeginCharge(w) \/ Settle(w) \/ SettleNoop(w)
           \/ Rollback(w) \/ AckLost(w)
  <2>1. \E pc \in {"charging", "settle", "returned", "threw"} :
          Goto(w, pc) /\ calls[w].pc # "idle"
    BY <1>3 DEF ClaimRefused, BeginCharge, Settle, SettleNoop, Rollback, AckLost
  <2>2. QED
    BY <1>1, <2>1, GotoKeepsProcess
<1>4. CASE ClaimWon(w)
  <2> DEFINE call == [calls[w] EXCEPT !.pc = "charge",
                                      !.attempt = payments[calls[w].payment].attempts + 1]
  <2>1. call.pc = "charge" /\ calls[w].pc = "claim"
    BY <1>4 DEF ClaimWon, SystemInv, BudgetInv, TypeOK, Call
  <2>2. calls' = [calls EXCEPT ![w] = call]
    BY <1>4 DEF ClaimWon
  <2> HIDE DEF call
  <2>3. QED
    BY <1>1, <2>1, <2>2, CallMoves
<1>5. ASSUME NEW outcome \in Outcome, EndCharge(w, outcome)
      PROVE  ProcessInv'
  <2> DEFINE call == [calls[w] EXCEPT !.pc = "settle", !.outcome = outcome]
  <2>1. call.pc = "settle" /\ calls[w].pc = "charging"
    BY <1>5 DEF EndCharge, SystemInv, BudgetInv, TypeOK, Call
  <2>2. calls' = [calls EXCEPT ![w] = call]
    BY <1>5 DEF EndCharge
  <2> HIDE DEF call
  <2>3. QED
    BY <1>1, <2>1, <2>2, CallMoves
<1>6. CASE Finish(w) \/ Crash(w)
  BY <1>1, <1>6, CallMoves DEF Finish, Crash, Idle
<1>7. QED
  BY <1>2, <1>3, <1>4, <1>5, <1>6
  DEF RunCall, JobCompleted, JobFailed, CallFault

(* A sweep that is done is back at NoSweep.                                *)
LEMMA NextRowKeepsSweeps ==
  ASSUME SystemInv, NEW s \in Sweepers, NEW p, sweeps[s].pc # "idle", NextRow(s, p)
  PROVE  /\ sweeps' \in [Sweepers -> Sweep]
         /\ \A z \in Sweepers : sweeps'[z].pc = "idle" => sweeps'[z] = NoSweep
<1> DEFINE rows == sweeps[s].rows \ {p}
           sweep == IF rows = {} THEN NoSweep
                      ELSE [NoSweep EXCEPT !.pc = "recover", !.rows = rows]
<1>1. sweep \in Sweep /\ (sweep.pc = "idle" => sweep = NoSweep)
  BY DEF SystemInv, ProcessInv, Sweep, NoSweep
<1>2. sweeps' = [sweeps EXCEPT ![s] = sweep]
  BY DEF NextRow
<1> HIDE DEF sweep
<1>3. QED
  BY <1>1, <1>2 DEF SystemInv, ProcessInv

(* Every step of a sweep keeps ProcessInv.                                 *)
LEMMA SweepStepKeepsProcess ==
  ASSUME SystemInv, NEW s \in Sweepers, SweepStep(s) \/ SweepCrashes(s)
  PROVE  ProcessInv'
<1>1. UNCHANGED <<calls, process>>
  BY DEF SweepStep, SweepBegins, SweepSkips, SweepRecovers, SweepRemoves,
         SweepEnqueues, SweepCrashes, RecoverStale, service
<1>2. SUFFICES
        /\ sweeps' \in [Sweepers -> Sweep]
        /\ \A z \in Sweepers : sweeps'[z].pc = "idle" => sweeps'[z] = NoSweep
  BY <1>1 DEF SystemInv, ProcessInv
<1>3. CASE SweepBegins(s)
  <2> DEFINE sweep == [NoSweep EXCEPT !.pc = "recover", !.rows = findStale]
  <2>1. sweep \in Sweep /\ sweep.pc # "idle"
    BY DEF Sweep, NoSweep, findStale
  <2>2. sweeps' = [sweeps EXCEPT ![s] = sweep]
    BY <1>3 DEF SweepBegins
  <2> HIDE DEF sweep
  <2>3. QED
    BY <2>1, <2>2 DEF SystemInv, ProcessInv
<1>4. CASE \E p \in Payments : SweepSkips(s, p)
  BY <1>4, NextRowKeepsSweeps DEF SweepSkips
<1>5. ASSUME NEW p \in Payments, SweepRecovers(s, p)
      PROVE  <1>2!1
  <2>1. CASE NextRow(s, p)
    BY <1>5, <2>1, NextRowKeepsSweeps DEF SweepRecovers
  <2>2. CASE ~NextRow(s, p)
    <3> DEFINE sweep == [sweeps[s] EXCEPT !.pc = "remove", !.row = p]
    <3>1. sweep \in Sweep /\ sweep.pc # "idle"
      BY DEF SystemInv, ProcessInv, Sweep
    <3>2. sweeps' = [sweeps EXCEPT ![s] = sweep]
      BY <1>5, <2>2 DEF SweepRecovers
    <3> HIDE DEF sweep
    <3>3. QED
      BY <3>1, <3>2 DEF SystemInv, ProcessInv
  <2>3. QED
    BY <2>1, <2>2
<1>6. CASE SweepRemoves(s)
  <2> DEFINE sweep == [sweeps[s] EXCEPT !.pc = "enqueue"]
  <2>1. sweep \in Sweep /\ sweep.pc # "idle"
    BY DEF SystemInv, ProcessInv, Sweep
  <2>2. sweeps' = [sweeps EXCEPT ![s] = sweep]
    BY <1>6 DEF SweepRemoves
  <2> HIDE DEF sweep
  <2>3. QED
    BY <2>1, <2>2 DEF SystemInv, ProcessInv
<1>7. CASE SweepEnqueues(s)
  BY <1>7, NextRowKeepsSweeps DEF SweepEnqueues
<1>8. CASE SweepCrashes(s)
  BY <1>8 DEF SweepCrashes, SystemInv, ProcessInv, Sweep, NoSweep
<1>9. QED
  BY <1>3, <1>4, <1>5, <1>6, <1>7, <1>8 DEF SweepStep

(* Every step of the pipeline keeps ProcessInv.                            *)
LEMMA StepKeepsProcess ==
  ASSUME SystemInv, [SystemNext]_system
  PROVE  ProcessInv'
<1>1. CASE Signal \/ Start
  BY <1>1 DEF Signal, Start, SystemInv, ProcessInv, Process, service
<1>2. CASE WorkerClosed
  BY <1>2 DEF WorkerClosed, SystemInv, ProcessInv, Process, service
<1>3. CASE Exit
  <2>1. UNCHANGED <<calls, sweeps>>
    BY <1>3, ExitIsQuiet
  <2>2. QED
    BY <1>3, <2>1 DEF Exit, SystemInv, ProcessInv, Process
<1>4. CASE UNCHANGED <<calls, sweeps, process>>
  BY <1>4 DEF SystemInv, ProcessInv
<1>5. ASSUME NEW p \in Payments,
             \/ Initiate(p) \/ EnqueueNew(p) \/ RequestLost(p) \/ OnFailed(p)
             \/ OnFailedLost(p) \/ LockExpires(p) \/ JobTimer(p) \/ ClaimAges(p)
             \/ Callback(p)
      PROVE  ProcessInv'
  <2>1. UNCHANGED <<calls, sweeps, process>>
    BY <1>5 DEF Initiate, Create, EnqueueNew, RequestLost, OnFailed, FailPayment,
                OnFailedLost, LockExpires, JobTimer, ClaimAges, BecomeStale, Callback,
                handleWebhook, WebhookApplied, WebhookIgnored, service
  <2>2. QED
    BY <1>4, <2>1
<1>6. QED
  BY <1>1, <1>2, <1>3, <1>4, <1>5, CallStepKeepsProcess, SweepStepKeepsProcess
  DEF SystemNext, system

(* The engine's budget and the process's bookkeeping, together: the first  *)
(* needs every step to be one of the engine's, which for an exit is so     *)
(* because of the second.                                                  *)
LEMMA SystemInvariant == SystemSpec => []SystemInv
<1>1. SystemInit => SystemInv
  <2>1. SystemInit => BudgetInv
    BY BudgetInit DEF SystemInit
  <2>2. SystemInit => ProcessInv
    BY DEF SystemInit, Init, ProcessInv, Process, Sweep, NoSweep, Idle
  <2>3. QED
    BY <2>1, <2>2 DEF SystemInv
<1>2. SystemInv /\ [SystemNext]_system => SystemInv'
  <2> SUFFICES ASSUME SystemInv, [SystemNext]_system
               PROVE  SystemInv'
    OBVIOUS
  <2>1. BudgetInv'
    BY StepImplements, BudgetStep DEF SystemInv
  <2>2. QED
    BY <2>1, StepKeepsProcess DEF SystemInv
<1>3. QED
  BY <1>1, <1>2, PTL DEF SystemSpec

(* The pipeline does to payments what the engine allows, and no more: its  *)
(* queue, sweeps, handlers, faults and shutdowns only choose among the     *)
(* engine's steps.                                                         *)
THEOREM SystemImplementsService == SystemSpec => ImplementsService
<1>1. SystemInit => Init
  BY DEF SystemInit
<1>2. SystemInv /\ [SystemNext]_system => [Next]_vars
  BY StepImplements
<1>3. QED
  BY <1>1, <1>2, SystemInvariant, PTL DEF SystemSpec, Spec, ImplementsService

(* All that is proved of the engine holds of the pipeline, under every     *)
(* fault it models: the budget of attempts, one charge for each, success   *)
(* on the provider's word only, callbacks that decide or come too late,    *)
(* claims that a sweep can find, settled rows that stay, and the lifecycle *)
(* of a payment.                                                           *)
THEOREM PipelineIsSafe ==
  SystemSpec =>
    /\ []AttemptsWithinBudget
    /\ []OneChargePerAttempt
    /\ []NoFalseSuccess
    /\ []ProcessedEventDecides
    /\ []IgnoredEventIsMoot
    /\ []SweepableClaims
    /\ TerminalRowsFrozen
    /\ ImplementsLifecycle
<1>1. SystemSpec => Spec
  BY SystemImplementsService DEF ImplementsService
<1>2. Spec => []AttemptsWithinBudget /\ []OneChargePerAttempt /\ []NoFalseSuccess
  BY WithinBudget, ChargedOnce, SuccessIsReported
<1>3. Spec => []ProcessedEventDecides /\ []IgnoredEventIsMoot /\ []SweepableClaims
  BY CallbackDecides, IgnoredCallbackIsMoot, ClaimsAreSweepable
<1>4. Spec => TerminalRowsFrozen /\ ImplementsLifecycle
  BY SettledRowsFrozen, EngineImplementsLifecycle
<1>5. QED
  BY <1>1, <1>2, <1>3, <1>4

(* process.exit, after both close() calls, kills no call and no sweep,     *)
(* whatever was begun while they were awaited.                             *)
THEOREM ShutdownIsOrderly == SystemSpec => ExitKillsNothing
<1>1. SystemInv /\ [SystemNext]_system => [Exit => UNCHANGED <<calls, sweeps>>]_system
  BY ExitIsQuiet
<1>2. QED
  BY <1>1, SystemInvariant, PTL DEF SystemSpec, ExitKillsNothing
----------------------------------------------------------------------------
(* Types of the queue and of those who use it.                             *)

(* A job that can still run has attempts left.                             *)
LiveJob(job) == job.state \in {"waiting", "delayed", "active"}

JobsInv ==
  /\ jobs \in [Payments -> Queue!Job]
  /\ \A p \in Payments : LiveJob(jobs[p]) => jobs[p].attemptsMade < JobAttempts

(* A job is replaced by one that has attempts left, if it is to run.       *)
LEMMA SetKeepsJobs ==
  ASSUME JobsInv, NEW p, NEW job, Queue!Set(p, job),
         p \in Payments => /\ job \in Queue!Job
                           /\ LiveJob(job) => job.attemptsMade < JobAttempts
  PROVE  JobsInv'
BY DEF JobsInv, Queue!Set

(* The jobs that the operations of the queue put in a job's place.         *)
LEMMA JobTypes ==
  ASSUME NEW job \in Queue!Job, LiveJob(job) => job.attemptsMade < JobAttempts
  PROVE  /\ Queue!NoJob \in Queue!Job /\ ~LiveJob(Queue!NoJob)
         /\ LET new == [Queue!NoJob EXCEPT !.state = "waiting"] IN
            new \in Queue!Job /\ new.attemptsMade < JobAttempts
         /\ \A w \in Workers :
              LET taken == [job EXCEPT !.state = "active", !.lock = w] IN
              job.state = "waiting" =>
                taken \in Queue!Job /\ taken.attemptsMade < JobAttempts
         /\ job.state = "active" =>
              LET failed == Queue!Failure(job) IN
              failed \in Queue!Job /\ (LiveJob(failed) => failed.attemptsMade < JobAttempts)
         /\ LET promoted == [job EXCEPT !.state = "waiting"] IN
            job.state = "delayed" =>
              promoted \in Queue!Job /\ promoted.attemptsMade < JobAttempts
         /\ LET freed == [job EXCEPT !.lock = NoWorker] IN
            freed \in Queue!Job /\ (LiveJob(freed) => freed.attemptsMade < JobAttempts)
         /\ LET stalled == [job EXCEPT !.state = "waiting", !.stalled = @ + 1] IN
            job.state = "active" /\ job.stalled < MaxStalled =>
              stalled \in Queue!Job /\ stalled.attemptsMade < JobAttempts
         /\ LET out == [job EXCEPT !.state = "failed", !.attemptsMade = @ + 1] IN
            job.state = "active" => out \in Queue!Job /\ ~LiveJob(out)
<1> USE PaymentSystemAssumption DEF Queue!Job, LiveJob
<1>1. /\ Queue!NoJob \in Queue!Job /\ ~LiveJob(Queue!NoJob)
      /\ LET new == [Queue!NoJob EXCEPT !.state = "waiting"] IN
         new \in Queue!Job /\ new.attemptsMade < JobAttempts
  BY DEF Queue!NoJob
<1>2. ASSUME NEW w \in Workers, job.state = "waiting"
      PROVE  LET taken == [job EXCEPT !.state = "active", !.lock = w] IN
             taken \in Queue!Job /\ taken.attemptsMade < JobAttempts
  BY <1>2
<1>3. ASSUME job.state = "active"
      PROVE  LET failed == Queue!Failure(job) IN
             failed \in Queue!Job /\ (LiveJob(failed) => failed.attemptsMade < JobAttempts)
  <2>1. job.attemptsMade + 1 \in 0..JobAttempts
    BY <1>3
  <2>2. CASE job.attemptsMade + 1 < JobAttempts
    BY <2>1, <2>2 DEF Queue!Failure
  <2>3. CASE ~(job.attemptsMade + 1 < JobAttempts)
    BY <2>1, <2>3 DEF Queue!Failure
  <2>4. QED
    BY <2>2, <2>3
<1>4. ASSUME job.state = "delayed"
      PROVE  LET promoted == [job EXCEPT !.state = "waiting"] IN
             promoted \in Queue!Job /\ promoted.attemptsMade < JobAttempts
  BY <1>4
<1>5. LET freed == [job EXCEPT !.lock = NoWorker] IN
      freed \in Queue!Job /\ (LiveJob(freed) => freed.attemptsMade < JobAttempts)
  OBVIOUS
<1>6. ASSUME job.state = "active", job.stalled < MaxStalled
      PROVE  LET stalled == [job EXCEPT !.state = "waiting", !.stalled = @ + 1] IN
             stalled \in Queue!Job /\ stalled.attemptsMade < JobAttempts
  <2>1. job.stalled + 1 \in 0..MaxStalled
    BY <1>6
  <2>2. QED
    BY <1>6, <2>1
<1>7. ASSUME job.state = "active"
      PROVE  LET out == [job EXCEPT !.state = "failed", !.attemptsMade = @ + 1] IN
             out \in Queue!Job /\ ~LiveJob(out)
  <2>1. job.attemptsMade + 1 \in 0..JobAttempts
    BY <1>7
  <2>2. QED
    BY <1>7, <2>1
<1>8. QED
  BY <1>1, <1>2, <1>3, <1>4, <1>5, <1>6, <1>7

(* The queue's operations.                                                 *)
LEMMA QueueKeepsJobs ==
  ASSUME JobsInv
  PROVE  /\ \A p : Queue!enqueuePayment(p) => JobsInv'
         /\ \A p : Queue!remove(p) => JobsInv'
         /\ \A w \in Workers, p \in Payments :
              \/ Queue!Take(w, p) \/ Queue!Complete(w, p) \/ Queue!Fail(w, p)
              => JobsInv'
         /\ \A p \in Payments :
              \/ Queue!LockExpires(p) \/ Queue!Promote(p)
              \/ Queue!Stalled(p) \/ Queue!StalledOut(p)
              => JobsInv'
<1>1. UNCHANGED jobs => JobsInv'
  BY DEF JobsInv
<1>2. \A p \in Payments :
        jobs[p] \in Queue!Job /\ (LiveJob(jobs[p]) => jobs[p].attemptsMade < JobAttempts)
  BY DEF JobsInv
<1>3. ASSUME NEW p, Queue!enqueuePayment(p) PROVE JobsInv'
  <2> DEFINE new == [Queue!NoJob EXCEPT !.state = "waiting"]
  <2>1. p \in Payments => new \in Queue!Job /\ new.attemptsMade < JobAttempts
    BY <1>2, JobTypes
  <2>2. UNCHANGED jobs \/ Queue!Set(p, new)
    BY <1>3 DEF Queue!enqueuePayment
  <2> HIDE DEF new
  <2>3. QED
    BY <1>1, <2>1, <2>2, SetKeepsJobs
<1>4. ASSUME NEW p, Queue!remove(p) PROVE JobsInv'
  <2>1. p \in Payments => Queue!NoJob \in Queue!Job /\ ~LiveJob(Queue!NoJob)
    BY <1>2, JobTypes
  <2>2. UNCHANGED jobs \/ Queue!Set(p, Queue!NoJob)
    BY <1>4 DEF Queue!remove
  <2>3. QED
    BY <1>1, <2>1, <2>2, SetKeepsJobs
<1>5. ASSUME NEW w \in Workers, NEW p \in Payments, Queue!Take(w, p) PROVE JobsInv'
  <2> DEFINE taken == [jobs[p] EXCEPT !.state = "active", !.lock = w]
  <2>1. taken \in Queue!Job /\ taken.attemptsMade < JobAttempts
    BY <1>2, <1>5, JobTypes DEF Queue!Take
  <2>2. Queue!Set(p, taken)
    BY <1>5 DEF Queue!Take
  <2> HIDE DEF taken
  <2>3. QED
    BY <2>1, <2>2, SetKeepsJobs
<1>6. ASSUME NEW w \in Workers, NEW p \in Payments,
             Queue!Complete(w, p) \/ Queue!Fail(w, p)
      PROVE  JobsInv'
  <2>1. CASE UNCHANGED jobs
    BY <1>1, <2>1
  <2>2. CASE Queue!Set(p, Queue!NoJob)
    BY <1>2, <2>2, JobTypes, SetKeepsJobs
  <2>3. CASE Queue!Holds(w, p) /\ Queue!Set(p, Queue!Failure(jobs[p]))
    BY <1>2, <2>3, JobTypes, SetKeepsJobs DEF Queue!Holds
  <2>4. QED
    BY <1>6, <2>1, <2>2, <2>3 DEF Queue!Complete, Queue!Fail
<1>7. ASSUME NEW p \in Payments, Queue!LockExpires(p) PROVE JobsInv'
  <2> DEFINE freed == [jobs[p] EXCEPT !.lock = NoWorker]
  <2>1. freed \in Queue!Job /\ (LiveJob(freed) => freed.attemptsMade < JobAttempts)
    BY <1>2, JobTypes
  <2>2. Queue!Set(p, freed)
    BY <1>7 DEF Queue!LockExpires
  <2> HIDE DEF freed
  <2>3. QED
    BY <2>1, <2>2, SetKeepsJobs
<1>8. ASSUME NEW p \in Payments, Queue!Promote(p) PROVE JobsInv'
  <2> DEFINE promoted == [jobs[p] EXCEPT !.state = "waiting"]
  <2>1. promoted \in Queue!Job /\ promoted.attemptsMade < JobAttempts
    BY <1>2, <1>8, JobTypes DEF Queue!Promote
  <2>2. Queue!Set(p, promoted)
    BY <1>8 DEF Queue!Promote
  <2> HIDE DEF promoted
  <2>3. QED
    BY <2>1, <2>2, SetKeepsJobs
<1>9. ASSUME NEW p \in Payments, Queue!Stalled(p) PROVE JobsInv'
  <2> DEFINE stalled == [jobs[p] EXCEPT !.state = "waiting", !.stalled = @ + 1]
  <2>1. stalled \in Queue!Job /\ stalled.attemptsMade < JobAttempts
    BY <1>2, <1>9, JobTypes DEF Queue!Stalled, Queue!Orphaned
  <2>2. Queue!Set(p, stalled)
    BY <1>9 DEF Queue!Stalled
  <2> HIDE DEF stalled
  <2>3. QED
    BY <2>1, <2>2, SetKeepsJobs
<1>10. ASSUME NEW p \in Payments, Queue!StalledOut(p) PROVE JobsInv'
  <2> DEFINE out == [jobs[p] EXCEPT !.state = "failed", !.attemptsMade = @ + 1]
  <2>1. out \in Queue!Job /\ ~LiveJob(out)
    BY <1>2, <1>10, JobTypes DEF Queue!StalledOut, Queue!Orphaned
  <2>2. Queue!Set(p, out)
    BY <1>10 DEF Queue!StalledOut
  <2> HIDE DEF out
  <2>3. QED
    BY <2>1, <2>2, SetKeepsJobs
<1>11. QED
  BY <1>3, <1>4, <1>5, <1>6, <1>7, <1>8, <1>9, <1>10

(* Every step keeps the jobs what they are.                                *)
LEMMA StepKeepsJobs ==
  ASSUME JobsInv, [SystemNext]_system
  PROVE  JobsInv'
<1>1. CASE UNCHANGED jobs
  BY <1>1 DEF JobsInv
<1>2. ASSUME NEW p \in Payments, EnqueueNew(p) \/ LockExpires(p) \/ JobTimer(p)
      PROVE  JobsInv'
  BY <1>2, QueueKeepsJobs DEF EnqueueNew, LockExpires, JobTimer
<1>3. ASSUME NEW p \in Payments,
             \/ Initiate(p) \/ RequestLost(p) \/ OnFailed(p) \/ OnFailedLost(p)
             \/ ClaimAges(p) \/ Callback(p)
      PROVE  UNCHANGED jobs
  BY <1>3 DEF Initiate, RequestLost, OnFailed, OnFailedLost, ClaimAges, Callback
<1>4. ASSUME NEW w \in Workers, NEW p \in Payments, TakeJob(w, p)
      PROVE  JobsInv'
  BY <1>4, QueueKeepsJobs DEF TakeJob
<1>5. ASSUME NEW w \in Workers,
             RunCall(w) \/ JobCompleted(w) \/ JobFailed(w) \/ CallFault(w)
      PROVE  JobsInv'
  <2>1. CASE RunCall(w) \/ CallFault(w)
    BY <1>1, <2>1 DEF RunCall, CallFault
  <2>2. CASE (JobCompleted(w) \/ JobFailed(w)) /\ calls[w].payment \in Payments
    BY <2>2, QueueKeepsJobs DEF JobCompleted, JobFailed
  <2>3. CASE (JobCompleted(w) \/ JobFailed(w)) /\ calls[w].payment \notin Payments
    BY <1>1, <2>3 DEF JobCompleted, JobFailed, Queue!Complete, Queue!Fail, Queue!Set, JobsInv
  <2>4. QED
    BY <1>5, <2>1, <2>2, <2>3
<1>6. ASSUME NEW s \in Sweepers, SweepStep(s) \/ SweepCrashes(s)
      PROVE  JobsInv'
  <2>1. CASE SweepRemoves(s) \/ SweepEnqueues(s)
    BY <2>1, QueueKeepsJobs DEF SweepRemoves, SweepEnqueues
  <2>2. CASE \/ SweepBegins(s) \/ SweepCrashes(s)
             \/ \E p \in Payments : SweepSkips(s, p) \/ SweepRecovers(s, p)
    BY <1>1, <2>2 DEF SweepBegins, SweepCrashes, SweepSkips, SweepRecovers
  <2>3. QED
    BY <1>6, <2>1, <2>2 DEF SweepStep
<1>7. CASE Signal \/ WorkerClosed \/ Exit \/ Start
  BY <1>1, <1>7 DEF Signal, WorkerClosed, Exit, Start
<1>8. QED
  BY <1>1, <1>2, <1>3, <1>4, <1>5, <1>6, <1>7 DEF SystemNext, system

(* Requests, handlers and the count of faults.                             *)
UsersInv ==
  /\ requests \in [Payments -> {"none", "enqueue", "answered"}]
  /\ failing \subseteq Payments
  /\ faults \in 0..MaxFaults

(* Every step keeps requests, failed handlers and faults what they are.    *)
LEMMA StepKeepsUsers ==
  ASSUME BudgetInv, UsersInv, [SystemNext]_system
  PROVE  UsersInv'
<1>1. faults' = faults \/ (faults < MaxFaults /\ faults' = faults + 1) => (faults \in 0..MaxFaults)'
  BY PaymentSystemAssumption DEF UsersInv
<1>2. CASE UNCHANGED <<requests, failing, faults>>
  BY <1>2 DEF UsersInv
<1>3. ASSUME NEW p \in Payments,
             \/ Initiate(p) \/ EnqueueNew(p) \/ RequestLost(p) \/ OnFailed(p)
             \/ OnFailedLost(p) \/ LockExpires(p) \/ JobTimer(p) \/ ClaimAges(p)
             \/ Callback(p)
      PROVE  UsersInv'
  BY <1>1, <1>3
  DEF UsersInv, Fault, Initiate, EnqueueNew, RequestLost, OnFailed, OnFailedLost,
      LockExpires, JobTimer, ClaimAges, Callback
<1>4. ASSUME NEW w \in Workers,
             \/ \E p \in Payments : TakeJob(w, p)
             \/ RunCall(w) \/ JobCompleted(w)
      PROVE  UsersInv'
  BY <1>2, <1>4 DEF TakeJob, RunCall, JobCompleted
<1>5. ASSUME NEW w \in Workers, CallFault(w)
      PROVE  UsersInv'
  BY <1>1, <1>5 DEF UsersInv, CallFault, Fault
<1>6. ASSUME NEW w \in Workers, JobFailed(w)
      PROVE  UsersInv'
  <2>1. calls[w].payment \in Payments
    BY <1>6 DEF JobFailed, BudgetInv, CallsInv
  <2>2. QED
    BY <1>1, <1>6, <2>1 DEF UsersInv, JobFailed
<1>7. ASSUME NEW s \in Sweepers, SweepStep(s) \/ SweepCrashes(s)
      PROVE  UsersInv'
  BY <1>1, <1>7 DEF UsersInv, Fault, SweepStep, SweepBegins, SweepSkips, SweepRecovers,
                    SweepRemoves, SweepEnqueues, SweepCrashes
<1>8. CASE Signal \/ WorkerClosed \/ Exit \/ Start
  BY <1>1, <1>8 DEF UsersInv, Fault, Signal, WorkerClosed, Exit, Start
<1>9. QED
  BY <1>2, <1>3, <1>4, <1>5, <1>6, <1>7, <1>8 DEF SystemNext, system

(* Every variable of the pipeline keeps its type.  That no job is ever run *)
(* beyond its budget is part of it: a job that can still run has attempts  *)
(* left, whatever stalls, locks that are lost and removals do to it.       *)
THEOREM SystemTypeCorrect == SystemSpec => []SystemTypeOK
<1>1. SystemInit => JobsInv /\ UsersInv
  BY PaymentSystemAssumption
  DEF SystemInit, Queue!Init, Queue!Job, Queue!NoJob, JobsInv, LiveJob, UsersInv
<1>2. SystemInv /\ JobsInv /\ UsersInv /\ [SystemNext]_system => (JobsInv /\ UsersInv)'
  BY StepKeepsJobs, StepKeepsUsers DEF SystemInv
<1>3. SystemInv /\ JobsInv /\ UsersInv => SystemTypeOK
  BY DEF SystemInv, BudgetInv, ProcessInv, JobsInv, UsersInv, SystemTypeOK
<1>4. QED
  BY <1>1, <1>2, <1>3, SystemInvariant, PTL DEF SystemSpec

=============================================================================
