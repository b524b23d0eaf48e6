---------------------------- MODULE RetryQueue ----------------------------
(***************************************************************************)
(* The payment-processing queue of queue/retryQueue.js: at most one job    *)
(* for each payment, under the job id payment-<id>.  What add() is called  *)
(* with is the code's; what BullMQ does with a job is modelled from how    *)
(* the worker, its failed handler and the reconciler use it: a worker      *)
(* holds the lock of the job it runs, a job that throws is delayed and     *)
(* run again until its attempts are spent, a job whose lock expires is     *)
(* handed out again, and a locked job cannot be removed.                   *)
(***************************************************************************)
EXTENDS Integers

CONSTANTS
  Payments,     \* payment ids: a job is known by its payment
  Workers,      \* concurrent job slots
  NoWorker,     \* the lock of a job that nobody runs
  JobAttempts,  \* the attempts option given to add()
  MaxStalled,   \* BullMQ's maxStalledCount
  RetryDelays,  \* values of RETRY_BACKOFF_DELAY_MS
  Grain         \* bound: how finely Math.random() is told apart

VARIABLE jobs

(* "none": no job exists under this id; "failed": kept, as removeOnFail is *)
(* false.  lock: the worker whose token holds an active job.               *)
Job == [state : {"none", "waiting", "delayed", "active", "failed"},
        attemptsMade : 0..JobAttempts,
        stalled : 0..MaxStalled,
        lock : Workers \cup {NoWorker}]

NoJob == [state |-> "none", attemptsMade |-> 0, stalled |-> 0,
          lock |-> NoWorker]

Init == jobs = [p \in Payments |-> NoJob]

Set(p, job) == jobs' = [jobs EXCEPT ![p] = job]

(* An add() under an id that is taken, even by a failed job, does nothing. *)
enqueuePayment(p) ==
  IF jobs[p].state = "none"
    THEN Set(p, [NoJob EXCEPT !.state = "waiting"])
    ELSE UNCHANGED jobs

(* The caller catches the error of a locked job and goes on. *)
remove(p) ==
  IF jobs[p].lock = NoWorker THEN Set(p, NoJob) ELSE UNCHANGED jobs

Take(w, p) ==
  /\ jobs[p].state = "waiting"
  /\ Set(p, [jobs[p] EXCEPT !.state = "active", !.lock = w])

Holds(w, p) == jobs[p].state = "active" /\ jobs[p].lock = w

(* removeOnComplete.  Without its lock, a worker changes no job. *)
Complete(w, p) ==
  IF Holds(w, p) THEN Set(p, NoJob) ELSE UNCHANGED jobs

Failure(job) ==
  [job EXCEPT !.attemptsMade = @ + 1, !.lock = NoWorker,
              !.state = IF job.attemptsMade + 1 < JobAttempts
                          THEN "delayed" ELSE "failed"]

Fail(w, p) ==
  IF Holds(w, p) THEN Set(p, Failure(jobs[p])) ELSE UNCHANGED jobs

(* backoffStrategy.  Math.random() is random/Grain; sums are scaled by     *)
(* 5 * Grain, so that the 20% stay integers.                               *)

(* Up to 120% of jitter. *)
WideJitter(base, random) == 6 * base * random

(* Math.random() * base * 0.2, scaled. *)
jitter(base, random) == base * random

(* Math.round: half up. *)
Round(scaled) == (2 * scaled + 5 * Grain) \div (10 * Grain)

(* Math.pow(2, Math.max(0, attemptsMade - 1)). *)
growth[n \in Nat] == IF n <= 1 THEN 1 ELSE 2 * growth[n - 1]

(* The delays that a job may be given after its n-th failure. *)
backoffStrategy(delay, n) ==
  LET base == delay * growth[n]
  IN {Round(5 * Grain * base + jitter(base, random)) : random \in 0..(Grain - 1)}

(* The backoff delay is over. *)
Promote(p) ==
  /\ jobs[p].state = "delayed"
  /\ Set(p, [jobs[p] EXCEPT !.state = "waiting"])

LockExpires(p) ==
  /\ jobs[p].lock # NoWorker
  /\ Set(p, [jobs[p] EXCEPT !.lock = NoWorker])

Orphaned(p) == jobs[p].state = "active" /\ jobs[p].lock = NoWorker

Stalled(p) ==
  /\ Orphaned(p)
  /\ jobs[p].stalled < MaxStalled
  /\ Set(p, [jobs[p] EXCEPT !.state = "waiting", !.stalled = @ + 1])

(* "job stalled more than allowable limit": failed, whatever is left. *)
StalledOut(p) ==
  /\ Orphaned(p)
  /\ jobs[p].stalled = MaxStalled
  /\ Set(p, [jobs[p] EXCEPT !.state = "failed", !.attemptsMade = @ + 1])

=============================================================================
