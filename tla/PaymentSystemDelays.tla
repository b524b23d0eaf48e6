------------------------ MODULE PaymentSystemDelays ------------------------
(***************************************************************************)
(* Machine-checked proof that the retries of a job come at growing         *)
(* intervals, whatever RETRY_BACKOFF_DELAY_MS, the attempts and what       *)
(* Math.random() returns.  growth is a recursive function: that there is   *)
(* one, and what its values are, is by induction over Nat, which is had    *)
(* from the least elements of sets of numbers.                             *)
(***************************************************************************)
EXTENDS PaymentSystemProofs, FiniteSetTheorems

(* A set of numbers has a least one.                                       *)
LEMMA LeastNumber ==
  ASSUME NEW T \in SUBSET Nat, T # {}
  PROVE  \E n \in T : \A m \in T : n <= m
<1> DEFINE Segments == {0..n : n \in T}
<1>1. \A n \in Nat : IsFiniteSet(0..n) /\ 0..n \in SUBSET Nat
  BY FS_Interval
<1>2. Segments # {} /\ Segments \subseteq FiniteSubsetsOf(Nat)
  BY <1>1 DEF FiniteSubsetsOf
<1>3. PICK x \in Segments : \A y \in Segments : <<y, x>> \notin StrictSubsetOrdering(Nat)
  BY <1>2, FS_StrictSubsetOrderingWellFounded, WFMin
<1>4. PICK n \in T : x = 0..n
  OBVIOUS
<1>5. ASSUME NEW m \in T, m < n
      PROVE  FALSE
  <2>1. /\ 0..m \in Segments /\ 0..m \subseteq 0..n
        /\ n \in 0..n /\ n \notin 0..m
    BY <1>5
  <2>2. <<0..m, 0..n>> \in StrictSubsetOrdering(Nat)
    BY <1>1, <2>1 DEF StrictSubsetOrdering
  <2>3. QED
    BY <1>3, <1>4, <2>1, <2>2
<1>6. QED
  BY <1>5

(* A set that has 0, and with a number the next, has all.                  *)
LEMMA AllNumbers ==
  ASSUME NEW S, 0 \in S, \A n \in Nat : n \in S => n + 1 \in S
  PROVE  Nat \subseteq S
<1> SUFFICES ASSUME Nat \ S # {}
             PROVE  FALSE
  OBVIOUS
<1>1. PICK n \in Nat \ S : \A m \in Nat \ S : n <= m
  BY LeastNumber
<1>2. n - 1 \in Nat /\ n - 1 \in S
  BY <1>1
<1>3. QED
  BY <1>1, <1>2

----------------------------------------------------------------------------
(* Math.pow(2, Math.max(0, attemptsMade - 1)).                             *)

(* f grows as it should, up to n. *)
Grows(f, n) == \A k \in 0..n : f[k] = IF k <= 1 THEN 1 ELSE 2 * f[k - 1]

(* And up to every number below n. *)
LEMMA GrowsBelow ==
  ASSUME NEW n \in Nat, NEW m \in Nat, m <= n, NEW f, Grows(f, n)
  PROVE  Grows([k \in 0..m |-> f[k]], m)
<1> DEFINE r == [k \in 0..m |-> f[k]]
<1> SUFFICES ASSUME NEW k \in 0..m
             PROVE  r[k] = IF k <= 1 THEN 1 ELSE 2 * r[k - 1]
  BY DEF Grows
<1>1. k \in 0..n /\ r[k] = f[k] /\ (k > 1 => k - 1 \in 0..m)
  OBVIOUS
<1>2. f[k] = IF k <= 1 THEN 1 ELSE 2 * f[k - 1]
  BY <1>1 DEF Grows
<1>3. QED
  BY <1>1, <1>2

(* Up to every number there is one function that does, and it is positive. *)
LEMMA GrowsUpTo ==
  \A n \in Nat : \E f \in [0..n -> Nat \ {0}] :
    Grows(f, n) /\ \A g : g = [k \in 0..n |-> g[k]] /\ Grows(g, n) => g = f
<1> DEFINE One(n) == \E f \in [0..n -> Nat \ {0}] :
             Grows(f, n) /\ \A g : g = [k \in 0..n |-> g[k]] /\ Grows(g, n) => g = f
           S == {n \in Nat : One(n)}
<1>1. 0 \in S
  <2> DEFINE f == [k \in 0..0 |-> 1]
  <2>1. f \in [0..0 -> Nat \ {0}] /\ Grows(f, 0)
    BY DEF Grows
  <2>2. ASSUME NEW g, g = [k \in 0..0 |-> g[k]], Grows(g, 0)
        PROVE  g = f
    <3>1. g[0] = 1
      BY <2>2 DEF Grows
    <3>2. QED
      BY <2>2, <3>1
  <2>3. QED
    BY <2>1, <2>2
<1>2. ASSUME NEW n \in Nat, One(n)
      PROVE  One(n + 1)
  <2>1. PICK f \in [0..n -> Nat \ {0}] :
          Grows(f, n) /\ \A g : g = [k \in 0..n |-> g[k]] /\ Grows(g, n) => g = f
    BY <1>2
  <2> DEFINE next == IF n + 1 <= 1 THEN 1 ELSE 2 * f[n]
             h == [k \in 0..(n + 1) |-> IF k <= n THEN f[k] ELSE next]
  <2>2. next \in Nat \ {0}
    OBVIOUS
  <2>3. /\ h \in [0..(n + 1) -> Nat \ {0}]
        /\ \A k \in 0..n : h[k] = f[k]
        /\ h[n + 1] = next
    BY <2>2
  <2>4. Grows(h, n + 1)
    <3>1. ASSUME NEW k \in 0..n
          PROVE  h[k] = IF k <= 1 THEN 1 ELSE 2 * h[k - 1]
      BY <2>1, <2>3 DEF Grows
    <3>2. h[n + 1] = IF n + 1 <= 1 THEN 1 ELSE 2 * h[(n + 1) - 1]
      BY <2>3
    <3>3. \A k \in 0..(n + 1) : k \in 0..n \/ k = n + 1
      OBVIOUS
    <3> HIDE DEF h
    <3>4. QED
      BY <3>1, <3>2, <3>3 DEF Grows
  <2>5. ASSUME NEW g, g = [k \in 0..(n + 1) |-> g[k]], Grows(g, n + 1)
        PROVE  g = h
    <3> DEFINE r == [k \in 0..n |-> g[k]]
    <3>g. Grows(g, n + 1)
      BY <2>5
    <3>1. Grows(r, n)
      BY <3>g, GrowsBelow
    <3>2. r = f
      BY <2>1, <3>1
    <3>3. \A k \in 0..n : g[k] = f[k]
      BY <3>2
    <3>4. g[n + 1] = next
      <4>1. g[n + 1] = IF n + 1 <= 1 THEN 1 ELSE 2 * g[(n + 1) - 1]
        BY <3>g DEF Grows
      <4>2. (n + 1) - 1 = n /\ n \in 0..n
        OBVIOUS
      <4>3. QED
        BY <3>3, <4>1, <4>2
    <3>5. \A k \in 0..(n + 1) : g[k] = h[k]
      BY <2>3, <3>3, <3>4
    <3>6. QED
      BY <2>5, <3>5
  <2>6. QED
    BY <2>3, <2>4, <2>5
<1>3. Nat \subseteq S
  <2> HIDE DEF One
  <2>1. \A n \in Nat : n \in S => n + 1 \in S
    BY <1>2
  <2> HIDE DEF S
  <2>2. QED
    BY <1>1, <2>1, AllNumbers
<1>4. QED
  BY <1>3

(* growth is the function that its definition says it is.                  *)
LEMMA GrowthExists ==
  Queue!growth = [n \in Nat |-> IF n <= 1 THEN 1 ELSE 2 * Queue!growth[n - 1]]
<1> DEFINE UpTo(n) == CHOOSE f \in [0..n -> Nat \ {0}] :
             Grows(f, n) /\ \A g : g = [k \in 0..n |-> g[k]] /\ Grows(g, n) => g = f
           total == [n \in Nat |-> UpTo(n)[n]]
<1>1. \A n \in Nat :
        /\ UpTo(n) \in [0..n -> Nat \ {0}] /\ Grows(UpTo(n), n)
        /\ \A g : g = [k \in 0..n |-> g[k]] /\ Grows(g, n) => g = UpTo(n)
  BY GrowsUpTo
<1> HIDE DEF UpTo
<1>2. ASSUME NEW n \in Nat, n > 1
      PROVE  UpTo(n)[n - 1] = UpTo(n - 1)[n - 1]
  <2> DEFINE r == [k \in 0..(n - 1) |-> UpTo(n)[k]]
  <2>n. n - 1 \in Nat /\ n - 1 <= n /\ Grows(UpTo(n), n)
    BY <1>1, <1>2
  <2>1. Grows(r, n - 1)
    BY <2>n, GrowsBelow
  <2>2. r = UpTo(n - 1)
    BY <1>1, <1>2, <2>1
  <2>3. QED
    BY <1>2, <2>2
<1>3. ASSUME NEW n \in Nat
      PROVE  total[n] = IF n <= 1 THEN 1 ELSE 2 * total[n - 1]
  <2>1. UpTo(n)[n] = IF n <= 1 THEN 1 ELSE 2 * UpTo(n)[n - 1]
    BY <1>1 DEF Grows
  <2>2. QED
    BY <1>2, <2>1
<1>4. total = [n \in Nat |-> IF n <= 1 THEN 1 ELSE 2 * total[n - 1]]
  BY <1>3
<1> HIDE DEF total
<1>5. \E f : f = [n \in Nat |-> IF n <= 1 THEN 1 ELSE 2 * f[n - 1]]
  BY <1>4
<1>6. QED
  BY <1>5 DEF Queue!growth

(* It is 1 after the first failure and doubles with each.                  *)
LEMMA GrowthDoubles ==
  ASSUME NEW n \in Nat \ {0}
  PROVE  Queue!growth[n] \in Nat \ {0} /\ Queue!growth[n + 1] = 2 * Queue!growth[n]
<1> DEFINE S == {k \in Nat : Queue!growth[k] \in Nat \ {0}}
<1>1. \A k \in Nat : Queue!growth[k] = IF k <= 1 THEN 1 ELSE 2 * Queue!growth[k - 1]
  BY GrowthExists
<1>2. 0 \in S
  BY <1>1
<1>3. ASSUME NEW k \in Nat, k \in S
      PROVE  k + 1 \in S
  <2>1. Queue!growth[k + 1] = IF k + 1 <= 1 THEN 1 ELSE 2 * Queue!growth[k]
    BY <1>1
  <2>2. QED
    BY <1>3, <2>1
<1>4. Nat \subseteq S
  <2>1. \A k \in Nat : k \in S => k + 1 \in S
    BY <1>3
  <2> HIDE DEF S
  <2>2. QED
    BY <1>2, <2>1, AllNumbers
<1>5. Queue!growth[n + 1] = 2 * Queue!growth[n]
  BY <1>1
<1>6. QED
  BY <1>4, <1>5

----------------------------------------------------------------------------
(* Math.round of base and its jitter.                                      *)

(* What \div is between.                                                   *)
LEMMA DivBounds ==
  ASSUME NEW x \in Nat, NEW d \in Nat \ {0}, NEW q \in Nat
  PROVE  /\ x < q * d => x \div d < q
         /\ q * d <= x => q <= x \div d
<1> DEFINE r == x \div d
<1>1. r \in Nat /\ r * d <= x /\ x < r * d + d
  OBVIOUS
<1> HIDE DEF r
<1>2. ASSUME x < q * d, q <= r
      PROVE  FALSE
  <2>1. q * d <= r * d
    BY <1>1, <1>2
  <2>2. QED
    BY <1>1, <1>2, <2>1
<1>3. ASSUME q * d <= x, r < q
      PROVE  FALSE
  <2>1. (r + 1) * d <= q * d
    BY <1>1, <1>3
  <2>2. (r + 1) * d = r * d + d
    BY <1>1
  <2>3. QED
    BY <1>1, <1>3, <2>1, <2>2
<1>4. QED
  BY <1>1, <1>2, <1>3 DEF r

(* A base with its jitter, at most 20% of it, is rounded to less than      *)
(* twice the base, and to no less than the base.                           *)
LEMMA DelayBounds ==
  ASSUME NEW base \in Nat \ {0}, NEW random \in 0..(Grain - 1)
  PROVE  LET delay == Queue!Round(5 * Grain * base + Queue!jitter(base, random))
         IN  delay \in Nat /\ base <= delay /\ delay < 2 * base
<1> DEFINE M == base * Grain
           R == base * random
           x == 2 * (5 * M + R) + 5 * Grain
           d == 10 * Grain
<1>1. Grain \in Nat \ {0}
  BY PaymentSystemAssumption
<1>2. /\ M \in Nat /\ R \in Nat /\ R <= M - base /\ Grain <= M /\ base <= M
  <2>1. base * random <= base * (Grain - 1)
    BY <1>1
  <2>2. base * (Grain - 1) = base * Grain - base
    BY <1>1
  <2>3. Grain <= base * Grain /\ base <= base * Grain
    BY <1>1
  <2>4. M \in Nat /\ R \in Nat
    BY <1>1
  <2>5. QED
    BY <2>1, <2>2, <2>3, <2>4
<1>3. 5 * Grain * base = 5 * M
  BY <1>1
<1>4. base * d = 10 * M /\ (2 * base) * d = 20 * M
  BY <1>1
<1> HIDE DEF M, R
<1>5. x \in Nat /\ 10 * M <= x /\ x < 20 * M
  BY <1>1, <1>2
<1>6. d \in Nat \ {0} /\ x \div d \in Nat
  BY <1>1, <1>5
<1>7. x \div d = Queue!Round(5 * Grain * base + Queue!jitter(base, random))
  BY <1>3 DEF Queue!Round, Queue!jitter, R
<1> HIDE DEF x, d
<1>8. base <= x \div d
  <2>1. base * d <= x
    BY <1>4, <1>5
  <2>2. QED
    BY <1>5, <1>6, <2>1, DivBounds
<1>9. x \div d < 2 * base
  <2>1. x < (2 * base) * d /\ 2 * base \in Nat
    BY <1>4, <1>5
  <2>2. QED
    BY <1>5, <1>6, <2>1, DivBounds
<1>10. QED
  BY <1>6, <1>7, <1>8, <1>9

----------------------------------------------------------------------------
(* A failure counts one attempt, and nothing counts more.                  *)
LEMMA AttemptsCountOne ==
  ASSUME JobsInv, [SystemNext]_system, NEW p \in Payments
  PROVE  /\ jobs[p].attemptsMade \in Nat /\ jobs'[p].attemptsMade \in Nat
         /\ jobs'[p].attemptsMade <= jobs[p].attemptsMade + 1
<1>types. jobs \in [Payments -> Queue!Job] /\ JobAttempts \in Nat \ {0}
  BY PaymentSystemAssumption DEF JobsInv
<1>n. \A q \in Payments : jobs[q].attemptsMade \in Nat
  BY <1>types DEF Queue!Job
<1>set. ASSUME NEW q, NEW job, Queue!Set(q, job), job.attemptsMade \in Nat,
               q \in Payments => job.attemptsMade <= jobs[q].attemptsMade + 1
        PROVE  /\ jobs'[p].attemptsMade \in Nat
               /\ jobs'[p].attemptsMade <= jobs[p].attemptsMade + 1
  BY <1>set, <1>types, <1>n DEF Queue!Set
<1>quiet. ASSUME UNCHANGED jobs
          PROVE  /\ jobs'[p].attemptsMade \in Nat
                 /\ jobs'[p].attemptsMade <= jobs[p].attemptsMade + 1
  BY <1>quiet, <1>n
<1>new. /\ Queue!NoJob.attemptsMade = 0
        /\ [Queue!NoJob EXCEPT !.state = "waiting"].attemptsMade = 0
  BY DEF Queue!NoJob
<1>reset. ASSUME NEW q, NEW job, Queue!Set(q, job), job.attemptsMade = 0
          PROVE  /\ jobs'[p].attemptsMade \in Nat
                 /\ jobs'[p].attemptsMade <= jobs[p].attemptsMade + 1
  BY <1>reset, <1>set, <1>n
<1>kept. ASSUME NEW q \in Payments, NEW job, Queue!Set(q, job),
                job.attemptsMade \in {jobs[q].attemptsMade, jobs[q].attemptsMade + 1}
         PROVE  /\ jobs'[p].attemptsMade \in Nat
                /\ jobs'[p].attemptsMade <= jobs[p].attemptsMade + 1
  BY <1>kept, <1>set, <1>n
<1>1. ASSUME NEW q, Queue!enqueuePayment(q) \/ Queue!remove(q)
      PROVE  /\ jobs'[p].attemptsMade \in Nat
             /\ jobs'[p].attemptsMade <= jobs[p].attemptsMade + 1
  <2>1. UNCHANGED jobs \/ \E job : Queue!Set(q, job) /\ job.attemptsMade = 0
    BY <1>1, <1>new DEF Queue!enqueuePayment, Queue!remove
  <2>2. QED
    BY <2>1, <1>quiet, <1>reset
<1>2. ASSUME NEW q \in Payments,
             \/ \E w \in Workers : Queue!Take(w, q)
             \/ Queue!Promote(q) \/ Queue!Stalled(q) \/ Queue!StalledOut(q)
             \/ Queue!LockExpires(q)
      PROVE  /\ jobs'[p].attemptsMade \in Nat
             /\ jobs'[p].attemptsMade <= jobs[p].attemptsMade + 1
  <2>1. \E job : /\ Queue!Set(q, job)
                  /\ job.attemptsMade \in {jobs[q].attemptsMade, jobs[q].attemptsMade + 1}
    <3>1. /\ \A w : [jobs[q] EXCEPT !.state = "active", !.lock = w].attemptsMade
                     = jobs[q].attemptsMade
          /\ [jobs[q] EXCEPT !.state = "waiting"].attemptsMade = jobs[q].attemptsMade
          /\ [jobs[q] EXCEPT !.lock = NoWorker].attemptsMade = jobs[q].attemptsMade
          /\ [jobs[q] EXCEPT !.state = "waiting", !.stalled = @ + 1].attemptsMade
               = jobs[q].attemptsMade
          /\ [jobs[q] EXCEPT !.state = "failed", !.attemptsMade = @ + 1].attemptsMade
               = jobs[q].attemptsMade + 1
      BY <1>types DEF Queue!Job
    <3>2. QED
      BY <1>2, <3>1
      DEF Queue!Take, Queue!Promote, Queue!Stalled, Queue!StalledOut, Queue!LockExpires
  <2>2. QED
    BY <2>1, <1>kept
<1>3. ASSUME NEW q, NEW w \in Workers, Queue!Complete(w, q) \/ Queue!Fail(w, q)
      PROVE  /\ jobs'[p].attemptsMade \in Nat
             /\ jobs'[p].attemptsMade <= jobs[p].attemptsMade + 1
  <2>1. CASE q \in Payments
    <3>1. Queue!Failure(jobs[q]).attemptsMade = jobs[q].attemptsMade + 1
      BY <2>1, <1>types DEF Queue!Failure, Queue!Job
    <3>2. QED
      BY <1>3, <2>1, <3>1, <1>quiet, <1>new, <1>reset, <1>kept DEF Queue!Complete, Queue!Fail
  <2>2. CASE q \notin Payments
    <3>1. UNCHANGED jobs
      BY <1>3, <2>2, <1>types DEF Queue!Complete, Queue!Fail, Queue!Set
    <3>2. QED
      BY <3>1, <1>quiet
  <2>3. QED
    BY <2>1, <2>2
<1>4. ASSUME NEW q \in Payments,
             \/ Initiate(q) \/ EnqueueNew(q) \/ RequestLost(q) \/ OnFailed(q)
             \/ OnFailedLost(q) \/ LockExpires(q) \/ JobTimer(q) \/ ClaimAges(q)
             \/ Callback(q)
      PROVE  /\ jobs'[p].attemptsMade \in Nat
             /\ jobs'[p].attemptsMade <= jobs[p].attemptsMade + 1
  BY <1>4, <1>1, <1>2, <1>quiet
  DEF Initiate, EnqueueNew, RequestLost, OnFailed, OnFailedLost, LockExpires, JobTimer,
      ClaimAges, Callback
<1>5. ASSUME NEW w \in Workers,
             \/ \E q \in Payments : TakeJob(w, q)
             \/ RunCall(w) \/ JobCompleted(w) \/ JobFailed(w) \/ CallFault(w)
      PROVE  /\ jobs'[p].attemptsMade \in Nat
             /\ jobs'[p].attemptsMade <= jobs[p].attemptsMade + 1
  BY <1>5, <1>2, <1>3, <1>quiet DEF TakeJob, RunCall, JobCompleted, JobFailed, CallFault
<1>6. ASSUME NEW s \in Sweepers, SweepStep(s) \/ SweepCrashes(s)
      PROVE  /\ jobs'[p].attemptsMade \in Nat
             /\ jobs'[p].attemptsMade <= jobs[p].attemptsMade + 1
  BY <1>6, <1>1, <1>quiet
  DEF SweepStep, SweepBegins, SweepSkips, SweepRecovers, SweepRemoves, SweepEnqueues,
      SweepCrashes
<1>7. ASSUME Signal \/ WorkerClosed \/ Exit \/ Start \/ UNCHANGED system
      PROVE  UNCHANGED jobs
  BY <1>7 DEF Signal, WorkerClosed, Exit, Start, system
<1>8. QED
  BY <1>n, <1>quiet, <1>4, <1>5, <1>6, <1>7 DEF SystemNext

(* The retries of a job come at growing intervals: the longest delay that  *)
(* may follow one failure is shorter than the shortest after the next, for *)
(* every base delay, however finely Math.random() is told apart.           *)
THEOREM RetriesSlowDown == SystemSpec => DelaysGrow
<1>1. SystemInit => JobsInv
  BY PaymentSystemAssumption DEF SystemInit, Queue!Init, Queue!Job, Queue!NoJob, JobsInv, LiveJob
<1>2. SystemInv /\ JobsInv /\ [SystemNext]_system => JobsInv'
  BY StepKeepsJobs DEF SystemInv
<1>3. JobsInv /\ [SystemNext]_system =>
        [\A p \in Payments :
           jobs[p].attemptsMade > 0 /\ jobs'[p].attemptsMade > jobs[p].attemptsMade =>
             \A base \in RetryDelays :
               \A d \in Queue!backoffStrategy(base, jobs[p].attemptsMade),
                  e \in Queue!backoffStrategy(base, jobs'[p].attemptsMade) : d < e]_system
  <2> SUFFICES ASSUME JobsInv, [SystemNext]_system, NEW p \in Payments,
                      jobs[p].attemptsMade > 0,
                      jobs'[p].attemptsMade > jobs[p].attemptsMade,
                      NEW delay \in RetryDelays,
                      NEW d \in Queue!backoffStrategy(delay, jobs[p].attemptsMade),
                      NEW e \in Queue!backoffStrategy(delay, jobs'[p].attemptsMade)
               PROVE  d < e
    OBVIOUS
  <2>1. PICK n \in Nat \ {0} : n = jobs[p].attemptsMade /\ jobs'[p].attemptsMade = n + 1
    BY AttemptsCountOne
  <2>2. PICK base \in Nat \ {0} : /\ base = delay * Queue!growth[n]
                                  /\ delay * Queue!growth[n + 1] = 2 * base
    <3>1. delay \in Nat \ {0} /\ Queue!growth[n] \in Nat \ {0}
      BY GrowthDoubles, PaymentSystemAssumption
    <3>2. delay * Queue!growth[n] \in Nat \ {0}
      BY <3>1
    <3>3. delay * (2 * Queue!growth[n]) = 2 * (delay * Queue!growth[n])
      BY <3>1
    <3>4. QED
      BY <3>2, <3>3, GrowthDoubles
  <2>3. d \in Nat /\ d < 2 * base
    BY <2>1, <2>2, DelayBounds DEF Queue!backoffStrategy
  <2>4. e \in Nat /\ 2 * base <= e
    <3>1. 2 * base \in Nat \ {0}
      OBVIOUS
    <3>2. QED
      BY <2>1, <2>2, <3>1, DelayBounds DEF Queue!backoffStrategy
  <2>5. QED
    BY <2>3, <2>4
<1>4. QED
  BY <1>1, <1>2, <1>3, SystemInvariant, PTL DEF SystemSpec, DelaysGrow

=============================================================================
