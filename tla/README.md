# Verification of the payment processing simulation

TLA+ modules that model the payment pipeline of this repository, the TLC
instances that check them, and machine-checked proofs. Paths below are relative
to the repository root.

## 1. The system

A Fastify API accepts payments and provider callbacks; a separate worker
process charges them through a fake gateway. Two stores hold all durable state:
MySQL (the rows) and Redis (the BullMQ jobs). No step of the code writes both
atomically.

| Component | Where | State it keeps | Operations |
|---|---|---|---|
| State machine | `src/shared/lib/stateMachine.js`, `src/shared/models/lib/enums.js` | none | `canTransition`, `isTerminal` |
| Payment engine | `src/shared/services/lib/payment.js` | a call on the stack of each worker | `process` = `_claim`, charge, `_settle`; `failPayment`; `recoverStalePayment` |
| Repositories | `src/shared/repositories/lib/`, `migrations/` | tables `payments`, `webhook_events` | insert, lock, update, `findStale`, `transaction` |
| Gateway | `src/shared/services/lib/gateway.js` | the attempt and the timer of each call | `charge` |
| Initiation | `src/payment/` | none | `initiatePayment`: insert, then enqueue |
| Callbacks | `src/webhook/` | none | `handleWebhook`: one transaction |
| Retry queue | `queue/retryQueue.js` + BullMQ | one job per payment id | `enqueuePayment`; BullMQ's take, complete, fail, delay, stall |
| Worker | `queue/paymentProcessor.js` | job slots | the processor and the `failed` handler |
| Worker process | `worker.js` | running, or how far its shutdown is | start, SIGINT/SIGTERM, `shutdown` |
| Reconciler | `queue/reconciler.js` | the sweep in progress | `reconcileStale`: `findStale`, then for each row recover, remove, enqueue |
| Connections | `src/shared/lib/knex.js` | the pool of ten connections | acquire, release |
| HTTP | `app.js`, `plugins/`, schemas, routes | none | validation, dispatch, error handler |
| Configuration | `config.js` | values read at start | `Number(env) \|\| default` |
| Others | logger, Redis client, `scripts/` | none | |

How they interact: initiation inserts a row and adds a job; a worker takes the
job and runs `process`, which opens one transaction to claim the row, calls the
gateway with no lock held, and opens another to settle; a retriable failure
commits PENDING and throws, and the throw makes BullMQ run the job again; the
last failure of a job runs the `failed` handler; callbacks and sweeps write the
same rows at any time.

### What is hard

* **Between two transactions anything may happen.** A claim carries no token of
  the worker that made it, so a settle applies to whatever PROCESSING row it
  finds.
* **Two stores.** Insert/enqueue, release/remove/enqueue and settle/complete are
  each several steps, with a failure possible between any two.
* **Two opinions on who is alive.** BullMQ decides by the job's lock, the
  reconciler by `processing_started_at`.
* **Two budgets.** A row counts claims, a job counts throws, and each takes its
  limit from the configuration of another moment.
* **Transactions are not atomic by themselves.** They read, decide and write in
  separate statements; row locks, a UNIQUE index, a foreign key and a pool decide
  who waits for whom.
* **Shutdown.** Closing takes time, and the rest of the process goes on meanwhile.
* **Callbacks** come early, late, twice, and in conflict.

### What makes each component correct

* *Engine*: attempts stay in budget, a claimed attempt is charged at most once,
  SUCCESS only on the provider's word, settled rows never change.
* *Callbacks*: a processed callback decides its payment for good; none is
  ignored that should have counted.
* *Pipeline*: a PENDING payment always has something pulling it, a PROCESSING
  one is never stuck, one worker at a time processes a payment, recovery only
  touches stale claims, every payment is settled in the end.
* *Failed handler*: it never fails a payment that is being processed.
* *Gateway*: a call that waits is guarded; what it is told differs from what the
  provider did only if the event loop was held up for long while calls overlap.
* *Initiation*: one payment for each key, told alike to all who ask, and enqueued
  in the end unless a request fails.
* *Backoff*: each delay is longer than the one before.
* *Transactions*: what was read under the lock is current at the commit; an
  acknowledged callback is settled; nobody waits in a circle.
* *Worker process*: a shutdown kills no call and no sweep, and comes to its end.

## 2. The modules

```
PaymentStates                    statuses and transition table
  PaymentLifecycle               what the engine promises (abstract)
  PaymentService                 the engine; implements PaymentLifecycle
    PaymentServiceProofs
    MCPaymentService
    PaymentTransactions          the engine statement by statement;
      PaymentTransactionsProofs    implements PaymentService
      MCPaymentTransactions
    PaymentSystem                requests, workers, sweeps and the process
      RetryQueue                   around the engine, and the jobs (RetryQueue);
      PaymentSystemProofs          implements PaymentService
      PaymentSystemExclusion
      PaymentSystemLocks
      PaymentSystemDelays
      MCPaymentSystem
IdempotentCreation               what the Idempotency-Key promises (abstract)
  PaymentInitiation              concurrent requests;
    PaymentInitiationProofs        implements IdempotentCreation
    MCPaymentInitiation
Gateway                          attempts, guards and timers on one event loop
  GatewayProofs
  MCGateway
```

**PaymentStates** is the table of `stateMachine.js`; NONE stands for a row that
does not exist.

**PaymentService** has the two tables (`payments`, `events`), the call each
worker is in (`calls`), and two history variables: `charged`, the attempts the
gateway was called for, and `confirmed`, the payments a call was answered with
success for. Each transaction is one action, because each takes the row lock of
its only payment first (`findByIdForUpdate`); everything between transactions
interleaves. `ClaimWon`/`ClaimRefused` are `_claim`, `BeginCharge`/`EndCharge`
the gateway call, `Settle`/`SettleNoop` are `_settle`, `Rollback` and `AckLost`
a transaction that fails or commits unseen, `Crash` the death of the worker.
`RecoverStale`, `FailPayment` and `handleWebhook` are the other writers. Nobody
says when they are called, so what holds here holds under every queue and every
schedule. `processing_started_at` is reduced to null, fresh or stale, which is
all that `findStale` tells apart; amounts, currencies and error texts are never
read by the code and are left out.

**PaymentTransactions** says why a transaction may be one action. It is the
engine again, with each transaction taken apart into what the code sends:
`Connect` is the connection from knex's pool with BEGIN, `findByIdForUpdate` the
read that waits for the row lock, `insertUnique` the INSERT of a callback's
event, which waits for another session's uncommitted one, and `ClaimCommits`,
`SettleCommits` and `SessionCommits` the writes with the COMMIT. What the first
three wait for has names of its own (`ConnectionFree`, `RowFree`, `EventFree`).
The writes are computed from the row that was *read* (`trx[c].row`). A
transaction may fail before any statement, commit unseen, or die with its
process. *Sessions* call `handleWebhook` (`Deliver`, from the HTTP request to
the reply: the schema, the handler, 200 or the error handler's 500, a reply that
gets lost, a provider that repeats), `failPayment` and `recoverStalePayment`.
`acked` remembers the callbacks the provider was told not to send again. The
locks are external and InnoDB's; a FOR UPDATE that finds no row locks a gap,
which only an INSERT minds. API and worker have a pool each; the model has one
for all, the tighter case. A connection is acquired before anything is locked,
as in the code.

**RetryQueue** holds at most one job for each payment. What `add()` is given is
the code's; what BullMQ does with a job is external and modelled from its use: a
locked job cannot be removed, an id that is taken (even by a failed job) is not
added again, a job that throws is delayed until its attempts are spent, a job
without a lock is handed out again once (`maxStalledCount` is 1) and then fails.
The model keeps only whether an active job's lock is held, by whom. A job that
stalled too often fails in one step; BullMQ may need a worker to notice it.
`backoffStrategy` gives the set of delays that a failure may lead to. It is
arithmetic: `Math.random()` is one of `Grain` values, sums are scaled so that the
20% stay integers, rounding is half up. Time in the queue has no length, so the
delay shows in `DelaysGrow` alone.

**PaymentSystem** says who calls the engine: `Initiate`, `EnqueueNew` and
`RequestLost` are `initiatePayment`; `TakeJob`, `RunCall`, `JobCompleted`,
`JobFailed` the worker; `OnFailed` the `failed` handler; `SweepBegins`,
`SweepSkips`, `SweepRecovers`, `SweepRemoves`, `SweepEnqueues` the reconciler.
The order in which a sweep visits its rows is left open. What can go wrong is a
*fault*: the constant `Faults` names the kinds that may happen in an instance,
`MaxFaults` how many. So a run says precisely under which failures a property
holds, and a violating run which single kind of failure is enough. Two of the
kinds are about time: `lock_lost` is a live worker whose job lock expires (30 s,
renewed by a timer), `slow_claim` a live worker that outlasts
`STALE_PROCESSING_MS` (60 s, against a gateway timeout of 3 s). An unattended
claim or lock expires by itself and is no fault.
One fault is one thing that happens to one call, sweep or handler. The death of a
whole worker process is several of them in a row: `worker_crash` for each of its
job slots, `sweep_crash`, `handler_error`.
The worker process is `process`: after `Signal` it takes no jobs and moves none
(`worker.close`), but still sweeps; `WorkerClosed` comes when its jobs have
ended, `Exit` when its sweeps have, and takes with it the failed handlers that
`worker.close()` does not await. A process sweeps one at a time, so several
`Sweepers` stand for several processes; `process` stops them all together.
`JobAttempts` and `MAX_PAYMENT_ATTEMPTS` are separate constants: both come from
the same knob, read in two moments.

**PaymentInitiation** looks closer at what `PaymentSystem` does in two steps:
the requests on one key. `Insert` and `InsertRefused` are the INSERT under the
UNIQUE index (which uses up an auto-increment id also when it is refused),
`ReadBack` the `findById` of `create`, `Enqueue` the job, `ReplyCreated` the
201, `Lookup` `findByIdempotencyKey`. `Fail` ends a request anywhere, with or
without the job added; a repeated request is another request with the same key.
**IdempotentCreation** sees only which payment a key has and which ones its
clients were told.

**Gateway** is `charge` of several calls in one process. Node.js does not run
timers in the order they fall due: it keeps one list for each duration (all
guards are in one), turns to the list that expires first (`Runs`, `expiry`), and
runs all timers of it that are due, each with the promise callbacks it sets off,
before it turns to another. Running a list is therefore one action, `AttemptsEnd`
or `GuardsFire`, and `Leaves` says when what is left of a list expires. A cleared
timer does not move the expiry of its list. Time may pass over due timers, which
is an event loop that is held up. `beside` is a history variable of each call:
the lists that had timers when it began.
`pickOutcome` has the probability bands, `Knob` the `Number(x) || default` of
`config.js`: a probability of 0 reads as the default. A timeout of 1 ms is left
out: a slow answer and the guard would then be due together. The engine sees of
all this the answer alone (`EndCharge`).

## 3. What the runs check

| Run | Instance | Shows |
|---|---|---|
| `engine` | 1 payment, 3 workers, 2 callbacks, budget 3 | all safety properties of the engine and that it implements `PaymentLifecycle` |
| `claim_errors` | 2 payments, 2 workers, 1 callback, up to 4 failing claims; rows 3 attempts, jobs 4; base delays 1, 2, 3, 150, 5000 with 12 values of `Math.random()` | every payment is settled and none is stranded, also when jobs use up their attempts; the failed handler fails none that is being processed or was confirmed; the delays of a job grow |
| `one_sweep` | crashes, rollbacks, unseen commits, locks lost by live workers; 2 payments, one sweep; rows 3 attempts, jobs 2 | one worker at a time processes a payment; recovery only touches stale claims |
| `all_faults` | every kind of fault, two of them, shutdowns included, two sweeps | no payment is PROCESSING forever; the pipeline implements the engine; a shutdown kills nothing and ends |
| `callbacks` | transactions in statements: 2 workers, 2 sessions, 1 event, 1 payment with 1 attempt, a pool of 3 | reads are current at the commit, an acknowledged callback is settled, nobody waits in a circle, the statements implement the engine |
| `concurrent_requests` | 3 requests, 2 keys, 2 amounts, failures anywhere | one payment for each key, the same answers to all; implements `IdempotentCreation`; unless a request fails, what was answered to anyone is enqueued in the end |
| `timer_race` | 3 calls, timeout 5, answers after 1 or 2, hang 6 | when a call may be told something else than the provider did; guards live exactly as long as their calls |

Runs that TLC refutes, each on a statement of the repository:

| Run | Statement | What happens |
|---|---|---|
| `lost_request` | README: a crash is a hiccup | failure between INSERT and enqueue: PENDING for ever, and repeating the request does not help |
| `worker_crash` | `reconciler.js:27-29`: the released payment is not left with nothing pulling it | the stalled job was refused by its claim and is still locked when the sweep releases the row; `remove` is refused, the enqueue deduplicated, the job completes |
| `slow_worker` | README: the gateway is called exactly once | lock and claim of a live worker both expire; a second worker claims while the first one charges |
| `two_sweeps` | README: rows past `STALE_PROCESSING_MS` are released | the second sweep of the same snapshot recovers a claim made since |
| `zero_probability` | `.env.example`: probabilities 0–1, the remainder is timeout | a probability of 0 reads as unset: a failure probability of 0 declines cards |

`timer_race` qualifies another statement: `gateway.js:36` says that a provider
that is "slow but answers within the timeout window" still succeeds. Take the
timeout of 3000 ms, a call A that hangs from 0 (guard due at 3000), a call B that
starts at 1500 (answer due at 3200, guard at 4500), and a loop that is held up
until 4600: the list of the guards expires first, B's guard is due and runs with
A's, and B, whose answer came in time, is told "timeout" and charged again.
`MisjudgedOnlyIfHeldUp` says how much this takes: a hold-up of more than two
fifths of the timeout, and another call's guard armed when B began. A call
without company is told the truth however long the loop stands. In the instance
of `timer_race` both kinds of misjudgement do occur.

`slow_worker` and `two_sweeps` also tell what the design does guarantee: with one
sweep, and live workers that settle before their claim is stale, both
`ExclusiveProcessing` and `OnlyStaleRecovered` hold under every other fault
(`one_sweep`, and theorems in section 4). A job's lock is not needed for that.
The other way round, as long as the locks of live workers are renewed,
`ExclusiveProcessing` needs no limit on sweeps or on the age of claims (the
theorem `LocksExcludeWorkers`): it takes both opinions on who is alive to be
wrong at once.

**Bounds.** Payments share no state but workers, sweeps and event ids; two
payments cover their interference in the pipeline, and the engine's theorems
(section 4) hold for any number of them. A worker that is refused, one that is
overtaken and one that takes over need two or three workers. A budget of 2 has a
first, a released and a last attempt; 3 adds a middle one. Two callbacks are
enough for a duplicate in status, a conflict and a late one. `MaxFaults` of 2 (4
for `claim_errors`, as many as a job's attempts) covers a fault during the
repair of another. In `callbacks` a pool of three for four clients makes a
transaction wait for a connection while others hold the locks. One attempt is
enough there: a further one takes the same locks in the same order, and what it
writes is `engine`'s subject. A second payment would only add the case of one
event id sent for two payments; the theorems of section 4 on transactions hold
for any budget, pool and number of payments. Budgets of rows and jobs differ in
both directions (`claim_errors`, `one_sweep`). Deadlock checking is off for the
pipeline: it rests when all payments are settled, and `EventuallySettled` says
that it does not rest earlier; `PaymentInitiation` and `Gateway` stop when every
request or call has ended.

**Symmetry** is used in runs without liveness only.

**Fairness** (`FairSystemSpec`). Code that is running goes on: requests, calls
and sweeps in progress are weakly fair; a gateway call ends because of its
timeout guard. Timers fire: promotion of delayed jobs, expiry of the lock of a
dead worker, the stalled check, the age of an unattended claim. The sweep is a
repeatable job, so `SweepBegins` is weakly fair. A waiting job is taken in the
end because BullMQ hands jobs out in order (strong fairness of taking each job).
A process that is closing goes on with it, and one that has exited is started
again (a supervisor, or the next deployment: without it no payment would be
processed any more). Nothing makes a request, a callback or a fault happen.
In `PaymentInitiation` (`FairSpec`) a request that was received is handled.

## 4. What is proved

All theorems are about every value of the constants; the assumptions on these
are named `...Assumption` in the modules. TLC checks the same formulas on the
instances of section 3.

### The engine

`PaymentServiceProofs`, for any sets of payments, workers and event ids and any
positive `MAX_PAYMENT_ATTEMPTS` (`PaymentServiceAssumption`):

| Theorem | Property | In words |
|---|---|---|
| `TypeCorrect` | `TypeOK` | every variable keeps its type |
| `WithinBudget` | `AttemptsWithinBudget` | attempts are bounded although no claim checks the bound |
| `ChargedOnce` | `OneChargePerAttempt` | a claimed attempt reaches the gateway at most once |
| `SettledRowsFrozen` | `TerminalRowsFrozen` | nobody changes a settled row |
| `ClaimsAreSweepable` | `SweepableClaims` | every claim can be found by a sweep |
| `EngineImplementsLifecycle` | `ImplementsLifecycle` | the engine refines `PaymentLifecycle` |
| `SuccessIsReported` | `NoFalseSuccess` | SUCCESS only on the provider's word |
| `CallbackDecides` | `ProcessedEventDecides` | a processed callback decides its payment, alone |
| `IgnoredCallbackIsMoot` | `IgnoredEventIsMoot` | a callback is ignored only if it comes too late |

There are four arguments.

*Budget.* `AttemptsWithinBudget` is not inductive, since `BeginCharge` adds
whatever attempt its call holds to `charged`. `BudgetInv` adds that the attempt
of a call past its claim is one its payment has counted (`CallsInv`), and that a
payment without a row has counted none (`NoRowNoAttempts`), which creation needs.
The row lemmas (`RowTypes`, `RowAttempts`, `RowStatus`) say what the
transactions make of a row; `BudgetRewrite` and `BudgetClaim` lift them to the
table; `BudgetStep` has one step for each action.

*Charges.* `OneChargePerAttempt` is inductive relative to `BudgetInv`: a claim
takes an attempt beyond all that its payment has counted (`ChargeClaim`), hence
beyond all that are charged or in flight; a charge spends an attempt no other
call holds (`ChargeBegin`); every other step only lets calls go on or end
(`ChargeQuiet`).

*Moves of a row.* `TableStep` shows once that a step changes at most one row,
and by one of the moves `RowMove` lists. Frozen rows (no move starts from a
settled row), sweepable claims (a move into PROCESSING stamps the claim) and
the refinement (each move is a step of the lifecycle or only ages a claim) then
follow from the moves alone.

*Settlement.* The three properties of callbacks and successes need each other:
an applied callback decides its payment because no processed one can exist while
the payment is open. `SettlementInv` takes them together with
`ConfirmedCalls` (an answer of success is remembered until phase 3),
`ReferencesAreSettled` (only SUCCESS rows carry a reference, so a callback that
leaves it out keeps "null" and not the gateway's) and `EventsAreComplete`.

### The transactions

`PaymentTransactionsProofs`, for any number of payments, workers, sessions,
events and connections (`PaymentTransactionsAssumption`):
`ReadsAreCurrent` (`ReadIsCurrent`), `TransactionsImplementService`
(`ImplementsService`), `AcksAreFinal` (`AckedIsSettled`), `WaitsEnd`
(`NoCircularWait`), `TransactionsTypeCorrect`.

`ReadIsCurrent` is not inductive: that nobody else writes a locked row needs that
two clients share a lock only on a row that is missing (`LocksExclude`), that
whoever is past `findByIdForUpdate` is in a transaction of its own kind
(`ClientInv`), and that an event inserted and not yet committed is nobody else's
(`EventsReserved`). With these, the commit of a transaction is the engine's
step (`WorkerCommitImplements`, `SessionCommitImplements`): a guard that was
evaluated on the row as read holds of the row as it is. Every other statement
stutters. `AckedIsSettled` follows from `EventsReserved` and, through the
refinement, from the engine's own invariant of callbacks: an event on record
belongs to a settled payment.

`NoCircularWait` is stated with the guards of the statements, the same operators
their actions are made of (`CanGoOn`); ENABLED would be out of the prover's
reach. The argument is the order in which things are taken: connection, row,
event. A session whose event is inserted has its COMMIT left; whoever holds a row
goes on or waits for such a session (`HolderGoesOn`); whoever is connected goes
on or waits for one that holds a row (`ConnectedGoesOn`); and a pool that is
exhausted has its connections with somebody (`PoolInUse`). This is where it
matters that a transaction acquires nothing but locks once it is connected: with
the INSERT sent on a connection of its own, its foreign key would wait for the
row that its own caller has locked.

### The pipeline

`PaymentSystemProofs`, for any payments, workers, sweeps and callbacks, any
faults and budgets (`PaymentSystemAssumption`):

| Theorem | Property | In words |
|---|---|---|
| `SystemImplementsService` | `ImplementsService` | requests, jobs, handlers, sweeps and shutdowns do to rows what the engine allows |
| `PipelineIsSafe` | | all safety and action properties of the engine, and `ImplementsLifecycle`, therefore hold of it |
| `ShutdownIsOrderly` | `ExitKillsNothing` | an exit finds no call and no sweep running |
| `SystemTypeCorrect` | `SystemTypeOK` | every variable keeps its type; no job counts more attempts than it has |

Most steps are engine steps by name. `Exit` resets calls and sweeps, which would
be a step of its own; it stutters because of `ProcessInv`: past `worker.close`
no call is running, and what is idle holds nothing. `SystemTypeOK` needs that a
job that can still run has attempts left (`JobsInv`).

What the pipeline promises beyond that depends on what goes wrong. The theorems
say it with assumptions on the constants `Faults` and `Sweepers`, and none of
these is idle: for each kind of fault that one excludes, TLC finds the property
violated when that kind is added to those it admits (instances of
`MCPaymentSystem` with one payment, two workers and up to three faults). The runs
that TLC refutes in section 3 are some of these.

| Theorem | Property | Assumes |
|---|---|---|
| `OneWorkerPerPayment` | `ExclusiveProcessing` | `OneSweeper`, `PromptClaims` |
| `SweepsTakeStaleClaims` | `OnlyStaleRecovered` | `OneSweeper`, `PromptClaims` |
| `LocksExcludeWorkers` | `ExclusiveProcessing` | `LocksAreKept` |
| `FailedHandlerIsLast` | `GivesUpOnlyIdle` | `CallsComplete` |
| `ConfirmedStaysConfirmed` | `ConfirmedNotFailed` | `CallsComplete`, `PromptClaims` |
| `PendingIsPulled` | `NeverStranded` | `CallsComplete`, `PromptClaims`, no lost request, `HandlersAct` or `JobsOutlastRows` |
| `RetriesSlowDown` | `DelaysGrow` | |

`OneSweeper`: at most one sweep at a time. `PromptClaims`: no live worker
outlasts `STALE_PROCESSING_MS`. `LocksAreKept`: no live worker loses the lock of
its job. `CallsComplete`: that, and no call of `process` dies between its claim
and the end of its job, or has its settle rolled back or a commit unseen.
`HandlersAct`: no failed handler is lost to an error or a shutdown.
`JobsOutlastRows`: a job has at least the attempts of its row, and none is spent
on a claim that rolled back. The instance of `claim_errors` satisfies all that
its properties need.

*Exclusion by age* (`PaymentSystemExclusion`). `ExclusionInv` ties the three
parties together: a row that may be claimed or is stale has nobody working on
it, whoever works on a PROCESSING row holds its latest attempt (`RowExclusion`),
and what a sweep has read as stale has not been claimed since, because only that
sweep could have released it (`SweepExclusion`).

*Exclusion by lock* (`PaymentSystemLocks`). `LockInv` is about the jobs alone:
only an active job is locked, and a call in progress holds the lock of its job.
A sweep cannot take a locked job away, whatever it does to the row.

*Turns.* `CompletionInv` adds that a job is active because a call runs it and a
row PROCESSING because a call is at work on it. Then the request, the failed
handler and a sweep have their turns with a payment one after the other: none of
them begins while another has it. For a second job to run the payment that a
failed handler has yet to fail, which `GivesUpOnlyIdle` is about, a sweep would
have to release the row before the handler acts, and it only releases PROCESSING
rows.

*Confirmations.* With prompt claims no sweep finds anything. `OutcomeInv` follows
a confirmation from the answer of the gateway to the row: until the settle, the
row stays PROCESSING or a callback decides it; the failed handler does not have
its turn.

*Pulls.* `PullInv` hands a PENDING payment on from its request to its job and, at
the end of the job, to the failed handler. Without the handler the job's count
must lag behind the row's (`AttemptsInv`): then the row has spent its budget,
and `process` has failed it, when the job gives up. This is why attempts that are
spent before the claim, or a job enqueued with fewer attempts than its row, make
the handler necessary, which `paymentProcessor.js:40-42` calls defensive.

*Delays* (`PaymentSystemDelays`). `growth` is a recursive function, and what it
computes takes induction. The library's induction rules have an operator for a
parameter, but its well-founded orderings have not: `LeastNumber` gets the least
element of a set of numbers from the strict-subset ordering of finite sets, and
`AllNumbers` the induction from that. `GrowthExists` shows that there is a
function that meets the recursive definition, `GrowthDoubles` that it is positive
and doubles; `DelayBounds` puts every delay between its base and less than twice
its base, after rounding; `AttemptsCountOne` says that attempts grow by one.

### Requests

`PaymentInitiationProofs`, for any finite set of requests and any keys and
amounts (`PaymentInitiationAssumption`): `OneKeyOneAnswer` (`AnswersAgree`),
`RequestsAreIdempotent` (`ImplementsIdempotent`), `InitiationTypeCorrect`. The
invariant says that keys are unique, that a request which names a payment names
the one with its key, and that no two requests created one payment. The
refinement maps an insert to the creation, an answer to the answer, and
everything else to a stutter; that ids stay within those of the abstract module
takes a count of the requests that have used one up (`IdsInv`).

### The gateway

`GatewayProofs`, for any number of calls and any timeout of 2 or more
(`GatewayAssumption`): `CallsAreGuarded` (`GuardedUntilSettled`),
`ResultsAreTruthful` (`MisjudgedOnlyIfHeldUp`), `GatewayTypeCorrect`. The
invariant says of each call that it has its guard and, while it waits, its
attempt's timer, and of each timer that its list expires no later than it is due
(`TimerInv`) and that a timer which found its list empty stays the first there
(`FirstInv`). It follows that a timer which is run before another one that was
due earlier had not found its list empty (`OverdueTimerWaits`), so its call had
company. How long the loop was held up is the distance between the due times of a
call's guard and attempt (`GuardsJudge`, `AttemptsJudge`).

### Model-checked only

Liveness, which is out of the prover's reach: `EventuallySettled`,
`ClaimsResolve`, `ShutdownEnds`, `EventuallyQueued`. All other properties of the
passing runs are theorems.

## 5. Not modelled

* `src/scripts/`: the repository's tests, read as statements of what the code
  promises.
* `logger.js`, `redis.js`, `index.js`, swagger, CORS, the response envelopes and
  the health route: no state, and no decision a property could be about. Start-up
  order and `SELECT 1` are I/O.
* The formats in the schemas: of a callback, only that it reports SUCCESS or
  FAILED matters (`WellFormed`); of a request, its key and amount.
* `config.js` beyond the probabilities: the knobs are constants of the models.
* The shutdown of one worker process while others go on: the model has one
  process state for all.
* `NeverStranded` together with sweeps that release something, or with shutdowns,
  in a passing run: every fault that gives a sweep something to release can strand
  a payment by itself (`worker_crash`), and so does an exit that drops a failed
  handler, unless `JobsOutlastRows`. `PendingIsPulled` says what holds.
* What MySQL, Redis and BullMQ do beyond their use by the code: losing committed
  data, choosing deadlock victims, delayed replication.
* `assertTransition` and `WebhookEventRepository.exists`, which only the scripts
  call, if anything does.

## 6. Plan

Done: the engine, its transactions, the pipeline with shutdown and budgets that
differ, requests, the gateway, their runs and refinements, and a proof of every
safety and action property of the passing runs.

What would add most next: the steps liveness rests on, as safety (while a payment
is open, some action of a party that is fair can take it on), and theorems about
`backoffStrategy` and `pickOutcome` beyond what the properties say of them.
