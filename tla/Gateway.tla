------------------------------ MODULE Gateway ------------------------------
(***************************************************************************)
(* gatewayService.charge: the attempt at the provider raced against the    *)
(* timeout guard.  Several calls run side by side in one worker process,   *)
(* on one event loop.  A call's guard is armed before its attempt starts.  *)
(*                                                                         *)
(* Node.js keeps one list of timers for each duration, in the order they   *)
(* were armed: all guards are in one.  The loop turns to the list that     *)
(* expires first and runs all of it that is due, each timer with the       *)
(* promise callbacks it sets off, before it turns to another list; so that *)
(* is one action.  The loop may be held up: time then passes over timers   *)
(* that are due.                                                           *)
(***************************************************************************)
EXTENDS Integers

CONSTANTS
  Charges,              \* calls of charge
  GATEWAY_TIMEOUT_MS,   \* in units of the model's time
  HANG,                 \* how far a hung provider outlasts the timeout
  PROB,                 \* environment: percentages for success, failure, delay
  MaxTime               \* bound on time

ASSUME GatewayAssumption ==
  /\ GATEWAY_TIMEOUT_MS \in Nat \ {0, 1}
  /\ HANG \in Nat \ {0}
  /\ PROB \in [success : 0..100, failure : 0..100, delay : 0..100]
  /\ MaxTime \in Nat

VARIABLES
  now,
  timers,   \* pending setTimeouts
  expiry,   \* when each list is to be looked at; of no meaning while it is empty
  charges   \* the calls

vars == <<now, timers, expiry, charges>>

----------------------------------------------------------------------------
(* _pickOutcome. *)

(* config.js reads a knob as Number(env) || default. *)
Knob(env, default) == IF env = 0 THEN default ELSE env

(* The bands of a roll of 0..99. *)
pickOutcome(roll) ==
  LET s == Knob(PROB.success, 60)
      f == Knob(PROB.failure, 20)
      d == Knob(PROB.delay, 10)
  IN CASE roll < s -> "success"
       [] roll \in s..(s + f - 1) -> "failure"
       [] roll \in (s + f)..(s + f + d - 1) -> "delay"
       [] OTHER -> "timeout"

Outcomes == {pickOutcome(roll) : roll \in 0..99}

(* A slow answer that takes up to 160% of the timeout. *)
SlowerThanGuard == 1..((GATEWAY_TIMEOUT_MS * 16) \div 10)

(* Less than 60% of the timeout; setTimeout makes at least 1 of it. *)
SlowAnswer == {ms \in 1..GATEWAY_TIMEOUT_MS : ms = 1 \/ 10 * ms < 6 * GATEWAY_TIMEOUT_MS}

(* A hung provider outlasts the guard. *)
Hang == {GATEWAY_TIMEOUT_MS + HANG}

Durations == {GATEWAY_TIMEOUT_MS} \cup SlowAnswer \cup Hang

Timer == [charge : Charges, kind : {"guard", "attempt"}, ms : Durations, due : Nat]

(* result: what the caller of charge gets.  beside (history): the lists    *)
(* that had timers of other calls when this one began to wait.             *)
Charge == [pc : {"idle", "racing", "settled"},
           outcome : Outcomes \cup {"none"},
           result : {"none", "success", "card_declined", "timeout"},
           started : Nat,
           beside : SUBSET Durations]

NotCalled == [pc |-> "idle", outcome |-> "none", result |-> "none",
              started |-> 0, beside |-> {}]

Init ==
  /\ now = 0
  /\ timers = {}
  /\ expiry = [ms \in Durations |-> 0]
  /\ charges = [c \in Charges |-> NotCalled]

----------------------------------------------------------------------------
(* The error is named after the outcome. *)
OutcomeName(outcome) == outcome

(* What an attempt that ends at once resolves or rejects with. *)
AnswerOf(outcome) == IF outcome = "failure" THEN "card_declined" ELSE "success"

(* Success and decline settle the race before any timer can run, and the   *)
(* guard is cleared.                                                       *)
ChargeAtOnce(c, outcome) ==
  /\ charges[c].pc = "idle"
  /\ outcome \in {"success", "failure"}
  /\ charges' = [charges EXCEPT
       ![c] = [pc |-> "settled", outcome |-> outcome, result |-> AnswerOf(outcome),
               started |-> now, beside |-> {}]]
  /\ UNCHANGED <<now, timers, expiry>>

Listed(ms) == {t \in timers : t.ms = ms}

Due(ms) == {t \in Listed(ms) : t.due <= now}

(* The others sleep, with the guard armed.  The first timer of a list says *)
(* when the list expires.                                                  *)
ChargeSleeps(c, outcome, ms) ==
  /\ charges[c].pc = "idle"
  /\ \/ outcome = "delay" /\ ms \in SlowAnswer
     \/ outcome = "timeout" /\ ms \in Hang
  /\ charges' = [charges EXCEPT
       ![c] = [pc |-> "racing", outcome |-> outcome, result |-> "none",
               started |-> now, beside |-> {t.ms : t \in timers}]]
  /\ timers' = timers \cup
       {[charge |-> c, kind |-> "guard", ms |-> GATEWAY_TIMEOUT_MS,
         due |-> now + GATEWAY_TIMEOUT_MS],
        [charge |-> c, kind |-> "attempt", ms |-> ms, due |-> now + ms]}
  /\ expiry' = [m \in Durations |->
       IF m \in {GATEWAY_TIMEOUT_MS, ms} /\ Listed(m) = {} THEN now + m ELSE expiry[m]]
  /\ UNCHANGED now

(* The event loop turns to a list. *)
Runs(ms) ==
  /\ Listed(ms) # {}
  /\ expiry[ms] <= now
  /\ \A t \in timers : expiry[ms] <= expiry[t.ms]

(* It leaves the list with these timers gone: the list then expires when   *)
(* the next one falls due.  A list that loses a timer otherwise keeps its  *)
(* expiry.                                                                 *)
Leaves(ms, gone) ==
  LET left == Listed(ms) \ gone IN
  /\ timers' = timers \ gone
  /\ \/ left = {} /\ UNCHANGED expiry
     \/ \E next \in left :
          /\ \A t \in left : next.due <= t.due
          /\ expiry' = [expiry EXCEPT ![ms] = next.due]

(* Timers left after a race that nobody cleans up. *)
Uncleared(cs) == {}

(* finally: clearTimeout. *)
Cleared(cs) == {t \in timers : t.charge \in cs /\ t.kind = "guard"}

(* Attempts are over: each wins its race, or nobody waits for its answer   *)
(* any more.                                                               *)
AttemptsEnd(ms) ==
  LET won == {c \in {t.charge : t \in Due(ms)} : charges[c].pc = "racing"} IN
  /\ ms # GATEWAY_TIMEOUT_MS /\ Runs(ms)
  /\ charges' = [c \in Charges |->
       IF c \in won THEN [charges[c] EXCEPT !.pc = "settled", !.result = "success"]
                    ELSE charges[c]]
  /\ Leaves(ms, Due(ms) \cup Cleared(won))
  /\ UNCHANGED now

(* Every guard that is due rejects with a retriable timeout. *)
GuardsFire ==
  LET ms == GATEWAY_TIMEOUT_MS IN
  /\ Runs(ms)
  /\ charges' = [c \in Charges |->
       IF c \in {t.charge : t \in Due(ms)}
         THEN [charges[c] EXCEPT !.pc = "settled", !.result = "timeout"]
         ELSE charges[c]]
  /\ Leaves(ms, Due(ms))
  /\ UNCHANGED now

Tick ==
  /\ now < MaxTime
  /\ now' = now + 1
  /\ UNCHANGED <<timers, expiry, charges>>

Next ==
  \/ \E c \in Charges, outcome \in Outcomes :
       \/ ChargeAtOnce(c, outcome)
       \/ \E ms \in SlowAnswer \cup Hang : ChargeSleeps(c, outcome, ms)
  \/ \E ms \in Durations : AttemptsEnd(ms)
  \/ GuardsFire
  \/ Tick

Spec == Init /\ [][Next]_vars

----------------------------------------------------------------------------
TypeOK ==
  /\ now \in 0..MaxTime
  /\ timers \subseteq Timer
  /\ expiry \in [Durations -> Nat]
  /\ charges \in [Charges -> Charge]

(* "Slow but answers within the timeout window -> still succeeds."  An     *)
(* answer that came in time is taken for a timeout, so that its charge is  *)
(* made again, only if the loop was held up for more than two fifths of    *)
(* the timeout and another call's guard was armed when this call began;    *)
(* nor does a hung provider get its answer taken unless the loop was held  *)
(* up for all that it outlasts the guard and another one was hanging then. *)
(* A call that is alone is told the truth however long the loop stands.    *)
MisjudgedOnlyIfHeldUp ==
  [][\A c \in Charges :
       charges[c].pc = "racing" /\ charges'[c].pc = "settled" =>
         /\ charges[c].outcome = "delay" /\ charges'[c].result = "timeout" =>
              /\ GATEWAY_TIMEOUT_MS \in charges[c].beside
              /\ \A t \in timers : t.charge = c /\ t.kind = "attempt" =>
                   10 * (now - t.due) > 4 * GATEWAY_TIMEOUT_MS
         /\ charges[c].outcome = "timeout" /\ charges'[c].result # "timeout" =>
              /\ GATEWAY_TIMEOUT_MS + HANG \in charges[c].beside
              /\ \A t \in timers : t.charge = c /\ t.kind = "guard" =>
                   now - t.due >= HANG]_vars

(* "a hung provider can never freeze a worker": every call that waits has  *)
(* its guard armed, for GATEWAY_TIMEOUT_MS after it began.  And no guard   *)
(* outlives its call, where it would reject a promise nobody handles.      *)
GuardedUntilSettled ==
  \A c \in Charges :
    {t \in timers : t.charge = c /\ t.kind = "guard"} =
      IF charges[c].pc = "racing"
        THEN {[charge |-> c, kind |-> "guard", ms |-> GATEWAY_TIMEOUT_MS,
               due |-> charges[c].started + GATEWAY_TIMEOUT_MS]}
        ELSE {}

(* .env.example: "probabilities 0-1, must sum <= 1; remainder = timeout".  *)
(* An outcome that is configured never to happen does not happen.          *)
OutcomesAsConfigured ==
  LET share == [success |-> PROB.success, failure |-> PROB.failure, delay |-> PROB.delay,
                timeout |-> 100 - PROB.success - PROB.failure - PROB.delay]
  IN \A c \in Charges : charges[c].outcome # "none" => share[charges[c].outcome] > 0

=============================================================================
