--------------------------- MODULE GatewayProofs ---------------------------
(***************************************************************************)
(* Machine-checked proofs of the properties of Gateway, for any number of  *)
(* calls, any timeout of 2 or more, any probabilities and any hold-up of   *)
(* the event loop.                                                         *)
(***************************************************************************)
EXTENDS Gateway, TLAPS

Guard(c) == [charge |-> c, kind |-> "guard", ms |-> GATEWAY_TIMEOUT_MS,
             due |-> charges[c].started + GATEWAY_TIMEOUT_MS]

(* What GuardedUntilSettled says of one call.                              *)
Guarded(c) ==
  {t \in timers : t.charge = c /\ t.kind = "guard"} =
    IF charges[c].pc = "racing" THEN {Guard(c)} ELSE {}

(* A call that waits has its attempt's timer, too.                         *)
Attempted(c) ==
  /\ charges[c].outcome \in {"delay", "timeout"}
  /\ \E t \in timers : t.charge = c /\ t.kind = "attempt"
  /\ \A t \in timers :
       t.charge = c /\ t.kind = "attempt" =>
         /\ t.due = charges[c].started + t.ms
         /\ t.ms \in IF charges[c].outcome = "delay" THEN SlowAnswer ELSE Hang

CallInv(c) ==
  /\ charges[c].pc = "idle" => \A t \in timers : t.charge # c
  /\ charges[c].pc = "racing" => Attempted(c)

(* A timer was armed its duration ago or less, before it is due, in the    *)
(* list of its duration, which expires no later than it is due.            *)
TimerInv(t) ==
  /\ t.due <= now + t.ms
  /\ expiry[t.ms] <= t.due
  /\ t.kind = "guard" <=> t.ms = GATEWAY_TIMEOUT_MS

(* A timer that found its list empty stays the first one there, and the    *)
(* list expires when it is due.                                            *)
FirstInv(t) ==
  charges[t.charge].pc = "racing" /\ t.ms \notin charges[t.charge].beside =>
    /\ t.due <= expiry[t.ms]
    /\ \A u \in timers : u.ms = t.ms => t.due <= u.due

GatewayInv ==
  /\ TypeOK
  /\ \A c \in Charges : Guarded(c) /\ CallInv(c)
  /\ \A t \in timers : TimerInv(t) /\ FirstInv(t)

(* GuardedUntilSettled, call by call.                                      *)
LEMMA GuardedIsForAll == GuardedUntilSettled <=> \A c \in Charges : Guarded(c)
BY DEF GuardedUntilSettled, Guarded, Guard

(* Slow answers come before the guard, with two fifths of the timeout to   *)
(* spare; a hung provider's comes after it.                                *)
LEMMA DurationsDiffer ==
  /\ GATEWAY_TIMEOUT_MS \in Nat
  /\ \A ms \in SlowAnswer :
       ms \in Nat /\ ms < GATEWAY_TIMEOUT_MS
         /\ 10 * (GATEWAY_TIMEOUT_MS - ms) > 4 * GATEWAY_TIMEOUT_MS
  /\ \A ms \in Hang : ms \in Nat /\ ms = GATEWAY_TIMEOUT_MS + HANG /\ ms > GATEWAY_TIMEOUT_MS
  /\ \A ms \in Durations : ms \in Nat
BY GatewayAssumption DEF SlowAnswer, Hang, Durations

(* An answer at once never had a timer.                                    *)
LEMMA AtOnceStep ==
  ASSUME GatewayInv, NEW c \in Charges, NEW outcome \in Outcomes,
         ChargeAtOnce(c, outcome)
  PROVE  GatewayInv'
<1> USE DEF GatewayInv, ChargeAtOnce
<1>1. /\ charges'[c].pc = "settled" /\ charges'[c] \in Charge
      /\ \A d \in Charges \ {c} : charges'[d] = charges[d]
  <2>1. PICK call : call = [pc |-> "settled", outcome |-> outcome,
                            result |-> AnswerOf(outcome), started |-> now, beside |-> {}]
    OBVIOUS
  <2>3. now \in Nat /\ AnswerOf(outcome) \in {"success", "card_declined"}
    BY DEF TypeOK, AnswerOf
  <2>4. call \in Charge /\ call.pc = "settled"
    BY <2>1, <2>3 DEF Charge
  <2>5. QED
    BY <2>1, <2>4 DEF TypeOK
<1>2. TypeOK'
  BY <1>1 DEF TypeOK
<1>3. \A t \in timers : t.charge # c /\ t.charge \in Charges
  BY DEF CallInv, TypeOK, Timer
<1>4. Guarded(c)' /\ CallInv(c)'
  BY <1>1, <1>3 DEF Guarded, CallInv
<1>5. \A d \in Charges \ {c} : Guarded(d)' /\ CallInv(d)'
  BY <1>1 DEF Guarded, Guard, CallInv, Attempted
<1>6. \A t \in timers' : TimerInv(t)' /\ FirstInv(t)'
  BY <1>1, <1>3 DEF TimerInv, FirstInv
<1>7. QED
  BY <1>2, <1>4, <1>5, <1>6

(* One that sleeps arms its guard and its attempt, each as the last of its *)
(* list, which is the first if the list is empty.                          *)
LEMMA SleepsStep ==
  ASSUME GatewayInv, NEW c \in Charges, NEW outcome \in Outcomes,
         NEW ms \in SlowAnswer \cup Hang, ChargeSleeps(c, outcome, ms)
  PROVE  GatewayInv'
<1> DEFINE guard == [charge |-> c, kind |-> "guard", ms |-> GATEWAY_TIMEOUT_MS,
                     due |-> now + GATEWAY_TIMEOUT_MS]
           attempt == [charge |-> c, kind |-> "attempt", ms |-> ms, due |-> now + ms]
<1>1. /\ charges'[c].pc = "racing" /\ charges'[c].outcome = outcome
      /\ charges'[c].started = now /\ charges'[c].beside = {t.ms : t \in timers}
      /\ \A d \in Charges \ {c} : charges'[d] = charges[d]
  BY DEF GatewayInv, TypeOK, ChargeSleeps
<1>2. /\ ms \in Nat /\ ms # GATEWAY_TIMEOUT_MS /\ ms \in Durations /\ now \in Nat
      /\ outcome \in {"delay", "timeout"} /\ UNCHANGED now
      /\ GATEWAY_TIMEOUT_MS \in Nat /\ GATEWAY_TIMEOUT_MS \in Durations
  BY DurationsDiffer DEF GatewayInv, TypeOK, ChargeSleeps, Durations
<1>3. ms \in IF outcome = "delay" THEN SlowAnswer ELSE Hang
  BY DEF ChargeSleeps
<1>4. guard \in Timer /\ attempt \in Timer /\ timers' = timers \cup {guard, attempt}
  BY <1>2 DEF Timer, ChargeSleeps
<1>5. \A t \in timers : t \in Timer /\ t.charge # c
  BY DEF GatewayInv, CallInv, ChargeSleeps, TypeOK
<1>6. \A m \in Durations :
        expiry'[m] = IF m \in {GATEWAY_TIMEOUT_MS, ms} /\ Listed(m) = {}
                       THEN now + m ELSE expiry[m]
  BY DEF ChargeSleeps
<1>7. TypeOK'
  <2>1. [pc |-> "racing", outcome |-> outcome, result |-> "none",
         started |-> now, beside |-> {t.ms : t \in timers}] \in Charge
    <3>1. {t.ms : t \in timers} \in SUBSET Durations
      BY <1>5 DEF Timer
    <3>2. QED
      BY <1>2, <3>1 DEF Charge
  <2>2. charges' \in [Charges -> Charge]
    BY <2>1 DEF ChargeSleeps, GatewayInv, TypeOK
  <2>3. expiry' \in [Durations -> Nat]
    BY <1>2, DurationsDiffer DEF ChargeSleeps, GatewayInv, TypeOK
  <2>4. QED
    BY <1>2, <1>4, <2>2, <2>3 DEF GatewayInv, TypeOK
<1>8. Guard(c)' = guard
  BY <1>1 DEF Guard
<1>9. Guarded(c)'
  BY <1>1, <1>4, <1>5, <1>8 DEF Guarded
<1>10. CallInv(c)'
  BY <1>1, <1>2, <1>3, <1>4, <1>5 DEF CallInv, Attempted
<1>11. \A d \in Charges \ {c} : Guarded(d)' /\ CallInv(d)'
  <2>1. SUFFICES ASSUME NEW d \in Charges \ {c} PROVE Guarded(d)' /\ CallInv(d)'
    OBVIOUS
  <2>2. charges'[d] = charges[d] /\ \A t : t.charge = d => (t \in timers' <=> t \in timers)
    BY <1>1, <1>4
  <2>3. Guarded(d) /\ CallInv(d)
    BY DEF GatewayInv
  <2>4. Guarded(d)'
    BY <2>2, <2>3 DEF Guarded, Guard
  <2>5. CallInv(d)'
    BY <2>2, <2>3 DEF CallInv, Attempted
  <2>6. QED
    BY <2>4, <2>5
<1>12. \A t \in timers : expiry'[t.ms] = expiry[t.ms]
  BY <1>5, <1>6 DEF Listed, Timer
<1>13. \A t \in timers : t.due <= now + t.ms /\ t.due \in Nat /\ t.ms \in Nat
  BY <1>5, DurationsDiffer DEF GatewayInv, TimerInv, Timer
<1>14. \A t \in {guard, attempt} : t.due = now + t.ms /\ t.charge = c
  OBVIOUS
<1>15. \A t \in timers : TimerInv(t)' /\ FirstInv(t)'
  <2>1. SUFFICES ASSUME NEW t \in timers PROVE TimerInv(t)' /\ FirstInv(t)'
    OBVIOUS
  <2>2. TimerInv(t) /\ FirstInv(t) /\ t.charge \in Charges \ {c}
    BY <1>5 DEF GatewayInv, Timer
  <2>3. TimerInv(t)'
    BY <1>2, <1>12, <2>2 DEF TimerInv
  <2>4. \A u \in {guard, attempt} : u.ms = t.ms => t.due <= u.due
    BY <1>13, <1>14
  <2>5. FirstInv(t)'
    BY <1>1, <1>4, <1>12, <2>2, <2>4 DEF FirstInv
  <2>6. QED
    BY <2>3, <2>5
<1>16. \A t \in {guard, attempt} : TimerInv(t)' /\ FirstInv(t)'
  <2>1. SUFFICES ASSUME NEW t \in {guard, attempt} PROVE TimerInv(t)' /\ FirstInv(t)'
    OBVIOUS
  <2>2. /\ t.ms \in {GATEWAY_TIMEOUT_MS, ms} /\ t.ms \in Durations /\ t.ms \in Nat
        /\ t.due = now + t.ms /\ t.charge = c
    BY <1>2
  <2>3. t.kind = "guard" <=> t.ms = GATEWAY_TIMEOUT_MS
    BY <1>2
  <2>4. CASE Listed(t.ms) = {}
    <3>1. expiry'[t.ms] = t.due
      BY <1>6, <2>2, <2>4
    <3>2. \A u \in timers' : u.ms = t.ms => u.due = t.due
      BY <1>4, <1>14, <2>2, <2>4 DEF Listed
    <3>3. QED
      BY <1>2, <2>2, <2>3, <3>1, <3>2 DEF TimerInv, FirstInv
  <2>5. CASE Listed(t.ms) # {}
    <3>1. PICK u \in timers : u.ms = t.ms
      BY <2>5 DEF Listed
    <3>2. expiry'[t.ms] <= u.due /\ expiry'[t.ms] \in Nat
      BY <1>7, <1>12, <2>2, <3>1 DEF GatewayInv, TimerInv, TypeOK
    <3>3. expiry'[t.ms] <= t.due
      BY <1>2, <1>13, <2>2, <3>1, <3>2
    <3>4. t.ms \in charges'[t.charge].beside
      BY <1>1, <2>2, <3>1
    <3>5. QED
      BY <1>2, <2>2, <2>3, <3>3, <3>4 DEF TimerInv, FirstInv
  <2>6. QED
    BY <2>4, <2>5
<1>17. QED
  BY <1>4, <1>7, <1>9, <1>10, <1>11, <1>15, <1>16 DEF GatewayInv

(* A list that is left with timers expires with the first of them.         *)
LEMMA ListLeft ==
  ASSUME GatewayInv, NEW ms \in Durations, NEW gone, Leaves(ms, gone), UNCHANGED now,
         \A c \in Charges : charges'[c].pc = "racing" => charges'[c] = charges[c]
  PROVE  /\ timers' = timers \ gone /\ expiry' \in [Durations -> Nat]
         /\ \A t \in timers' : TimerInv(t)' /\ FirstInv(t)'
<1>1. timers' = timers \ gone
  BY DEF Leaves
<1>2. expiry \in [Durations -> Nat] /\ \A t \in timers : t \in Timer
  BY DEF GatewayInv, TypeOK
<1>3. expiry' \in [Durations -> Nat]
  BY <1>2 DEF Leaves, Listed, Timer
<1>4. \A t \in timers' : t.ms # ms => expiry'[t.ms] = expiry[t.ms]
  BY <1>1, <1>2 DEF Leaves, Timer
<1>5. \A t \in timers' : t.ms = ms =>
        \E next \in timers' : next.ms = ms /\ expiry'[ms] = next.due
                                /\ \A u \in timers' : u.ms = ms => next.due <= u.due
  BY <1>1, <1>2 DEF Leaves, Listed
<1>6. SUFFICES ASSUME NEW t \in timers'
               PROVE  TimerInv(t)' /\ FirstInv(t)'
  BY <1>1, <1>3
<1>7. TimerInv(t) /\ FirstInv(t) /\ t.charge \in Charges /\ t.due \in Nat
  BY <1>1, <1>2 DEF GatewayInv, Timer
<1>8. TimerInv(t)'
  BY <1>4, <1>5, <1>7 DEF TimerInv
<1>9. FirstInv(t)'
  <2>1. SUFFICES ASSUME charges'[t.charge].pc = "racing",
                        t.ms \notin charges'[t.charge].beside
                 PROVE  /\ t.due <= expiry'[t.ms]
                        /\ \A u \in timers' : u.ms = t.ms => t.due <= u.due
    BY DEF FirstInv
  <2>2. /\ t.due <= expiry[t.ms]
        /\ \A u \in timers : u.ms = t.ms => t.due <= u.due
    BY <1>7, <2>1 DEF FirstInv
  <2>3. t.due <= expiry'[t.ms]
    BY <1>1, <1>4, <1>5, <2>2
  <2>4. QED
    BY <1>1, <2>2, <2>3
<1>10. QED
  BY <1>8, <1>9

(* What a timer makes of a call that it settles.                           *)
LEMMA SettledCall ==
  ASSUME NEW call \in Charge, NEW result \in {"success", "timeout"}
  PROVE  [call EXCEPT !.pc = "settled", !.result = result] \in Charge
<1>1. PICK Lists : Lists = SUBSET Durations
  OBVIOUS
<1>2. Charge = [pc : {"idle", "racing", "settled"},
                outcome : Outcomes \cup {"none"},
                result : {"none", "success", "card_declined", "timeout"},
                started : Nat,
                beside : Lists]
  BY <1>1 DEF Charge
<1>3. QED
  BY <1>2

(* A list runs: it settles calls, takes the guards of these and of no      *)
(* others, and ends attempts nobody waits for afterwards.                  *)
LEMMA ListRuns ==
  ASSUME GatewayInv, NEW ms \in Durations, NEW gone, NEW settled \in SUBSET Charges,
         Leaves(ms, gone), UNCHANGED now, charges' \in [Charges -> Charge],
         \A c \in settled : charges'[c].pc = "settled",
         \A c \in Charges \ settled : charges'[c] = charges[c],
         \A t \in timers : t.kind = "guard" => (t \in gone <=> t.charge \in settled),
         \A t \in timers : t.kind = "attempt" /\ t \in gone =>
                             charges'[t.charge].pc # "racing"
  PROVE  GatewayInv'
<1>1. /\ timers' = timers \ gone /\ expiry' \in [Durations -> Nat]
      /\ \A t \in timers' : TimerInv(t)' /\ FirstInv(t)'
  <2>1. \A c \in Charges : charges'[c].pc = "racing" => charges'[c] = charges[c]
    OBVIOUS
  <2>2. QED
    BY <2>1, ListLeft
<1>2. TypeOK'
  BY <1>1 DEF GatewayInv, TypeOK
<1>3. ASSUME NEW c \in settled
      PROVE  Guarded(c)' /\ CallInv(c)'
  BY <1>1, <1>3 DEF Guarded, CallInv
<1>4. ASSUME NEW c \in Charges \ settled
      PROVE  Guarded(c)' /\ CallInv(c)'
  <2>1. charges'[c] = charges[c] /\ Guarded(c) /\ CallInv(c) /\ Guard(c)' = Guard(c)
    BY <1>4 DEF GatewayInv, Guard
  <2>2. \A t : t.charge = c /\ t.kind = "guard" => (t \in timers' <=> t \in timers)
    BY <1>1, <1>4
  <2>3. Guarded(c)'
    BY <2>1, <2>2 DEF Guarded
  <2>4. charges[c].pc = "racing" =>
          \A t : t.charge = c /\ t.kind = "attempt" => (t \in timers' <=> t \in timers)
    BY <1>1, <2>1
  <2>5. CallInv(c)'
    BY <1>1, <2>1, <2>4 DEF CallInv, Attempted
  <2>6. QED
    BY <2>3, <2>5
<1>5. QED
  BY <1>1, <1>2, <1>3, <1>4 DEF GatewayInv

(* Attempts that win settle their calls and clear their guards.            *)
LEMMA AttemptsStep ==
  ASSUME GatewayInv, NEW ms \in Durations, AttemptsEnd(ms)
  PROVE  GatewayInv'
<1> DEFINE won == {c \in {t.charge : t \in Due(ms)} : charges[c].pc = "racing"}
           gone == Due(ms) \cup Cleared(won)
<1>1. \A t \in timers : t \in Timer /\ TimerInv(t)
  BY DEF GatewayInv, TypeOK
<1>2. won \subseteq Charges
  BY <1>1 DEF Due, Listed, Timer
<1>3. /\ \A c \in won : charges'[c] = [charges[c] EXCEPT !.pc = "settled", !.result = "success"]
      /\ \A c \in Charges \ won : charges'[c] = charges[c]
      /\ charges' = [c \in Charges |-> charges'[c]]
  BY <1>2 DEF AttemptsEnd
<1>4. charges' \in [Charges -> Charge]
  <2>1. \A c \in Charges : charges[c] \in Charge
    BY DEF GatewayInv, TypeOK
  <2>2. \A c \in Charges : charges'[c] \in Charge
    <3>1. ASSUME NEW c \in won PROVE charges'[c] \in Charge
      <4>1. charges'[c] = [charges[c] EXCEPT !.pc = "settled", !.result = "success"]
        BY <1>3, <3>1
      <4>2. charges[c] \in Charge
        BY <1>2, <2>1, <3>1
      <4>3. QED
        BY <4>1, <4>2, SettledCall
    <3>2. QED
      BY <1>3, <2>1, <3>1
  <2>3. QED
    BY <1>3, <2>2
<1>5. \A c \in won : charges'[c].pc = "settled"
  BY <1>2, <1>3 DEF GatewayInv, TypeOK, Charge
<1>6. \A t \in Due(ms) : t.kind # "guard"
  BY <1>1 DEF AttemptsEnd, Due, Listed, TimerInv
<1>7. \A t \in timers : t.kind = "guard" => (t \in gone <=> t.charge \in won)
  BY <1>6 DEF Cleared
<1>8. \A t \in timers : t.kind = "attempt" /\ t \in gone => charges'[t.charge].pc # "racing"
  <2>1. SUFFICES ASSUME NEW t \in timers, t.kind = "attempt", t \in gone
                 PROVE  charges'[t.charge].pc # "racing"
    OBVIOUS
  <2>2. t \in Due(ms) /\ t.charge \in Charges
    BY <1>1, <2>1 DEF Cleared, Timer
  <2>3. QED
    BY <1>3, <1>5, <2>2
<1>9. Leaves(ms, gone) /\ UNCHANGED now
  BY DEF AttemptsEnd
<1> HIDE DEF won, gone
<1>10. QED
  BY <1>2, <1>3, <1>4, <1>5, <1>7, <1>8, <1>9, ListRuns

(* Guards that are due settle their calls.                                 *)
LEMMA GuardsStep ==
  ASSUME GatewayInv, GuardsFire
  PROVE  GatewayInv'
<1> DEFINE late == {t.charge : t \in Due(GATEWAY_TIMEOUT_MS)}
           gone == Due(GATEWAY_TIMEOUT_MS)
<1>1. \A t \in timers : t \in Timer /\ TimerInv(t)
  BY DEF GatewayInv, TypeOK
<1>2. late \subseteq Charges /\ GATEWAY_TIMEOUT_MS \in Durations
  BY <1>1 DEF Due, Listed, Timer, Durations
<1>3. /\ \A c \in late : charges'[c] = [charges[c] EXCEPT !.pc = "settled", !.result = "timeout"]
      /\ \A c \in Charges \ late : charges'[c] = charges[c]
      /\ charges' = [c \in Charges |-> charges'[c]]
  BY <1>2 DEF GuardsFire
<1>4. charges' \in [Charges -> Charge]
  <2>1. \A c \in Charges : charges[c] \in Charge
    BY DEF GatewayInv, TypeOK
  <2>2. \A c \in Charges : charges'[c] \in Charge
    BY <1>2, <1>3, <2>1, SettledCall
  <2>3. QED
    BY <1>3, <2>2
<1>5. \A c \in late : charges'[c].pc = "settled"
  BY <1>2, <1>3 DEF GatewayInv, TypeOK, Charge
<1>6. \A t \in gone : t \in timers /\ t.kind = "guard"
  BY <1>1 DEF Due, Listed, TimerInv
<1>7. \A t \in timers : t.kind = "guard" => (t \in gone <=> t.charge \in late)
  <2>1. SUFFICES ASSUME NEW t \in timers, t.kind = "guard", t.charge \in late
                 PROVE  t \in gone
    OBVIOUS
  <2>2. PICK u \in gone : u.charge = t.charge
    BY <2>1
  <2>3. t.charge \in Charges /\ Guarded(t.charge)
    BY <1>1 DEF GatewayInv, Timer
  <2>4. t = u
    BY <1>6, <2>1, <2>2, <2>3 DEF Guarded
  <2>5. QED
    BY <2>2, <2>4
<1>8. \A t \in timers : t.kind = "attempt" /\ t \in gone => charges'[t.charge].pc # "racing"
  BY <1>6
<1>9. Leaves(GATEWAY_TIMEOUT_MS, gone) /\ UNCHANGED now
  BY DEF GuardsFire
<1> HIDE DEF late, gone
<1>10. QED
  BY <1>2, <1>3, <1>4, <1>5, <1>7, <1>8, <1>9, ListRuns

(* Every step preserves the invariant.                                     *)
LEMMA GatewayStep ==
  ASSUME GatewayInv, [Next]_vars
  PROVE  GatewayInv'
<1>1. ASSUME UNCHANGED <<timers, expiry, charges>>, now' \in 0..MaxTime, now' >= now
      PROVE  GatewayInv'
  <2>1. TypeOK'
    BY <1>1 DEF GatewayInv, TypeOK
  <2>2. \A c \in Charges : Guarded(c)' /\ CallInv(c)'
    BY <1>1 DEF GatewayInv, Guarded, Guard, CallInv, Attempted
  <2>3. \A t \in timers : t.due \in Nat /\ t.ms \in Nat
    BY DurationsDiffer DEF GatewayInv, TypeOK, Timer
  <2>4. \A t \in timers' : TimerInv(t)' /\ FirstInv(t)'
    BY <1>1, <2>1, <2>3 DEF GatewayInv, TypeOK, TimerInv, FirstInv
  <2>5. QED
    BY <2>1, <2>2, <2>4 DEF GatewayInv
<1>2. CASE Tick
  BY <1>1, <1>2, GatewayAssumption DEF Tick, GatewayInv, TypeOK
<1>3. CASE UNCHANGED vars
  BY <1>1, <1>3 DEF vars, GatewayInv, TypeOK
<1>4. QED
  BY <1>2, <1>3, AtOnceStep, SleepsStep, AttemptsStep, GuardsStep DEF Next

(* Types, guards and the order of the timers in their lists hold together. *)
LEMMA GatewayInvariant == Spec => []GatewayInv
<1>1. Init => GatewayInv
  BY GatewayAssumption
  DEF Init, GatewayInv, TypeOK, Guarded, CallInv, NotCalled, Charge
<1>2. GatewayInv /\ [Next]_vars => GatewayInv'
  BY GatewayStep
<1>3. QED
  BY <1>1, <1>2, PTL DEF Spec

(* Every variable keeps its type.                                          *)
THEOREM GatewayTypeCorrect == Spec => []TypeOK
<1>1. GatewayInv => TypeOK
  BY DEF GatewayInv
<1>2. QED
  BY <1>1, GatewayInvariant, PTL

(* A call that waits has its guard armed, and no guard outlives its call.  *)
THEOREM CallsAreGuarded == Spec => []GuardedUntilSettled
<1>1. GatewayInv => GuardedUntilSettled
  BY GuardedIsForAll DEF GatewayInv
<1>2. QED
  BY <1>1, GatewayInvariant, PTL

----------------------------------------------------------------------------
(* What MisjudgedOnlyIfHeldUp says of one call.                            *)
Judged(c) ==
  charges[c].pc = "racing" /\ charges'[c].pc = "settled" =>
    /\ charges[c].outcome = "delay" /\ charges'[c].result = "timeout" =>
         /\ GATEWAY_TIMEOUT_MS \in charges[c].beside
         /\ \A t \in timers : t.charge = c /\ t.kind = "attempt" =>
              10 * (now - t.due) > 4 * GATEWAY_TIMEOUT_MS
    /\ charges[c].outcome = "timeout" /\ charges'[c].result # "timeout" =>
         /\ GATEWAY_TIMEOUT_MS + HANG \in charges[c].beside
         /\ \A t \in timers : t.charge = c /\ t.kind = "guard" =>
              now - t.due >= HANG

(* A list that runs a call's timer before the list of its other one, which *)
(* was due earlier, expires earlier than the timer it runs: it had others. *)
LEMMA OverdueTimerWaits ==
  ASSUME GatewayInv, NEW t \in timers, NEW u \in timers,
         charges[t.charge].pc = "racing", Runs(t.ms), u.due < t.due
  PROVE  t.ms \in charges[t.charge].beside
<1>1. expiry[t.ms] <= expiry[u.ms]
  BY DEF Runs
<1>2. expiry[u.ms] <= u.due
  BY DEF GatewayInv, TimerInv
<1>3. /\ t.due \in Nat /\ u.due \in Nat
      /\ expiry[t.ms] \in Nat /\ expiry[u.ms] \in Nat
  BY DEF GatewayInv, TypeOK, Timer
<1>4. ~(t.due <= expiry[t.ms])
  BY <1>1, <1>2, <1>3
<1>5. QED
  BY <1>4 DEF GatewayInv, FirstInv

(* A guard that fires on a slow answer.                                    *)
LEMMA GuardsJudge ==
  ASSUME GatewayInv, GuardsFire, NEW c \in Charges, charges[c].pc = "racing",
         charges'[c].pc = "settled"
  PROVE  Judged(c)
<1>1. charges[c] \in Charge /\ \A t \in timers : t \in Timer
  BY DEF GatewayInv, TypeOK
<1>2. PICK g \in Due(GATEWAY_TIMEOUT_MS) : g.charge = c
  BY DEF GuardsFire
<1>3. g \in timers /\ g.ms = GATEWAY_TIMEOUT_MS /\ g.due <= now
  BY <1>2 DEF Due, Listed
<1>4. g.due = charges[c].started + GATEWAY_TIMEOUT_MS
  <2>1. g.kind = "guard" /\ Guarded(c)
    BY <1>3 DEF GatewayInv, TimerInv
  <2>2. g = Guard(c)
    BY <1>2, <1>3, <2>1 DEF Guarded
  <2>3. QED
    BY <2>2 DEF Guard
<1>5. charges'[c].result = "timeout"
  BY <1>1, <1>2 DEF GuardsFire, Charge
<1>6. Attempted(c)
  BY DEF GatewayInv, CallInv
<1>7. ASSUME charges[c].outcome = "delay"
      PROVE  /\ GATEWAY_TIMEOUT_MS \in charges[c].beside
             /\ \A t \in timers : t.charge = c /\ t.kind = "attempt" =>
                  10 * (now - t.due) > 4 * GATEWAY_TIMEOUT_MS
  <2>1. \A t \in timers : t.charge = c /\ t.kind = "attempt" =>
          t.due = charges[c].started + t.ms /\ t.ms \in SlowAnswer
    BY <1>6, <1>7 DEF Attempted
  <2>2. charges[c].started \in Nat /\ now \in Nat
    BY <1>1 DEF Charge, GatewayInv, TypeOK
  <2>3. PICK a \in timers : a.charge = c /\ a.kind = "attempt"
    BY <1>6 DEF Attempted
  <2>4. a.due < g.due
    BY <1>4, <2>1, <2>2, <2>3, DurationsDiffer
  <2>5. GATEWAY_TIMEOUT_MS \in charges[c].beside
    BY <1>2, <1>3, <2>4, OverdueTimerWaits DEF GuardsFire
  <2>6. \A t \in timers : t.charge = c /\ t.kind = "attempt" =>
          10 * (now - t.due) > 4 * GATEWAY_TIMEOUT_MS
    <3>1. SUFFICES ASSUME NEW t \in timers, t.charge = c, t.kind = "attempt"
                   PROVE  10 * (now - t.due) > 4 * GATEWAY_TIMEOUT_MS
      OBVIOUS
    <3>2. t.due = charges[c].started + t.ms /\ t.ms \in Nat
          /\ 10 * (GATEWAY_TIMEOUT_MS - t.ms) > 4 * GATEWAY_TIMEOUT_MS
      BY <2>1, <3>1, DurationsDiffer
    <3>3. now - t.due >= GATEWAY_TIMEOUT_MS - t.ms
      BY <1>3, <1>4, <2>2, <3>2, DurationsDiffer
    <3>4. QED
      BY <2>2, <3>2, <3>3, DurationsDiffer
  <2>7. QED
    BY <2>5, <2>6
<1>8. QED
  BY <1>5, <1>7 DEF Judged

(* An attempt that outlasts the guard and yet comes first.                 *)
LEMMA AttemptsJudge ==
  ASSUME GatewayInv, NEW ms \in Durations, AttemptsEnd(ms), NEW c \in Charges,
         charges[c].pc = "racing", charges'[c].pc = "settled"
  PROVE  Judged(c)
<1>1. charges[c] \in Charge /\ \A t \in timers : t \in Timer
  BY DEF GatewayInv, TypeOK
<1>2. PICK a \in Due(ms) : a.charge = c
  BY DEF AttemptsEnd
<1>3. a \in timers /\ a.ms = ms /\ a.due <= now /\ a.kind = "attempt"
  BY <1>1, <1>2 DEF Due, Listed, AttemptsEnd, GatewayInv, TimerInv, Timer
<1>4. charges'[c].result # "timeout"
  BY <1>1, <1>2 DEF AttemptsEnd, Charge
<1>5. Guarded(c) /\ Attempted(c)
  BY DEF GatewayInv, CallInv
<1>6. ASSUME charges[c].outcome = "timeout"
      PROVE  /\ GATEWAY_TIMEOUT_MS + HANG \in charges[c].beside
             /\ \A t \in timers : t.charge = c /\ t.kind = "guard" =>
                  now - t.due >= HANG
  <2>1. a.due = charges[c].started + ms /\ ms \in Hang
    BY <1>2, <1>3, <1>5, <1>6 DEF Attempted
  <2>2. /\ charges[c].started \in Nat /\ now \in Nat /\ GATEWAY_TIMEOUT_MS \in Nat
        /\ HANG \in Nat \ {0} /\ ms = GATEWAY_TIMEOUT_MS + HANG
    BY <1>1, <2>1, DurationsDiffer, GatewayAssumption DEF Charge, GatewayInv, TypeOK
  <2>3. \A t \in timers : t.charge = c /\ t.kind = "guard" =>
          t.due = charges[c].started + GATEWAY_TIMEOUT_MS
    <3>1. \A t \in timers : t.charge = c /\ t.kind = "guard" => t = Guard(c)
      BY <1>5 DEF Guarded
    <3>2. QED
      BY <3>1 DEF Guard
  <2>4. PICK g \in timers : g.charge = c /\ g.kind = "guard"
    BY <1>5 DEF Guarded, Guard
  <2>5. g.due < a.due
    BY <2>1, <2>2, <2>3, <2>4
  <2>6. ms \in charges[c].beside
    BY <1>2, <1>3, <2>4, <2>5, OverdueTimerWaits DEF AttemptsEnd
  <2>7. QED
    BY <1>3, <2>1, <2>2, <2>3, <2>6
<1>7. QED
  BY <1>4, <1>6 DEF Judged

(* A slow answer is taken for a timeout, or a hung provider's taken at     *)
(* all, only if the loop was held up for long over two calls or more.      *)
THEOREM ResultsAreTruthful == Spec => MisjudgedOnlyIfHeldUp
<1>1. GatewayInv /\ [Next]_vars => [\A c \in Charges : Judged(c)]_vars
  <2>1. SUFFICES ASSUME GatewayInv, Next, NEW c \in Charges
                 PROVE  Judged(c)
    OBVIOUS
  <2>2. SUFFICES ASSUME charges[c].pc = "racing", charges'[c].pc = "settled"
                 PROVE  Judged(c)
    BY DEF Judged
  <2>3. ASSUME NEW d \in Charges, NEW outcome \in Outcomes,
               \/ ChargeAtOnce(d, outcome)
               \/ \E ms \in SlowAnswer \cup Hang : ChargeSleeps(d, outcome, ms)
        PROVE  FALSE
    <3>1. d # c
      BY <2>2, <2>3 DEF ChargeAtOnce, ChargeSleeps
    <3>2. charges'[c] = charges[c]
      BY <2>1, <2>3, <3>1 DEF ChargeAtOnce, ChargeSleeps, GatewayInv, TypeOK
    <3>3. QED
      BY <2>2, <3>2
  <2>4. ~Tick
    BY <2>2 DEF Tick
  <2>5. QED
    BY <2>1, <2>2, <2>3, <2>4, GuardsJudge, AttemptsJudge DEF Next
<1>2. QED
  BY <1>1, GatewayInvariant, PTL DEF MisjudgedOnlyIfHeldUp, Judged, Spec

=============================================================================
