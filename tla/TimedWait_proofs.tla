--------------------------- MODULE TimedWait_proofs ---------------------------
(* Proofs about the time-outs of blocking calls: TimedWait, for any width   *)
(* of the counters and any gap of at most one round between two checks.     *)
EXTENDS TimedWait, TLAPS

(***************************************************************************)
(* The remainder of a number of at most one round, and of one round more.   *)
(***************************************************************************)
LEMMA RoundOff ==
  ASSUME NEW x \in Int, NEW m \in Nat \ {0}
  PROVE  /\ 0 <= x /\ x < m => x % m = x
         /\ m <= x /\ x < 2 * m => x % m = x - m
         /\ -m <= x /\ x < 0 => x % m = x + m
<1>1. x % m \in 0 .. m - 1 /\ x = m * (x \div m) + (x % m)
  BY SMT
<1>2. ASSUME NEW q \in Int, NEW r \in 0 .. m - 1, x = m * q + r
      PROVE  /\ 0 <= x /\ x < m => q = 0
             /\ m <= x /\ x < 2 * m => q = 1
             /\ -m <= x /\ x < 0 => q = -1
  <2>1. q >= 1 => m * q >= m /\ (q >= 2 => m * q >= 2 * m)
    BY <1>2, SMT
  <2>2. q <= -1 => m * q <= -m /\ (q <= -2 => m * q <= -(2 * m))
    BY <1>2, SMT
  <2>3. q = 0 => m * q = 0
    BY <1>2, SMT
  <2>4. QED
    BY <1>2, <2>1, <2>2, <2>3, SMT
<1>3. x \div m \in Int
  BY SMT
<1>4. QED
  BY <1>1, <1>2, <1>3, SMT

(* The successor in a round of m. *)
LEMMA NextInRound ==
  ASSUME NEW m \in Nat \ {0}, NEW x \in 0 .. m - 1
  PROVE  /\ x < m - 1 => (x + 1) % m = x + 1
         /\ x = m - 1 => (x + 1) % m = 0
<1> DEFINE y == x + 1
<1>1. y \in Int /\ 0 <= y /\ (x < m - 1 => y < m) /\ (x = m - 1 => y = m)
  OBVIOUS
<1> HIDE DEF y
<1>2. (x < m - 1 => y % m = y) /\ (x = m - 1 => y % m = y - m)
  BY <1>1, RoundOff
<1>3. QED
  BY <1>1, <1>2 DEF y

(***************************************************************************)
(* What a check finds while the record is in step with the counters: it     *)
(* times out exactly if the ticks since the record was set reach the time   *)
(* left, and those ticks are what it computes otherwise.                    *)
(***************************************************************************)
LEMMA CheckSees ==
  ASSUME TypeOK, RecordInv, phase # "idle"
  PROVE  /\ Expired <=> gap >= ticksToWait
         /\ ~Expired => Passed(timeOut, tickCount) = gap
<1> DEFINE to == timeOut.timeOnEntering
           sum == to + gap
<1>1. /\ MaxTick \in Nat \ {0} /\ ClockMod \in Nat \ {0} /\ ClockMod = MaxTick + 1
      /\ tickCount \in 0 .. MaxTick /\ to \in 0 .. MaxTick
      /\ gap \in 0 .. ClockMod /\ ticksToWait \in 0 .. MaxTick
      /\ timeOut.overflowCount \in 0 .. MaxTick
  BY WaitAssumption DEF TypeOK, ClockMod
<1>2. Passed(timeOut, tickCount) = (tickCount - to) % ClockMod
  BY DEF Passed
<1>3. CASE sum < ClockMod
  <2>1. tickCount = sum /\ numOfOverflows = timeOut.overflowCount
    BY <1>3 DEF RecordInv
  <2>2. tickCount - to = gap /\ gap < ClockMod
    BY <1>1, <1>3, <2>1
  <2>3. Passed(timeOut, tickCount) = gap
    BY <1>1, <1>2, <2>2, RoundOff
  <2>4. QED
    BY <2>1, <2>3 DEF Expired, TimedOut
<1>4. CASE sum >= ClockMod
  <2>1. /\ tickCount = sum - ClockMod
        /\ numOfOverflows = (timeOut.overflowCount + 1) % ClockMod
    BY <1>4 DEF RecordInv
  <2>2. numOfOverflows # timeOut.overflowCount
    <3>1. CASE timeOut.overflowCount < MaxTick
      <4>1. (timeOut.overflowCount + 1) % ClockMod = timeOut.overflowCount + 1
        BY <1>1, <3>1, NextInRound
      <4>2. QED
        BY <1>1, <2>1, <4>1
    <3>2. CASE timeOut.overflowCount = MaxTick
      <4>1. (timeOut.overflowCount + 1) % ClockMod = 0
        BY <1>1, <3>2, NextInRound
      <4>2. QED
        BY <1>1, <2>1, <3>2, <4>1
    <3>3. QED
      BY <1>1, <3>1, <3>2
  <2>3. CASE gap = ClockMod
    <3>1. tickCount = to
      BY <1>1, <2>1, <2>3
    <3>2. Expired
      BY <1>1, <2>2, <3>1 DEF Expired, TimedOut
    <3>3. QED
      BY <1>1, <2>3, <3>2
  <2>4. CASE gap < ClockMod
    <3>1. tickCount - to = gap - ClockMod /\ tickCount < to
      BY <1>1, <2>1, <2>4
    <3>2. Passed(timeOut, tickCount) = gap
      <4>1. CASE gap = 0
        BY <1>1, <1>4, <4>1
      <4>2. CASE gap > 0
        BY <1>1, <1>2, <2>4, <3>1, <4>2, RoundOff
      <4>3. QED
        BY <1>1, <4>1, <4>2
    <3>3. ~(tickCount >= to)
      BY <1>1, <3>1
    <3>4. QED
      BY <3>2, <3>3 DEF Expired, TimedOut
  <2>5. QED
    BY <1>1, <2>3, <2>4
<1>5. sum \in Int /\ ClockMod \in Int
  BY <1>1
<1>6. QED
  BY <1>3, <1>4, <1>5

-----------------------------------------------------------------------------
(***************************************************************************)
(* The type, the budget of the call and the record in step with the         *)
(* counters hold in every state: os_taskSetTimeOutState and                 *)
(* os_taskCheckForTimeOut agree about what has been waited.                 *)
(***************************************************************************)
LEMMA WaitInvInit == Init => WaitInv
  BY WaitAssumption
  DEF Init, WaitInv, TypeOK, BudgetKept, RecordInv, ExpiredInv,
      os_taskSetTimeOutState, ClockMod

(* A tick keeps it: the counters and the gap advance together. *)
LEMMA WaitInvTick == WaitInv /\ Tick => WaitInv'
<1> SUFFICES ASSUME WaitInv, Tick
             PROVE  WaitInv'
  OBVIOUS
<1> DEFINE to == timeOut.timeOnEntering
           sum == to + gap
<1>1. /\ MaxTick \in Nat \ {0} /\ ClockMod \in Nat \ {0} /\ ClockMod = MaxTick + 1
      /\ tickCount \in 0 .. MaxTick /\ to \in 0 .. MaxTick
      /\ gap \in 0 .. MaxGap /\ MaxGap \in 1 .. ClockMod
      /\ ticksToWait \in 0 .. MaxTick /\ asked \in 0 .. MaxTick /\ elapsed \in Nat
      /\ numOfOverflows \in 0 .. MaxTick
      /\ timeOut.overflowCount \in 0 .. MaxTick
      /\ timeOut \in [overflowCount : 0 .. MaxTick, timeOnEntering : 0 .. MaxTick]
      /\ phase \in {"idle", "waiting", "expired"}
  BY WaitAssumption DEF WaitInv, TypeOK, ClockMod
<1>2. /\ phase' = phase /\ timeOut' = timeOut /\ ticksToWait' = ticksToWait
      /\ asked' = asked
  BY DEF Tick, callVars
<1>3. /\ tickCount < MaxTick => tickCount' = tickCount + 1
      /\ tickCount = MaxTick => tickCount' = 0
  <2>1. tickCount' = (tickCount + 1) % ClockMod
    BY DEF Tick
  <2>2. /\ tickCount < MaxTick => (tickCount + 1) % ClockMod = tickCount + 1
        /\ tickCount = MaxTick => (tickCount + 1) % ClockMod = 0
    BY <1>1, NextInRound
  <2>3. QED
    BY <2>1, <2>2
<1>4. numOfOverflows' = IF tickCount' = 0 THEN (numOfOverflows + 1) % ClockMod
                                          ELSE numOfOverflows
  BY DEF Tick
<1>5. numOfOverflows' \in 0 .. MaxTick
  <2>1. (numOfOverflows + 1) % ClockMod \in 0 .. ClockMod - 1
    BY <1>1
  <2>2. QED
    BY <1>1, <1>4, <2>1
<1>6. /\ phase = "idle" => gap' = 0 /\ elapsed' = 0
      /\ phase # "idle" => /\ gap < MaxGap
                           /\ gap' = gap + 1 /\ elapsed' = elapsed + 1
  <2>1. phase # "idle" => ticksToWait + (elapsed - gap) = asked /\ ticksToWait > 0
    BY DEF WaitInv, BudgetKept
  <2>2. phase # "idle" => gap < MaxGap
    BY DEF Tick
  <2>3. phase # "idle" => elapsed < MaxTick + MaxGap
    BY <1>1, <2>1, <2>2
  <2>4. /\ gap' = IF phase = "idle" THEN 0 ELSE gap + 1
        /\ elapsed' = IF phase = "idle" THEN 0
                      ELSE IF elapsed < MaxTick + MaxGap THEN elapsed + 1 ELSE elapsed
    BY DEF Tick, Longest
  <2>5. QED
    BY <2>2, <2>3, <2>4
<1>7. TypeOK'
  BY <1>1, <1>2, <1>3, <1>5, <1>6 DEF TypeOK
<1>8. BudgetKept'
  BY <1>1, <1>2, <1>6 DEF WaitInv, BudgetKept
<1>9. ExpiredInv'
  BY <1>1, <1>2, <1>6 DEF WaitInv, ExpiredInv
<1>10. RecordInv'
  <2> SUFFICES ASSUME phase # "idle"
               PROVE  /\ to + gap' < ClockMod =>
                           /\ tickCount' = to + gap'
                           /\ numOfOverflows' = timeOut.overflowCount
                      /\ to + gap' >= ClockMod =>
                           /\ tickCount' = to + gap' - ClockMod
                           /\ numOfOverflows' = (timeOut.overflowCount + 1) % ClockMod
    BY <1>1, <1>2, <1>6 DEF RecordInv
  <2>1. /\ sum < ClockMod => /\ tickCount = sum
                             /\ numOfOverflows = timeOut.overflowCount
        /\ sum >= ClockMod => /\ tickCount = sum - ClockMod
                              /\ numOfOverflows = (timeOut.overflowCount + 1) % ClockMod
    BY DEF WaitInv, RecordInv
  <2>2. CASE sum < MaxTick
    BY <1>1, <1>3, <1>4, <1>6, <2>1, <2>2
  <2>3. CASE sum = MaxTick
    <3>1. tickCount' = 0 /\ to + gap' = ClockMod
      BY <1>1, <1>3, <1>6, <2>1, <2>3
    <3>2. sum < ClockMod /\ numOfOverflows = timeOut.overflowCount
      BY <1>1, <2>1, <2>3
    <3>3. numOfOverflows' = (timeOut.overflowCount + 1) % ClockMod
      BY <1>4, <3>1, <3>2
    <3>4. gap' \in Int
      BY <1>1, <1>6
    <3>5. QED
      BY <1>1, <3>1, <3>3, <3>4
  <2>4. CASE sum > MaxTick
    <3>1. tickCount = sum - ClockMod /\ tickCount < MaxTick
      BY <1>1, <1>6, <2>1, <2>4
    <3>2. QED
      BY <1>1, <1>3, <1>4, <1>6, <2>1, <2>4, <3>1
  <2>5. QED
    BY <1>1, <2>2, <2>3, <2>4
<1>11. QED
  BY <1>7, <1>8, <1>9, <1>10 DEF WaitInv

(* A check keeps it: what it subtracts is what has passed. *)
LEMMA WaitInvCheck == WaitInv /\ Check => WaitInv'
<1> SUFFICES ASSUME WaitInv, Check
             PROVE  WaitInv'
  OBVIOUS
<1>1. /\ MaxTick \in Nat \ {0} /\ ClockMod = MaxTick + 1
      /\ tickCount \in 0 .. MaxTick /\ numOfOverflows \in 0 .. MaxTick
      /\ gap \in 0 .. MaxGap /\ MaxGap \in Nat
      /\ ticksToWait \in 0 .. MaxTick /\ asked \in 0 .. MaxTick /\ elapsed \in Nat
      /\ phase # "idle"
  BY WaitAssumption DEF WaitInv, TypeOK, ClockMod, Check
<1>2. /\ Expired <=> gap >= ticksToWait
      /\ ~Expired => Passed(timeOut, tickCount) = gap
  BY CheckSees, <1>1 DEF WaitInv
<1>3. ticksToWait + (elapsed - gap) = asked /\ ticksToWait > 0
  BY <1>1 DEF WaitInv, BudgetKept
<1>4. /\ tickCount' = tickCount /\ numOfOverflows' = numOfOverflows
      /\ asked' = asked /\ elapsed' = elapsed
  BY DEF Check, clockVars
<1>5. CASE Expired
  <2>1. /\ phase' = "expired" /\ timeOut' = timeOut
        /\ ticksToWait' = ticksToWait /\ gap' = gap
    BY <1>5 DEF Check, callVars
  <2>2. elapsed >= asked
    BY <1>1, <1>2, <1>3, <1>5
  <2>3. TypeOK' /\ BudgetKept' /\ ExpiredInv'
    BY <1>1, <1>3, <1>4, <2>1, <2>2 DEF WaitInv, TypeOK, BudgetKept, ExpiredInv
  <2>4. RecordInv'
    BY <1>1, <1>4, <2>1 DEF WaitInv, RecordInv, ClockMod
  <2>5. QED
    BY <2>3, <2>4 DEF WaitInv
<1>6. CASE ~Expired
  <2>1. /\ phase' = "waiting" /\ gap' = 0
        /\ ticksToWait' = ticksToWait - gap
        /\ timeOut' = [overflowCount |-> numOfOverflows, timeOnEntering |-> tickCount]
    BY <1>2, <1>6 DEF Check, TicksLeft, os_taskSetTimeOutState
  <2>2. gap < ticksToWait
    BY <1>1, <1>2, <1>6
  <2>3. TypeOK' /\ BudgetKept' /\ ExpiredInv'
    BY <1>1, <1>3, <1>4, <2>1, <2>2 DEF WaitInv, TypeOK, BudgetKept, ExpiredInv
  <2>4. /\ timeOut'.timeOnEntering = tickCount
        /\ timeOut'.overflowCount = numOfOverflows
    BY <2>1
  <2>5. RecordInv'
    BY <1>1, <1>4, <2>1, <2>4 DEF RecordInv, ClockMod
  <2>6. QED
    BY <2>3, <2>5 DEF WaitInv
<1>7. QED
  BY <1>5, <1>6

(* Beginning and leaving a call keep it. *)
LEMMA WaitInvCall ==
  ASSUME WaitInv, Return \/ \E n \in Waits : Enter(n)
  PROVE  WaitInv'
<1>1. /\ MaxTick \in Nat \ {0} /\ ClockMod = MaxTick + 1 /\ MaxGap \in Nat
      /\ tickCount \in 0 .. MaxTick /\ numOfOverflows \in 0 .. MaxTick
      /\ ticksToWait \in 0 .. MaxTick
      /\ timeOut \in [overflowCount : 0 .. MaxTick, timeOnEntering : 0 .. MaxTick]
      /\ 0 \in 0 .. MaxTick
  BY WaitAssumption DEF WaitInv, TypeOK, ClockMod
<1>2. CASE Return
  BY <1>1, <1>2
  DEF Return, WaitInv, TypeOK, BudgetKept, RecordInv, ExpiredInv, clockVars, callVars
<1>3. ASSUME NEW n \in Waits, Enter(n)
      PROVE  WaitInv'
  <2>1. n \in 1 .. MaxTick
    BY WaitAssumption
  <2>2. /\ phase' = "waiting" /\ asked' = n /\ ticksToWait' = n
        /\ timeOut' = [overflowCount |-> numOfOverflows, timeOnEntering |-> tickCount]
        /\ elapsed' = 0 /\ gap' = 0
        /\ tickCount' = tickCount /\ numOfOverflows' = numOfOverflows
    BY <1>3 DEF Enter, os_taskSetTimeOutState, clockVars
  <2>3. TypeOK' /\ BudgetKept' /\ ExpiredInv'
    BY <1>1, <2>1, <2>2 DEF TypeOK, BudgetKept, ExpiredInv
  <2>4. /\ timeOut'.timeOnEntering = tickCount
        /\ timeOut'.overflowCount = numOfOverflows
    BY <2>2
  <2>5. RecordInv'
    BY <1>1, <2>2, <2>4 DEF RecordInv, ClockMod
  <2>6. QED
    BY <2>3, <2>5 DEF WaitInv
<1>4. QED
  BY <1>2, <1>3

(* Every step keeps the invariant. *)
LEMMA WaitInvNext == WaitInv /\ [Next]_vars => WaitInv'
<1> SUFFICES ASSUME WaitInv, [Next]_vars
             PROVE  WaitInv'
  OBVIOUS
<1>1. CASE UNCHANGED vars
  BY <1>1
  DEF vars, clockVars, callVars, WaitInv, TypeOK, BudgetKept, RecordInv,
      ExpiredInv, ClockMod
<1>2. QED
  BY <1>1, WaitInvTick, WaitInvCheck, WaitInvCall DEF Next

(***************************************************************************)
(* WaitInv is an invariant: the type, the budget, the record in step with   *)
(* the counters, and no call expired early (task.c:812-872).                *)
(***************************************************************************)
THEOREM WaitAlwaysSound == Spec => []WaitInv
  BY WaitInvInit, WaitInvNext, PTL DEF Spec

(***************************************************************************)
(* All checks of one call share one budget of ticks, for any width of the   *)
(* counters (task.c:858).                                                   *)
(***************************************************************************)
THEOREM BudgetAlwaysKept == Spec => []BudgetKept
  BY WaitAlwaysSound, PTL DEF WaitInv

(***************************************************************************)
(* A check reports a time-out exactly if the caller's time has passed, for  *)
(* any width of the counters and any gap of up to one round of them         *)
(* (task.c:848-867).                                                        *)
(***************************************************************************)
THEOREM VerdictAlwaysExact == Spec => VerdictExact
<1>1. ASSUME WaitInv, Check
      PROVE  phase' = "expired" <=> elapsed >= asked
  <2>1. /\ gap \in Nat /\ ticksToWait \in Nat /\ asked \in Nat /\ elapsed \in Nat
        /\ phase # "idle"
    BY <1>1, WaitAssumption DEF WaitInv, TypeOK, Check
  <2>2. Expired <=> gap >= ticksToWait
    BY <1>1, <2>1, CheckSees DEF WaitInv
  <2>3. ticksToWait + (elapsed - gap) = asked
    BY <1>1, <2>1 DEF WaitInv, BudgetKept
  <2>4. phase' = "expired" <=> Expired
    BY <1>1 DEF Check
  <2>5. QED
    BY <2>1, <2>2, <2>3, <2>4
<1>2. WaitInv /\ [Next]_vars => [Check => (phase' = "expired" <=> elapsed >= asked)]_vars
  BY <1>1
<1>3. QED
  BY <1>2, WaitAlwaysSound, PTL DEF Spec, VerdictExact
=============================================================================
