------------------------------ MODULE Ipc_proofs ------------------------------
(***************************************************************************)
(* Proofs about the calls that may wait: Ipc, for any number of tasks that  *)
(* share the queue and any width of the tick counter.                       *)
(***************************************************************************)
EXTENDS Ipc, Scheduler_proofs

USE ListsAssumption, SchedulerAssumption, IpcAssumption

(***************************************************************************)
(* The arithmetic of clock_t: the successor of a tick, and the ticks since  *)
(* a record was set.                                                        *)
(***************************************************************************)
LEMMA CounterMoves ==
  ASSUME NEW tick \in 0 .. MaxTick
  PROVE  /\ tick < MaxTick => (tick + 1) % (MaxTick + 1) = tick + 1
         /\ tick = MaxTick => (tick + 1) % (MaxTick + 1) = 0
<1>1. ASSUME NEW m \in Nat \ {0}, NEW x \in 0 .. m
      PROVE  /\ x < m => x % m = x
             /\ x = m => x % m = 0
  BY <1>1, SMT
<1> QED BY <1>1

(* The ticks that have passed since a record was set (task.c:830).          *)
LEMMA GapIs ==
  ASSUME NEW tick \in 0 .. MaxTick, NEW to, to.timeOnEntering \in 0 .. MaxTick
  PROVE  Passed(to, tick) = IF tick >= to.timeOnEntering
                              THEN tick - to.timeOnEntering
                              ELSE tick - to.timeOnEntering + MaxTick + 1
<1>1. ASSUME NEW m \in Nat \ {0}, NEW x \in Int, -m < x, x < m
      PROVE  x % m = IF x >= 0 THEN x ELSE x + m
  BY <1>1, SMT
<1>2. /\ MaxTick + 1 \in Nat \ {0}
      /\ tick - to.timeOnEntering \in Int
      /\ -(MaxTick + 1) < tick - to.timeOnEntering
      /\ tick - to.timeOnEntering < MaxTick + 1
  OBVIOUS
<1> QED BY <1>1, <1>2 DEF Passed, ClockMod

-----------------------------------------------------------------------------
(* No wait is a round of the counter.                                       *)
LEMMA WaitsShort == \A n \in Waits \cup {0} : n \in 0 .. MaxTick - 1
<1>1. 0 \in 0 .. MaxTick - 1
  OBVIOUS
<1>2. \A n \in Waits : n \in 0 .. MaxTick - 1
  OBVIOUS
<1> QED BY <1>1, <1>2

(* The types of the parts of a call.                                        *)
LEMMA CallParts ==
  ASSUME CallTypeOK, NEW t \in Task
  PROVE  /\ call[t] \in Call_t
         /\ call[t].entryTimeSet \in BOOLEAN
         /\ call[t].asked \in 0 .. MaxTick - 1
         /\ call[t].age \in 0 .. MaxTick
         /\ call[t].timeOut.timeOnEntering \in 0 .. MaxTick
         /\ call[t].timeOut.overflowCount \in 0 .. MaxOverflow
<1>1. call[t] \in Call_t
  BY DEF CallTypeOK
<1>2. call[t].asked \in 0 .. MaxTick - 1
  BY <1>1, WaitsShort DEF Call_t
<1>3. call[t].timeOut \in [overflowCount : 0 .. MaxOverflow, timeOnEntering : 0 .. MaxTick]
  BY <1>1 DEF Call_t
<1>4. call[t].age \in 0 .. MaxTick /\ call[t].entryTimeSet \in BOOLEAN
  BY <1>1 DEF Call_t
<1>5. /\ call[t].timeOut.timeOnEntering \in 0 .. MaxTick
      /\ call[t].timeOut.overflowCount \in 0 .. MaxOverflow
  BY <1>3
<1> QED BY <1>1, <1>2, <1>4, <1>5

(***************************************************************************)
(* Time-outs.  A step that moves neither the counters nor a call, and the   *)
(* tasks only outside the loop, keeps the types and the records.            *)
(***************************************************************************)
LEMMA QuietStep ==
  ASSUME CallTypeOK, TimingInv,
         UNCHANGED <<tickCount, ptrDelay, numOfOverflows, call>>,
         pc' \in [Task -> CallLabel], wait' \in [Task -> 0 .. MaxTick],
         \A u \in Task : \/ pc'[u] = pc[u] /\ wait'[u] = wait[u]
                         \/ pc[u] \notin InLoop /\ pc'[u] \notin InLoop
  PROVE  CallTypeOK' /\ TimingInv'
<1>1. CallTypeOK'
  BY DEF CallTypeOK
<1>2. ASSUME NEW u \in Task, pc'[u] = pc[u], wait'[u] = wait[u], RecordKept(u)
      PROVE  RecordKept(u)'
  BY <1>2 DEF RecordKept
<1>3. ASSUME NEW u \in Task, pc[u] \notin InLoop PROVE ~call[u].entryTimeSet
  BY <1>3 DEF TimingInv, Timing
<1>4. TimingInv'
  BY <1>2, <1>3 DEF TimingInv, Timing, InLoop, Resuming
<1> QED BY <1>1, <1>4

(* A step of the scheduler in which no tick passes.                         *)
LEMMA ElapseQuiet ==
  ASSUME Elapse, UNCHANGED <<tickCount, ptrDelay>>
  PROVE  UNCHANGED <<numOfOverflows, call>>
BY DEF Elapse

(***************************************************************************)
(* A tick: the age of every call that is under way and the ticks since its  *)
(* record both grow by one, and a wrap is counted when the counter is 0.    *)
(***************************************************************************)
LEMMA TickKeepsRecord ==
  ASSUME CallTypeOK, TimingInv, Elapse, NEW m, TickBegin(m), NEW t \in Task,
         call'[t].entryTimeSet, call'[t].age < call'[t].asked
  PROVE  RecordKept(t)'
<1> DEFINE c  == call[t]
           to == c.timeOut.timeOnEntering
           g  == Passed(c.timeOut, tickCount)
           g2 == Passed(c.timeOut, tickCount')
<1>1. /\ tickCount \in 0 .. MaxTick /\ to \in 0 .. MaxTick /\ c \in Call_t
      /\ c.asked \in 0 .. MaxTick - 1 /\ c.age \in 0 .. MaxTick
      /\ c.timeOut.overflowCount \in 0 .. MaxOverflow
      /\ numOfOverflows \in 0 .. MaxOverflow /\ wait[t] \in 0 .. MaxTick
  BY CallParts DEF CallTypeOK
<1>2. /\ tickCount' = (tickCount + 1) % (MaxTick + 1)
      /\ wait' = wait
      /\ ptrDelay' # ptrDelay <=> tickCount' = 0
  BY DEF TickBegin, callVars, CallTypeOK, Overflow, DelayList, DELAY1, DELAY2
<1>3. /\ tickCount < MaxTick => tickCount' = tickCount + 1
      /\ tickCount = MaxTick => tickCount' = 0
      /\ tickCount' \in 0 .. MaxTick /\ tickCount' # tickCount
  BY <1>1, <1>2, CounterMoves
<1>4. /\ c.entryTimeSet /\ c.age < c.asked
      /\ call'[t] = [c EXCEPT !.age = @ + 1]
  BY <1>1, <1>3 DEF Elapse, Call_t
<1>5. /\ call'[t].age = c.age + 1 /\ call'[t].asked = c.asked
      /\ call'[t].timeOut = c.timeOut
  BY <1>1, <1>4 DEF Call_t
<1>6. /\ g <= c.age /\ wait[t] - g = c.asked - c.age
      /\ numOfOverflows # c.timeOut.overflowCount => tickCount < to
  BY <1>4 DEF TimingInv, Timing, RecordKept
<1>7. /\ g = IF tickCount >= to THEN tickCount - to ELSE tickCount - to + MaxTick + 1
      /\ g2 = IF tickCount' >= to THEN tickCount' - to ELSE tickCount' - to + MaxTick + 1
  BY <1>1, <1>3, GapIs
<1>8. g2 = g + 1 /\ g + 1 < MaxTick
  <2> HIDE DEF c, to, g, g2
  <2> QED BY <1>1, <1>3, <1>4, <1>6, <1>7
<1>9. numOfOverflows' # c.timeOut.overflowCount => tickCount' < to
  <2>1. CASE tickCount = MaxTick
    <3>1. tickCount' = 0 /\ to # 0
      <4> HIDE DEF c, g, g2
      <4> QED BY <2>1, <1>1, <1>3, <1>7, <1>8
    <3> QED BY <3>1, <1>1
  <2>2. CASE tickCount < MaxTick
    <3>1. numOfOverflows' = numOfOverflows
      BY <2>2, <1>1, <1>2, <1>3 DEF Elapse
    <3> HIDE DEF c, to, g, g2
    <3> QED BY <3>1, <2>2, <1>1, <1>3, <1>6, <1>7, <1>8
  <2> QED BY <2>1, <2>2, <1>1
<1>10. g2 <= c.age + 1 /\ wait[t] - g2 = c.asked - (c.age + 1)
  <2> HIDE DEF c, to, g, g2
  <2>1. g \in Int
    BY <1>1, <1>7
  <2> QED BY <1>1, <1>6, <1>8, <2>1
<1> QED BY <1>2, <1>5, <1>9, <1>10 DEF RecordKept

(* A tick keeps the types and every record.                                 *)
LEMMA TickStep ==
  ASSUME CallTypeOK, TimingInv, Elapse, NEW m, TickBegin(m)
  PROVE  CallTypeOK' /\ TimingInv'
<1>1. /\ tickCount' \in 0 .. MaxTick /\ tickCount' # tickCount
      /\ ptrDelay' \in DelayList /\ UNCHANGED <<pc, wait>>
  <2>1. tickCount' = (tickCount + 1) % (MaxTick + 1) /\ tickCount \in 0 .. MaxTick
    BY DEF TickBegin, CallTypeOK
  <2>2. tickCount' \in 0 .. MaxTick /\ tickCount' # tickCount
    BY <2>1, CounterMoves
  <2> QED BY <2>2 DEF TickBegin, callVars, Overflow, CallTypeOK, DelayList
<1>2. numOfOverflows' \in 0 .. MaxOverflow
  <2>1. ASSUME NEW m2 \in Nat \ {0}, NEW x \in Int PROVE x % m2 \in 0 .. m2 - 1
    BY <2>1, SMT
  <2>2. numOfOverflows \in 0 .. MaxOverflow /\ MaxOverflow + 1 \in Nat \ {0}
    BY DEF CallTypeOK
  <2>3. (numOfOverflows + 1) % (MaxOverflow + 1) \in 0 .. MaxOverflow
    BY <2>1, <2>2
  <2> QED BY <2>2, <2>3 DEF Elapse
<1>3. ASSUME NEW t \in Task
      PROVE  /\ call'[t] \in Call_t
             /\ call'[t].entryTimeSet = call[t].entryTimeSet
             /\ call'[t].asked = call[t].asked
             /\ call'[t].age >= call[t].age
             /\ ~call[t].entryTimeSet => call'[t].age = call[t].age
  <2>1. call[t] \in Call_t /\ call[t].age \in 0 .. MaxTick
        /\ call[t].asked \in 0 .. MaxTick - 1
    BY CallParts
  <2>2. call'[t] = IF call[t].entryTimeSet /\ call[t].age < call[t].asked
                     THEN [call[t] EXCEPT !.age = @ + 1] ELSE call[t]
    BY <1>1 DEF Elapse
  <2> QED BY <2>1, <2>2 DEF Call_t
<1>4. CallTypeOK'
  <2>1. call' \in [Task -> Call_t]
    BY <1>1, <1>3 DEF Elapse
  <2> QED BY <1>1, <1>2, <2>1 DEF CallTypeOK
<1>5. ASSUME NEW t \in Task, call'[t].entryTimeSet, call'[t].age < call'[t].asked
      PROVE  RecordKept(t)'
  BY <1>5, TickKeepsRecord
<1>6a. ASSUME NEW t \in Task
       PROVE  call'[t].age \in Int /\ call'[t].asked \in Int
  <2>1. call'[t] \in Call_t
    BY <1>3
  <2>2. call'[t].asked \in 0 .. MaxTick - 1
    BY <2>1, WaitsShort DEF Call_t
  <2>3. call'[t].age \in 0 .. MaxTick
    BY <2>1 DEF Call_t
  <2> QED BY <2>2, <2>3
<1>6. ASSUME NEW t \in Task
      PROVE  call[t].age \in Int /\ call'[t].age \in Int /\ call[t].asked \in Int
             /\ call'[t].asked \in Int
  BY <1>4, <1>6a, CallParts
<1>7. TimingInv'
  BY <1>1, <1>3, <1>5, <1>6 DEF TimingInv, Timing
<1> QED BY <1>4, <1>7

(***************************************************************************)
(* A step of one task in the loop of its call: only its own record is at    *)
(* stake.                                                                   *)
(***************************************************************************)
LEMMA OwnStep ==
  ASSUME CallTypeOK, TimingInv, NEW t \in Task,
         UNCHANGED <<tickCount, ptrDelay, numOfOverflows>>,
         NEW l \in CallLabel, Goto(t, l),
         NEW n \in 0 .. MaxTick, wait' = [wait EXCEPT ![t] = n],
         NEW c \in Call_t, call' = [call EXCEPT ![t] = c]
  PROVE  /\ CallTypeOK'
         /\ pc'[t] = l /\ wait'[t] = n /\ call'[t] = c
         /\ Timing(t)' => TimingInv'
<1>1. CallTypeOK'
  BY DEF CallTypeOK, Goto
<1>2. pc'[t] = l /\ wait'[t] = n /\ call'[t] = c
  BY DEF CallTypeOK, Goto
<1>3. ASSUME NEW u \in Task, u # t PROVE Timing(u)'
  <2>1. pc'[u] = pc[u] /\ wait'[u] = wait[u] /\ call'[u] = call[u]
    BY <1>3 DEF CallTypeOK, Goto
  <2> QED BY <2>1 DEF TimingInv, Timing, RecordKept
<1> QED BY <1>1, <1>2, <1>3 DEF TimingInv

(* The same when the step leaves the record and the time to wait alone.     *)
LEMMA MoveStep ==
  ASSUME CallTypeOK, TimingInv, NEW t \in Task,
         UNCHANGED <<tickCount, ptrDelay, numOfOverflows, wait, call>>,
         NEW l \in InLoop, Goto(t, l), pc[t] \in InLoop \ {"try"},
         l \in {"resumeGiveUp", "giveUp"} => call[t].age >= call[t].asked
  PROVE  CallTypeOK' /\ TimingInv'
<1>1. /\ wait' = [wait EXCEPT ![t] = wait[t]] /\ wait[t] \in 0 .. MaxTick
      /\ call' = [call EXCEPT ![t] = call[t]] /\ call[t] \in Call_t
      /\ l \in CallLabel
  BY DEF CallTypeOK, CallLabel
<1>2. /\ CallTypeOK'
      /\ pc'[t] = l /\ wait'[t] = wait[t] /\ call'[t] = call[t]
      /\ Timing(t)' => TimingInv'
  BY <1>1, OwnStep
<1>3. Timing(t)'
  BY <1>2 DEF TimingInv, Timing, RecordKept
<1> QED BY <1>2, <1>3

(* NoCall is a call.                                                        *)
LEMMA NoCallType ==
  /\ NoCall \in Call_t
  /\ ~NoCall.entryTimeSet
  /\ NoCall.age = 0
BY DEF NoCall, Call_t, os_taskSetTimeOutState

(* A call that returns leaves nothing behind.                               *)
LEMMA ReturnStep ==
  ASSUME CallTypeOK, TimingInv, NEW t \in Task,
         UNCHANGED <<tickCount, ptrDelay, numOfOverflows>>,
         Returns(t), NEW n \in 0 .. MaxTick, wait' = [wait EXCEPT ![t] = n]
  PROVE  CallTypeOK' /\ TimingInv'
<1>1. /\ CallTypeOK'
      /\ pc'[t] = "user" /\ call'[t] = NoCall
      /\ Timing(t)' => TimingInv'
  <2>1. "user" \in CallLabel
    BY DEF CallLabel
  <2> QED BY <2>1, NoCallType, OwnStep DEF Returns
<1>2. Timing(t)'
  BY <1>1, NoCallType DEF Timing, InLoop, Resuming
<1> QED BY <1>1, <1>2

(* The call is made: its time to wait is the caller's.                      *)
LEMMA AskStep ==
  ASSUME CallTypeOK, TimingInv, NEW t \in Task,
         NEW op \in Ops, NEW x \in Item \cup {NoItem}, NEW n \in Waits \cup {0},
         Ask(t, op, x, n)
  PROVE  CallTypeOK' /\ TimingInv'
<1> DEFINE c == [NoCall EXCEPT !.op = op, !.item = x, !.asked = n]
<1>1. /\ c \in Call_t
      /\ ~c.entryTimeSet /\ c.age = 0 /\ c.asked = n
  BY NoCallType DEF Call_t
<1>2. /\ "try" \in CallLabel
      /\ n \in 0 .. MaxTick
      /\ UNCHANGED <<tickCount, ptrDelay, numOfOverflows>>
      /\ Goto(t, "try") /\ wait' = [wait EXCEPT ![t] = n]
      /\ call' = [call EXCEPT ![t] = c]
  <2>1. n \in 0 .. MaxTick - 1
    BY WaitsShort
  <2> QED BY <2>1 DEF Ask, listVars, tickVars, CallLabel, InLoop
<1> HIDE DEF c
<1>3. /\ CallTypeOK'
      /\ pc'[t] = "try" /\ wait'[t] = n /\ call'[t] = c
      /\ Timing(t)' => TimingInv'
  BY <1>1, <1>2, OwnStep
<1>4. Timing(t)'
  BY <1>1, <1>3 DEF Timing, InLoop, Resuming
<1> QED BY <1>3, <1>4

(* The time is noted once, and from then on the record is kept.             *)
LEMMA NoteTimeStep ==
  ASSUME CallTypeOK, TimingInv, NEW t \in Task, NoteTime(t)
  PROVE  CallTypeOK' /\ TimingInv'
<1> DEFINE now == os_taskSetTimeOutState(tickCount, numOfOverflows)
           c == IF call[t].entryTimeSet THEN call[t]
                ELSE [call[t] EXCEPT !.entryTimeSet = TRUE, !.timeOut = now]
<1>1. /\ call[t] \in Call_t /\ call[t].age \in 0 .. MaxTick
      /\ call[t].asked \in 0 .. MaxTick - 1 /\ wait[t] \in 0 .. MaxTick
      /\ tickCount \in 0 .. MaxTick
  BY CallParts DEF CallTypeOK
<1>2. now \in [overflowCount : 0 .. MaxOverflow, timeOnEntering : 0 .. MaxTick]
      /\ now.timeOnEntering = tickCount /\ now.overflowCount = numOfOverflows
  BY DEF os_taskSetTimeOutState, CallTypeOK
<1>3. /\ c \in Call_t /\ c.entryTimeSet
      /\ call[t].entryTimeSet => c = call[t]
      /\ ~call[t].entryTimeSet =>
           c.timeOut = now /\ c.asked = call[t].asked /\ c.age = call[t].age
  <2> HIDE DEF now
  <2> QED BY <1>1, <1>2 DEF Call_t
<1>4. /\ UNCHANGED <<tickCount, ptrDelay, numOfOverflows>>
      /\ Goto(t, "suspend") /\ "suspend" \in CallLabel
      /\ wait' = [wait EXCEPT ![t] = wait[t]]
      /\ call' = [call EXCEPT ![t] = c]
      /\ pc[t] = "try"
  BY DEF NoteTime, At, listVars, tickVars, CallTypeOK, CallLabel, InLoop
<1> HIDE DEF c, now
<1>5. /\ CallTypeOK'
      /\ pc'[t] = "suspend" /\ wait'[t] = wait[t] /\ call'[t] = c
      /\ Timing(t)' => TimingInv'
  BY <1>1, <1>3, <1>4, OwnStep
<1>6. RecordKept(t)' \/ c.age >= c.asked
  <2>1. CASE call[t].entryTimeSet
    <3>1. c.age < c.asked => RecordKept(t)
      BY <2>1, <1>3 DEF TimingInv, Timing
    <3>2. RecordKept(t) => RecordKept(t)'
      BY <2>1, <1>3, <1>4, <1>5 DEF RecordKept
    <3> QED BY <3>1, <3>2, <2>1, <1>1, <1>3
  <2>2. CASE ~call[t].entryTimeSet
    <3>1. wait[t] = c.asked /\ c.age = 0 /\ c.timeOut = now
      BY <2>2, <1>3, <1>4 DEF TimingInv, Timing
    <3>2. Passed(now, tickCount) = 0
      BY <1>1, <1>2, GapIs
    <3> QED BY <3>1, <3>2, <1>1, <1>2, <1>4, <1>5 DEF RecordKept
  <2> QED BY <2>1, <2>2
<1>7. Timing(t)'
  <2>1. c.age \in 0 .. MaxTick /\ c.asked \in 0 .. MaxTick - 1
    BY <1>1, <1>3
  <2> QED BY <2>1, <1>3, <1>5, <1>6 DEF Timing, InLoop
<1> QED BY <1>5, <1>7

(***************************************************************************)
(* os_taskCheckForTimeOut.  While the time of the call is not over it does  *)
(* not say so, and it charges the call for the ticks since its record.      *)
(***************************************************************************)
LEMMA CheckStep ==
  ASSUME CallTypeOK, TimingInv, NEW t \in Task, Check(t)
  PROVE  CallTypeOK' /\ TimingInv'
<1> DEFINE c    == call[t]
           g    == Passed(c.timeOut, tickCount)
           late == TimedOut(c.timeOut, wait[t], tickCount, numOfOverflows)
           now  == os_taskSetTimeOutState(tickCount, numOfOverflows)
<1>1. /\ c \in Call_t /\ c.age \in 0 .. MaxTick
      /\ c.asked \in 0 .. MaxTick - 1 /\ wait[t] \in 0 .. MaxTick
      /\ tickCount \in 0 .. MaxTick /\ c.timeOut.timeOnEntering \in 0 .. MaxTick
  BY CallParts DEF CallTypeOK
<1>2. g \in 0 .. MaxTick
  <2>1. g = IF tickCount >= c.timeOut.timeOnEntering
              THEN tickCount - c.timeOut.timeOnEntering
              ELSE tickCount - c.timeOut.timeOnEntering + MaxTick + 1
    BY <1>1, GapIs
  <2> HIDE DEF c, g
  <2> QED BY <1>1, <2>1
<1>3. /\ UNCHANGED <<tickCount, ptrDelay, numOfOverflows>>
      /\ pc[t] = "check" /\ c.entryTimeSet
  BY DEF Check, At, listVars, tickVars, TimingInv, Timing, InLoop
<1>4. late <=> \/ /\ numOfOverflows # c.timeOut.overflowCount
                  /\ tickCount >= c.timeOut.timeOnEntering
               \/ g >= wait[t]
  BY DEF TimedOut
<1>5. c.age < c.asked => RecordKept(t)
  BY <1>3 DEF TimingInv, Timing
<1>6. late => c.age >= c.asked
  <2>1. c.age < c.asked => /\ g <= c.age /\ wait[t] - g = c.asked - c.age
                           /\ numOfOverflows # c.timeOut.overflowCount
                                => tickCount < c.timeOut.timeOnEntering
    BY <1>5 DEF RecordKept
  <2> HIDE DEF c, g, late
  <2> QED BY <2>1, <1>1, <1>2, <1>4
<1>7. CASE late
  <2>1. Goto(t, "resumeGiveUp") /\ UNCHANGED <<wait, call>>
    BY <1>7 DEF Check
  <2>2. "resumeGiveUp" \in InLoop /\ pc[t] \in InLoop \ {"try"}
    BY <1>3 DEF InLoop, Resuming
  <2> QED BY <2>1, <2>2, <1>3, <1>6, <1>7, MoveStep
<1>8. CASE ~late
  <2> DEFINE c2 == [c EXCEPT !.timeOut = now]
             n  == wait[t] - g
  <2>1. /\ now \in [overflowCount : 0 .. MaxOverflow, timeOnEntering : 0 .. MaxTick]
        /\ now.timeOnEntering = tickCount /\ now.overflowCount = numOfOverflows
    BY DEF os_taskSetTimeOutState, CallTypeOK
  <2>2. /\ c2 \in Call_t /\ c2.timeOut = now /\ c2.entryTimeSet
        /\ c2.asked = c.asked /\ c2.age = c.age
    <3> HIDE DEF now
    <3> QED BY <1>1, <1>3, <2>1 DEF Call_t
  <2>3. n \in 0 .. MaxTick
    <3> HIDE DEF c, g, late
    <3> QED BY <1>1, <1>2, <1>4, <1>8
  <2>4. /\ Goto(t, "place") /\ "place" \in CallLabel
        /\ wait' = [wait EXCEPT ![t] = n]
        /\ call' = [call EXCEPT ![t] = c2]
    BY <1>8 DEF Check, TicksLeft, CallLabel, InLoop
  <2>5. Passed(now, tickCount) = 0
    BY <1>1, <2>1, GapIs
  <2> HIDE DEF c2, n, now
  <2>6. /\ CallTypeOK'
        /\ pc'[t] = "place" /\ wait'[t] = n /\ call'[t] = c2
        /\ Timing(t)' => TimingInv'
    BY <1>3, <2>2, <2>3, <2>4, OwnStep
  <2>7. c.age < c.asked => RecordKept(t)'
    <3>1. c.age < c.asked => n = c.asked - c.age
      BY <1>5 DEF n, RecordKept
    <3>2. Passed(call'[t].timeOut, tickCount') = 0
      BY <1>3, <2>2, <2>5, <2>6
    <3>3. c.age < c.asked =>
            /\ 0 <= c.age /\ wait'[t] - 0 = c.asked - c.age
            /\ numOfOverflows' = call'[t].timeOut.overflowCount
      <4> HIDE DEF c
      <4> QED BY <3>1, <1>1, <1>3, <2>1, <2>2, <2>3, <2>6
    <3> QED BY <3>2, <3>3, <2>2, <2>6 DEF RecordKept
  <2>8. Timing(t)'
    BY <2>2, <2>6, <2>7 DEF Timing, InLoop
  <2> QED BY <2>6, <2>8
<1> QED BY <1>7, <1>8

(* The other steps of the loop.                                             *)
LEMMA LoopStep ==
  ASSUME CallTypeOK, TimingInv, NEW t \in Task, Loop(t)
  PROVE  CallTypeOK' /\ TimingInv'
<1> USE DEF At, listVars, tickVars, ipcVars, InLoop, Resuming
<1>1. wait = [wait EXCEPT ![t] = wait[t]] /\ wait[t] \in 0 .. MaxTick /\ 0 \in 0 .. MaxTick
  BY DEF CallTypeOK
<1>2. CASE Serve(t)
  BY <1>1, <1>2, ReturnStep DEF Serve
<1>3. CASE Refuse(t)
  BY <1>1, <1>3, ReturnStep DEF Refuse
<1>4. CASE NoteTime(t)
  BY <1>4, NoteTimeStep
<1>5. CASE Suspend(t)
  BY <1>5, MoveStep DEF Suspend
<1>6. CASE Check(t)
  BY <1>6, CheckStep
<1>7. CASE Place(t)
  BY <1>7, MoveStep DEF Place
<1>8. CASE TryAgain(t)
  BY <1>8, MoveStep DEF TryAgain
<1>9. CASE EnterResume(t)
  <2>1. UNCHANGED <<tickCount, ptrDelay, numOfOverflows, call, pc, wait>>
    BY <1>9 DEF EnterResume, callVars
  <2>2. pc \in [Task -> CallLabel] /\ wait \in [Task -> 0 .. MaxTick]
    BY DEF CallTypeOK
  <2> QED BY <2>1, <2>2, QuietStep
<1>10. CASE LeaveResume(t)
  <2>1. /\ UNCHANGED <<tickCount, ptrDelay, numOfOverflows, wait, call>>
        /\ Goto(t, AfterWait(t)) /\ pc[t] \in Resuming
    BY <1>10 DEF LeaveResume
  <2>2. /\ AfterWait(t) \in {"try", "triggerWait", "giveUp"}
        /\ AfterWait(t) = "giveUp" => pc[t] = "resumeGiveUp"
    BY <2>1 DEF AfterWait
  <2>3. pc[t] = "resumeGiveUp" => call[t].age >= call[t].asked
    BY DEF TimingInv, Timing
  <2> QED BY <2>1, <2>2, <2>3, MoveStep
<1>11. CASE TriggerWait(t)
  BY <1>11, MoveStep DEF TriggerWait
<1>12. CASE GiveUp(t)
  <2>1. CASE call[t].op \in Receives /\ ~IsQueueEmpty(q)
    BY <1>12, <2>1, MoveStep DEF GiveUp
  <2>2. CASE ~(call[t].op \in Receives /\ ~IsQueueEmpty(q))
    BY <1>1, <1>12, <2>2, ReturnStep DEF GiveUp
  <2> QED BY <2>1, <2>2
<1> QED BY <1>2, <1>3, <1>4, <1>5, <1>6, <1>7, <1>8, <1>9, <1>10, <1>11, <1>12 DEF Loop

(* The call of a task, whichever it is.                                     *)
LEMMA AskSomeStep ==
  ASSUME CallTypeOK, TimingInv, NEW t \in Task, AskSome(t)
  PROVE  CallTypeOK' /\ TimingInv'
<1> PICK n \in Waits, op \in Ops, x \in Item \cup {NoItem} : Ask(t, op, x, n)
  BY DEF AskSome
<1> QED BY AskStep

(* A task in its delay, which leads no call.                                *)
LEMMA DelayStep ==
  ASSUME CallTypeOK, TimingInv, ReplayInv, Elapse, NEW t \in Task,
         DelayCall(t) \/ DelayKernel(t)
  PROVE  CallTypeOK' /\ TimingInv'
<1> USE DEF At, Goto, listVars, tickVars, callVars
<1>1. /\ pc \in [Task -> CallLabel] /\ wait \in [Task -> 0 .. MaxTick]
      /\ 0 \in 0 .. MaxTick
  BY DEF CallTypeOK
<1>2. ASSUME UNCHANGED <<tickCount, ptrDelay>>, NEW l \in CallLabel \ InLoop,
             Goto(t, l), pc[t] \notin InLoop, NEW n \in 0 .. MaxTick,
             wait' = [wait EXCEPT ![t] = n]
      PROVE  CallTypeOK' /\ TimingInv'
  <2>1. UNCHANGED <<numOfOverflows, call>>
    BY <1>2, ElapseQuiet
  <2>2. /\ pc' \in [Task -> CallLabel] /\ wait' \in [Task -> 0 .. MaxTick]
        /\ \A u \in Task : \/ pc'[u] = pc[u] /\ wait'[u] = wait[u]
                           \/ pc[u] \notin InLoop /\ pc'[u] \notin InLoop
    BY <1>1, <1>2
  <2> QED BY <1>2, <2>1, <2>2, QuietStep
<1>3. {"user", "delay", "trigger", "resumeDelay"} \subseteq CallLabel \ InLoop
  BY DEF CallLabel, InLoop, Resuming
<1>4. wait = [wait EXCEPT ![t] = wait[t]] /\ wait[t] \in 0 .. MaxTick
  BY <1>1
<1>5. CASE DelayCall(t)
  <2> PICK n \in DelayTicks \ {0} :
             /\ UNCHANGED <<tickCount, ptrDelay>> /\ Goto(t, "delay")
             /\ pc[t] = "user" /\ wait' = [wait EXCEPT ![t] = n]
    BY <1>5 DEF DelayCall
  <2>1. n \in 0 .. MaxTick
    OBVIOUS
  <2> QED BY <1>2, <1>3, <2>1
<1>6. CASE DelayAdd(t)
  <2>1. /\ UNCHANGED <<tickCount, ptrDelay>> /\ Goto(t, "resumeDelay")
        /\ pc[t] = "delay" /\ wait' = [wait EXCEPT ![t] = 0]
    BY <1>6 DEF DelayAdd
  <2> QED BY <1>1, <1>2, <1>3, <2>1
<1>7. CASE DelayTrigger(t)
  <2>1. /\ UNCHANGED <<tickCount, ptrDelay>> /\ Goto(t, "user")
        /\ pc[t] = "trigger" /\ wait' = wait
    BY <1>7 DEF DelayTrigger
  <2> QED BY <1>2, <1>3, <1>4, <2>1
<1>8. CASE ResumeEnter(t)
  <2>1. UNCHANGED <<tickCount, ptrDelay, pc, wait>>
    BY <1>8 DEF ResumeEnter
  <2> QED BY <1>1, <2>1, ElapseQuiet, QuietStep
<1>9. CASE pc[t] \notin Resuming /\ ResumeExit(t)
  <2>1. /\ UNCHANGED <<tickCount, ptrDelay>> /\ Goto(t, AfterResume(t))
        /\ mode = "resume" /\ current = t /\ wait' = wait
    BY <1>9 DEF ResumeExit
  <2>2. pc[t] = "resumeDelay"
    BY <1>9, <2>1 DEF ReplayInv
  <2>3. AfterResume(t) \in {"user", "trigger"}
    BY <2>2 DEF AfterResume
  <2> QED BY <1>2, <1>3, <1>4, <2>1, <2>2, <2>3
<1> QED BY <1>5, <1>6, <1>7, <1>8, <1>9 DEF DelayKernel

(* Start-up, the handlers and the tick.                                     *)
LEMMA HandlerStep ==
  ASSUME CallTypeOK, TimingInv, ReplayInv, Elapse, Boot \/ Tick \/ InTick \/ PendSV
  PROVE  CallTypeOK' /\ TimingInv'
<1> USE DEF listVars, tickVars, callVars
<1>1. ASSUME UNCHANGED <<tickCount, ptrDelay, pc, wait>>
      PROVE  CallTypeOK' /\ TimingInv'
  <2>1. pc \in [Task -> CallLabel] /\ wait \in [Task -> 0 .. MaxTick]
    BY DEF CallTypeOK
  <2> QED BY <1>1, <2>1, ElapseQuiet, QuietStep
<1>2. CASE Boot
  BY <1>1, <1>2 DEF Boot, Start, BootCreate, ReplayInv
<1>3. CASE SysTick
  BY <1>3, TickStep DEF SysTick
<1>4. CASE SysTickPended
  BY <1>1, <1>4 DEF SysTickPended
<1>5. CASE ResumeTick
  BY <1>5, TickStep DEF ResumeTick
<1>6. CASE TickWake
  BY <1>1, <1>6 DEF TickWake
<1>7. CASE SysTickEnd
  BY <1>1, <1>7 DEF SysTickEnd
<1>8. CASE ResumeTickEnd
  BY <1>1, <1>8 DEF ResumeTickEnd
<1>9. CASE PendSV
  BY <1>1, <1>9 DEF PendSV
<1> QED BY <1>2, <1>3, <1>4, <1>5, <1>6, <1>7, <1>8, <1>9 DEF Tick, InTick

(***************************************************************************)
(* Which task a replay of pended ticks belongs to.                          *)
(***************************************************************************)
LEMMA ReplayStep == ASSUME CallTypeOK, ReplayInv, IpcNext PROVE ReplayInv'
<1> USE DEF At, Goto, Resuming, listVars, lifeVars, tickVars, swapVars, loopVars,
            callVars, ipcVars
<1>1. CASE Boot
  BY <1>1 DEF Boot, Start, BootCreate, ReplayInv
<1>2. CASE Tick
  BY <1>2 DEF Tick, SysTick, SysTickPended, SysTickEnabled, TickBegin, ReplayInv
<1>3. CASE InTick
  BY <1>3 DEF InTick, TickWake, SysTickEnd, ResumeTick, ResumeTickEnd, TickEnd,
              TickBegin, ReplayInv
<1>4. CASE PendSV
  BY <1>4 DEF PendSV, ReplayInv
<1>5. ASSUME NEW t \in Task, DelayCall(t) \/ DelayKernel(t) PROVE ReplayInv'
  <2>1. CASE DelayCall(t)
    BY <2>1 DEF DelayCall, ReplayInv
  <2>2. CASE DelayAdd(t) \/ DelayTrigger(t)
    BY <2>2 DEF DelayAdd, DelayTrigger, ReplayInv
  <2>3. CASE ResumeEnter(t)
    <3>1. /\ running /\ current = t /\ pc[t] \in {"resumeDelay", "resumeHeap"}
          /\ mode' = "resume" /\ UNCHANGED <<running, tickCount, current, pc>>
      BY <2>3 DEF ResumeEnter
    <3>2. pc[t] = "resumeDelay"
      BY <3>1 DEF CallTypeOK, CallLabel, InLoop
    <3> QED BY <3>1, <3>2 DEF ReplayInv
  <2>4. CASE ResumeExit(t)
    BY <2>4 DEF ResumeExit, ReplayInv
  <2> QED BY <1>5, <2>1, <2>2, <2>3, <2>4 DEF DelayKernel
<1>6. ASSUME NEW t \in Task, AskSome(t) PROVE ReplayInv'
  <2> PICK n \in Waits, op \in Ops, x \in Item \cup {NoItem} : Ask(t, op, x, n)
    BY <1>6 DEF AskSome
  <2> QED BY DEF Ask, ReplayInv
<1>7. ASSUME NEW t \in Task, Loop(t) PROVE ReplayInv'
  <2>1. CASE Serve(t) \/ Refuse(t) \/ NoteTime(t) \/ Suspend(t) \/ GiveUp(t)
    BY <2>1 DEF Serve, Refuse, NoteTime, Suspend, GiveUp, Returns, ReplayInv
  <2>2. CASE Check(t) \/ Place(t) \/ TryAgain(t) \/ TriggerWait(t)
    BY <2>2 DEF Check, Place, TryAgain, TriggerWait, ReplayInv
  <2>3. CASE EnterResume(t) \/ LeaveResume(t)
    BY <2>3 DEF EnterResume, LeaveResume, ReplayInv
  <2> QED BY <1>7, <2>1, <2>2, <2>3 DEF Loop
<1> QED BY <1>1, <1>2, <1>3, <1>4, <1>5, <1>6, <1>7 DEF IpcNext

(***************************************************************************)
(* The invariant of the calls (ipc.c:112-322, task.c:812-872): whatever     *)
(* tasks and ticks come in between, a call that waits has been charged      *)
(* exactly its age.                                                         *)
(***************************************************************************)
THEOREM CallsAlwaysCharged == IpcSpec => []CallInv
<1>1. IpcInit => CallInv
  <2> SUFFICES ASSUME IpcInit PROVE CallInv
    OBVIOUS
  <2>1. CallTypeOK
    <3>1. call \in [Task -> Call_t]
      BY NoCallType DEF IpcInit
    <3> QED BY <3>1 DEF IpcInit, Init, CallTypeOK, DelayList, CallLabel
  <2>2. ReplayInv
    BY DEF IpcInit, Init, ReplayInv
  <2>3. TimingInv
    BY NoCallType DEF IpcInit, Init, TimingInv, Timing, InLoop, Resuming
  <2> QED BY <2>1, <2>2, <2>3 DEF CallInv
<1>2. CallInv /\ [IpcNext]_allVars => CallInv'
  <2> SUFFICES ASSUME CallInv, [IpcNext]_allVars PROVE CallInv'
    OBVIOUS
  <2> USE DEF CallInv
  <2>1. CASE IpcNext
    <3>1. CallTypeOK' /\ TimingInv'
      BY <2>1, HandlerStep, DelayStep, AskSomeStep, LoopStep DEF IpcNext
    <3> QED BY <2>1, <3>1, ReplayStep
  <2>2. CASE UNCHANGED allVars
    BY <2>2 DEF allVars, vars, ipcVars, listVars, lifeVars, tickVars, swapVars, loopVars,
                callVars, CallTypeOK, ReplayInv, TimingInv, Timing, RecordKept
  <2> QED BY <2>1, <2>2
<1> QED BY <1>1, <1>2, PTL DEF IpcSpec

(* No call gives up before its time (ipc.c:110).                            *)
THEOREM NeverEarly == IpcSpec => []NoEarlyTimeOut
<1>1. CallInv => NoEarlyTimeOut
  BY DEF CallInv, TimingInv, Timing, NoEarlyTimeOut
<1> QED BY <1>1, CallsAlwaysCharged, PTL

-----------------------------------------------------------------------------
(***************************************************************************)
(* The list functions on links that need not agree.  Removal (task.c:       *)
(* 246-303) follows no link that does not lead to a live task.              *)
(***************************************************************************)
LEMMA RemoveLeads ==
  ASSUME NEW m \in ListMem, NEW S \in SUBSET Task, LeadTo(m, S), NEW t \in Task,
         NEW r, r = os_taskListRemove(m, t)
  PROVE  /\ r \in ListMem
         /\ LeadTo(r, S)
         /\ r.taskListHead = m.taskListHead
         /\ \A L \in ListId : L # m.taskListHead[t] => r.head[L] = m.head[L]
<1> DEFINE n == m.next[t]
           l == m.last[t]
           m1 == IF l # NULL
                   THEN [m EXCEPT !.next[l] = n]
                   ELSE [m EXCEPT !.head[m.taskListHead[t]] = n]
<1>1. n \in S \cup {NULL} /\ l \in S \cup {NULL} /\ n \in Ptr /\ l \in Ptr
  BY DEF LeadTo, ListMem
<1>2. /\ m1 \in ListMem /\ LeadTo(m1, S)
      /\ m1.taskListHead = m.taskListHead /\ m1.last = m.last
      /\ \A L \in ListId : L # m.taskListHead[t] => m1.head[L] = m.head[L]
  <2>1. CASE l # NULL
    BY <1>1, <2>1 DEF ListMem, LeadTo
  <2>2. CASE l = NULL
    BY <1>1, <2>2 DEF ListMem, LeadTo
  <2> QED BY <2>1, <2>2
<1>3. r = IF n # NULL THEN [m1 EXCEPT !.last[n] = l] ELSE m1
  BY DEF os_taskListRemove
<1> HIDE DEF m1, n, l
<1> QED BY <1>1, <1>2, <1>3 DEF ListMem, LeadTo

(* Appending to a ready list (task.c:359-387) gives it a head.              *)
LEMMA AppendLeads ==
  ASSUME NEW m \in ListMem, NEW S \in SUBSET Task, LeadTo(m, S), NEW t \in S,
         NEW p \in Prio, NEW r, r = AppendReady(m, t, p)
  PROVE  /\ r \in ListMem
         /\ LeadTo(r, S)
         /\ r.taskListHead = [m.taskListHead EXCEPT ![t] = p]
         /\ r.head[p] # NULL
         /\ \A L \in ListId : L # p => r.head[L] = m.head[L]
<1> DEFINE m0   == [m EXCEPT !.taskListHead[t] = p]
           tail == CHOOSE u \in Stops(m, m.head[p], Task) : TRUE
<1>1. p \in ListId /\ t \in Task /\ t # NULL
  BY DEF ListId
<1>2. m0 \in ListMem
  BY <1>1 DEF ListMem
<1>3. CASE m.head[p] = NULL
  <2>1. r = [head |-> [m.head EXCEPT ![p] = t],
             next |-> [m.next EXCEPT ![t] = NULL],
             last |-> [m.last EXCEPT ![t] = NULL],
             taskListHead |-> [m.taskListHead EXCEPT ![t] = p], stuck |-> m.stuck]
    BY <1>3 DEF AppendReady, ListMem
  <2>2. /\ r \in ListMem
        /\ r.taskListHead = [m.taskListHead EXCEPT ![t] = p]
        /\ r.head = [m.head EXCEPT ![p] = t]
        /\ r.next = [m.next EXCEPT ![t] = NULL]
        /\ r.last = [m.last EXCEPT ![t] = NULL]
    BY <1>1, <2>1 DEF ListMem, Ptr, ListId
  <2> QED BY <1>1, <2>2 DEF ListMem, LeadTo
<1>4. CASE m.head[p] # NULL /\ Endless(m, m.head[p], Task)
  <2>1. r = [m0 EXCEPT !.stuck = TRUE]
    BY <1>4 DEF AppendReady
  <2> QED BY <1>1, <1>2, <1>4, <2>1 DEF ListMem, LeadTo
<1>5. CASE m.head[p] # NULL /\ ~Endless(m, m.head[p], Task)
  <2>1. tail \in Task
    <3>1. m.head[p] \in Task
      BY <1>1, <1>5 DEF ListMem, Ptr
    <3>2. Stops(m, m.head[p], Task) # {}
      BY <1>5, <3>1, VisitedClosed DEF Endless
    <3>3. Stops(m, m.head[p], Task) \subseteq Task
      BY DEF Stops, Visited
    <3> QED BY <3>2, <3>3
  <2>2. r = [head |-> m.head,
             next |-> [m.next EXCEPT ![tail] = t, ![t] = NULL],
             last |-> [m.last EXCEPT ![t] = tail],
             taskListHead |-> [m.taskListHead EXCEPT ![t] = p], stuck |-> m.stuck]
    BY <1>5 DEF AppendReady, ListMem
  <2>3. tail \in S \cup {NULL}
    <3>1. m.head[p] \in S
      BY <1>1, <1>5 DEF LeadTo
    <3>2. \A u \in S : m.next[u] \in Task => m.next[u] \in S
      BY DEF LeadTo
    <3>3. Visited(m, m.head[p], Task) \subseteq S
      BY <3>1, <3>2, VisitedClosed
    <3>4. tail \in Stops(m, m.head[p], Task)
      <4>1. m.head[p] \in Task
        BY <3>1
      <4>2. Stops(m, m.head[p], Task) # {}
        BY <1>5, <4>1, VisitedClosed DEF Endless
      <4> QED BY <4>2
    <3> QED BY <3>3, <3>4 DEF Stops
  <2> HIDE DEF tail
  <2>4. /\ r \in ListMem
        /\ r.taskListHead = [m.taskListHead EXCEPT ![t] = p]
        /\ r.head = m.head
        /\ r.next = [m.next EXCEPT ![tail] = t, ![t] = NULL]
        /\ r.last = [m.last EXCEPT ![t] = tail]
    BY <1>1, <2>1, <2>2 DEF ListMem, Ptr
  <2> QED BY <1>1, <1>5, <2>1, <2>3, <2>4 DEF ListMem, LeadTo
<1> QED BY <1>3, <1>4, <1>5

(* Insertion into a delay list (task.c:323-357) leaves the ready lists.     *)
LEMMA InsertLeads ==
  ASSUME NEW m \in ListMem, NEW S \in SUBSET Task, LeadTo(m, S), NEW t \in S,
         NEW L \in DelayList, NEW wake, NEW r, r = os_listInsertByDelay(m, t, L, wake)
  PROVE  /\ r \in ListMem
         /\ LeadTo(r, S)
         /\ r.taskListHead = [m.taskListHead EXCEPT ![t] = L]
         /\ \A p \in Prio : r.head[p] = m.head[p]
<1> DEFINE m0      == [m EXCEPT !.taskListHead[t] = L]
           first   == m.head[L]
           Earlier == {u \in Task : wake[u] <= wake[t]}
           prev    == CHOOSE u \in Stops(m, first, Earlier) : TRUE
           temp    == m.next[prev]
           m1      == [m0 EXCEPT !.next = [m.next EXCEPT ![t] = temp, ![prev] = t],
                                 !.last[t] = prev]
<1>1. L \in ListId /\ t \in Task /\ t # NULL /\ \A p \in Prio : p # L
  BY DEF ListId, DelayList, DELAY1, DELAY2, Prio
<1>2. m0 \in ListMem
  BY <1>1 DEF ListMem
<1>3. first \in S \cup {NULL}
  BY <1>1 DEF LeadTo
<1>4. CASE first = NULL
  <2>1. r = [head |-> [m.head EXCEPT ![L] = t],
             next |-> [m.next EXCEPT ![t] = NULL],
             last |-> [m.last EXCEPT ![t] = NULL],
             taskListHead |-> [m.taskListHead EXCEPT ![t] = L], stuck |-> m.stuck]
    BY <1>4 DEF os_listInsertByDelay, ListMem
  <2>2. /\ r \in ListMem
        /\ r.taskListHead = [m.taskListHead EXCEPT ![t] = L]
        /\ r.head = [m.head EXCEPT ![L] = t]
        /\ r.next = [m.next EXCEPT ![t] = NULL]
        /\ r.last = [m.last EXCEPT ![t] = NULL]
    BY <1>1, <2>1 DEF ListMem, Ptr
  <2> QED BY <1>1, <2>2 DEF ListMem, LeadTo, ListId
<1>5. CASE first # NULL /\ first \notin Earlier
  <2>1. r = [head |-> [m.head EXCEPT ![L] = t],
             next |-> [m.next EXCEPT ![t] = first],
             last |-> [m.last EXCEPT ![first] = t, ![t] = NULL],
             taskListHead |-> [m.taskListHead EXCEPT ![t] = L], stuck |-> m.stuck]
    BY <1>5 DEF os_listInsertByDelay, ListMem
  <2>2. first \in S /\ first \in Task
    BY <1>3, <1>5
  <2> HIDE DEF first, Earlier
  <2>3. /\ r \in ListMem
        /\ r.taskListHead = [m.taskListHead EXCEPT ![t] = L]
        /\ r.head = [m.head EXCEPT ![L] = t]
        /\ r.next = [m.next EXCEPT ![t] = first]
        /\ r.last = [m.last EXCEPT ![first] = t, ![t] = NULL]
    BY <1>1, <2>1, <2>2 DEF ListMem, Ptr
  <2> QED BY <1>1, <2>2, <2>3 DEF ListMem, LeadTo, ListId
<1>6. CASE first \in Earlier /\ Endless(m, first, Earlier)
  <2>1. first # NULL
    BY <1>6
  <2>2. r = [m0 EXCEPT !.stuck = TRUE]
    BY <1>6, <2>1 DEF os_listInsertByDelay
  <2> QED BY <1>1, <1>2, <2>2 DEF ListMem, LeadTo
<1>7. CASE first \in Earlier /\ ~Endless(m, first, Earlier)
  <2>1. first # NULL
    BY <1>7
  <2>2. r = IF temp = NULL THEN m1 ELSE [m1 EXCEPT !.last[temp] = t]
    BY <1>7, <2>1 DEF os_listInsertByDelay
  <2>3. prev \in S
    <3>1. prev \in Stops(m, first, Earlier)
      <4>1. Stops(m, first, Earlier) # {}
        <5> HIDE DEF first, Earlier
        <5> QED BY <1>7, VisitedClosed DEF Endless
      <4> QED BY <4>1
    <3>2. first \in S /\ \A u \in S : m.next[u] \in Earlier => m.next[u] \in S
      BY <1>3, <1>7, <2>1 DEF LeadTo
    <3>3. Visited(m, first, Earlier) \subseteq S \cap Earlier
      <4> HIDE DEF first, Earlier
      <4> QED BY <3>2, <1>7, VisitedClosed
    <3> QED BY <3>1, <3>3 DEF Stops
  <2>4. temp \in S \cup {NULL} /\ prev \in Task
    BY <2>3 DEF LeadTo
  <2> HIDE DEF prev, temp
  <2>5. m1 \in ListMem /\ LeadTo(m1, S) /\ m1.head = m.head
        /\ m1.taskListHead = m0.taskListHead
    BY <1>1, <1>2, <2>3, <2>4 DEF ListMem, LeadTo, Ptr
  <2> HIDE DEF m1
  <2> QED BY <1>1, <1>2, <2>2, <2>4, <2>5 DEF ListMem, LeadTo, Ptr
<1> QED BY <1>4, <1>5, <1>6, <1>7

(* A list passed by value (task.c:889): the task loses its links, the heads *)
(* stay.                                                                    *)
LEMMA LocalList ==
  ASSUME NEW m \in ListMem, NEW t \in Task
  PROVE  LET r == OnLocalList(m, t)
         IN  /\ r \in ListMem /\ r.head = m.head
             /\ r.next = [m.next EXCEPT ![t] = NULL]
             /\ r.last = [m.last EXCEPT ![t] = NULL]
             /\ r.taskListHead = [m.taskListHead EXCEPT ![t] = NoList]
<1> DEFINE a == [m EXCEPT !.taskListHead[t] = NoList]
           b == [a EXCEPT !.next[t] = NULL]
           r == [b EXCEPT !.last[t] = NULL]
<1>1. OnLocalList(m, t) = r
  BY DEF OnLocalList
<1>2. /\ a \in ListMem /\ a.head = m.head /\ a.next = m.next /\ a.last = m.last
      /\ a.taskListHead = [m.taskListHead EXCEPT ![t] = NoList]
  BY DEF ListMem
<1> HIDE DEF a
<1>3. /\ b \in ListMem /\ b.head = a.head /\ b.last = a.last
      /\ b.next = [a.next EXCEPT ![t] = NULL] /\ b.taskListHead = a.taskListHead
  BY <1>2 DEF ListMem, Ptr
<1> HIDE DEF b
<1>4. /\ r \in ListMem /\ r.head = b.head /\ r.next = b.next
      /\ r.last = [b.last EXCEPT ![t] = NULL] /\ r.taskListHead = b.taskListHead
  BY <1>3 DEF ListMem, Ptr
<1> HIDE DEF r
<1> QED BY <1>1, <1>2, <1>3, <1>4

-----------------------------------------------------------------------------
(***************************************************************************)
(* A context switch finds a task, although the lists are broken.  Assumed   *)
(* is that IDLE alone has priority 0, as in main.c:48-52: no other task can *)
(* then clear bit 0.                                                        *)
(***************************************************************************)
IdleAlone == 0 \notin PrioArgs /\ MaxPrio > 1

(* A step that leaves lists and running task alone.                         *)
LEMMA SwitchKept ==
  ASSUME SwitchInv, UNCHANGED <<lists, task_prior, status, bitmap, current, running>>,
         ptrDelay' \in DelayList, pc'[Idle] = pc[Idle]
  PROVE  SwitchInv'
BY DEF SwitchInv, Live

(* A new task gets a list, a bit and links that lead to live tasks.         *)
LEMMA JoinSwitch ==
  ASSUME SwitchInv, NEW t \in Task \ Live, NEW p \in Prio, p > 0 \/ t = Idle,
         AddNewTask(t, p), BecomesCurrent(t, p),
         UNCHANGED <<ptrDelay, pc>>,
         ~running, running' => p = 0, ~running' => t # Idle
  PROVE  SwitchInv'
<1>1. /\ lists \in ListMem /\ status \in [Task -> Status] /\ task_prior \in [Task -> Prio]
      /\ bitmap \subseteq Prio
  BY DEF SwitchInv
<1>2. Live' = Live \cup {t}
  BY <1>1 DEF AddNewTask, Live
<1>3. t \in Live \cup {t} /\ Live \cup {t} \in SUBSET Task /\ LeadTo(lists, Live \cup {t})
  BY DEF Live, SwitchInv, LeadTo
<1>4. /\ lists' \in ListMem /\ LeadTo(lists', Live \cup {t})
      /\ lists'.taskListHead = [lists.taskListHead EXCEPT ![t] = p]
      /\ lists'.head[p] # NULL
      /\ \A L \in ListId : L # p => lists'.head[L] = lists.head[L]
  BY <1>1, <1>3, AppendLeads DEF AddNewTask
<1>5. /\ task_prior' = [task_prior EXCEPT ![t] = p]
      /\ bitmap' = bitmap \cup {p}
      /\ status' = [status EXCEPT ![t] = "live"]
  BY DEF AddNewTask
<1>6. \A r \in bitmap' : lists'.head[r] # NULL
  BY <1>1, <1>4, <1>5 DEF SwitchInv, ListId
<1>7. \A u \in Live' : lists'.taskListHead[u] \in {task_prior'[u], NoList} \cup DelayList
  BY <1>1, <1>2, <1>4, <1>5 DEF SwitchInv, Live, ListMem
<1>8. \A u \in Live' \ {Idle} : task_prior'[u] > 0
  BY <1>1, <1>2, <1>5 DEF SwitchInv, Live
<1>9. /\ current' \in Live' \cup {NULL}
      /\ running' => current' # NULL /\ 0 \in bitmap'
      /\ ~running' => Idle \notin Live'
  BY <1>2, <1>5 DEF SwitchInv, BecomesCurrent, AddNewTask
<1>10. /\ task_prior' \in [Task -> Prio] /\ status' \in [Task -> Status]
       /\ bitmap' \subseteq Prio /\ ptrDelay' \in DelayList /\ pc'[Idle] = "user"
  BY <1>1, <1>5 DEF SwitchInv, Status
<1> QED BY <1>2, <1>4, <1>6, <1>7, <1>8, <1>9, <1>10 DEF SwitchInv

(***************************************************************************)
(* A task goes onto a delay list, whether it is taken off its ready list    *)
(* first, as in os_delay, or only its links are (m): the bit that may be    *)
(* cleared is its own.                                                      *)
(***************************************************************************)
LEMMA SleepSwitch ==
  ASSUME SwitchInv, NEW t \in Live \ {Idle}, NEW m \in ListMem, LeadTo(m, Live),
         \A u \in Live \ {t} : m.taskListHead[u] = lists.taskListHead[u],
         \A r \in Prio : r # task_prior[t] => m.head[r] = lists.head[r],
         NEW L \in DelayList, NEW wake, lists' = os_listInsertByDelay(m, t, L, wake),
         bitmap' = ClearIfEmpty(m, task_prior[t]),
         UNCHANGED <<task_prior, status, ptrDelay, current, running>>,
         pc'[Idle] = pc[Idle]
  PROVE  SwitchInv'
<1>1. Live' = Live /\ Live \in SUBSET Task
  BY DEF Live
<1>2. /\ lists' \in ListMem /\ LeadTo(lists', Live)
      /\ lists'.taskListHead = [m.taskListHead EXCEPT ![t] = L]
      /\ \A r \in Prio : lists'.head[r] = m.head[r]
  BY <1>1, InsertLeads
<1>3. task_prior[t] > 0 /\ bitmap \subseteq Prio /\ task_prior[t] \in Prio
  BY <1>1 DEF SwitchInv
<1>4. bitmap' \subseteq Prio /\ \A r \in bitmap' : lists'.head[r] # NULL
  BY <1>2, <1>3 DEF ClearIfEmpty, SwitchInv
<1>5. 0 \in bitmap => 0 \in bitmap'
  BY <1>3 DEF ClearIfEmpty
<1>6. \A u \in Live : lists'.taskListHead[u] \in {task_prior[u], NoList} \cup DelayList
  BY <1>1, <1>2 DEF SwitchInv, ListMem
<1> QED BY <1>1, <1>2, <1>4, <1>5, <1>6 DEF SwitchInv

(* A task that the tick finds due goes to its ready list.                   *)
LEMMA WakeSwitch == ASSUME SwitchInv, TickWake PROVE SwitchInv'
<1> DEFINE t == lists.head[ptrDelay]
           p == task_prior[t]
           m == os_taskListRemove(lists, t)
<1>1. /\ lists \in ListMem /\ LeadTo(lists, Live) /\ ptrDelay \in ListId
      /\ task_prior \in [Task -> Prio] /\ bitmap \subseteq Prio
      /\ Live \in SUBSET Task
  BY DEF SwitchInv, ListId, Live
<1>2. t \in Live /\ t \in Task
  BY <1>1 DEF TickWake, Due, LeadTo
<1>3. /\ lists' = AppendReady(m, t, p)
      /\ bitmap' = bitmap \cup {p}
      /\ UNCHANGED <<task_prior, ptrDelay, status, current, running, pc>>
  BY DEF TickWake, lifeVars, swapVars, callVars
<1> HIDE DEF t
<1>4. /\ m \in ListMem /\ LeadTo(m, Live) /\ m.taskListHead = lists.taskListHead
      /\ \A L \in ListId : L # lists.taskListHead[t] => m.head[L] = lists.head[L]
  BY <1>1, <1>2, RemoveLeads
<1> HIDE DEF m
<1>5. /\ lists' \in ListMem /\ LeadTo(lists', Live)
      /\ lists'.taskListHead = [m.taskListHead EXCEPT ![t] = p]
      /\ lists'.head[p] # NULL
      /\ \A L \in ListId : L # p => lists'.head[L] = m.head[L]
  BY <1>1, <1>2, <1>3, <1>4, AppendLeads
<1>6. lists.taskListHead[t] \in {p, NoList} \cup DelayList
  BY <1>2 DEF SwitchInv
<1>7. p \in Prio
  BY <1>1, <1>2
<1> HIDE DEF p
<1>8. ASSUME NEW r \in bitmap' PROVE lists'.head[r] # NULL
  <2>1. CASE r = p
    BY <2>1, <1>5
  <2>2. CASE r # p
    <3>1. r \in bitmap /\ r \in Prio /\ r \in ListId
      BY <2>2, <1>1, <1>3 DEF ListId
    <3>2. r # lists.taskListHead[t]
      BY <2>2, <3>1, <1>6 DEF Prio, DelayList, DELAY1, DELAY2, NoList
    <3> QED BY <2>2, <3>1, <3>2, <1>4, <1>5 DEF SwitchInv
  <2> QED BY <2>1, <2>2
<1>9. Live' = Live
  BY <1>3 DEF Live
<1>10. \A u \in Live : lists'.taskListHead[u] \in {task_prior[u], NoList} \cup DelayList
  BY <1>1, <1>2, <1>4, <1>5 DEF SwitchInv, ListMem, p
<1> QED BY <1>3, <1>5, <1>7, <1>8, <1>9, <1>10 DEF SwitchInv

(* The switch goes to the head of the list of the highest bit.              *)
LEMMA PendSVSwitch == ASSUME SwitchInv, PendSV PROVE SwitchInv' /\ current' \in Task
<1>1. /\ bitmap \in SUBSET Prio /\ 0 \in bitmap /\ current \in Live
      /\ \A p \in bitmap : p \in ListId /\ lists.head[p] \in Live
  BY DEF SwitchInv, PendSV, LeadTo, ListId
<1>2. HighestReady \in Live
  BY <1>1, HighestBit DEF HighestReady
<1>3. current' \in Live
  BY <1>1, <1>2 DEF PendSV
<1>4. UNCHANGED <<lists, task_prior, status, bitmap, ptrDelay, running, pc>>
  BY DEF PendSV, listVars, lifeVars, callVars
<1>5. NULL \notin Live /\ Live' = Live
  BY <1>4 DEF Live
<1> QED BY <1>3, <1>4, <1>5 DEF SwitchInv, Live

(* The handlers and start-up.                                               *)
LEMMA HandlerSwitch ==
  ASSUME SwitchInv, IdleAlone, Boot \/ Tick \/ InTick \/ PendSV
  PROVE  SwitchInv'
<1> USE DEF listVars, lifeVars, swapVars, callVars
<1>1. CASE Start
  <2>1. Idle \notin Live /\ 0 \in Prio
    BY <1>1 DEF Start, SwitchInv, Prio
  <2>2. /\ AddNewTask(Idle, 0) /\ BecomesCurrent(Idle, 0)
        /\ UNCHANGED <<ptrDelay, pc>> /\ ~running /\ running'
    BY <1>1 DEF Start
  <2> QED BY <2>1, <2>2, JoinSwitch
<1>2. ASSUME NEW t \in Task, BootCreate(t) PROVE SwitchInv'
  <2> PICK arg \in PrioArgs :
             /\ ~running /\ t # Idle /\ status[t] = "free"
             /\ AddNewTask(t, Clamp(arg)) /\ BecomesCurrent(t, Clamp(arg))
             /\ UNCHANGED <<ptrDelay, running, pc>>
    BY <1>2 DEF BootCreate
  <2>1. Clamp(arg) \in Prio /\ Clamp(arg) > 0
    BY DEF IdleAlone, Clamp, Prio
  <2>2. t \notin Live
    BY DEF Live
  <2> QED BY <2>1, <2>2, JoinSwitch
<1>3. CASE SysTick \/ ResumeTick
  <2>1. /\ UNCHANGED <<lists, task_prior, status, bitmap, current, running, pc>>
        /\ ptrDelay' \in {ptrDelay, Overflow}
    BY <1>3 DEF SysTick, ResumeTick, TickBegin
  <2>2. ptrDelay' \in DelayList
    BY <2>1 DEF SwitchInv, Overflow, DelayList
  <2> QED BY <2>1, <2>2, SwitchKept
<1>4. CASE SysTickPended
  BY <1>4, SwitchKept DEF SysTickPended, SwitchInv
<1>5. CASE TickWake
  BY <1>5, WakeSwitch
<1>6. CASE SysTickEnd \/ ResumeTickEnd
  BY <1>6, SwitchKept DEF SysTickEnd, ResumeTickEnd, SwitchInv
<1>7. CASE PendSV
  BY <1>7, PendSVSwitch
<1> QED BY <1>1, <1>2, <1>3, <1>4, <1>5, <1>6, <1>7 DEF Boot, Tick, InTick

(* os_delay and the calls that wait: nobody but IDLE has priority 0.        *)
LEMMA TaskSwitch ==
  ASSUME SwitchInv, ReplayInv, NEW t \in Task,
         DelayCall(t) \/ DelayKernel(t) \/ AskSome(t) \/ Loop(t)
  PROVE  SwitchInv'
<1> USE DEF listVars, lifeVars, swapVars, callVars, At, Goto
<1>1. ASSUME UNCHANGED <<lists, task_prior, status, bitmap, ptrDelay, current, running>>,
             pc'[Idle] = pc[Idle]
      PROVE  SwitchInv'
  BY <1>1, SwitchKept DEF SwitchInv
<1>2. ASSUME t # Idle, NEW l, pc' = [pc EXCEPT ![t] = l] PROVE pc'[Idle] = pc[Idle]
  BY <1>2
<1>3. pc[t] # "user" => t # Idle
  BY DEF SwitchInv
<1>4. lists \in ListMem /\ LeadTo(lists, Live) /\ Live \in SUBSET Task
      /\ ptrDelay \in DelayList /\ Overflow \in DelayList
  BY DEF SwitchInv, Live, Overflow, DelayList
<1>5. running /\ current = t => t \in Live
  BY <1>4 DEF SwitchInv
<1>6. CASE DelayCall(t)
  BY <1>1, <1>2, <1>6 DEF DelayCall
<1>7. CASE DelayAdd(t)
  <2> DEFINE m    == os_taskListRemove(lists, t)
             time == TimeToWake(t)
             L    == IF Wraps(time) THEN Overflow ELSE ptrDelay
             wake == [ticksToDelay EXCEPT ![t] = time]
  <2>1. /\ t \in Live \ {Idle} /\ pc' = [pc EXCEPT ![t] = "resumeDelay"]
        /\ lists' = os_listInsertByDelay(m, t, L, wake)
        /\ bitmap' = ClearIfEmpty(m, task_prior[t])
        /\ UNCHANGED <<task_prior, status, ptrDelay, current, running>>
    BY <1>3, <1>5, <1>7 DEF DelayAdd
  <2>2. /\ m \in ListMem /\ LeadTo(m, Live) /\ m.taskListHead = lists.taskListHead
        /\ \A M \in ListId : M # lists.taskListHead[t] => m.head[M] = lists.head[M]
    BY <1>4, RemoveLeads
  <2>3. ASSUME NEW r \in Prio, r # task_prior[t] PROVE m.head[r] = lists.head[r]
    <3>1. lists.taskListHead[t] \in {task_prior[t], NoList} \cup DelayList
      BY <2>1 DEF SwitchInv
    <3>2. r \in ListId /\ r # lists.taskListHead[t]
      BY <2>3, <3>1 DEF ListId, Prio, DelayList, DELAY1, DELAY2, NoList
    <3> QED BY <2>2, <3>2
  <2>4. L \in DelayList
    BY <1>4
  <2>5. pc'[Idle] = pc[Idle]
    BY <2>1
  <2> HIDE DEF m, L, wake
  <2> QED BY <2>1, <2>2, <2>3, <2>4, <2>5, SleepSwitch
<1>8. CASE Place(t)
  <2> DEFINE m    == OnLocalList(lists, t)
             time == TimeToWake(t)
             L    == IF Wraps(time) THEN Overflow ELSE ptrDelay
             wake == [ticksToDelay EXCEPT ![t] = time]
  <2>1. /\ t \in Live \ {Idle} /\ pc' = [pc EXCEPT ![t] = "resumeBlocked"]
        /\ lists' = os_listInsertByDelay(m, t, L, wake)
        /\ bitmap' = ClearIfEmpty(m, task_prior[t])
        /\ UNCHANGED <<task_prior, status, ptrDelay, current, running>>
    BY <1>3, <1>5, <1>8 DEF Place
  <2>2. /\ m \in ListMem /\ m.head = lists.head
        /\ m.next = [lists.next EXCEPT ![t] = NULL]
        /\ m.last = [lists.last EXCEPT ![t] = NULL]
        /\ m.taskListHead = [lists.taskListHead EXCEPT ![t] = NoList]
    BY <1>4, LocalList
  <2> HIDE DEF m
  <2>4. LeadTo(m, Live)
    BY <1>4, <2>2 DEF LeadTo, ListMem
  <2>5. /\ \A u \in Live \ {t} : m.taskListHead[u] = lists.taskListHead[u]
        /\ \A r \in Prio : r # task_prior[t] => m.head[r] = lists.head[r]
    BY <1>4, <2>2 DEF ListMem
  <2>6. L \in DelayList /\ pc'[Idle] = pc[Idle]
    BY <1>4, <2>1
  <2> HIDE DEF L, wake
  <2> QED BY <2>1, <2>2, <2>4, <2>5, <2>6, SleepSwitch
<1>9. CASE DelayTrigger(t) \/ ResumeEnter(t)
  BY <1>1, <1>2, <1>3, <1>9 DEF DelayTrigger, ResumeEnter
<1>10. CASE ResumeExit(t)
  <2>1. UNCHANGED <<lists, task_prior, status, bitmap, ptrDelay, current, running>>
    BY <1>10 DEF ResumeExit
  <2>2. pc[t] # "user"
    BY <1>10 DEF ResumeExit, ReplayInv, Resuming
  <2> QED BY <1>1, <1>2, <1>3, <1>10, <2>1, <2>2 DEF ResumeExit
<1>11. CASE AskSome(t)
  BY <1>1, <1>2, <1>11 DEF AskSome, Ask
<1>12. CASE Loop(t) /\ ~Place(t)
  <2> USE <1>1, <1>2, <1>3 DEF ipcVars, Returns
  <2>1. CASE Serve(t) \/ Refuse(t) \/ NoteTime(t)
    BY <2>1 DEF Serve, Refuse, NoteTime
  <2>2. CASE Suspend(t) \/ Check(t) \/ TryAgain(t)
    BY <2>2 DEF Suspend, Check, TryAgain
  <2>3. CASE EnterResume(t) \/ LeaveResume(t)
    BY <2>3 DEF EnterResume, LeaveResume, Resuming
  <2>4. CASE TriggerWait(t) \/ GiveUp(t)
    BY <2>4 DEF TriggerWait, GiveUp
  <2> QED BY <1>12, <2>1, <2>2, <2>3, <2>4 DEF Loop
<1> QED BY <1>6, <1>7, <1>8, <1>9, <1>10, <1>11, <1>12 DEF DelayKernel

-----------------------------------------------------------------------------
(***************************************************************************)
(* Rounds.  The handlers and start-up touch neither the count nor a task    *)
(* that is inside.                                                          *)
(***************************************************************************)
LEMMA HandlerRounds ==
  ASSUME CallTypeOK, ReplayInv, RoundsInv, SwitchInv, SwitchInv',
         Boot \/ Tick \/ InTick \/ PendSV
  PROVE  RoundsInv'
<1> USE DEF tickVars, swapVars, callVars, RoundsInv
<1>1. CASE Boot
  <2>1. /\ ~running /\ mode = "run" /\ ~pendSV
        /\ UNCHANGED <<suspended, mode, pc, pendSV>>
    BY <1>1 DEF Boot, Start, BootCreate, loopVars, ReplayInv
  <2>2. running' => current' \in Task
    BY DEF SwitchInv, Live
  <2>3. suspended = 0 /\ \A t \in Task : pc'[t] \notin Inside
    BY <2>1 DEF Inside, Resuming
  <2> QED BY <2>1, <2>2, <2>3
<1>2. CASE SysTick
  BY <1>2 DEF SysTick, SysTickEnabled, TickBegin, lifeVars
<1>3. CASE SysTickPended
  BY <1>3 DEF SysTickPended, SysTickEnabled, lifeVars, loopVars
<1>4. CASE TickWake
  BY <1>4 DEF TickWake, lifeVars
<1>5. CASE SysTickEnd
  BY <1>5 DEF SysTickEnd, TickEnd, lifeVars, ReplayInv
<1>6. CASE ResumeTick
  BY <1>6 DEF ResumeTick, TickBegin, lifeVars, ReplayInv
<1>7. CASE ResumeTickEnd
  BY <1>7 DEF ResumeTickEnd, TickEnd, lifeVars, ReplayInv
<1>8. CASE PendSV
  <2>1. /\ running /\ mode = "run" /\ UNCHANGED <<running, mode, suspended, pc>>
        /\ suspended # 0 => current' = current
    BY <1>8 DEF PendSV, lifeVars, loopVars
  <2>2. current' \in Task
    BY <1>8, PendSVSwitch
  <2> QED BY <2>1, <2>2
<1> QED BY <1>1, <1>2, <1>3, <1>4, <1>5, <1>6, <1>7, <1>8 DEF Boot, Tick, InTick

(***************************************************************************)
(* A step of the running task: it goes in, out, or stays where it was, and  *)
(* the count with it.                                                       *)
(***************************************************************************)
LEMMA OwnRounds ==
  ASSUME CallTypeOK, RoundsInv, NEW t \in Task, running, current = t,
         UNCHANGED <<running, current>>, NEW l, Goto(t, l),
         mode' = "run",
         suspended' = IF l \in Inside THEN 1 ELSE 0
  PROVE  RoundsInv'
<1>1. pc'[t] = l /\ \A u \in Task \ {t} : pc'[u] = pc[u]
  BY DEF CallTypeOK, Goto
<1> QED BY <1>1 DEF RoundsInv

(* os_delay suspends the scheduler once and resumes it once.                *)
LEMMA DelayRounds ==
  ASSUME CallTypeOK, ReplayInv, RoundsInv, NEW t \in Task, DelayCall(t) \/ DelayKernel(t)
  PROVE  RoundsInv'
<1> USE DEF At, lifeVars, tickVars, swapVars, loopVars
<1>1. /\ running /\ mode = "run" /\ current = t => suspended = IF pc[t] \in Inside THEN 1 ELSE 0
      /\ mode # "run" => suspended = 0
  BY DEF RoundsInv
<1>2. CASE DelayCall(t)
  <2>1. /\ running /\ mode = "run" /\ current = t /\ pc[t] = "user" /\ Goto(t, "delay")
        /\ suspended' = suspended + 1 /\ UNCHANGED <<running, mode, current>>
    BY <1>2 DEF DelayCall
  <2> QED BY <1>1, <2>1, OwnRounds DEF Inside, Resuming
<1>3. CASE DelayAdd(t)
  <2>1. /\ running /\ mode = "run" /\ current = t /\ pc[t] = "delay"
        /\ Goto(t, "resumeDelay") /\ UNCHANGED <<running, mode, current, suspended>>
    BY <1>3 DEF DelayAdd
  <2> QED BY <1>1, <2>1, OwnRounds DEF Inside, Resuming
<1>4. CASE DelayTrigger(t)
  <2>1. /\ running /\ mode = "run" /\ current = t /\ pc[t] = "trigger"
        /\ Goto(t, "user") /\ UNCHANGED <<running, mode, current, suspended>>
    BY <1>4 DEF DelayTrigger
  <2> QED BY <1>1, <2>1, OwnRounds DEF Inside, Resuming
<1>5. CASE ResumeEnter(t)
  <2>1. /\ running /\ mode = "run" /\ current = t
        /\ pc[t] \in {"resumeDelay", "resumeHeap"}
        /\ suspended' = suspended - 1 /\ mode' = "resume"
        /\ UNCHANGED <<running, current, pc>>
    BY <1>5 DEF ResumeEnter, callVars
  <2>2. pc[t] = "resumeDelay"
    BY <2>1 DEF CallTypeOK, CallLabel, InLoop, Resuming
  <2>3. suspended' = 0
    BY <1>1, <2>1, <2>2 DEF Inside
  <2> QED BY <2>1, <2>3 DEF RoundsInv
<1>6. CASE pc[t] \notin Resuming /\ ResumeExit(t)
  <2>1. /\ mode = "resume" /\ current = t /\ mode' = "run"
        /\ Goto(t, AfterResume(t)) /\ UNCHANGED <<running, current, suspended>>
    BY <1>6 DEF ResumeExit
  <2>2. running /\ pc[t] = "resumeDelay"
    BY <1>6, <2>1 DEF ReplayInv
  <2>3. AfterResume(t) \in {"user", "trigger"}
    BY <2>2 DEF AfterResume
  <2> QED BY <1>1, <2>1, <2>2, <2>3, OwnRounds DEF Inside, Resuming
<1> QED BY <1>2, <1>3, <1>4, <1>5, <1>6 DEF DelayKernel

(* And so does each round of a call that waits.                             *)
LEMMA LoopRounds ==
  ASSUME CallTypeOK, ReplayInv, RoundsInv, NEW t \in Task, AskSome(t) \/ Loop(t)
  PROVE  RoundsInv'
<1> USE DEF At, lifeVars, tickVars, swapVars, loopVars
<1>1. /\ running /\ mode = "run" /\ current = t => suspended = IF pc[t] \in Inside THEN 1 ELSE 0
      /\ mode # "run" => suspended = 0
  BY DEF RoundsInv
<1>2. ASSUME running, mode = "run", current = t, pc[t] \notin Inside,
             NEW l, l \notin Inside, Goto(t, l),
             UNCHANGED <<running, mode, current, suspended>>
      PROVE  RoundsInv'
  BY <1>1, <1>2, OwnRounds
<1>3. ASSUME running, mode = "run", current = t, pc[t] \in Inside,
             NEW l \in Inside, Goto(t, l),
             UNCHANGED <<running, mode, current, suspended>>
      PROVE  RoundsInv'
  BY <1>1, <1>3, OwnRounds
<1>4. /\ {"user", "try", "suspend", "triggerWait", "giveUp"} \cap Inside = {}
      /\ {"check", "place"} \cup Resuming \subseteq Inside
      /\ {"resumeBlocked", "resumeAgain", "resumeGiveUp"} = Resuming
  BY DEF Inside, Resuming
<1>5. CASE AskSome(t)
  BY <1>2, <1>4, <1>5 DEF AskSome, Ask
<1>6. CASE Serve(t) \/ Refuse(t)
  BY <1>2, <1>4, <1>6 DEF Serve, Refuse, Returns
<1>7. CASE NoteTime(t)
  BY <1>2, <1>4, <1>7 DEF NoteTime
<1>8. CASE Suspend(t)
  <2>1. /\ running /\ mode = "run" /\ current = t /\ pc[t] = "suspend" /\ Goto(t, "check")
        /\ suspended' = suspended + 1 /\ UNCHANGED <<running, mode, current>>
    BY <1>8 DEF Suspend
  <2> QED BY <1>1, <1>4, <2>1, OwnRounds
<1>9. CASE Check(t)
  BY <1>3, <1>4, <1>9 DEF Check
<1>10. CASE Place(t) \/ TryAgain(t)
  BY <1>3, <1>4, <1>10 DEF Place, TryAgain
<1>11. CASE EnterResume(t)
  <2>1. /\ running /\ mode = "run" /\ current = t /\ pc[t] \in Resuming
        /\ suspended' = IF Resumes(t) THEN suspended - 1 ELSE suspended
        /\ mode' = "resume" /\ UNCHANGED <<running, current, pc>>
    BY <1>11 DEF EnterResume, callVars
  <2>2. suspended' = 0
    BY <1>1, <1>4, <2>1 DEF Resumes
  <2> QED BY <2>1, <2>2 DEF RoundsInv
<1>12. CASE LeaveResume(t)
  <2>1. /\ mode = "resume" /\ current = t /\ mode' = "run" /\ pc[t] \in Resuming
        /\ Goto(t, AfterWait(t)) /\ UNCHANGED <<running, current, suspended>>
    BY <1>12 DEF LeaveResume
  <2>2. running
    BY <2>1 DEF ReplayInv
  <2>3. AfterWait(t) \in {"try", "triggerWait", "giveUp"}
    BY <2>1 DEF AfterWait, Resuming
  <2> QED BY <1>1, <1>4, <2>1, <2>2, <2>3, OwnRounds
<1>13. CASE TriggerWait(t)
  BY <1>2, <1>4, <1>13 DEF TriggerWait
<1>14. CASE GiveUp(t)
  BY <1>2, <1>4, <1>14 DEF GiveUp, Returns
<1> QED BY <1>5, <1>6, <1>7, <1>8, <1>9, <1>10, <1>11, <1>12, <1>13, <1>14 DEF Loop

(***************************************************************************)
(* The invariants together, and what follows from them.                     *)
(***************************************************************************)
THEOREM LinksAlwaysLead == ASSUME IdleAlone PROVE IpcSpec => [](SwitchInv /\ RoundsInv)
<1>1. IpcInit => SwitchInv /\ RoundsInv
  <2> SUFFICES ASSUME IpcInit PROVE SwitchInv /\ RoundsInv
    OBVIOUS
  <2> USE DEF IpcInit, Init
  <2>1. EmptyLists \in ListMem /\ LeadTo(EmptyLists, {})
    BY DEF EmptyLists, ListMem, LeadTo, Ptr
  <2>2. Live = {}
    BY DEF Live
  <2>3. 0 \in Prio
    BY DEF Prio
  <2>4. SwitchInv
    BY <2>1, <2>2, <2>3 DEF SwitchInv, Status, DelayList
  <2>5. RoundsInv
    BY DEF RoundsInv, Inside, Resuming
  <2> QED BY <2>4, <2>5
<1>2. CallInv /\ SwitchInv /\ RoundsInv /\ [IpcNext]_allVars => (SwitchInv /\ RoundsInv)'
  <2> SUFFICES ASSUME CallInv, SwitchInv, RoundsInv, [IpcNext]_allVars
               PROVE  (SwitchInv /\ RoundsInv)'
    OBVIOUS
  <2> USE DEF CallInv
  <2>1. CASE IpcNext
    <3>1. SwitchInv'
      BY <2>1, HandlerSwitch, TaskSwitch DEF IpcNext
    <3>2. RoundsInv'
      BY <2>1, <3>1, HandlerRounds, DelayRounds, LoopRounds DEF IpcNext
    <3> QED BY <3>1, <3>2
  <2>2. CASE UNCHANGED allVars
    BY <2>2 DEF allVars, vars, listVars, lifeVars, tickVars, swapVars, loopVars, callVars,
                SwitchInv, RoundsInv, Live
  <2> QED BY <2>1, <2>2
<1> QED BY <1>1, <1>2, CallsAlwaysCharged, PTL DEF IpcSpec

(***************************************************************************)
(* Every round resumes the scheduler once, whichever way it ends, and no    *)
(* task is switched out inside one (ipc.c:159-193, 282-320).                *)
(***************************************************************************)
THEOREM RoundsAlwaysBalanced == ASSUME IdleAlone PROVE IpcSpec => []RoundsBalanced
<1>1. RoundsInv => RoundsBalanced
  BY DEF RoundsInv, RoundsBalanced
<1> QED BY <1>1, LinksAlwaysLead, PTL

(***************************************************************************)
(* task.c:61: a context switch gets the TCB of a task, also when calls that *)
(* wait have broken the lists.                                              *)
(***************************************************************************)
THEOREM AlwaysSomeTask == ASSUME IdleAlone PROVE IpcSpec => [](running => current \in Task)
<1>1. SwitchInv => (running => current \in Task)
  BY DEF SwitchInv, Live
<1> QED BY <1>1, LinksAlwaysLead, PTL

-----------------------------------------------------------------------------
(***************************************************************************)
(* The queue.  The operations are those of QueueData, about which            *)
(* MsgQueue_proofs has lemmas; this is the same queue, and nobody sends with *)
(* OVERWRITE.                                                               *)
(***************************************************************************)
Ring ==
  INSTANCE MsgQueue_proofs WITH
    Positions <- {SEND_TO_BACK, SEND_TO_FRONT},
    exists <- TRUE, ret <- 0, buffer <- NoItem, call <- "none", ok <- TRUE

SoundQueue(m) == m \in QueueMem /\ m.waiting <= m.uxLength /\ InPhase(m) /\ AllSent(m)

(* What the lemmas about queues assume.                                     *)
LEMMA RingAssumptions == Ring!QueueDataAssumption /\ Ring!PositionsAssumption
BY DEF Ring!QueueDataAssumption, Ring!PositionsAssumption, SEND_TO_BACK, SEND_TO_FRONT,
       Ring!SEND_TO_BACK, Ring!SEND_TO_FRONT, Ring!OVERWRITE

(* Both name the same operators.                                            *)
LEMMA SameQueue ==
  ASSUME NEW m
  PROVE  /\ Ring!Sound(m) <=> SoundQueue(m)
         /\ Ring!Messages(m) = Messages(m)
         /\ Ring!HasRoom(m) <=> HasRoom(m)
         /\ Ring!IsQueueEmpty(m) <=> IsQueueEmpty(m)
         /\ Ring!Taken(m) = Taken(m)
         /\ \A x, p : Ring!copyDataToQueue(m, x, p) = copyDataToQueue(m, x, p)
<1>1. Ring!Messages(m) = Messages(m)
  BY DEF Messages, Ring!Messages, SlotOf, Ring!SlotOf
<1>2. Ring!InPhase(m) <=> InPhase(m)
  BY DEF InPhase, Ring!InPhase, SlotOf, Ring!SlotOf
<1>3. Ring!AllSent(m) <=> AllSent(m)
  BY <1>1 DEF AllSent, Ring!AllSent
<1>4. Ring!Sound(m) <=> SoundQueue(m)
  BY <1>2, <1>3 DEF Ring!Sound, SoundQueue, QueueMem, Ring!QueueMem
<1>5. /\ Ring!HasRoom(m) <=> HasRoom(m)
      /\ Ring!IsQueueEmpty(m) <=> IsQueueEmpty(m)
  BY DEF HasRoom, Ring!HasRoom, IsQueueEmpty, Ring!IsQueueEmpty
<1>6. Ring!Taken(m) = Taken(m)
  BY DEF Taken, Ring!Taken, ReadPtr, Ring!ReadPtr, Advance, Ring!Advance, pcTail, Ring!pcTail
<1>7. ASSUME NEW x, NEW p
      PROVE  Ring!copyDataToQueue(m, x, p) = copyDataToQueue(m, x, p)
  BY DEF copyDataToQueue, Ring!copyDataToQueue, Copied, Ring!Copied, Advance, Ring!Advance,
         Retreat, Ring!Retreat, pcTail, Ring!pcTail, SEND_TO_BACK, Ring!SEND_TO_BACK
<1> QED BY <1>1, <1>4, <1>5, <1>6, <1>7

(* A message sent where there is room lands at the end that was named.      *)
LEMMA SendShared ==
  ASSUME NEW m, SoundQueue(m), HasRoom(m), NEW x, NEW p \in {SEND_TO_BACK, SEND_TO_FRONT},
         m.uxItemSize = 1 => x \in Item,
         m.uxItemSize = 0 => x = NoItem /\ p = SEND_TO_BACK
  PROVE  LET n == copyDataToQueue(m, x, p)
         IN  /\ SoundQueue(n) /\ n.uxItemSize = m.uxItemSize
             /\ Len(Messages(m)) < m.uxLength
             /\ p = SEND_TO_BACK => Messages(n) = Append(Messages(m), x)
             /\ p = SEND_TO_FRONT => Messages(n) = <<x>> \o Messages(m)
<1> DEFINE n == copyDataToQueue(m, x, p)
<1>1. /\ Ring!SEND_TO_BACK = SEND_TO_BACK /\ Ring!SEND_TO_FRONT = SEND_TO_FRONT
      /\ Ring!Sound(m) /\ Ring!HasRoom(m) /\ Ring!copyDataToQueue(m, x, p) = n
  BY SameQueue DEF SEND_TO_BACK, Ring!SEND_TO_BACK, SEND_TO_FRONT, Ring!SEND_TO_FRONT
<1>2. /\ Ring!Sound(n)
      /\ p = SEND_TO_BACK => Ring!Messages(n) = Append(Ring!Messages(m), x)
      /\ p = SEND_TO_FRONT => Ring!Messages(n) = <<x>> \o Ring!Messages(m)
  <2> HIDE DEF n
  <2> QED BY <1>1, RingAssumptions, Ring!SendOK
           DEF Ring!QueueDataAssumption, Ring!PositionsAssumption
<1>3. n.uxItemSize = m.uxItemSize
  BY DEF copyDataToQueue, SoundQueue, QueueMem
<1>4. Len(Messages(m)) = m.waiting
  BY <1>1, SameQueue, RingAssumptions, Ring!MessagesType
     DEF Ring!QueueDataAssumption, Ring!PositionsAssumption
<1> HIDE DEF n
<1>5. /\ SoundQueue(n) /\ Ring!Messages(n) = Messages(n) /\ Ring!Messages(m) = Messages(m)
  BY <1>2, SameQueue
<1> QED BY <1>2, <1>3, <1>4, <1>5 DEF HasRoom, n

(* The first message is taken.                                              *)
LEMMA TakeShared ==
  ASSUME NEW m, SoundQueue(m), ~IsQueueEmpty(m)
  PROVE  /\ SoundQueue(Taken(m)) /\ Taken(m).uxItemSize = m.uxItemSize
         /\ Messages(m) # <<>>
         /\ Messages(Taken(m)) = Tail(Messages(m))
<1>1. Ring!Sound(m) /\ ~Ring!IsQueueEmpty(m) /\ Ring!Taken(m) = Taken(m)
  BY SameQueue
<1>2. /\ Ring!Sound(Taken(m)) /\ Ring!Messages(m) # <<>>
      /\ Ring!Messages(Taken(m)) = Tail(Ring!Messages(m))
  BY <1>1, RingAssumptions, Ring!TakeOK
     DEF Ring!QueueDataAssumption, Ring!PositionsAssumption
<1>3. Taken(m).uxItemSize = m.uxItemSize
  BY DEF Taken, SoundQueue, QueueMem
<1> QED BY <1>2, <1>3, SameQueue

(* The queue that main() makes.                                             *)
LEMMA MadeSound ==
  ASSUME NEW l \in 1 .. MaxLength, NEW s \in {0, 1}
  PROVE  /\ SoundQueue(Made(l, s)) /\ Made(l, s).uxItemSize = s
         /\ s = 0 => \A k \in 0 .. l : SoundQueue([Made(l, s) EXCEPT !.waiting = k])
<1> DEFINE f == [i \in 0 .. MaxLength - 1 |-> NoItem]
<1>1. Made(l, s) = [uxLength |-> l, uxItemSize |-> s, waiting |-> 0, writeTo |-> 0,
                    readFrom |-> (l - 1) * s, slot |-> f]
  <2> DEFINE m == [uxLength |-> l, uxItemSize |-> s, waiting |-> 0, writeTo |-> 0,
                   readFrom |-> 0, slot |-> f]
  <2>1. Made(l, s) = [m EXCEPT !.waiting = 0, !.writeTo = 0, !.readFrom = (l - 1) * s]
    <3>1. Made(l, s) = mQueueReset(m)
      BY DEF Made
    <3>2. m.uxLength = l /\ m.uxItemSize = s
      OBVIOUS
    <3> HIDE DEF m
    <3> QED BY <3>1, <3>2 DEF mQueueReset
  <2> HIDE DEF f
  <2> QED BY <2>1
<1>2. f \in [0 .. MaxLength - 1 -> Item \cup {NoItem}]
  OBVIOUS
<1>3. /\ (l - 1) * s \in Nat
      /\ s = 0 => (l - 1) * s = 0
      /\ s = 1 => (l - 1) * s = l - 1
  OBVIOUS
<1> HIDE DEF f
<1>4. ASSUME NEW k \in Nat
      PROVE  [uxLength |-> l, uxItemSize |-> s, waiting |-> k, writeTo |-> 0,
              readFrom |-> (l - 1) * s, slot |-> f] \in QueueMem
  BY <1>2, <1>3 DEF QueueMem
<1>5. SoundQueue(Made(l, s))
  <2>1. s = 1 => SlotOf(Made(l, s), 1) = 0
    <3>1. ASSUME NEW m \in Nat \ {0} PROVE (m - 1 + 1) % m = 0
      BY <3>1, SMT
    <3>2. s = 1 => SlotOf(Made(l, s), 1) = (l - 1 + 1) % l
      BY <1>1, <1>3 DEF SlotOf
    <3> QED BY <3>1, <3>2
  <2>2. InPhase(Made(l, s))
    BY <1>1, <1>3, <2>1 DEF InPhase
  <2>3. AllSent(Made(l, s))
    BY <1>1 DEF AllSent
  <2> QED BY <1>1, <1>4, <2>2, <2>3 DEF SoundQueue
<1>6. ASSUME s = 0, NEW k \in 0 .. l PROVE SoundQueue([Made(l, s) EXCEPT !.waiting = k])
  <2>1. [Made(l, s) EXCEPT !.waiting = k] =
          [uxLength |-> l, uxItemSize |-> s, waiting |-> k, writeTo |-> 0,
           readFrom |-> (l - 1) * s, slot |-> f]
    BY <1>1
  <2> QED BY <1>3, <1>4, <1>6, <2>1 DEF SoundQueue, InPhase, AllSent
<1> QED BY <1>1, <1>5, <1>6

(* A step that is no concern of the queue.                                  *)
LEMMA QueueSame ==
  ASSUME QueueInv, q' = q,
         \A u \in Task : /\ call'[u].op = call[u].op /\ call'[u].item = call[u].item
                         /\ pc'[u] \in InLoop => pc[u] \in InLoop
  PROVE  QueueInv' /\ Messages(q)' = Messages(q)
<1>1. Messages(q)' = Messages(q)
  BY DEF Messages, SlotOf
<1>2. QueueKept'
  BY <1>1 DEF QueueInv, QueueKept, InPhase, SlotOf, AllSent
<1> QED BY <1>1, <1>2 DEF QueueInv

(* A call that returns is no longer in the loop.                            *)
LEMMA QueueReturns ==
  ASSUME CallTypeOK, QueueInv, NEW t \in Task, Returns(t),
         SoundQueue(q'), q'.uxItemSize = q.uxItemSize
  PROVE  QueueInv'
<1>1. /\ pc'[t] = "user" /\ call'[t] = NoCall
      /\ \A u \in Task \ {t} : pc'[u] = pc[u] /\ call'[u] = call[u]
  BY DEF CallTypeOK, Returns, Goto
<1>2. "user" \notin InLoop /\ NoCall.op = "none" /\ "none" \notin Sends
  BY DEF InLoop, Resuming, NoCall, Sends
<1>3. q' \in QueueMem /\ QueueKept'
  BY DEF SoundQueue, QueueKept, InPhase, AllSent, SlotOf, Messages
<1>4. q'.uxItemSize = q.uxItemSize
  OBVIOUS
<1> QED BY <1>1, <1>2, <1>3, <1>4 DEF QueueInv

-----------------------------------------------------------------------------
(* Start-up, handlers and delays.                                           *)
LEMMA ElapseQueue ==
  ASSUME CallTypeOK, ReplayInv, QueueInv, Elapse,
         \/ Boot \/ Tick \/ InTick \/ PendSV
         \/ \E t \in Task : DelayCall(t) \/ DelayKernel(t)
  PROVE  QueueInv' /\ Messages(q)' = Messages(q)
<1> USE DEF At, Goto, listVars, tickVars, callVars
<1>1. q' = q /\ \A u \in Task : call'[u].op = call[u].op /\ call'[u].item = call[u].item
  BY DEF Elapse, CallTypeOK, Call_t
<1>2. pc \in [Task -> CallLabel]
  BY DEF CallTypeOK
<1>3. CASE Boot \/ Tick \/ InTick \/ PendSV
  <2>1. pc' = pc
    BY <1>3 DEF Boot, Start, BootCreate, Tick, SysTick, SysTickPended, TickBegin, InTick,
                TickWake, SysTickEnd, ResumeTick, ResumeTickEnd, PendSV
  <2> QED BY <1>1, <2>1, QueueSame
<1>4. ASSUME NEW t \in Task, DelayCall(t) \/ DelayKernel(t)
      PROVE  QueueInv' /\ Messages(q)' = Messages(q)
  <2>1. \/ pc' = pc
        \/ \E l \in {"user", "delay", "trigger", "resumeDelay"} : Goto(t, l)
    <3>1. CASE DelayCall(t) \/ DelayAdd(t) \/ DelayTrigger(t)
      BY <3>1 DEF DelayCall, DelayAdd, DelayTrigger
    <3>2. CASE ResumeEnter(t)
      BY <3>2 DEF ResumeEnter
    <3>3. CASE pc[t] \notin Resuming /\ ResumeExit(t)
      <4>1. /\ Goto(t, AfterResume(t)) /\ mode = "resume" /\ current = t
        BY <3>3 DEF ResumeExit
      <4>2. pc[t] = "resumeDelay"
        BY <3>3, <4>1 DEF ReplayInv
      <4>3. AfterResume(t) \in {"user", "trigger"}
        BY <4>2 DEF AfterResume
      <4> QED BY <4>1, <4>3
    <3> QED BY <1>4, <3>1, <3>2, <3>3 DEF DelayKernel
  <2>2. {"user", "delay", "trigger", "resumeDelay"} \cap InLoop = {}
    BY DEF InLoop, Resuming
  <2>3. \A u \in Task : pc'[u] \in InLoop => pc[u] \in InLoop
    BY <1>2, <2>1, <2>2
  <2> QED BY <1>1, <2>3, QueueSame
<1> QED BY <1>3, <1>4

(* A task makes a call with a message that the queue takes.                 *)
LEMMA AskQueue ==
  ASSUME CallTypeOK, QueueInv, NEW t \in Task, AskSome(t)
  PROVE  QueueInv' /\ Messages(q)' = Messages(q)
<1>1. PICK n \in Waits, op \in Ops, x \in Item \cup {NoItem} :
        /\ Ask(t, op, x, n)
        /\ op \in Sends /\ q.uxItemSize = 1 => x \in Item
        /\ op \in Sends /\ q.uxItemSize = 0 => op = "back" /\ x = NoItem
  <2>1. Sends \cap Receives = {} /\ "back" \in Sends
    BY DEF Sends, Receives
  <2> QED BY <2>1 DEF AskSome
<1>2. op \in Sends \cup Receives
  OBVIOUS
<1> DEFINE c == [NoCall EXCEPT !.op = op, !.item = x, !.asked = n]
<1>3. c.op = op /\ c.item = x
  BY DEF NoCall
<1> HIDE DEF c
<1>4. /\ q' = q /\ call' = [call EXCEPT ![t] = c] /\ Goto(t, "try")
  BY <1>1 DEF Ask, c
<1>5. /\ call'[t] = c
      /\ \A u \in Task \ {t} : pc'[u] = pc[u] /\ call'[u] = call[u]
  BY <1>4 DEF CallTypeOK, Goto
<1>6. Messages(q)' = Messages(q)
  BY <1>4 DEF Messages, SlotOf
<1>7. QueueKept'
  BY <1>4, <1>6 DEF QueueInv, QueueKept, InPhase, SlotOf, AllSent
<1> QED BY <1>1, <1>2, <1>3, <1>4, <1>5, <1>6, <1>7 DEF QueueInv

(* A call is served, and the content changes by its message.                *)
LEMMA ServeQueue ==
  ASSUME CallTypeOK, QueueInv, NEW t \in Task, Serve(t)
  PROVE  QueueInv' /\ (ServedBy(t) \/ Messages(q)' = Messages(q))
<1>1. /\ pc[t] = "try" /\ current = t /\ Ready(t) /\ q' = Served(t) /\ Returns(t)
      /\ pc'[t] = "user"
  BY DEF Serve, At, Returns, Goto, CallTypeOK
<1>2. /\ call[t].op \in Sends \cup Receives
      /\ call[t].op \in Sends /\ q.uxItemSize = 1 => call[t].item \in Item
      /\ call[t].op \in Sends /\ q.uxItemSize = 0
           => call[t].op = "back" /\ call[t].item = NoItem
  BY <1>1 DEF QueueInv, InLoop
<1>3. SoundQueue(q) /\ q.uxItemSize \in {0, 1}
  BY DEF QueueInv, QueueKept, SoundQueue, QueueMem
<1>4. SEND_TO_BACK # SEND_TO_FRONT
  BY DEF SEND_TO_BACK, SEND_TO_FRONT
<1>5. Messages(q') = Messages(q)'
  BY DEF Messages, SlotOf
<1>6. CASE call[t].op = "back"
  <2>1. HasRoom(q) /\ q' = copyDataToQueue(q, call[t].item, SEND_TO_BACK)
    BY <1>1, <1>6 DEF Ready, Served, Sends
  <2>2. /\ SoundQueue(q') /\ q'.uxItemSize = q.uxItemSize
        /\ Len(Messages(q)) < q.uxLength
        /\ Messages(q') = Append(Messages(q), call[t].item)
    BY <1>2, <1>3, <1>6, <2>1, SendShared DEF Sends
  <2> QED BY <1>1, <1>5, <1>6, <2>2, QueueReturns DEF ServedBy
<1>7. CASE call[t].op = "front"
  <2>1. HasRoom(q) /\ q' = copyDataToQueue(q, call[t].item, SEND_TO_FRONT)
    BY <1>1, <1>7 DEF Ready, Served, Sends
  <2>2. /\ SoundQueue(q') /\ q'.uxItemSize = q.uxItemSize
        /\ Len(Messages(q)) < q.uxLength
        /\ Messages(q') = <<call[t].item>> \o Messages(q)
    BY <1>2, <1>3, <1>4, <1>7, <2>1, SendShared DEF Sends
  <2> QED BY <1>1, <1>5, <1>7, <2>2, QueueReturns DEF ServedBy
<1>8. CASE call[t].op = "receive"
  <2>1. ~IsQueueEmpty(q) /\ q' = Taken(q)
    BY <1>1, <1>8 DEF Ready, Served, Sends
  <2>2. /\ SoundQueue(q') /\ q'.uxItemSize = q.uxItemSize
        /\ Messages(q) # <<>> /\ Messages(q') = Tail(Messages(q))
    BY <1>3, <2>1, TakeShared
  <2> QED BY <1>1, <1>5, <1>8, <2>2, QueueReturns DEF ServedBy
<1>9. CASE call[t].op = "peek"
  <2>1. q' = q
    BY <1>1, <1>9 DEF Served, Peeked
  <2> QED BY <1>1, <1>3, <1>5, <2>1, QueueReturns
<1> QED BY <1>2, <1>6, <1>7, <1>8, <1>9 DEF Sends, Receives

(* The other steps of the loop leave the queue alone.                       *)
LEMMA LoopQueue ==
  ASSUME CallTypeOK, QueueInv, NEW t \in Task, Loop(t), ~Serve(t)
  PROVE  QueueInv' /\ Messages(q)' = Messages(q)
<1> USE DEF At, ipcVars
<1>1. SoundQueue(q)
  BY DEF QueueInv, QueueKept, SoundQueue
<1>2. ASSUME q' = q, Returns(t) PROVE QueueInv' /\ Messages(q)' = Messages(q)
  BY <1>1, <1>2, QueueReturns DEF Messages, SlotOf
<1>3. ASSUME q' = q,
             \A u \in Task : call'[u].op = call[u].op /\ call'[u].item = call[u].item,
             NEW l, Goto(t, l), pc[t] \in InLoop
      PROVE  QueueInv' /\ Messages(q)' = Messages(q)
  <2>1. \A u \in Task : pc'[u] \in InLoop => pc[u] \in InLoop
    BY <1>3 DEF CallTypeOK, Goto
  <2> QED BY <1>3, <2>1, QueueSame
<1>4. {"try", "suspend", "check", "place", "triggerWait", "giveUp"} \cup Resuming \subseteq InLoop
  BY DEF InLoop
<1>5. CASE Refuse(t)
  BY <1>2, <1>5 DEF Refuse
<1>6. CASE NoteTime(t)
  <2>1. /\ q' = q /\ Goto(t, "suspend") /\ pc[t] = "try"
    BY <1>6 DEF NoteTime
  <2>2. \A u \in Task : call'[u].op = call[u].op /\ call'[u].item = call[u].item
    BY <1>6 DEF NoteTime, CallTypeOK, Call_t
  <2> QED BY <1>3, <1>4, <2>1, <2>2
<1>7. CASE Suspend(t)
  BY <1>3, <1>4, <1>7 DEF Suspend
<1>8. CASE Check(t)
  <2>1. /\ q' = q /\ pc[t] = "check" /\ \E l : Goto(t, l)
    BY <1>8 DEF Check
  <2>2. \A u \in Task : call'[u].op = call[u].op /\ call'[u].item = call[u].item
    BY <1>8 DEF Check, CallTypeOK, Call_t
  <2> QED BY <1>3, <1>4, <2>1, <2>2
<1>9. CASE Place(t) \/ TryAgain(t)
  BY <1>3, <1>4, <1>9 DEF Place, TryAgain
<1>10. CASE EnterResume(t)
  <2>1. UNCHANGED <<pc, q, call>>
    BY <1>10 DEF EnterResume, callVars
  <2> QED BY <2>1, QueueSame
<1>11. CASE LeaveResume(t)
  BY <1>3, <1>4, <1>11 DEF LeaveResume
<1>12. CASE TriggerWait(t)
  BY <1>3, <1>4, <1>12 DEF TriggerWait
<1>13. CASE GiveUp(t)
  <2>1. q' = q /\ pc[t] = "giveUp" /\ (Returns(t) \/ (Goto(t, "try") /\ call' = call))
    BY <1>13 DEF GiveUp
  <2> QED BY <1>2, <1>3, <1>4, <2>1
<1> QED BY <1>5, <1>6, <1>7, <1>8, <1>9, <1>10, <1>11, <1>12, <1>13 DEF Loop

(* Together.                                                                *)
LEMMA QueueStep ==
  ASSUME CallInv, QueueInv, [IpcNext]_allVars
  PROVE  QueueInv' /\ [\E t \in Task : ServedBy(t)]_(Messages(q))
<1> USE DEF CallInv
<1>1. CASE IpcNext
  BY <1>1, ElapseQueue, AskQueue, ServeQueue, LoopQueue DEF IpcNext
<1>2. CASE UNCHANGED allVars
  <2>1. UNCHANGED <<pc, q, call>>
    BY <1>2 DEF allVars, vars, callVars, ipcVars
  <2> QED BY <2>1, QueueSame
<1> QED BY <1>1, <1>2

(* In every queue that main() makes, nothing waits but tokens.              *)
LEMMA QueueInit == IpcInit => QueueInv
<1> SUFFICES ASSUME IpcInit PROVE QueueInv
  OBVIOUS
<1>1. /\ \A t \in Task : pc[t] = "user" /\ call[t] = NoCall
  BY DEF IpcInit, Init
<1>2. "user" \notin InLoop /\ NoCall.op = "none" /\ "none" \notin Sends
  BY DEF InLoop, Resuming, NoCall, Sends
<1>3. SoundQueue(q)
  BY MadeSound DEF IpcInit
<1> QED BY <1>1, <1>2, <1>3 DEF QueueInv, QueueKept, SoundQueue

(***************************************************************************)
(* The queue that tasks share stays a sound ring, although their calls      *)
(* wait, are switched out between any two sections and leave the lists      *)
(* broken (ipc.c:112-396).                                                  *)
(***************************************************************************)
THEOREM SharedQueueSound == IpcSpec => [](QueueInv /\ QueueKept)
<1>1. CallInv /\ QueueInv /\ [IpcNext]_allVars => QueueInv'
  BY QueueStep
<1>2. QueueInv => QueueKept
  BY DEF QueueInv
<1> QED BY <1>1, <1>2, QueueInit, CallsAlwaysCharged, PTL DEF IpcSpec

(***************************************************************************)
(* Its content changes by the message of a call that is served and by       *)
(* nothing else: messages of all tasks keep one order, none is lost, sent   *)
(* twice or left behind by a call that gave up (ipc.c:112-396).             *)
(***************************************************************************)
THEOREM SharedQueueInOrder == IpcSpec => SharedInOrder
<1>1. CallInv /\ QueueInv /\ [IpcNext]_allVars
        => QueueInv' /\ [\E t \in Task : ServedBy(t)]_(Messages(q))
  BY QueueStep
<1> QED BY <1>1, QueueInit, CallsAlwaysCharged, PTL DEF IpcSpec, SharedInOrder
=============================================================================
