------------------------- MODULE SchedulerTime_proofs -------------------------
(***************************************************************************)
(* TimeInv, relative to Inv: the delay lists and os_nextTaskUnblockTime     *)
(* agree with the tick counter, across its overflow. What follows: the next *)
(* due time is exact, the delay lists are in phase, and no tick is lost.    *)
(*                                                                         *)
(* Then what tasks get from the scheduler: preemption is strict, because a  *)
(* request to switch is under way as long as a task more urgent than the    *)
(* running one is ready (PriorityInv); and delays are exact: in terms of    *)
(* which tasks sleep and for how many more ticks, each step of the kernel   *)
(* is a step of Delays or changes nothing.                                  *)
(***************************************************************************)
EXTENDS Scheduler_proofs

USE ListsAssumption, SchedulerAssumption

(* The due times of the delay lists are sorted.                             *)
LEMMA DueIsSorted ==
  ASSUME Inv, DueInv
  PROVE  Sorted(lists, Live, ticksToDelay) /\ ticksToDelay \in [Task -> Nat]
BY DEF Inv, TypeOK, DueInv, Sorted, Sleeping

(* Due times and the next due time stay right while what they depend on     *)
(* stays as it is and no handler ends.                                      *)
LEMMA TimeFrame ==
  ASSUME Inv, TimeInv,
         UNCHANGED <<lists, status, ticksToDelay, ptrDelay, tickCount, nextUnblock, running>>,
         mode' \in {"run", "resume"} => mode \in {"run", "resume"},
         mode \in {"isr", "retick"} => mode' \in {"isr", "retick"}
  PROVE  DueInv' /\ UnblockInv' /\ Sleeping' = Sleeping
<1>1. Sleeping' = Sleeping
  BY DEF Sleeping, Live
<1>2. DueInv'
  BY <1>1 DEF TimeInv, DueInv
<1>3. UnblockInv'
  BY DEF TimeInv, UnblockInv, ResetUnblock
<1> QED BY <1>1, <1>2, <1>3

(* Kernel calls that move no task between lists and no tick.                *)
LEMMA SimpleTime ==
  ASSUME Inv, TimeInv, NEW t \in Task,
         \/ DelayZero(t) \/ DelayCall(t) \/ CreateCall(t)
         \/ DelayTrigger(t) \/ ResumeEnter(t) \/ HeapCall(t) \/ HeapDone(t) \/ CreateYield(t)
  PROVE  TimeInv'
<1> USE DEF listVars, lifeVars, tickVars, swapVars, loopVars, callVars, At, Goto
<1>1. CASE DelayZero(t)
  <2>1. DueInv' /\ UnblockInv' /\ Sleeping' = Sleeping
    BY <1>1, TimeFrame DEF DelayZero
  <2> QED BY <1>1, <2>1 DEF DelayZero, TimeInv, AwakeInv
<1>2. CASE DelayCall(t)
  <2>1. DueInv' /\ UnblockInv' /\ Sleeping' = Sleeping
    BY <1>2, TimeFrame DEF DelayCall
  <2>2. PICK n \in DelayTicks \ {0} : wait' = [wait EXCEPT ![t] = n]
    BY <1>2 DEF DelayCall
  <2>3. n > 0
    OBVIOUS
  <2>4. \A u \in Task : pc'[u] = "delay" => wait'[u] > 0
    BY <1>2, <2>2, <2>3 DEF DelayCall, TimeInv, AwakeInv, Inv, TypeOK
  <2>5. t \notin Sleeping
    BY <1>2 DEF DelayCall, TimeInv, AwakeInv
  <2> QED BY <1>2, <2>1, <2>4, <2>5 DEF DelayCall, TimeInv, AwakeInv, Inv, TypeOK
<1>3. CASE CreateCall(t)
  <2>1. Sleeping' = Sleeping
    BY <1>3 DEF CreateCall, Sleeping, Live, Inv, TypeOK
  <2>2. DueInv' /\ UnblockInv'
    BY <1>3, <2>1 DEF CreateCall, TimeInv, DueInv, UnblockInv, ResetUnblock
  <2> QED BY <1>3, <2>1, <2>2 DEF CreateCall, TimeInv, AwakeInv, Inv, TypeOK
<1>4. CASE DelayTrigger(t)
  <2>1. DueInv' /\ UnblockInv' /\ Sleeping' = Sleeping
    BY <1>4, TimeFrame DEF DelayTrigger
  <2> QED BY <1>4, <2>1 DEF DelayTrigger, TimeInv, AwakeInv, Inv, TypeOK
<1>5. CASE ResumeEnter(t)
  <2>1. DueInv' /\ UnblockInv' /\ Sleeping' = Sleeping
    BY <1>5, TimeFrame DEF ResumeEnter
  <2> QED BY <1>5, <2>1 DEF ResumeEnter, TimeInv, AwakeInv, Inv, TypeOK
<1>6. CASE HeapCall(t)
  <2>1. DueInv' /\ UnblockInv' /\ Sleeping' = Sleeping
    BY <1>6, TimeFrame DEF HeapCall
  <2> QED BY <1>6, <2>1 DEF HeapCall, TimeInv, AwakeInv, Inv, TypeOK
<1>7. CASE HeapDone(t)
  <2>1. Sleeping' = Sleeping
    BY <1>7 DEF HeapDone, Sleeping, Live, Inv, TypeOK
  <2>2. DueInv' /\ UnblockInv'
    BY <1>7, <2>1 DEF HeapDone, TimeInv, DueInv, UnblockInv, ResetUnblock
  <2> QED BY <1>7, <2>1, <2>2 DEF HeapDone, TimeInv, AwakeInv, Inv, TypeOK
<1>8. CASE CreateYield(t)
  <2>1. DueInv' /\ UnblockInv' /\ Sleeping' = Sleeping
    BY <1>8, TimeFrame DEF CreateYield
  <2> QED BY <1>8, <2>1 DEF CreateYield, TimeInv, AwakeInv, Inv, TypeOK
<1> QED BY <1>1, <1>2, <1>3, <1>4, <1>5, <1>6, <1>7, <1>8

(* A task that has put itself to sleep returns from os_resumeAllTask to a   *)
(* request for a switch, made or to be made (task.c:754-765).               *)
LEMMA ResumeExitTime == ASSUME Inv, TimeInv, NEW t \in Task, ResumeExit(t) PROVE TimeInv'
<1> USE DEF ResumeExit, listVars, lifeVars, Goto
<1>1. DueInv' /\ UnblockInv' /\ Sleeping' = Sleeping
  BY TimeFrame
<1>2. pc' = [pc EXCEPT ![t] = AfterResume(t)] /\ pc \in [Task -> Label]
  BY DEF Inv, TypeOK
<1>3. AfterResume(t) # "delay"
  BY DEF AfterResume
<1>4. t \in Sleeping => /\ AfterResume(t) \in {"user", "trigger"}
                        /\ AfterResume(t) = "user" => pendSV'
  <2>1. t \in Sleeping => pc[t] = "resumeDelay"
    BY DEF TimeInv, AwakeInv, Inv, SuspensionInv
  <2>2. pc[t] = "resumeDelay" =>
          AfterResume(t) = IF Outermost /\ yieldPending THEN "user" ELSE "trigger"
    BY DEF AfterResume
  <2>3. CASE Outermost /\ yieldPending
    BY <2>1, <2>2, <2>3
  <2>4. CASE ~(Outermost /\ yieldPending)
    BY <2>1, <2>2, <2>4
  <2> QED BY <2>3, <2>4
<1>5. pc[t] # "delay"
  BY DEF Inv, SuspensionInv
<1>6. AwakeInv'
  BY <1>1, <1>2, <1>3, <1>4, <1>5 DEF TimeInv, AwakeInv, Sleeping, Live
<1> QED BY <1>1, <1>6 DEF TimeInv

(* The context switch never picks a sleeping task.                          *)
LEMMA PendSVTime == ASSUME Inv, TimeInv, PendSV PROVE TimeInv'
<1> USE DEF PendSV, listVars, lifeVars, tickVars, loopVars, callVars
<1>1. DueInv' /\ UnblockInv' /\ Sleeping' = Sleeping
  BY TimeFrame
<1>2. CASE suspended = 0
  <2>1. HighestReady \notin Sleeping
    BY HighestReadyLive DEF Inv, TypeOK, Sleeping, DelayList, DELAY1, DELAY2, Prio
  <2> QED BY <1>1, <1>2, <2>1 DEF TimeInv, AwakeInv
<1>3. CASE suspended # 0
  BY <1>1, <1>3 DEF TimeInv, AwakeInv, Inv, SuspensionInv, Suspending
<1> QED BY <1>2, <1>3

(* A new task does not disturb the delay lists.                             *)
LEMMA AddNewTaskTime ==
  ASSUME Inv, TimeInv, NEW t \in Task \ Live, NEW p \in Prio, AddNewTask(t, p),
         UNCHANGED <<ticksToDelay, ptrDelay, tickCount, mode>>
  PROVE  /\ DueInv'
         /\ Sleeping' = Sleeping
         /\ \A L \in DelayList : lists'.head[L] = lists.head[L]
<1>1. lists \in ListMem /\ Linked(lists, Live) /\ Live \in SUBSET Task
  BY DEF Inv, TypeOK, ListsInv, Live
<1>2. Live' = Live \cup {t}
  BY DEF Live, AddNewTask, Inv, TypeOK
<1>3. AppendResult(lists, Live, t, p, lists')
  BY <1>1, AppendEffect DEF AddNewTask
<1>4. p \notin DelayList /\ p \in ListId
  BY DEF DelayList, DELAY1, DELAY2, Prio, ListId
<1>5. Sleeping' = Sleeping
  BY <1>1, <1>2, <1>3, <1>4 DEF Sleeping, AppendResult, ListMem
<1>6. Sorted(lists', Live', ticksToDelay)
  BY <1>1, <1>2, <1>3, AppendSorted, DueIsSorted DEF TimeInv
<1>7. \A u \in Sleeping : lists'.taskListHead[u] = lists.taskListHead[u]
  BY <1>1, <1>3 DEF Sleeping, AppendResult, ListMem
<1>8. DueInv'
  BY <1>5, <1>6, <1>7 DEF TimeInv, DueInv, Sorted, Sleeping
<1>9. \A L \in DelayList : lists'.head[L] = lists.head[L]
  BY <1>1, <1>3, <1>4 DEF AppendResult, ListMem, ListId
<1> QED BY <1>5, <1>8, <1>9

(* Creation, before and after the start.                                    *)
LEMMA CreateTime ==
  ASSUME Inv, TimeInv, Start \/ \E t \in Task : BootCreate(t) \/ CreateLink(t)
  PROVE  TimeInv'
<1> USE DEF tickVars, swapVars, loopVars, callVars
<1>1. CASE Start
  <2>1. Idle \in Task \ Live /\ 0 \in Prio
    <3>1. 0 \in Prio
      BY DEF Prio
    <3>2. ~running
      BY <1>1 DEF Start
    <3> QED BY <3>1, <3>2 DEF Inv, RunInv
  <2>2. Sleeping = {}
    BY <1>1 DEF Start, TimeInv, AwakeInv
  <2>3. Live' = Live \cup {Idle}
    BY <1>1, <2>1, AddNewTaskInv DEF Start
  <2>4. lists'.taskListHead = [lists.taskListHead EXCEPT ![Idle] = 0] /\ lists' \in ListMem
    BY <1>1, <2>1, AddNewTaskInv DEF Start
  <2>5. Sleeping' = {}
    BY <2>2, <2>3, <2>4 DEF Sleeping, Inv, TypeOK, ListMem, Live, DelayList, DELAY1, DELAY2
  <2>6. \A L \in DelayList : lists'.head[L] = NULL
    <3>1. Inv'
      BY <1>1, StartInv
    <3> QED BY <2>5, <3>1 DEF Inv, ListsInv, Linked, HeadsAgree, Sleeping, ListId
  <2>7. UnblockInv'
    BY <1>1, <2>6 DEF Start, UnblockInv, ResetUnblock, Inv, TypeOK
  <2> QED BY <1>1, <2>5, <2>7 DEF Start, TimeInv, DueInv, AwakeInv
<1>2. ASSUME NEW t \in Task, BootCreate(t) PROVE TimeInv'
  <2>1. PICK arg \in PrioArgs : AddNewTask(t, Clamp(arg))
    BY <1>2 DEF BootCreate
  <2>a. /\ Clamp(arg) \in Prio
        /\ t \in Task \ Live
        /\ UNCHANGED <<ticksToDelay, ptrDelay, tickCount, mode>>
    BY <1>2, ClampPrio DEF BootCreate, Live
  <2>2. DueInv' /\ Sleeping' = Sleeping
    BY <2>1, <2>a, AddNewTaskTime
  <2> QED BY <1>2, <2>2 DEF BootCreate, TimeInv, UnblockInv, AwakeInv
<1>3. ASSUME NEW t \in Task, CreateLink(t) PROVE TimeInv'
  <2>1. PICK arg \in PrioArgs : AddNewTask(other[t], Clamp(arg))
    BY <1>3 DEF CreateLink
  <2>2. other[t] \in Task \ Live
    BY <1>3 DEF CreateLink, At, Inv, TypeOK, CallsInv, Live, Ptr, Working
  <2>3. DueInv' /\ Sleeping' = Sleeping /\ \A L \in DelayList : lists'.head[L] = lists.head[L]
    <3>1. /\ Clamp(arg) \in Prio
          /\ UNCHANGED <<ticksToDelay, ptrDelay, tickCount, mode>>
      BY <1>3, ClampPrio DEF CreateLink
    <3> QED BY <2>1, <2>2, <3>1, AddNewTaskTime
  <2>4. UnblockInv'
    BY <1>3, <2>3 DEF CreateLink, TimeInv, UnblockInv, ResetUnblock, Inv, TypeOK
  <2>5. AwakeInv'
    <3>1. t \notin Sleeping /\ other[t] \notin Sleeping /\ current = t
      BY <1>3, <2>2 DEF CreateLink, At, TimeInv, AwakeInv, Sleeping
    <3>2. pc' = [pc EXCEPT ![t] = "linked", ![other[t]] = "user"]
      BY <1>3 DEF CreateLink
    <3>3. \A u \in Sleeping : pc'[u] = pc[u]
      BY <3>1, <3>2 DEF Inv, TypeOK, Sleeping, Live
    <3>4. \A u \in Task : pc'[u] = "delay" <=> pc[u] = "delay"
      <4>1. pc[t] = "link" /\ pc[other[t]] = "user"
        BY <1>3, <2>2 DEF CreateLink, At, Inv, RunInv
      <4> QED BY <3>2, <4>1 DEF Inv, TypeOK
    <3>5. UNCHANGED <<running, current, pendSV, wait, mode>>
      BY <1>3 DEF CreateLink
    <3> QED BY <2>3, <3>1, <3>3, <3>4, <3>5 DEF TimeInv, AwakeInv
  <2> QED BY <2>3, <2>4, <2>5 DEF TimeInv
<1> QED BY <1>1, <1>2, <1>3
-----------------------------------------------------------------------------
(* What is reached from the head of a delay list is what sleeps on it.      *)
LEMMA SleepingMembers ==
  ASSUME Inv
  PROVE  \A L \in DelayList : Members(lists, L) = {t \in Sleeping : lists.taskListHead[t] = L}
<1>1. lists \in ListMem /\ Linked(lists, Live) /\ Live \in SUBSET Task
  BY DEF Inv, TypeOK, ListsInv, Live
<1>2. SUFFICES ASSUME NEW L \in DelayList
               PROVE  Members(lists, L) = {t \in Sleeping : lists.taskListHead[t] = L}
  OBVIOUS
<1>3. L \in ListId
  BY DEF ListId
<1>4. \A t \in Members(lists, L) : t \in Live /\ lists.taskListHead[t] = L
  BY <1>1, <1>3, ListMembers
<1>5. \A t \in Live : t \in Members(lists, lists.taskListHead[t])
  BY <1>1, LinkedMembers
<1> QED BY <1>4, <1>5 DEF Sleeping

(* The head of a delay list is due first, and an empty one has no sleepers. *)
LEMMA DelayHead ==
  ASSUME Inv, DueInv, NEW L \in DelayList
  PROVE  /\ lists.head[L] = NULL => \A t \in Sleeping : lists.taskListHead[t] # L
         /\ lists.head[L] # NULL =>
              /\ lists.head[L] \in Sleeping
              /\ lists.taskListHead[lists.head[L]] = L
              /\ \A t \in Sleeping : lists.taskListHead[t] = L
                   => ticksToDelay[lists.head[L]] <= ticksToDelay[t]
<1>1. lists \in ListMem /\ Linked(lists, Live) /\ Live \in SUBSET Task
  BY DEF Inv, TypeOK, ListsInv, Live
<1>2. \A t \in Sleeping : lists.taskListHead[t] = L
        => lists.head[L] # NULL /\ ticksToDelay[lists.head[L]] <= ticksToDelay[t]
  BY <1>1, DueIsSorted, HeadEarliest DEF Sleeping
<1>3. lists.head[L] # NULL => lists.head[L] \in Sleeping /\ lists.taskListHead[lists.head[L]] = L
  BY <1>1 DEF Linked, HeadsAgree, Sleeping, ListId
<1> QED BY <1>2, <1>3

(* Before the counter moves no task is due at the current tick, so none is  *)
(* overtaken; when it wraps the current list is empty and the overflow list *)
(* takes over (task.c:66-74, 516-526).                                      *)
LEMMA TickBeginTime ==
  ASSUME Inv, TimeInv, NEW m \in {"isr", "retick"}, TickBegin(m), running,
         m = "isr" => mode = "run" /\ ~pendSV,
         m = "retick" => mode = "resume"
  PROVE  TimeInv'
<1> USE DEF TickBegin, lifeVars, swapVars, callVars
<1>1. Sleeping' = Sleeping
  BY DEF Sleeping, Live
<1>2. tickCount \in 0 .. MaxTick /\ ticksToDelay \in [Task -> 0 .. MaxTick] /\ Sleeping \subseteq Task
  BY DEF Inv, TypeOK, Sleeping, Live
<1>3. AwakeInv'
  BY <1>1 DEF TimeInv, AwakeInv
<1>4. CASE tickCount = MaxTick
  <2>1. tickCount' = 0
    BY <1>4, <1>2
  <2>2. \A t \in Sleeping : lists.taskListHead[t] # ptrDelay
    BY <1>2, <1>4 DEF TimeInv, DueInv
  <2>3. ptrDelay' = Overflow /\ \A t \in Sleeping : lists.taskListHead[t] = ptrDelay'
    BY <2>1, <2>2 DEF Inv, TypeOK, Overflow, Sleeping, DelayList
  <2>4. DueInv'
    BY <1>1, <1>2, <2>1, <2>3 DEF TimeInv, DueInv
  <2>5. UnblockInv'
    BY <2>1, <2>3 DEF UnblockInv, ResetUnblock
  <2> QED BY <1>3, <2>4, <2>5 DEF TimeInv
<1>5. CASE tickCount # MaxTick
  <2>1. tickCount' = tickCount + 1 /\ tickCount' # 0
    BY <1>2, <1>5
  <2>2. ptrDelay' = ptrDelay /\ nextUnblock' = nextUnblock
    BY <2>1
  <2>3. DueInv'
    BY <1>1, <1>2, <2>1, <2>2 DEF TimeInv, DueInv
  <2>4. UnblockInv'
    BY <2>2 DEF TimeInv, UnblockInv, ResetUnblock
  <2> QED BY <1>3, <2>3, <2>4 DEF TimeInv
<1> QED BY <1>4, <1>5

(* The due loop ends only when the head is not due, and then no task is     *)
(* (task.c:529-565).                                                        *)
LEMMA TickEndTime ==
  ASSUME Inv, TimeInv, SysTickEnd \/ ResumeTickEnd
  PROVE  TimeInv'
<1> USE DEF listVars, lifeVars, callVars
<1>1. /\ UNCHANGED <<lists, status, ticksToDelay, ptrDelay, tickCount, running, current, pc, wait>>
      /\ mode \in {"isr", "retick"}
      /\ mode' \in {"run", "resume"}
      /\ ~Due
      /\ nextUnblock' = IF tickCount >= nextUnblock
                          THEN ResetUnblock(lists, ptrDelay) ELSE nextUnblock
      /\ mode' = "run" => pc' = pc
  BY DEF SysTickEnd, ResumeTickEnd, TickEnd
<1>2. Sleeping' = Sleeping
  BY <1>1 DEF Sleeping, Live
<1>3. ptrDelay \in DelayList /\ tickCount \in 0 .. MaxTick /\ nextUnblock \in 0 .. MaxTick
      /\ ticksToDelay \in [Task -> 0 .. MaxTick] /\ Sleeping \subseteq Task
  BY DEF Inv, TypeOK, Sleeping, Live
<1>4. running
  BY <1>1 DEF Inv, RunInv
<1>5. nextUnblock' = ResetUnblock(lists, ptrDelay)
  BY <1>1, <1>4 DEF TimeInv, UnblockInv
<1>6. \A t \in Sleeping : lists.taskListHead[t] = ptrDelay => tickCount < ticksToDelay[t]
  <2>1. CASE lists.head[ptrDelay] = NULL
    BY <1>3, <2>1, DelayHead DEF TimeInv
  <2>2. CASE lists.head[ptrDelay] # NULL
    <3>1. lists.head[ptrDelay] \in Sleeping
      BY <1>3, <2>2, DelayHead DEF TimeInv
    <3>2. ~(ticksToDelay[lists.head[ptrDelay]] <= tickCount)
      BY <1>1, <1>3, <1>4, <2>2, <3>1 DEF Due, TimeInv, UnblockInv, ResetUnblock
    <3>3. \A t \in Sleeping : lists.taskListHead[t] = ptrDelay
            => ticksToDelay[lists.head[ptrDelay]] <= ticksToDelay[t]
      BY <1>3, <2>2, DelayHead DEF TimeInv
    <3> QED BY <1>3, <3>1, <3>2, <3>3
  <2> QED BY <2>1, <2>2
<1>7. DueInv'
  BY <1>1, <1>2, <1>6 DEF TimeInv, DueInv
<1>8. UnblockInv'
  BY <1>1, <1>5 DEF UnblockInv, ResetUnblock
<1>9. AwakeInv'
  <2>1. current \in Sleeping => pc[current] # "user"
    BY <1>1 DEF TimeInv, AwakeInv
  <2>2. mode' # "run" => ~pendSV'
    BY <1>1 DEF TimeInv, AwakeInv, SysTickEnd, ResumeTickEnd
  <2> QED BY <1>1, <1>2, <2>1, <2>2 DEF TimeInv, AwakeInv
<1> QED BY <1>7, <1>8, <1>9 DEF TimeInv

(* Waking the head keeps the rest sorted.                                   *)
LEMMA TickWakeTime == ASSUME Inv, TimeInv, TickWake PROVE TimeInv'
<1> DEFINE t == lists.head[ptrDelay]
           p == task_prior[t]
           removed == os_taskListRemove(lists, t)
<1>1. /\ mode \in {"isr", "retick"} /\ Due /\ t # NULL
      /\ lists' = AppendReady(removed, t, p)
      /\ UNCHANGED <<ticksToDelay, ptrDelay, status, running, tickCount,
                     nextUnblock, current, pendSV, mode, pc, wait>>
  BY DEF TickWake, Due, lifeVars, tickVars, swapVars, callVars
<1>2. lists \in ListMem /\ Linked(lists, Live) /\ Live \in SUBSET Task /\ Live' = Live
  BY <1>1 DEF Inv, TypeOK, ListsInv, Live
<1>3. ptrDelay \in ListId /\ ptrDelay \in DelayList /\ ptrDelay \notin Prio
  BY DEF Inv, TypeOK, ListId, DelayList, DELAY1, DELAY2, Prio
<1>4. t \in Live /\ lists.taskListHead[t] = ptrDelay
  BY <1>1, <1>2, <1>3 DEF Linked, HeadsAgree
<1>5. p \in Prio /\ p \notin DelayList
  BY <1>2, <1>4 DEF Inv, TypeOK, DelayList, DELAY1, DELAY2, Prio
<1>6. RemoveResult(lists, t, removed)
  BY <1>2, <1>3, <1>4, RemoveEffect
<1>7. Linked(removed, Live \ {t}) /\ removed \in ListMem
  BY <1>2, <1>4, <1>6, RemoveLinked DEF RemoveResult
<1>8. Sorted(removed, Live \ {t}, ticksToDelay)
  BY <1>2, <1>4, <1>6, RemoveSorted, DueIsSorted DEF TimeInv
<1> HIDE DEF removed, p, t
<1>9. AppendResult(removed, Live \ {t}, t, p, lists')
  BY <1>1, <1>2, <1>4, <1>5, <1>7, AppendEffect
<1>10. Sorted(lists', Live, ticksToDelay)
  <2>1. Sorted(lists', (Live \ {t}) \cup {t}, ticksToDelay)
    BY <1>2, <1>4, <1>5, <1>7, <1>8, <1>9, AppendSorted, DueIsSorted DEF TimeInv
  <2>2. (Live \ {t}) \cup {t} = Live
    BY <1>4
  <2> QED BY <2>1, <2>2
<1>11. lists'.taskListHead = [lists.taskListHead EXCEPT ![t] = p] /\ lists' \in ListMem
  BY <1>6, <1>9 DEF RemoveResult, AppendResult
<1>12. /\ Sleeping' = Sleeping \ {t}
       /\ \A u \in Sleeping' : lists'.taskListHead[u] = lists.taskListHead[u]
  BY <1>2, <1>4, <1>5, <1>11 DEF Sleeping, ListMem
<1>13. DueInv'
  BY <1>1, <1>2, <1>10, <1>12 DEF TimeInv, DueInv, Sorted, Sleeping
<1>14. UnblockInv'
  BY <1>1 DEF UnblockInv, Due
<1>15. AwakeInv'
  BY <1>1, <1>12 DEF TimeInv, AwakeInv
<1> QED BY <1>13, <1>14, <1>15 DEF TimeInv

(* A pended tick leaves the lists alone.                                    *)
LEMMA SysTickPendedTime == ASSUME Inv, TimeInv, SysTickPended PROVE TimeInv'
<1> USE DEF SysTickPended, listVars, lifeVars, loopVars, callVars
<1>1. DueInv' /\ UnblockInv' /\ Sleeping' = Sleeping
  BY TimeFrame
<1> QED BY <1>1 DEF TimeInv, AwakeInv, SysTickEnabled

(* The sum of os_addCurrentTaskToDelayedList wraps to a time that is past,  *)
(* and to no other.                                                         *)
LEMMA WrapMeansPast ==
  ASSUME NEW now \in 0 .. MaxTick, NEW n \in 1 .. MaxTick
  PROVE  LET time == (now + n) % (MaxTick + 1)
         IN  time \in 0 .. MaxTick /\ time # now
<1>1. CASE now + n <= MaxTick
  BY <1>1
<1>2. CASE now + n > MaxTick
  <2>1. (now + n) % (MaxTick + 1) = now + n - (MaxTick + 1)
    BY <1>2
  <2> QED BY <2>1
<1> QED BY <1>1, <1>2

(* A task goes to sleep on the list its due time belongs to, and the next   *)
(* due time accounts for it (task.c:701-738).                               *)
LEMMA DelayAddTime == ASSUME Inv, TimeInv, NEW t \in Task, DelayAdd(t) PROVE TimeInv'
<1> DEFINE removed == os_taskListRemove(lists, t)
           time == TimeToWake(t)
           L == IF Wraps(time) THEN Overflow ELSE ptrDelay
           wake == [ticksToDelay EXCEPT ![t] = time]
<1>1. /\ running /\ mode = "run" /\ current = t /\ pc[t] = "delay" /\ ~pendSV
      /\ ticksToDelay' = wake
      /\ lists' = os_listInsertByDelay(removed, t, L, wake)
      /\ nextUnblock' = SoonerUnblock(time)
      /\ wait' = [wait EXCEPT ![t] = 0]
      /\ pc' = [pc EXCEPT ![t] = "resumeDelay"]
      /\ UNCHANGED <<ptrDelay, status, running, tickCount, current, pendSV, mode>>
  BY DEF DelayAdd, At, Goto, lifeVars, swapVars, loopVars
<1>2. t \in Live /\ Live \in SUBSET Task /\ Live' = Live
  BY <1>1 DEF Inv, RunInv, Live
<1>3. lists \in ListMem /\ Linked(lists, Live)
  BY DEF Inv, TypeOK, ListsInv
<1>4. ptrDelay \in DelayList /\ L \in DelayList /\ Overflow # ptrDelay
  BY DEF Inv, TypeOK, Overflow, DelayList, DELAY1, DELAY2
<1>5. t \notin Sleeping /\ lists.taskListHead[t] \in Prio
  <2>1. t \notin Sleeping
    BY <1>1 DEF TimeInv, AwakeInv
  <2> QED BY <1>2, <1>3, <2>1 DEF Sleeping, Linked, LinksAgree, ListId
<1>6. time \in 0 .. MaxTick /\ time # tickCount
  BY <1>1, WrapMeansPast DEF Inv, TypeOK, TimeInv, AwakeInv, TimeToWake
<1>7. RemoveResult(lists, t, removed)
  BY <1>2, <1>3, RemoveEffect DEF Linked, LinksAgree
<1>8. Linked(removed, Live \ {t}) /\ removed \in ListMem
  BY <1>2, <1>3, <1>7, RemoveLinked DEF RemoveResult
<1>9. wake \in [Task -> Nat] /\ \A u \in Task \ {t} : wake[u] = ticksToDelay[u]
  BY <1>6 DEF Inv, TypeOK
<1>10. Sorted(removed, Live \ {t}, wake)
  <2>1. Sorted(removed, Live \ {t}, ticksToDelay)
    BY <1>2, <1>3, <1>7, RemoveSorted, DueIsSorted DEF TimeInv
  <2> QED BY <1>2, <1>8, <1>9, <2>1 DEF Sorted, Linked, LinksAgree
<1> HIDE DEF removed, L, time, wake
<1>11. InsertResult(removed, Live \ {t}, t, L, wake, lists')
  BY <1>1, <1>2, <1>4, <1>8, InsertEffect
<1>12. Sorted(lists', Live, wake)
  <2>1. Sorted(lists', (Live \ {t}) \cup {t}, wake)
    BY <1>2, <1>4, <1>8, <1>9, <1>10, <1>11, InsertSorted
  <2>2. (Live \ {t}) \cup {t} = Live
    BY <1>2
  <2> QED BY <2>1, <2>2
<1>13. lists'.taskListHead = [lists.taskListHead EXCEPT ![t] = L] /\ lists' \in ListMem
  BY <1>7, <1>11 DEF RemoveResult, InsertResult
<1>14. /\ Sleeping' = Sleeping \cup {t}
       /\ \A u \in Sleeping : lists'.taskListHead[u] = lists.taskListHead[u] /\ u # t
       /\ lists'.taskListHead[t] = L
  BY <1>2, <1>3, <1>4, <1>5, <1>13 DEF Sleeping, ListMem
<1>15. DueInv'
  <2>1. L = ptrDelay => tickCount < time
    BY <1>4, <1>6 DEF L, Wraps, Inv, TypeOK
  <2>2. L # ptrDelay => time < tickCount
    BY <1>4 DEF L, Wraps
  <2>3. wake[t] = time
    BY DEF wake, Inv, TypeOK
  <2>4. \A u \in Sleeping' :
          /\ lists'.taskListHead[u] # ptrDelay => wake[u] < tickCount
          /\ lists'.taskListHead[u] = ptrDelay => tickCount < wake[u]
    BY <1>1, <1>2, <1>9, <1>14, <2>1, <2>2, <2>3 DEF TimeInv, DueInv, Sleeping
  <2>5. \A u \in Sleeping' : lists'.next[u] # NULL => wake[u] <= wake[lists'.next[u]]
    BY <1>2, <1>12 DEF Sorted, Sleeping
  <2>6. wake \in [Task -> Nat] /\ tickCount \in Nat /\ Sleeping' \subseteq Task
    BY <1>2, <1>9 DEF Inv, TypeOK, Sleeping
  <2> QED BY <1>1, <2>4, <2>5, <2>6 DEF DueInv
<1>16. UnblockInv'
  <2>1. nextUnblock = ResetUnblock(lists, ptrDelay)
    BY <1>1 DEF TimeInv, UnblockInv
  <2>2. removed.head[ptrDelay] = lists.head[ptrDelay] /\ ptrDelay \notin Prio /\ ptrDelay \in ListId
    BY <1>4, <1>5, <1>7 DEF RemoveResult, ListId, Prio, DelayList, DELAY1, DELAY2
  <2>3. lists.head[ptrDelay] # NULL => lists.head[ptrDelay] \in Task /\ lists.head[ptrDelay] # t
    BY <1>2, <1>3, <1>5, <2>2 DEF Linked, HeadsAgree
  <2>4. wake[t] = time /\ nextUnblock \in 0 .. MaxTick
    BY DEF wake, Inv, TypeOK
  <2>5. CASE L # ptrDelay
    <3>1. Wraps(time) /\ lists'.head[ptrDelay] = lists.head[ptrDelay]
      BY <1>8, <1>11, <2>2, <2>5 DEF L, InsertResult, ListMem
    <3>2. nextUnblock' = nextUnblock
      BY <1>1, <3>1 DEF SoonerUnblock
    <3> QED BY <1>1, <1>9, <2>1, <2>3, <3>1, <3>2 DEF UnblockInv, ResetUnblock
  <2>6. CASE L = ptrDelay
    <3>1. ~Wraps(time)
      BY <1>4, <2>6 DEF L
    <3>2. nextUnblock' = IF time < nextUnblock THEN time ELSE nextUnblock
      BY <1>1, <3>1 DEF SoonerUnblock
    <3>3. CASE lists.head[ptrDelay] = NULL
      <4>1. lists'.head[ptrDelay] = t
        BY <1>8, <1>11, <2>2, <2>6, <3>3 DEF InsertResult, ListMem
      <4> QED BY <1>1, <1>6, <2>1, <2>4, <3>2, <3>3, <4>1, ListsAssumption DEF UnblockInv, ResetUnblock
    <3>4. CASE lists.head[ptrDelay] # NULL
      <4>1. \/ ~(wake[lists.head[ptrDelay]] <= wake[t]) /\ lists'.head[ptrDelay] = t
            \/ wake[lists.head[ptrDelay]] <= wake[t] /\ lists'.head[ptrDelay] = lists.head[ptrDelay]
        <5>1. \A u \in Live \ {t} : removed.taskListHead[u] = ptrDelay
                => wake[removed.head[ptrDelay]] <= wake[u]
          BY <1>2, <1>4, <1>8, <1>9, <1>10, HeadEarliest
        <5>2. \A u \in Live \ {t} : wake[u] \in Nat
          BY <1>2, <1>9
        <5>3. removed.head[ptrDelay] \in Live \ {t} /\ wake[t] \in Nat
          BY <1>2, <1>8, <1>9, <2>2, <3>4 DEF Linked, HeadsAgree
        <5> QED BY <1>8, <1>11, <2>2, <2>6, <3>4, <5>1, <5>2, <5>3
                DEF InsertResult, ListMem
      <4>2. nextUnblock = wake[lists.head[ptrDelay]]
        BY <1>9, <2>1, <2>3, <3>4 DEF ResetUnblock
      <4> QED BY <1>1, <1>6, <2>4, <3>2, <3>4, <4>1, <4>2, ListsAssumption DEF UnblockInv, ResetUnblock
    <3> QED BY <3>3, <3>4
  <2> QED BY <2>5, <2>6
<1>17. AwakeInv'
  BY <1>1, <1>2, <1>14 DEF TimeInv, AwakeInv, Inv, TypeOK, Sleeping
<1> QED BY <1>15, <1>16, <1>17 DEF TimeInv

(* Deleting a sleeping task recomputes the next due time (task.c:1057).     *)
LEMMA DeleteTime == ASSUME Inv, TimeInv, NEW t \in Task, Delete(t) PROVE TimeInv'
<1>1. PICK victim \in Task \ {t, Idle} :
        /\ running /\ mode = "run" /\ current = t /\ pc[t] = "user" /\ ~pendSV
        /\ status[victim] = "live"
        /\ lists' = os_taskListRemove(lists, victim)
        /\ nextUnblock' = ResetUnblock(lists', ptrDelay)
        /\ status' = [status EXCEPT ![victim] = "dead"]
        /\ pc' = [pc EXCEPT ![t] = "heap", ![victim] = "user"]
        /\ UNCHANGED <<ticksToDelay, ptrDelay, running, tickCount, current,
                       pendSV, mode, wait>>
  BY DEF Delete, At, swapVars, loopVars
<1>2. victim \in Live /\ Live \in SUBSET Task
  BY <1>1 DEF Live
<1>3. Live' = Live \ {victim}
  BY <1>1 DEF Live, Inv, TypeOK
<1>4. lists \in ListMem /\ Linked(lists, Live)
  BY DEF Inv, TypeOK, ListsInv
<1>5. RemoveResult(lists, victim, lists')
  BY <1>1, <1>2, <1>4, RemoveEffect DEF Linked, LinksAgree
<1>6. Sorted(lists', Live', ticksToDelay)
  BY <1>2, <1>3, <1>4, <1>5, RemoveSorted, DueIsSorted DEF TimeInv
<1>7. Sleeping' = Sleeping \ {victim} /\ lists'.taskListHead = lists.taskListHead
  BY <1>3, <1>5 DEF Sleeping, RemoveResult
<1>8. DueInv'
  BY <1>1, <1>3, <1>6, <1>7 DEF TimeInv, DueInv, Sorted, Sleeping
<1>9. UnblockInv'
  BY <1>1 DEF UnblockInv, ResetUnblock
<1>10. AwakeInv'
  <2>1. t \notin Sleeping
    BY <1>1 DEF TimeInv, AwakeInv
  <2>2. pc \in [Task -> Label]
    BY DEF Inv, TypeOK
  <2>3. pc[victim] # "delay"
    BY <1>1 DEF Inv, SuspensionInv, Suspending
  <2>4. \A u \in Task : pc'[u] = "delay" <=> pc[u] = "delay"
    BY <1>1, <2>2, <2>3
  <2> QED BY <1>1, <1>2, <1>7, <2>1, <2>2, <2>4 DEF TimeInv, AwakeInv, Sleeping
<1> QED BY <1>8, <1>9, <1>10 DEF TimeInv

-----------------------------------------------------------------------------
(* Nothing sleeps initially.                                                *)
LEMMA InitTime == Init => TimeInv
BY DEF Init, TimeInv, DueInv, UnblockInv, AwakeInv, Sleeping, Live

(* Every step of the kernel preserves TimeInv.                              *)
LEMMA StepTime == ASSUME Inv, TimeInv, [Next]_vars PROVE TimeInv'
<1>1. CASE Boot
  BY <1>1, CreateTime DEF Boot
<1>2. ASSUME NEW t \in Task, Call(t) PROVE TimeInv'
  BY <1>2, SimpleTime, DeleteTime DEF Call
<1>3. ASSUME NEW t \in Task, Kernel(t) PROVE TimeInv'
  BY <1>3, SimpleTime, DelayAddTime, ResumeExitTime, CreateTime DEF Kernel
<1>4. CASE Tick
  BY <1>4, TickBeginTime, SysTickPendedTime DEF Tick, SysTick, SysTickEnabled
<1>5. CASE InTick
  <2>1. ASSUME ResumeTick PROVE TimeInv'
    BY <2>1, TickBeginTime DEF ResumeTick, Inv, RunInv
  <2> QED BY <1>5, <2>1, TickWakeTime, TickEndTime DEF InTick
<1>6. CASE PendSV
  BY <1>6, PendSVTime
<1>7. CASE UNCHANGED vars
  <2>1. Sleeping' = Sleeping
    BY <1>7 DEF vars, listVars, lifeVars, Sleeping, Live
  <2> QED BY <1>7, <2>1 DEF vars, listVars, lifeVars, tickVars, swapVars, loopVars,
                        callVars, TimeInv, DueInv, UnblockInv, AwakeInv, ResetUnblock
<1> QED BY <1>1, <1>2, <1>3, <1>4, <1>5, <1>6, <1>7 DEF Next

(* The time part of the inductive invariant: due times are sorted and not   *)
(* yet reached, the next due time is that of the head of the delay list,    *)
(* and a sleeping task is on its way out of os_delay.                       *)
THEOREM TimeInvHolds == Spec => []TimeInv
<1>1. Init => TimeInv
  BY InitTime
<1>2. Inv /\ TimeInv /\ [Next]_vars => TimeInv'
  BY StepTime
<1> QED BY <1>1, <1>2, InvHolds, PTL DEF Spec

(* os_nextTaskUnblockTime is the earliest due time of the delay list, or    *)
(* the largest tick if none waits: the tick handler never skips a task that *)
(* is due (task.c:529).                                                     *)
THEOREM UnblockAlwaysExact == Spec => []UnblockTimeExact
<1>1. Inv /\ TimeInv => UnblockTimeExact
  <2> SUFFICES ASSUME Inv, TimeInv, running, mode \in {"run", "resume"}
               PROVE LET due == {ticksToDelay[t] : t \in Members(lists, ptrDelay)}
                     IN  \/ due = {} /\ nextUnblock = MaxTick
                         \/ nextUnblock \in due /\ \A d \in due : nextUnblock <= d
    BY DEF UnblockTimeExact
  <2>1. ptrDelay \in DelayList
    BY DEF Inv, TypeOK
  <2>2. Members(lists, ptrDelay) = {t \in Sleeping : lists.taskListHead[t] = ptrDelay}
    BY <2>1, SleepingMembers
  <2>3. nextUnblock = ResetUnblock(lists, ptrDelay)
    BY DEF TimeInv, UnblockInv
  <2>4. CASE lists.head[ptrDelay] = NULL
    BY <2>1, <2>2, <2>3, <2>4, DelayHead DEF TimeInv, ResetUnblock
  <2>5. CASE lists.head[ptrDelay] # NULL
    BY <2>1, <2>2, <2>3, <2>5, DelayHead DEF TimeInv, ResetUnblock
  <2> QED BY <2>4, <2>5
<1> QED BY <1>1, InvHolds, TimeInvHolds, PTL

(* The delay list and the overflow list are sorted and in phase with        *)
(* os_tickCount, and the retired list is empty when the counter wraps       *)
(* (task.c:66-74, 516-526).                                                 *)
THEOREM AlwaysInPhase == Spec => []DelayListsInPhase
<1>1. Inv /\ TimeInv => DelayListsInPhase
  <2> SUFFICES ASSUME Inv, TimeInv PROVE DelayListsInPhase
    OBVIOUS
  <2>1. ptrDelay \in DelayList /\ Overflow \in DelayList /\ Overflow # ptrDelay
    BY DEF Inv, TypeOK, Overflow, DelayList, DELAY1, DELAY2
  <2>2. \A L \in DelayList : Members(lists, L) = {t \in Sleeping : lists.taskListHead[t] = L}
    BY SleepingMembers
  <2>3. tickCount \in Nat /\ ticksToDelay \in [Task -> Nat] /\ Sleeping \subseteq Task
    BY DEF Inv, TypeOK, Sleeping, Live
  <2> QED BY <2>1, <2>2, <2>3 DEF DelayListsInPhase, TimeInv, DueInv
<1> QED BY <1>1, InvHolds, TimeInvHolds, PTL

-----------------------------------------------------------------------------
(* A remainder is determined by its equation.                               *)
LEMMA ModUnique ==
  ASSUME NEW K \in Nat \ {0}, NEW a \in Int, NEW q \in Int, NEW r \in 0 .. K - 1,
         a = K * q + r
  PROVE  a % K = r
OBVIOUS

(* Quotient and remainder.                                                  *)
LEMMA ModDiv ==
  ASSUME NEW K \in Nat \ {0}, NEW a \in Int
  PROVE  a \div K \in Int /\ a = K * (a \div K) + (a % K) /\ a % K \in 0 .. K - 1
OBVIOUS

(* Reducing one term of a sum does not change the sum's remainder.          *)
LEMMA ModPlus ==
  ASSUME NEW K \in Nat \ {0}, NEW a \in Int, NEW b \in Int
  PROVE  ((a % K) + b) % K = (a + b) % K
<1> DEFINE c == (a % K) + b
           q == a \div K
           qc == c \div K
           r == c % K
<1>1. a = K * q + (a % K) /\ a % K \in Int /\ q \in Int
  BY ModDiv
<1>2. c \in Int
  BY <1>1
<1>3. c = K * qc + r /\ r \in 0 .. K - 1 /\ qc \in Int
  <2> HIDE DEF c
  <2> QED BY <1>2, ModDiv
<1>4. a + b = K * (q + qc) + r /\ q + qc \in Int /\ a + b \in Int
  <2>1. a + b = K * q + c
    BY <1>1
  <2>2. K * (q + qc) = K * q + K * qc
    BY <1>1, <1>3
  <2> HIDE DEF c, q, qc, r
  <2> QED BY <1>1, <1>2, <1>3, <2>1, <2>2
<1>5. (a + b) % K = r
  <2> HIDE DEF c, q, qc, r
  <2> QED BY <1>3, <1>4, ModUnique
<1> QED BY <1>5

(* IDLE is live, so the kernel never thinks that there are no tasks.        *)
LEMMA SomeTask == ASSUME Inv, running PROVE numberOfTasks > 0
<1>1. Idle \in Live /\ IsFiniteSet(Live)
  <2>1. IsFiniteSet(Live)
    BY FS_Subset DEF Live
  <2> QED BY <2>1 DEF Inv, RunInv
<1>2. Cardinality(Live) # 0 /\ Cardinality(Live) \in Nat
  BY <1>1, FS_EmptySet, FS_CardinalityType
<1> QED BY <1>2 DEF Inv, TaskCount, Live

(* How a tick interrupt is told from every other step.                      *)
LEMMA TickChanges ==
  ASSUME Inv, Tick
  PROVE  mode = "run" /\ (mode' = "isr" \/ pendedTicks' # pendedTicks)
BY DEF Tick, SysTick, SysTickPended, SysTickEnabled, TickBegin, Inv, TypeOK

Advance == Time' = IF Tick THEN (Time + 1) % (MaxTick + 1) ELSE Time

(* Steps of a task other than entering and leaving os_resumeAllTask.        *)
LEMMA NoTickInCalls ==
  ASSUME Inv, running, UNCHANGED <<tickCount, pendedTicks, mode, pendedLeft>>
  PROVE  Advance
<1>1. ~Tick
  BY TickChanges
<1> QED BY <1>1 DEF Advance, Time, Owed

(* Both kinds of tick interrupt move time by one.                           *)
LEMMA TickAdvances ==
  ASSUME Inv, running, Tick PROVE Advance
<1> DEFINE K == MaxTick + 1
<1>0. /\ tickCount \in Nat /\ pendedTicks \in Nat /\ K \in Nat \ {0} /\ mode = "run"
  BY TickChanges DEF Inv, TypeOK
<1>1. Time = (tickCount + pendedTicks) % K
  BY <1>0 DEF Time, Owed
<1>2. (Time + 1) % K = (tickCount + pendedTicks + 1) % K
  <2> DEFINE a == tickCount + pendedTicks
  <2>1. a \in Int /\ 1 \in Int
    BY <1>0
  <2>2. ((a % K) + 1) % K = (a + 1) % K
    <3> HIDE DEF a, K
    <3> QED BY <1>0, <2>1, ModPlus
  <2> QED BY <1>1, <2>2
<1>3. CASE SysTick
  <2>1. tickCount' = (tickCount + 1) % K /\ mode' = "isr" /\ pendedTicks' = pendedTicks
    BY <1>3 DEF SysTick, TickBegin
  <2>2. Time' = (((tickCount + 1) % K) + pendedTicks) % K
    BY <2>1 DEF Time, Owed
  <2>3. Time' = (tickCount + 1 + pendedTicks) % K
    <3> DEFINE a == tickCount + 1
    <3>1. a \in Int /\ pendedTicks \in Int
      BY <1>0
    <3>2. ((a % K) + pendedTicks) % K = (a + pendedTicks) % K
      <4> HIDE DEF a, K
      <4> QED BY <1>0, <3>1, ModPlus
    <3> QED BY <2>2, <3>2
  <2>4. tickCount + 1 + pendedTicks = tickCount + pendedTicks + 1
    BY <1>0
  <2> QED BY <1>2, <2>3, <2>4 DEF Advance
<1>4. CASE SysTickPended
  <2>1. tickCount' = tickCount /\ mode' = "run" /\ pendedTicks' = pendedTicks + 1
    BY <1>0, <1>4 DEF SysTickPended, loopVars
  <2>2. Time' = (tickCount + (pendedTicks + 1)) % K
    BY <2>1 DEF Time, Owed
  <2>3. tickCount + (pendedTicks + 1) = tickCount + pendedTicks + 1
    BY <1>0
  <2> QED BY <1>2, <2>2, <2>3 DEF Advance
<1> QED BY <1>3, <1>4 DEF Tick

(* Leaving a suspension and replaying ticks does not move time              *)
(* (task.c:633-680).                                                        *)
LEMMA ReplayAdvances ==
  ASSUME Inv, running, NEW t \in Task,
         ResumeEnter(t) \/ ResumeExit(t) \/ ResumeTick \/ ResumeTickEnd
  PROVE  Advance
<1>0. tickCount \in Nat /\ pendedTicks \in Nat /\ pendedLeft \in Nat /\ MaxTick + 1 \in Nat \ {0}
  BY DEF Inv, TypeOK
<1>1. CASE ResumeEnter(t)
  <2>1. suspended = 1
    BY <1>1 DEF ResumeEnter, At, Inv, SuspensionInv, Suspending
  <2>2. /\ mode = "run" /\ mode' = "resume" /\ pendedLeft' = pendedTicks
        /\ tickCount' = tickCount /\ pendedTicks' = pendedTicks
    BY <1>1, <2>1, SomeTask DEF ResumeEnter, At, tickVars
  <2> QED BY <1>0, <2>2, TickChanges DEF Advance, Time, Owed
<1>2. CASE ResumeExit(t)
  <2>1. /\ mode = "resume" /\ mode' = "run" /\ pendedLeft = 0
        /\ pendedTicks' = 0 /\ tickCount' = tickCount
    BY <1>2, SomeTask DEF ResumeExit, Outermost, Inv, SuspensionInv
  <2> QED BY <1>0, <2>1, TickChanges DEF Advance, Time, Owed
<1>3. CASE ResumeTick
  <2>1. /\ mode = "resume" /\ mode' = "retick" /\ pendedLeft > 0 /\ pendedLeft' = pendedLeft
        /\ tickCount' = (tickCount + 1) % (MaxTick + 1)
    BY <1>3 DEF ResumeTick, TickBegin
  <2>2. /\ tickCount + 1 \in Nat /\ pendedLeft - 1 \in Nat
        /\ tickCount + 1 + (pendedLeft - 1) = tickCount + pendedLeft
    BY <1>0, <2>1
  <2>3. Time' = (((tickCount + 1) % (MaxTick + 1)) + (pendedLeft - 1)) % (MaxTick + 1)
    BY <2>1 DEF Time, Owed
  <2>4. Time' = (tickCount + pendedLeft) % (MaxTick + 1)
    <3> DEFINE a == tickCount + 1
               b == pendedLeft - 1
               K == MaxTick + 1
    <3>1. a \in Int /\ b \in Int /\ K \in Nat \ {0}
      BY <1>0
    <3>2. ((a % K) + b) % K = (a + b) % K
      <4> HIDE DEF a, b, K
      <4> QED BY <3>1, ModPlus
    <3> QED BY <2>2, <2>3, <3>2
  <2> QED BY <2>1, <2>4, TickChanges DEF Advance, Time, Owed
<1>4. CASE ResumeTickEnd
  <2>1. /\ mode = "retick" /\ mode' = "resume" /\ pendedLeft' = pendedLeft - 1
        /\ tickCount' = tickCount
    BY <1>4 DEF ResumeTickEnd, TickEnd
  <2> QED BY <1>0, <2>1, TickChanges DEF Advance, Time, Owed
<1> QED BY <1>1, <1>2, <1>3, <1>4

(* Every tick interrupt moves time, the processed ticks and those still     *)
(* owed, by one, and no other step moves it: the replay in os_resumeAllTask *)
(* neither loses a tick nor counts one twice (task.c:574-577, 657-674).     *)
THEOREM NeverLosesTicks == Spec => NoTickLost
<1> USE DEF tickVars, swapVars, loopVars
<1>1. ASSUME Inv, Next, running PROVE Advance
  <2> USE <1>1
  <2>1. CASE Boot
    BY <2>1 DEF Boot, Start, BootCreate
  <2>2. ASSUME NEW t \in Task, Call(t) PROVE Advance
    BY <2>2, NoTickInCalls DEF Call, DelayZero, DelayCall, CreateCall, Delete
  <2>3. ASSUME NEW t \in Task, Kernel(t) PROVE Advance
    BY <2>3, NoTickInCalls, ReplayAdvances
       DEF Kernel, DelayAdd, DelayTrigger, HeapCall, HeapDone, CreateLink, CreateYield
  <2>4. CASE Tick
    BY <2>4, TickAdvances
  <2>5. CASE InTick
    <3>1. CASE TickWake
      BY <3>1, NoTickInCalls DEF TickWake
    <3>2. CASE SysTickEnd
      <4>1. mode = "isr" /\ mode' = "run" /\ UNCHANGED <<tickCount, pendedTicks>>
        BY <3>2 DEF SysTickEnd, TickEnd
      <4> QED BY <4>1, TickChanges DEF Advance, Time, Owed
    <3>3. CASE ResumeTick \/ ResumeTickEnd
      BY <3>3, ReplayAdvances
    <3> QED BY <2>5, <3>1, <3>2, <3>3 DEF InTick
  <2>6. CASE PendSV
    BY <2>6, NoTickInCalls DEF PendSV
  <2> QED BY <2>1, <2>2, <2>3, <2>4, <2>5, <2>6 DEF Next
<1>2. Inv /\ [Next]_vars => [running => Advance]_vars
  BY <1>1
<1>3. Inv /\ [Next]_vars
      => [running => Time' = IF Tick THEN (Time + 1) % (MaxTick + 1) ELSE Time]_vars
  BY <1>2 DEF Advance
<1> QED BY <1>3, InvHolds, PTL DEF Spec, NoTickLost

-----------------------------------------------------------------------------
(* Nothing that PriorityInv reads changes, but the request and the mode.    *)
LEMMA SimplePriority ==
  ASSUME Inv, TimeInv, PriorityInv, NEW t \in Task,
         \/ DelayZero(t) \/ DelayCall(t) \/ CreateCall(t) \/ DelayTrigger(t)
         \/ ResumeEnter(t) \/ HeapCall(t) \/ HeapDone(t) \/ CreateYield(t)
  PROVE  PriorityInv'
<1> USE DEF listVars, lifeVars, tickVars, swapVars, loopVars, callVars, At, Goto
<1>0. /\ pc \in [Task -> Label] /\ other \in [Task -> Ptr] /\ bitmap \subseteq Int
      /\ task_prior \in [Task -> Int]
      /\ t = current => suspended = IF mode = "run" /\ pc[t] \in Suspending THEN 1 ELSE 0
  BY DEF Inv, TypeOK, SuspensionInv, RunInv, Prio
<1>1. CASE DelayZero(t)
  BY <1>1 DEF DelayZero, PriorityInv
<1>2. CASE DelayCall(t)
  BY <1>0, <1>2 DEF DelayCall, PriorityInv, NoneMoreUrgent, Suspending
<1>3. CASE CreateCall(t)
  BY <1>0, <1>3 DEF CreateCall, PriorityInv, NoneMoreUrgent
<1>4. CASE DelayTrigger(t)
  BY <1>4 DEF DelayTrigger, PriorityInv
<1>5. CASE ResumeEnter(t)
  BY <1>0, <1>5 DEF ResumeEnter, PriorityInv, NoneMoreUrgent
<1>6. CASE HeapCall(t)
  BY <1>0, <1>6 DEF HeapCall, PriorityInv, NoneMoreUrgent, Suspending
<1>7. CASE HeapDone(t)
  BY <1>0, <1>7 DEF HeapDone, PriorityInv, NoneMoreUrgent, Suspending
<1>8. CASE CreateYield(t)
  <2>1. other[t] \in Task
    BY <1>0, <1>8 DEF CreateYield, Inv, CallsInv, Ptr
  <2>2. CASE task_prior[current] < task_prior[other[t]]
    BY <1>8, <2>2 DEF CreateYield, PriorityInv
  <2>3. CASE ~(task_prior[current] < task_prior[other[t]])
    <3>1. suspended = 0 /\ ~pendSV /\ mode = "run"
      BY <1>0, <1>8 DEF CreateYield, Suspending
    <3>2. ~yieldPending /\ ~switchReq
      BY <3>1 DEF PriorityInv
    <3>3. NoneMoreUrgent
      BY <1>8, <3>1, <3>2 DEF PriorityInv, CreateYield
    <3>4. NoneMoreUrgent'
      BY <1>0, <1>8, <2>1, <2>3, <3>3 DEF CreateYield, NoneMoreUrgent
    <3> QED BY <1>8, <3>1, <3>2, <3>4 DEF CreateYield, PriorityInv
  <2> QED BY <2>2, <2>3
<1> QED BY <1>1, <1>2, <1>3, <1>4, <1>5, <1>6, <1>7, <1>8

(* os_resumeAllTask yields if a replayed tick asked for it                  *)
(* (task.c:676-682).                                                        *)
LEMMA ResumeExitPriority ==
  ASSUME Inv, TimeInv, PriorityInv, NEW t \in Task, ResumeExit(t)
  PROVE  PriorityInv'
<1> USE DEF ResumeExit, listVars, lifeVars, Goto
<1>1. running /\ suspended = 0 /\ numberOfTasks > 0 /\ pc \in [Task -> Label] /\ Outermost
  BY SomeTask DEF Inv, TypeOK, RunInv, SuspensionInv, Outermost
<1>2. ~switchReq
  BY DEF PriorityInv
<1>3. yieldPending => pendSV'
  BY <1>1
<1>4. pc[t] = "resumeDelay" => pc'[t] = "trigger" \/ pendSV'
  BY <1>1 DEF AfterResume
<1>5. pc[t] = "resumeHeap" => yieldPending \/ NoneMoreUrgent
  BY <1>2 DEF PriorityInv, Inv, RunInv, TimeInv, AwakeInv
<1>6. pc[t] = "resumeHeap" /\ NoneMoreUrgent => NoneMoreUrgent'
  BY <1>1 DEF NoneMoreUrgent
<1>7. pc[t] \in {"resumeDelay", "resumeHeap"}
  BY DEF Inv, SuspensionInv
<1>8. current # NULL => \/ pendSV'
                        \/ pc'[current] = "trigger"
                        \/ NoneMoreUrgent'
  BY <1>3, <1>4, <1>5, <1>6, <1>7
<1> QED BY <1>2, <1>3, <1>8 DEF PriorityInv

(* A new task brings its own priority and changes no other.                 *)
LEMMA AddNewTaskPriority ==
  ASSUME Inv, NEW t \in Task \ Live, NEW p \in Prio, AddNewTask(t, p)
  PROVE  /\ bitmap' = bitmap \cup {p}
         /\ task_prior'[t] = p
         /\ \A u \in Task \ {t} : task_prior'[u] = task_prior[u]
         /\ current # t
BY DEF AddNewTask, Inv, TypeOK, RunInv

(* Before the start the most urgent task is the current one                 *)
(* (task.c:403-417).                                                        *)
LEMMA BootPriority ==
  ASSUME Inv, TimeInv, PriorityInv, NEW t \in Task \ Live, NEW p \in Prio,
         ~running, AddNewTask(t, p), BecomesCurrent(t, p),
         UNCHANGED <<yieldPending, pendSV, loopVars, callVars, suspended>>
  PROVE  PriorityInv'
<1> USE DEF loopVars, callVars
<1>1. /\ bitmap' = bitmap \cup {p} /\ bitmap \subseteq Int /\ p \in Int
      /\ task_prior'[t] = p
      /\ \A u \in Task \ {t} : task_prior'[u] = task_prior[u]
      /\ current # t /\ current \in Task \cup {NULL}
      /\ task_prior \in [Task -> Int]
  BY AddNewTaskPriority DEF Inv, TypeOK, Prio, Ptr
<1>2. /\ current' = IF current = NULL \/ task_prior[current] <= p THEN t ELSE current
      /\ current' # NULL
  BY <1>1 DEF BecomesCurrent
<1>3. \A u \in Task : pc[u] = "user"
  BY DEF Inv, RunInv
<1>4. NoneMoreUrgent \/ current = NULL => NoneMoreUrgent'
  BY <1>1, <1>2, <1>3 DEF NoneMoreUrgent, PriorityInv
<1>5. pendSV \/ yieldPending \/ switchReq \/ NoneMoreUrgent \/ current = NULL
  BY <1>1, <1>3 DEF PriorityInv
<1> QED BY <1>2, <1>4, <1>5 DEF PriorityInv

(* Creation, before and after the start.                                    *)
LEMMA CreatePriority ==
  ASSUME Inv, TimeInv, PriorityInv, Start \/ \E t \in Task : BootCreate(t) \/ CreateLink(t)
  PROVE  PriorityInv'
<1> USE DEF tickVars, swapVars
<1>1. CASE Start
  <2>1. Idle \in Task \ Live /\ 0 \in Prio
    BY <1>1 DEF Start, Inv, RunInv, Prio
  <2> QED BY <1>1, <2>1, BootPriority DEF Start
<1>2. ASSUME NEW t \in Task, BootCreate(t) PROVE PriorityInv'
  <2>1. PICK arg \in PrioArgs : AddNewTask(t, Clamp(arg)) /\ BecomesCurrent(t, Clamp(arg))
    BY <1>2 DEF BootCreate
  <2>2. Clamp(arg) \in Prio /\ t \in Task \ Live
    BY <1>2, ClampPrio DEF BootCreate, Live
  <2> QED BY <1>2, <2>1, <2>2, BootPriority DEF BootCreate
<1>3. ASSUME NEW t \in Task, CreateLink(t) PROVE PriorityInv'
  <2>1. PICK arg \in PrioArgs : AddNewTask(other[t], Clamp(arg))
    BY <1>3 DEF CreateLink
  <2>2. other[t] \in Task \ Live
    BY <1>3 DEF CreateLink, At, Inv, TypeOK, CallsInv, Live, Ptr, Working
  <2>3. /\ bitmap' = bitmap \cup {Clamp(arg)} /\ bitmap \subseteq Int /\ Clamp(arg) \in Int
        /\ task_prior'[other[t]] = Clamp(arg)
        /\ \A u \in Task \ {other[t]} : task_prior'[u] = task_prior[u]
        /\ current # other[t]
    <3>1. Clamp(arg) \in Prio
      BY ClampPrio
    <3>2. bitmap \subseteq Int /\ Clamp(arg) \in Int
      BY <3>1 DEF Inv, TypeOK, Prio
    <3>3. /\ bitmap' = bitmap \cup {Clamp(arg)}
          /\ task_prior'[other[t]] = Clamp(arg)
          /\ \A u \in Task \ {other[t]} : task_prior'[u] = task_prior[u]
          /\ current # other[t]
      BY <2>1, <2>2, <3>1, AddNewTaskPriority
    <3> QED BY <3>2, <3>3
  <2>4. /\ current = t /\ pc[t] = "link" /\ ~pendSV /\ pc'[t] = "linked"
        /\ UNCHANGED <<current, other, yieldPending, pendSV, suspended, mode, switchReq>>
    BY <1>3, <2>2, <2>3 DEF CreateLink, At, Inv, TypeOK, loopVars
  <2>5. ASSUME NoneMoreUrgent PROVE NoneMoreUrgent'
    <3>1. \A p \in bitmap : p <= task_prior'[current]
      BY <2>3, <2>4, <2>5 DEF NoneMoreUrgent
    <3>2. Clamp(arg) <= task_prior'[other[current]]
      BY <2>3, <2>4
    <3> QED BY <2>3, <2>4, <3>1, <3>2 DEF NoneMoreUrgent
  <2> QED BY <2>4, <2>5 DEF PriorityInv
<1> QED BY <1>1, <1>2, <1>3

(* A tick that begins or is pended forgets no request.                      *)
LEMMA TickPriority ==
  ASSUME Inv, TimeInv, PriorityInv, SysTick \/ SysTickPended \/ ResumeTick
  PROVE  PriorityInv'
BY DEF SysTick, SysTickPended, SysTickEnabled, ResumeTick, TickBegin, listVars, lifeVars,
       swapVars, loopVars, callVars, PriorityInv, NoneMoreUrgent

(* Waking a task as urgent as the running one requires a switch             *)
(* (task.c:559-562).                                                        *)
LEMMA TickWakePriority == ASSUME Inv, TimeInv, PriorityInv, TickWake PROVE PriorityInv'
<1> DEFINE p == task_prior[lists.head[ptrDelay]]
<1>1. /\ bitmap' = bitmap \cup {p}
      /\ switchReq' = (switchReq \/ p >= task_prior[current])
      /\ mode \in {"isr", "retick"}
      /\ UNCHANGED <<task_prior, running, current, suspended, yieldPending,
                     pendSV, mode, pc, other>>
  BY DEF TickWake, lifeVars, swapVars, callVars
<1>2. p \in Int /\ current \in Task /\ task_prior[current] \in Int
  <2>1. lists.head[ptrDelay] \in Task
    BY DEF TickWake, Due, Inv, TypeOK, ListMem, Ptr, ListId
  <2>2. current \in Task
    BY <1>1 DEF Inv, RunInv, Live
  <2> QED BY <2>1, <2>2 DEF Inv, TypeOK, Prio
<1> HIDE DEF p
<1>3. NoneMoreUrgent /\ ~(p >= task_prior[current]) => NoneMoreUrgent'
  BY <1>1, <1>2 DEF NoneMoreUrgent
<1> QED BY <1>1, <1>2, <1>3 DEF PriorityInv

(* What the tick required is handed to PendSV or to the replay              *)
(* (task.c:567-582, 663-670).                                               *)
LEMMA TickEndPriority ==
  ASSUME Inv, TimeInv, PriorityInv, SysTickEnd \/ ResumeTickEnd
  PROVE  PriorityInv'
<1>1. /\ UNCHANGED <<bitmap, task_prior, current, suspended, pc, other>>
      /\ ~switchReq'
      /\ ~pendSV
      /\ switchReq \/ yieldPending => SwitchRequired
      /\ \/ pendSV' = SwitchRequired /\ mode' = "run" /\ yieldPending' = yieldPending
         \/ pendSV' = pendSV /\ mode' = "resume" /\ yieldPending' = SwitchRequired
  <2>1. ~pendSV /\ (switchReq \/ yieldPending => SwitchRequired)
    BY DEF SysTickEnd, ResumeTickEnd, TickEnd, SwitchRequired, TimeInv, AwakeInv
  <2>2. CASE SysTickEnd
    BY <2>1, <2>2 DEF SysTickEnd, TickEnd, listVars, callVars
  <2>3. CASE ResumeTickEnd
    BY <2>1, <2>3 DEF ResumeTickEnd, TickEnd, listVars, callVars
  <2> QED BY <2>2, <2>3
<1>2. NoneMoreUrgent => NoneMoreUrgent'
  BY <1>1 DEF NoneMoreUrgent
<1> QED BY <1>1, <1>2 DEF PriorityInv

(* The context switch takes the most urgent task, or remembers that it      *)
(* should have (task.c:592-605).                                            *)
LEMMA PendSVPriority == ASSUME Inv, TimeInv, PriorityInv, PendSV PROVE PriorityInv'
<1> USE DEF PendSV, listVars, lifeVars, tickVars, loopVars, callVars
<1>1. ~switchReq
  BY DEF PriorityInv
<1>2. CASE suspended = 0
  <2>1. \A p \in bitmap : p <= task_prior[HighestReady]
    <3>1. /\ HighestReady \in Live
          /\ lists.taskListHead[HighestReady] \in bitmap
          /\ \A p \in bitmap : p <= lists.taskListHead[HighestReady]
      BY HighestReadyLive
    <3>2. bitmap \subseteq Prio
      BY DEF Inv, TypeOK
    <3>3. lists.taskListHead[HighestReady] = task_prior[HighestReady]
      BY <3>1, <3>2 DEF Inv, ListsInv
    <3> QED BY <3>1, <3>3
  <2>2. NoneMoreUrgent'
    BY <1>2, <2>1 DEF NoneMoreUrgent
  <2>3. current' # NULL
    BY <1>2, HighestReadyLive, ListsAssumption DEF Live
  <2> QED BY <1>1, <1>2, <2>2, <2>3 DEF PriorityInv
<1>3. CASE suspended # 0
  BY <1>1, <1>3 DEF PriorityInv, Inv, RunInv
<1> QED BY <1>2, <1>3

(* A task that goes to sleep will yield when it resumes the scheduler.      *)
LEMMA DelayAddPriority ==
  ASSUME Inv, TimeInv, PriorityInv, NEW t \in Task, DelayAdd(t) PROVE PriorityInv'
<1>1. /\ pc'[t] = "resumeDelay" /\ current' = t /\ current = t /\ suspended = 1
      /\ UNCHANGED <<suspended, mode, switchReq, yieldPending, pendSV>>
  BY DEF DelayAdd, At, Goto, swapVars, loopVars, Inv, TypeOK, SuspensionInv, Suspending
<1> QED BY <1>1 DEF PriorityInv

(* Deleting another task makes nothing more urgent.                         *)
LEMMA DeletePriority ==
  ASSUME Inv, TimeInv, PriorityInv, NEW t \in Task, Delete(t) PROVE PriorityInv'
<1>1. /\ bitmap' \subseteq bitmap /\ current = t /\ pc[t] = "user"
      /\ UNCHANGED <<task_prior, current, suspended, yieldPending, pendSV, mode, switchReq>>
  BY DEF Delete, At, ClearIfEmpty, swapVars, loopVars
<1>2. NoneMoreUrgent => NoneMoreUrgent'
  BY <1>1 DEF NoneMoreUrgent
<1> QED BY <1>1, <1>2 DEF PriorityInv

(* The last part of the inductive invariant: whatever makes a task ready    *)
(* that is more urgent than the running one has also requested a switch.    *)
THEOREM PriorityInvHolds == Spec => []PriorityInv
<1>1. Init => PriorityInv
  BY DEF Init, PriorityInv
<1>2. Inv /\ TimeInv /\ PriorityInv /\ [Next]_vars => PriorityInv'
  <2> SUFFICES ASSUME Inv, TimeInv, PriorityInv, [Next]_vars PROVE PriorityInv'
    OBVIOUS
  <2>1. CASE Boot
    BY <2>1, CreatePriority DEF Boot
  <2>2. ASSUME NEW t \in Task, Call(t) PROVE PriorityInv'
    BY <2>2, SimplePriority, DeletePriority DEF Call
  <2>3. ASSUME NEW t \in Task, Kernel(t) PROVE PriorityInv'
    BY <2>3, SimplePriority, DelayAddPriority, ResumeExitPriority, CreatePriority DEF Kernel
  <2>4. CASE Tick \/ InTick \/ PendSV
    BY <2>4, TickPriority, TickWakePriority, TickEndPriority, PendSVPriority DEF Tick, InTick
  <2>5. CASE UNCHANGED vars
    BY <2>5 DEF vars, listVars, lifeVars, tickVars, swapVars, loopVars, callVars,
                PriorityInv, NoneMoreUrgent
  <2> QED BY <2>1, <2>2, <2>3, <2>4, <2>5 DEF Next
<1> QED BY <1>1, <1>2, InvHolds, TimeInvHolds, PTL DEF Spec

(* The whole inductive invariant, which the runs also check on small        *)
(* instances.                                                               *)
THEOREM InductiveHolds == Spec => []Inductive
BY InvHolds, TimeInvHolds, PriorityInvHolds, PTL DEF Inductive

(* Preemption is strict: a task that executes application code is ready and *)
(* no ready task has a higher priority.                                     *)
THEOREM AlwaysStrict == Spec => []StrictPriority
<1>1. Inv /\ TimeInv /\ PriorityInv => StrictPriority
  <2> SUFFICES ASSUME Inv, TimeInv, PriorityInv, NEW t \in Task, Executing(t)
               PROVE  OnList(t, task_prior[t]) /\ \A p \in bitmap : p <= task_prior[t]
    BY DEF StrictPriority
  <2>1. running /\ mode = "run" /\ ~pendSV /\ current = t /\ pc[t] = "user"
    BY DEF Executing, At
  <2>2. t \in Live /\ t \notin Sleeping /\ suspended = 0
    BY <2>1 DEF Inv, RunInv, SuspensionInv, Suspending, TimeInv, AwakeInv
  <2>3. lists \in ListMem /\ Linked(lists, Live) /\ Live \in SUBSET Task
    BY DEF Inv, TypeOK, ListsInv, Live
  <2>4. lists.taskListHead[t] \in Prio
    BY <2>2, <2>3 DEF Sleeping, Linked, LinksAgree, ListId
  <2>5. lists.taskListHead[t] = task_prior[t]
    BY <2>2, <2>4 DEF Inv, ListsInv
  <2>6. OnList(t, task_prior[t])
    BY <2>2, <2>3, <2>5, LinkedMembers DEF OnList
  <2>7. NoneMoreUrgent
    BY <2>1, <2>2 DEF PriorityInv
  <2> QED BY <2>1, <2>6, <2>7 DEF NoneMoreUrgent
<1> QED BY <1>1, InvHolds, TimeInvHolds, PriorityInvHolds, PTL

-----------------------------------------------------------------------------
(* The refinement mapping of Promise, named.                                *)
StateOf == [t \in Task |-> IF status[t] # "live" THEN "absent"
                           ELSE IF Asleep(t) THEN "asleep"
                           ELSE IF wait[t] > 0 THEN "asking" ELSE "awake"]
LeftOf == [t \in Task |-> IF Asleep(t)
                            THEN (ticksToDelay[t] - tickCount) % (MaxTick + 1)
                            ELSE wait[t]]

(* Who sleeps or does not live has no argument of os_delay, and nobody has  *)
(* one while the scheduler is not suspended.                                *)
LEMMA NoArgument ==
  ASSUME Inv, TimeInv
  PROVE  /\ wait \in [Task -> 0 .. MaxTick]
         /\ \A t \in Task : status[t] # "live" \/ Asleep(t) => wait[t] = 0
         /\ \A t \in Task \ {current} : wait[t] = 0
         /\ suspended = 0 => \A t \in Task : wait[t] = 0
<1>1. wait \in [Task -> 0 .. MaxTick]
  BY DEF Inv, TypeOK
<1>2. \A t \in Task : pc[t] # "delay" => wait[t] = 0
  BY <1>1 DEF TimeInv, AwakeInv
<1>3. \A t \in Task : status[t] # "live" \/ Asleep(t) => pc[t] # "delay"
  BY DEF Inv, RunInv, TimeInv, AwakeInv, Asleep, Sleeping, Live
<1>4. \A t \in Task \ {current} : pc[t] # "delay"
  BY DEF Inv, SuspensionInv, Suspending
<1>5. suspended = 0 => \A t \in Task : pc[t] # "delay"
  <2> SUFFICES ASSUME suspended = 0, current \in Task PROVE pc[current] # "delay"
    BY <1>4
  <2>1. CASE ~running
    BY <2>1 DEF Inv, RunInv
  <2>2. CASE running /\ mode = "run"
    BY <2>2 DEF Inv, SuspensionInv, Suspending
  <2>3. CASE mode # "run"
    BY <2>3 DEF Inv, TypeOK, Mode, SuspensionInv, Suspending
  <2> QED BY <2>1, <2>2, <2>3
<1> QED BY <1>1, <1>2, <1>3, <1>4, <1>5

(* The actions of Delays under the refinement mapping.                      *)
LEMMA Mapping ==
  /\ Promise!Init <=> /\ StateOf = [t \in Task |-> "absent"]
                      /\ LeftOf = [t \in Task |-> 0]
  /\ \A t \in Task :
       /\ Promise!Create(t) <=> /\ StateOf[t] = "absent"
                                /\ StateOf' = [StateOf EXCEPT ![t] = "awake"]
                                /\ LeftOf' = LeftOf
       /\ Promise!Delete(t) <=> /\ StateOf[t] # "absent"
                                /\ StateOf' = [StateOf EXCEPT ![t] = "absent"]
                                /\ LeftOf' = [LeftOf EXCEPT ![t] = 0]
       /\ Promise!Ask(t) <=> \E n \in 1 .. MaxTick :
                               /\ StateOf[t] = "awake"
                               /\ StateOf' = [StateOf EXCEPT ![t] = "asking"]
                               /\ LeftOf' = [LeftOf EXCEPT ![t] = n]
       /\ Promise!Sleep(t) <=> /\ StateOf[t] = "asking"
                               /\ StateOf' = [StateOf EXCEPT ![t] = "asleep"]
                               /\ LeftOf' = LeftOf
       /\ Promise!Wake(t) <=> /\ StateOf[t] = "asleep"
                              /\ LeftOf[t] = 0
                              /\ StateOf' = [StateOf EXCEPT ![t] = "awake"]
                              /\ LeftOf' = LeftOf
  /\ Promise!Sleepers = {t \in Task : StateOf[t] = "asleep"}
  /\ Promise!Tick <=>
       /\ \A t \in Task : StateOf[t] # "asking"
       /\ \A t \in Promise!Sleepers : LeftOf[t] > 0
       /\ LeftOf' = [t \in Task |-> IF t \in Promise!Sleepers THEN LeftOf[t] - 1 ELSE LeftOf[t]]
       /\ StateOf' = StateOf
BY DEF StateOf, LeftOf, Promise!Init, Promise!Create, Promise!Delete, Promise!Ask, Promise!Sleep,
       Promise!Wake, Promise!Sleepers, Promise!Tick

(* A state that changes for one task alone.                                 *)
LEMMA StateChange ==
  ASSUME NEW t \in Task, NEW s, StateOf'[t] = s,
         \A u \in Task \ {t} : StateOf'[u] = StateOf[u]
  PROVE  StateOf' = [StateOf EXCEPT ![t] = s]
BY DEF StateOf

(* Steps that move neither lists nor time are stutters.                     *)
LEMMA Unmoved ==
  ASSUME Live' = Live, UNCHANGED <<lists, ticksToDelay, tickCount, wait>>
  PROVE  StateOf' = StateOf /\ LeftOf' = LeftOf
<1>1. \A t \in Task : (status'[t] = "live") <=> (status[t] = "live")
  BY DEF Live
<1>2. \A t \in Task : Asleep(t)' <=> Asleep(t)
  BY <1>1 DEF Asleep
<1> QED BY <1>1, <1>2 DEF StateOf, LeftOf

(* The ticks a task still waits, by the order of its due time and the       *)
(* counter.                                                                 *)
LEMMA TicksLeft ==
  ASSUME NEW d \in 0 .. MaxTick, NEW now \in 0 .. MaxTick
  PROVE  (d - now) % (MaxTick + 1) = IF now <= d THEN d - now ELSE d - now + MaxTick + 1
<1>1. CASE now <= d
  BY <1>1
<1>2. CASE ~(now <= d)
  BY <1>2
<1> QED BY <1>1, <1>2

(* The due time that os_addCurrentTaskToDelayedList computes is, modulo the *)
(* width of clock_t, the requested number of ticks away (task.c:719).       *)
LEMMA WakeDistance ==
  ASSUME NEW now \in 0 .. MaxTick, NEW n \in 1 .. MaxTick
  PROVE  (((now + n) % (MaxTick + 1)) - now) % (MaxTick + 1) = n
<1> DEFINE K == MaxTick + 1
           a == now + n
           b == -now
<1>1. a \in Int /\ b \in Int /\ K \in Nat \ {0}
  OBVIOUS
<1>2. ((a % K) + b) % K = (a + b) % K
  <2> HIDE DEF a, b, K
  <2> QED BY <1>1, ModPlus
<1>3. (a + b) % K = n
  OBVIOUS
<1>4. (a % K) \in Int /\ (a % K) + b = (a % K) - now
  <2>1. a % K \in Int
    <3> HIDE DEF a, K
    <3> QED BY <1>1, ModDiv
  <2> HIDE DEF a, K
  <2> QED BY <2>1
<1> QED BY <1>2, <1>3, <1>4

(* Linking a new task implements Create.                                    *)
LEMMA Created ==
  ASSUME Inv, NEW t \in Task \ Live, NEW p \in Prio, AddNewTask(t, p),
         TimeInv, UNCHANGED <<ticksToDelay, wait>>, UNCHANGED tickCount \/ Sleeping = {}
  PROVE  Promise!Create(t)
<1>1. /\ lists' \in ListMem /\ lists \in ListMem
      /\ lists'.taskListHead = [lists.taskListHead EXCEPT ![t] = p]
      /\ status' = [status EXCEPT ![t] = "live"] /\ status \in [Task -> Status]
      /\ status[t] # "live"
      /\ p \notin DelayList
  <2>1. lists' \in ListMem /\ lists'.taskListHead = [lists.taskListHead EXCEPT ![t] = p]
    BY AddNewTaskInv
  <2> QED BY <2>1 DEF AddNewTask, Inv, TypeOK, Live, DelayList, DELAY1, DELAY2, Prio
<1>2. ~Asleep(t) /\ ~Asleep(t)' /\ \A u \in Task \ {t} : Asleep(u)' <=> Asleep(u)
  BY <1>1 DEF Asleep, ListMem
<1>3. LeftOf' = LeftOf
  BY <1>2 DEF LeftOf, Asleep, Sleeping, Live
<1>4. StateOf[t] = "absent" /\ StateOf' = [StateOf EXCEPT ![t] = "awake"]
  <2>1. ~(wait'[t] > 0)
    <3>1. wait'[t] = 0
      BY <1>1, NoArgument
    <3> QED BY <3>1
  <2>2. \A u \in Task \ {t} : wait'[u] = wait[u] /\ status'[u] = status[u]
    BY <1>1
  <2>3. status'[t] = "live"
    BY <1>1
  <2>4. StateOf'[t] = "awake"
    BY <1>2, <2>1, <2>3 DEF StateOf
  <2>5. \A u \in Task \ {t} : StateOf'[u] = StateOf[u]
    BY <1>2, <2>2 DEF StateOf
  <2>6. StateOf[t] = "absent"
    BY <1>1 DEF StateOf
  <2> QED BY <2>4, <2>5, <2>6, StateChange
<1> QED BY <1>3, <1>4, Mapping

(* Creation, before and after the start, implements Create.                 *)
LEMMA CreationCreates ==
  ASSUME Inv, TimeInv, Start \/ \E t \in Task : BootCreate(t) \/ CreateLink(t)
  PROVE  Promise!Next
<1>1. CASE Start
  <2>1. Idle \in Task \ Live /\ 0 \in Prio
    BY <1>1 DEF Start, Inv, RunInv, Prio
  <2>2. Promise!Create(Idle)
    BY <1>1, <2>1, Created DEF Start, TimeInv, AwakeInv, callVars
  <2> QED BY <2>2 DEF Promise!Next
<1>2. ASSUME NEW t \in Task, BootCreate(t) PROVE Promise!Next
  <2>1. PICK arg \in PrioArgs : AddNewTask(t, Clamp(arg))
    BY <1>2 DEF BootCreate
  <2>2. Clamp(arg) \in Prio /\ t \in Task \ Live /\ UNCHANGED <<ticksToDelay, tickCount, wait>>
    BY <1>2, ClampPrio DEF BootCreate, Live, tickVars, callVars
  <2>3. Promise!Create(t)
    BY <2>1, <2>2, Created
  <2> QED BY <2>3 DEF Promise!Next
<1>3. ASSUME NEW t \in Task, CreateLink(t) PROVE Promise!Next
  <2>1. PICK arg \in PrioArgs : AddNewTask(other[t], Clamp(arg))
    BY <1>3 DEF CreateLink
  <2>2. other[t] \in Task \ Live
    BY <1>3 DEF CreateLink, At, Inv, TypeOK, CallsInv, Live, Ptr, Working
  <2>3. Clamp(arg) \in Prio /\ UNCHANGED <<ticksToDelay, tickCount, wait>>
    BY <1>3, ClampPrio DEF CreateLink, tickVars
  <2>4. PICK new \in Task \ Live : new = other[t]
    BY <2>2
  <2>5. Promise!Create(new)
    BY <2>1, <2>3, <2>4, Created
  <2> QED BY <2>4, <2>5 DEF Promise!Next
<1> QED BY <1>1, <1>2, <1>3

(* os_taskDelete implements Delete.                                         *)
LEMMA Deleted == ASSUME Inv, TimeInv, NEW t \in Task, Delete(t) PROVE Promise!Next
<1>1. PICK victim \in Task :
        /\ status[victim] = "live"
        /\ lists' = os_taskListRemove(lists, victim)
        /\ status' = [status EXCEPT ![victim] = "dead"]
        /\ victim # t /\ t = current
        /\ UNCHANGED <<ticksToDelay, tickCount, wait>>
  BY DEF Delete, At
<1>2. victim \in Live /\ status \in [Task -> Status]
  BY <1>1 DEF Live, Inv, TypeOK
<1>3. lists'.taskListHead = lists.taskListHead
  BY <1>1, <1>2, RemoveLive
<1>4. ~Asleep(victim)' /\ \A u \in Task \ {victim} : Asleep(u)' <=> Asleep(u)
  BY <1>1, <1>2, <1>3 DEF Asleep
<1>5. LeftOf' = [LeftOf EXCEPT ![victim] = 0]
  <2>1. wait'[victim] = 0
    BY <1>1, NoArgument
  <2> QED BY <1>1, <1>4, <2>1 DEF LeftOf
<1>6. StateOf[victim] # "absent" /\ StateOf' = [StateOf EXCEPT ![victim] = "absent"]
  BY <1>1, <1>2, <1>4 DEF StateOf
<1> QED BY <1>5, <1>6, Mapping DEF Promise!Next

(* os_addCurrentTaskToDelayedList implements Sleep.                         *)
LEMMA FellAsleep == ASSUME Inv, TimeInv, NEW t \in Task, DelayAdd(t) PROVE Promise!Next
<1> DEFINE time == TimeToWake(t)
           L == IF Wraps(time) THEN Overflow ELSE ptrDelay
           wake == [ticksToDelay EXCEPT ![t] = time]
           removed == os_taskListRemove(lists, t)
<1>1. /\ pc[t] = "delay" /\ current = t
      /\ ticksToDelay' = wake
      /\ lists' = os_listInsertByDelay(removed, t, L, wake)
      /\ wait' = [wait EXCEPT ![t] = 0]
      /\ UNCHANGED <<status, tickCount>>
  BY DEF DelayAdd, At, lifeVars
<1>2. t \in Live /\ wait[t] \in 1 .. MaxTick /\ tickCount \in 0 .. MaxTick /\ t \notin Sleeping
  BY <1>1 DEF Inv, TypeOK, RunInv, TimeInv, AwakeInv
<1>3. (time - tickCount) % (MaxTick + 1) = wait[t] /\ time \in 0 .. MaxTick
  BY <1>2, WakeDistance, WrapMeansPast DEF TimeToWake
<1>4. L \in DelayList /\ lists \in ListMem /\ ticksToDelay \in [Task -> 0 .. MaxTick]
  BY DEF Inv, TypeOK, Overflow, DelayList
<1> HIDE DEF removed, L, time, wake
<1>5. lists'.taskListHead = [lists.taskListHead EXCEPT ![t] = L] /\ lists' \in ListMem
  <2>1. /\ removed \in ListMem
        /\ removed.taskListHead = lists.taskListHead
        /\ Linked(removed, Live \ {t})
    BY <1>2, RemoveLive DEF removed
  <2>2. InsertResult(removed, Live \ {t}, t, L, wake, lists')
    <3>1. Live \ {t} \in SUBSET Task /\ t \in Task \ (Live \ {t})
      BY DEF Live
    <3> QED BY <1>1, <1>4, <2>1, <3>1, InsertEffect
  <2> QED BY <2>1, <2>2 DEF InsertResult
<1>6. ~Asleep(t) /\ Asleep(t)' /\ \A u \in Task \ {t} : Asleep(u)' <=> Asleep(u)
  <2>1. status[t] = "live"
    BY <1>2 DEF Live
  <2>2. ~Asleep(t)
    BY <1>2 DEF Asleep, Sleeping
  <2> QED BY <1>1, <1>4, <1>5, <2>1, <2>2 DEF Asleep, ListMem
<1>7. \A u \in Task \ {t} : ticksToDelay'[u] = ticksToDelay[u]
  BY <1>1, <1>4 DEF wake
<1>8. ticksToDelay'[t] = time
  BY <1>1, <1>4 DEF wake
<1>a. \A u \in Task \ {t} : wait'[u] = wait[u]
  BY <1>1 DEF Inv, TypeOK
<1>9. LeftOf' = LeftOf
  BY <1>1, <1>3, <1>6, <1>7, <1>8, <1>a DEF LeftOf
<1>10. StateOf[t] = "asking" /\ StateOf' = [StateOf EXCEPT ![t] = "asleep"]
  <2>1. wait[t] > 0 /\ status[t] = "live"
    BY <1>2 DEF Live
  <2> QED BY <1>1, <1>6, <1>a, <2>1, StateChange DEF StateOf
<1> QED BY <1>2, <1>9, <1>10, Mapping DEF Promise!Next

(* The due loop wakes a task exactly when it has no ticks left.             *)
LEMMA WokeUp == ASSUME Inv, TimeInv, TickWake PROVE Promise!Next
<1>0. PICK t \in Task : t = lists.head[ptrDelay]
  BY DEF TickWake, Due, Inv, TypeOK, ListMem, Ptr, ListId
<1> DEFINE p == task_prior[t]
           removed == os_taskListRemove(lists, t)
<1>1. /\ ticksToDelay[t] <= tickCount
      /\ lists' = AppendReady(removed, t, p)
      /\ UNCHANGED <<ticksToDelay, status, tickCount, wait>>
  BY <1>0 DEF TickWake, Due, lifeVars, tickVars, callVars
<1>2. t \in Sleeping /\ lists.taskListHead[t] = ptrDelay /\ t \in Live
  BY <1>0, DelayHead, ListsAssumption DEF Inv, TypeOK, TimeInv, Sleeping, Live
<1>3. ticksToDelay[t] = tickCount
  BY <1>1, <1>2 DEF Inv, TypeOK, TimeInv, DueInv
<1>4. p \in Prio /\ p \notin DelayList /\ lists \in ListMem
  BY <1>2 DEF Inv, TypeOK, DelayList, DELAY1, DELAY2, Prio
<1>5. /\ removed \in ListMem
      /\ removed.taskListHead = lists.taskListHead
      /\ Linked(removed, Live \ {t})
  BY <1>2, RemoveLive
<1>a. status[t] = "live" /\ Asleep(t)
  BY <1>2 DEF Asleep, Sleeping, Live
<1> HIDE DEF removed, p
<1>6. lists'.taskListHead = [lists.taskListHead EXCEPT ![t] = p] /\ lists' \in ListMem
  <2>1. Live \ {t} \in SUBSET Task /\ t \in Task \ (Live \ {t})
    BY <1>2 DEF Live
  <2>2. AppendResult(removed, Live \ {t}, t, p, lists')
    BY <1>1, <1>4, <1>5, <2>1, AppendEffect
  <2> QED BY <1>5, <2>2 DEF AppendResult
<1>7. Asleep(t) /\ ~Asleep(t)' /\ \A u \in Task \ {t} : Asleep(u)' <=> Asleep(u)
  BY <1>1, <1>2, <1>4, <1>6, <1>a DEF Asleep, ListMem
<1>8. LeftOf[t] = 0 /\ LeftOf' = LeftOf
  <2>1. tickCount \in Int /\ (tickCount - tickCount) % (MaxTick + 1) = 0
    BY DEF Inv, TypeOK
  <2>2. wait[t] = 0
    BY <1>7, NoArgument
  <2> QED BY <1>1, <1>2, <1>3, <1>7, <2>1, <2>2 DEF LeftOf
<1>9. StateOf[t] = "asleep" /\ StateOf' = [StateOf EXCEPT ![t] = "awake"]
  <2>1. wait[t] = 0
    BY <1>7, NoArgument
  <2>2. ~(wait'[t] > 0)
    BY <1>1, <2>1
  <2> QED BY <1>1, <1>2, <1>7, <1>a, <2>2, StateChange DEF StateOf
<1> QED BY <1>2, <1>8, <1>9, Mapping DEF Promise!Next

(* A processed tick takes one tick from each sleeper, none of which had run *)
(* out.                                                                     *)
LEMMA Ticked ==
  ASSUME Inv, TimeInv, NEW m, TickBegin(m), mode \in {"run", "resume"}, suspended = 0
  PROVE  Promise!Next
<1>1. /\ tickCount' = (tickCount + 1) % (MaxTick + 1)
      /\ UNCHANGED <<lists, status, ticksToDelay, wait>>
  BY DEF TickBegin, lifeVars, callVars
<1>2. tickCount \in 0 .. MaxTick /\ ticksToDelay \in [Task -> 0 .. MaxTick]
  BY DEF Inv, TypeOK
<1>3. StateOf' = StateOf /\ \A t \in Task : Asleep(t)' <=> Asleep(t)
  BY <1>1 DEF StateOf, Asleep
<1>4. Promise!Sleepers = {t \in Task : Asleep(t)}
  BY Mapping DEF StateOf, Asleep
<1>5. ASSUME NEW t \in Task, Asleep(t)
      PROVE  LeftOf[t] > 0 /\ LeftOf'[t] = LeftOf[t] - 1
  <2> DEFINE d == ticksToDelay[t]
  <2>1. d \in 0 .. MaxTick /\ d # tickCount
    BY <1>2, <1>5 DEF Asleep, TimeInv, DueInv, Sleeping, Live
  <2>2. tickCount = MaxTick => d < tickCount
    BY <1>2, <2>1
  <2>3. tickCount' = IF tickCount = MaxTick THEN 0 ELSE tickCount + 1
    BY <1>1, <1>2
  <2>4. LeftOf[t] = (d - tickCount) % (MaxTick + 1)
    BY <1>5 DEF LeftOf
  <2>5. LeftOf'[t] = (d - tickCount') % (MaxTick + 1)
    BY <1>1, <1>3, <1>5 DEF LeftOf
  <2> HIDE DEF d
  <2>6. tickCount' \in 0 .. MaxTick
    BY <1>2, <2>3
  <2>7. LeftOf[t] = IF tickCount <= d THEN d - tickCount ELSE d - tickCount + MaxTick + 1
    BY <1>2, <2>1, <2>4, TicksLeft
  <2>8. LeftOf'[t] = IF tickCount' <= d THEN d - tickCount' ELSE d - tickCount' + MaxTick + 1
    BY <2>1, <2>5, <2>6, TicksLeft
  <2> QED BY <1>2, <2>1, <2>2, <2>3, <2>7, <2>8
<1>6. LeftOf' = [t \in Task |-> IF t \in Promise!Sleepers THEN LeftOf[t] - 1 ELSE LeftOf[t]]
  <2>1. \A t \in Task : ~Asleep(t) => LeftOf'[t] = LeftOf[t]
    BY <1>1, <1>3 DEF LeftOf
  <2>2. \A t \in Task : LeftOf'[t] = IF t \in Promise!Sleepers THEN LeftOf[t] - 1 ELSE LeftOf[t]
    BY <1>4, <1>5, <2>1
  <2> QED BY <2>2 DEF LeftOf
<1>7. \A t \in Task : StateOf[t] # "asking"
  <2>1. ASSUME NEW t \in Task PROVE ~(wait[t] > 0)
    <3>1. wait[t] = 0
      BY NoArgument
    <3> QED BY <3>1
  <2> QED BY <2>1 DEF StateOf
<1> QED BY <1>3, <1>4, <1>5, <1>6, <1>7, Mapping DEF Promise!Next

(* The call records its argument and implements Ask.                        *)
LEMMA Asked == ASSUME Inv, TimeInv, NEW t \in Task, DelayCall(t) PROVE Promise!Next
<1>1. PICK n \in DelayTicks \ {0} :
        /\ t = current /\ running /\ pc[t] = "user" /\ ~pendSV
        /\ wait' = [wait EXCEPT ![t] = n]
        /\ UNCHANGED <<lists, status, ticksToDelay, tickCount>>
  BY DEF DelayCall, At, listVars, lifeVars, tickVars
<1>2. n \in 1 .. MaxTick /\ t \in Live /\ ~Asleep(t) /\ wait[t] = 0
  <2>1. n \in 1 .. MaxTick
    BY <1>1, SchedulerAssumption DEF SchedulerAssumption
  <2>2. t \in Live
    BY <1>1 DEF Inv, RunInv
  <2>3. ~Asleep(t)
    BY <1>1, <2>2 DEF TimeInv, AwakeInv, Sleeping, Asleep, Live
  <2>4. wait[t] = 0
    BY <1>1 DEF Inv, TypeOK, TimeInv, AwakeInv
  <2> QED BY <2>1, <2>2, <2>3, <2>4
<1>3. wait \in [Task -> 0 .. MaxTick] /\ \A u \in Task : Asleep(u)' <=> Asleep(u)
  BY <1>1 DEF Inv, TypeOK, Asleep
<1>4. LeftOf' = [LeftOf EXCEPT ![t] = n]
  BY <1>1, <1>2, <1>3 DEF LeftOf
<1>5. StateOf[t] = "awake" /\ StateOf' = [StateOf EXCEPT ![t] = "asking"]
  <2>1. ~(wait[t] > 0) /\ wait'[t] > 0 /\ status[t] = "live"
    BY <1>1, <1>2, <1>3 DEF Live
  <2>2. \A u \in Task \ {t} : wait'[u] = wait[u]
    BY <1>1, <1>3
  <2> QED BY <1>1, <1>2, <1>3, <2>1, <2>2, StateChange DEF StateOf
<1> QED BY <1>2, <1>4, <1>5, Mapping DEF Promise!Next

(* os_delay(n) lasts exactly n processed ticks (task.c:507-585, 696-766),   *)
(* whatever the other tasks do and wherever the counter wraps: the          *)
(* scheduler implements Delays, in which the sleep is as long as the call   *)
(* asked.                                                                   *)
THEOREM DelaysAreExact == Spec => DelaysExact
<1>1. Init => Promise!Init
  <2> SUFFICES ASSUME Init PROVE Promise!Init
    OBVIOUS
  <2>1. StateOf = [t \in Task |-> "absent"] /\ LeftOf = [t \in Task |-> 0]
    BY DEF Init, StateOf, LeftOf, Asleep
  <2> QED BY <2>1, Mapping
<1>2. Inv /\ TimeInv /\ [Next]_vars => [Promise!Next]_(Promise!vars)
  <2> SUFFICES ASSUME Inv, TimeInv, [Next]_vars
               PROVE  Promise!Next \/ (StateOf' = StateOf /\ LeftOf' = LeftOf)
    BY DEF Promise!vars, StateOf, LeftOf
  <2> DEFINE Maps == Promise!Next \/ (StateOf' = StateOf /\ LeftOf' = LeftOf)
  <2>1. UNCHANGED <<lists, status, ticksToDelay, tickCount, wait>> => Maps
    BY Unmoved DEF Live
  <2>2. CASE Boot
    BY <2>2, CreationCreates DEF Boot
  <2>3. ASSUME NEW t \in Task, Call(t) PROVE Maps
    <3>1. CASE DelayZero(t)
      BY <2>1, <3>1 DEF DelayZero, listVars, lifeVars, tickVars, callVars
    <3>2. CASE CreateCall(t)
      <4>1. Live' = Live /\ UNCHANGED <<lists, ticksToDelay, tickCount, wait>>
        BY <3>2 DEF CreateCall, listVars, tickVars, Live, Inv, TypeOK
      <4> QED BY <4>1, Unmoved
    <3> QED BY <2>3, <3>1, <3>2, Asked, Deleted DEF Call
  <2>4. ASSUME NEW t \in Task, Kernel(t) PROVE Maps
    <3>1. CASE DelayTrigger(t) \/ ResumeEnter(t) \/ ResumeExit(t) \/ HeapCall(t) \/ CreateYield(t)
      BY <2>1, <3>1 DEF DelayTrigger, ResumeEnter, ResumeExit, HeapCall, CreateYield,
                        listVars, lifeVars, tickVars, callVars
    <3>2. CASE HeapDone(t)
      <4>1. Live' = Live /\ UNCHANGED <<lists, ticksToDelay, tickCount, wait>>
        BY <3>2 DEF HeapDone, listVars, tickVars, Live, Inv, TypeOK
      <4> QED BY <4>1, Unmoved
    <3> QED BY <2>4, <3>1, <3>2, FellAsleep, CreationCreates DEF Kernel
  <2>5. CASE Tick
    BY <2>1, <2>5, Ticked
       DEF Tick, SysTick, SysTickPended, SysTickEnabled, listVars, lifeVars, callVars
  <2>6. CASE InTick
    <3>1. CASE SysTickEnd \/ ResumeTickEnd
      BY <2>1, <3>1 DEF SysTickEnd, ResumeTickEnd, listVars, lifeVars, callVars
    <3>2. CASE ResumeTick
      <4>1. mode = "resume" /\ TickBegin("retick")
        BY <3>2 DEF ResumeTick
      <4>2. suspended = 0
        BY <4>1 DEF Inv, SuspensionInv
      <4> QED BY <4>1, <4>2, Ticked
    <3> QED BY <2>6, <3>1, <3>2, WokeUp DEF InTick
  <2>7. CASE PendSV \/ UNCHANGED vars
    BY <2>1, <2>7 DEF PendSV, vars, listVars, lifeVars, tickVars, callVars
  <2> QED BY <2>2, <2>3, <2>4, <2>5, <2>6, <2>7 DEF Next
<1> QED BY <1>1, <1>2, InvHolds, TimeInvHolds, PTL DEF Spec, DelaysExact, Promise!Spec
=============================================================================
