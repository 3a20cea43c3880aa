-------------------------- MODULE Termination_proofs --------------------------
(***************************************************************************)
(* A kernel in which tasks delete themselves, for any tasks that do, any    *)
(* priorities and any width of clock_t and of the counter of tasks. As long *)
(* as at most one has ended, and not one of the priority of IDLE, EndInv    *)
(* holds, and with it what the kernel promises: beyond that the code breaks *)
(* it (MCZombie.cfg, MCLowest.cfg). There is one lemma for each action; the *)
(* work on the links is that of Scheduler_proofs.                           *)
(*                                                                         *)
(* The argument: IDLE removes the ended task again and again, and each time *)
(* writes NULL to the head of the ready list that the task remembers. That  *)
(* is harmless as IDLE runs only while every ready list but its own is      *)
(* empty, which is strict preemption, kept here although the tasks are no   *)
(* longer counted rightly. A task that has ended stays so, whatever happens *)
(* to the lists, and so OneEnded holds in every state before one where it   *)
(* holds: EndInv is preserved by each step that leads to such a state.      *)
(***************************************************************************)
EXTENDS Termination, Scheduler_proofs

USE ListsAssumption, SchedulerAssumption, TerminationAssumption DEF EndLabel, Releasing, Ended

(* The links are part of this invariant too.                                *)
LEMMA EndLinks ==
  ASSUME EndInv
  PROVE  /\ LinksOK
         /\ lists \in ListMem /\ Linked(lists, Live) /\ Live \in SUBSET Task
BY DEF EndInv, EndTypeOK, LinksOK, Status, ListsInv, Live

(* Nothing has ended before main() creates the first task.                  *)
LEMMA EndInit == TermInit => EndInv
<1> SUFFICES ASSUME TermInit PROVE EndInv
  OBVIOUS
<1> USE DEF TermInit
<1>1. Live = {} /\ Sleeping = {}
  BY DEF Init, Live, Sleeping
<1>2. Inv
  BY InitInv
<1>3. EndTypeOK
  <2>1. /\ pc \in [Task -> EndLabel]
        /\ heapCalls \in [Task -> 0 .. 2]
        /\ status \in [Task -> {"free", "live", "dead"}]
        /\ idleAt \in IdleAt
        /\ numberOfTasks \in Nat /\ unblock \in 0 .. MaxTick
        /\ other = [t \in Task |-> NULL]
    BY DEF Init, IdleAt
  <2> QED BY <1>2, <2>1 DEF Inv, TypeOK, EndTypeOK
<1>4. EndedInv /\ IdleInv
  <2>1. terminating = NULL /\ tcb = NULL /\ idleAt = "test"
    OBVIOUS
  <2>2. EndedInv
    BY <2>1 DEF Init, EndedInv
  <2>3. IdleInv
    BY <1>1 DEF Init, IdleInv
  <2> QED BY <2>2, <2>3
<1>5. RequestInv
  BY <1>1 DEF Init, RequestInv
<1> QED BY <1>2, <1>3, <1>4, <1>5 DEF Inv, EndInv

(* The parts about lists read only these variables.                         *)
LEMMA EndFrame ==
  ASSUME EndInv, UNCHANGED <<lists, status, task_prior, bitmap>>
  PROVE  ListsInv' /\ BitmapInv' /\ Live' = Live /\ Sleeping' = Sleeping
BY DEF EndInv, ListsInv, Linked, LinksAgree, HeadsAgree, NoCycle, BitmapInv, Live, Sleeping
-----------------------------------------------------------------------------
(* os_delay suspends the scheduler.                                         *)
LEMMA DelayCallEnd ==
  ASSUME EndInv, NEW t \in Task, DelayCall(t), UNCHANGED idleVars PROVE EndInv'
<1> USE DEF DelayCall, At, Goto, listVars, lifeVars, tickVars, loopVars, idleVars
<1>1. ListsInv' /\ BitmapInv' /\ Live' = Live /\ Sleeping' = Sleeping
  BY EndFrame
<1>2. EndTypeOK'
  BY DEF EndInv, EndTypeOK
<1>3. EndedInv' /\ IdleInv'
  BY <1>1 DEF EndInv, EndTypeOK, EndedInv, IdleInv
<1>4. SuspensionInv' /\ RequestInv'
  BY <1>1 DEF EndInv, EndTypeOK, SuspensionInv, RequestInv, Suspending
<1> QED BY <1>1, <1>2, <1>3, <1>4 DEF EndInv

(* os_delay requests the switch that the resume has not requested.          *)
LEMMA DelayTriggerEnd ==
  ASSUME EndInv, NEW t \in Task, DelayTrigger(t), UNCHANGED idleVars PROVE EndInv'
<1> USE DEF DelayTrigger, At, Goto, listVars, lifeVars, tickVars, loopVars, idleVars
<1>1. ListsInv' /\ BitmapInv' /\ Live' = Live /\ Sleeping' = Sleeping
  BY EndFrame
<1>2. EndTypeOK'
  BY DEF EndInv, EndTypeOK
<1>3. EndedInv' /\ IdleInv'
  BY <1>1 DEF EndInv, EndTypeOK, EndedInv, IdleInv
<1>4. SuspensionInv' /\ RequestInv'
  BY <1>1 DEF EndInv, EndTypeOK, SuspensionInv, RequestInv, Suspending
<1> QED BY <1>1, <1>2, <1>3, <1>4 DEF EndInv

(* os_resumeAllTask gives the suspension up; it replays ticks only while    *)
(* the counter of tasks is not 0 (task.c:634).                              *)
LEMMA ResumeEnterEnd ==
  ASSUME EndInv, NEW t \in Task, ResumeEnter(t), UNCHANGED idleVars PROVE EndInv'
<1>0. /\ running /\ mode = "run" /\ ~pendSV /\ current = t
      /\ pc[t] \in {"resumeDelay", "resumeHeap"}
      /\ suspended' = suspended - 1
      /\ mode' = "resume"
      /\ pendedLeft' = IF suspended = 1 /\ numberOfTasks > 0 THEN pendedTicks ELSE 0
      /\ UNCHANGED <<lists, task_prior, ticksToDelay, bitmap, ptrDelay, status,
                     numberOfTasks, running, tickCount, nextUnblock, pendedTicks,
                     current, yieldPending, pendSV, switchReq, pc, wait, heapCalls,
                     other, terminating, idleAt, tcb, unblock>>
  BY DEF ResumeEnter, At, listVars, lifeVars, tickVars, callVars, idleVars
<1>1. ListsInv' /\ BitmapInv' /\ Live' = Live /\ Sleeping' = Sleeping
  BY <1>0, EndFrame
<1>2. EndTypeOK'
  BY <1>0 DEF EndInv, EndTypeOK, Mode
<1>3. EndedInv' /\ IdleInv'
  BY <1>0, <1>1 DEF EndInv, EndTypeOK, EndedInv, IdleInv
<1>4. SuspensionInv'
  BY <1>0 DEF EndInv, EndTypeOK, SuspensionInv, Suspending
<1>5. RequestInv'
  BY <1>0, <1>1 DEF EndInv, EndTypeOK, SuspensionInv, RequestInv, Suspending
<1> QED BY <1>1, <1>2, <1>3, <1>4, <1>5 DEF EndInv

(* os_resumeAllTask returns: a yield that became due in the replay is       *)
(* requested.                                                               *)
LEMMA ResumeExitEnd ==
  ASSUME EndInv, NEW t \in Task, ResumeExit(t), UNCHANGED idleVars PROVE EndInv'
<1> USE DEF ResumeExit, Goto, listVars, lifeVars, tickVars, loopVars, idleVars
<1>1. ListsInv' /\ BitmapInv' /\ Live' = Live /\ Sleeping' = Sleeping
  BY EndFrame
<1>2. /\ pc[t] \in {"resumeDelay", "resumeHeap"}
      /\ other[t] = NULL /\ suspended = 0
      /\ yieldPending => Outermost
  BY DEF EndInv, EndTypeOK, SuspensionInv, RequestInv, Outermost
<1>3. \/ /\ pc[t] = "resumeDelay"
         /\ \/ pc' = [pc EXCEPT ![t] = "user"] /\ yieldPending
            \/ pc' = [pc EXCEPT ![t] = "trigger"] /\ ~yieldPending
      \/ /\ pc[t] = "resumeHeap"
         /\ \/ pc' = [pc EXCEPT ![t] = "heap"] /\ heapCalls[t] > 0
            \/ pc' = [pc EXCEPT ![t] = "user"]
  BY <1>2 DEF AfterResume
<1>4. mode' = "run" /\ pendSV' \in BOOLEAN /\ (pendSV' <=> yieldPending)
  BY <1>2
<1>5. EndTypeOK'
  <2>1. pc' \in [Task -> EndLabel]
    BY <1>3 DEF EndInv, EndTypeOK
  <2> QED BY <2>1 DEF EndInv, EndTypeOK, Mode
<1>6. EndedInv' /\ IdleInv'
  BY <1>1, <1>3 DEF EndInv, EndTypeOK, EndedInv, IdleInv
<1>7. SuspensionInv'
  BY <1>2, <1>3 DEF EndInv, EndTypeOK, SuspensionInv, Suspending
<1>8. RequestInv'
  BY <1>1, <1>2, <1>3, <1>4 DEF EndInv, EndTypeOK, RequestInv, IdleInv, Sleeping,
     DelayList, DELAY1, DELAY2
<1> QED BY <1>1, <1>5, <1>6, <1>7, <1>8 DEF EndInv

(* os_free suspends the scheduler: only IDLE calls it here.                 *)
LEMMA HeapCallEnd ==
  ASSUME EndInv, NEW t \in Task, HeapCall(t), UNCHANGED idleVars PROVE EndInv'
<1> USE DEF HeapCall, At, Goto, listVars, lifeVars, tickVars, loopVars, idleVars
<1>1. ListsInv' /\ BitmapInv' /\ Live' = Live /\ Sleeping' = Sleeping
  BY EndFrame
<1>2. EndTypeOK'
  BY DEF EndInv, EndTypeOK
<1>3. EndedInv' /\ IdleInv'
  BY <1>1 DEF EndInv, EndTypeOK, EndedInv, IdleInv
<1>4. SuspensionInv' /\ RequestInv'
  BY <1>1 DEF EndInv, EndTypeOK, SuspensionInv, RequestInv, Suspending
<1> QED BY <1>1, <1>2, <1>3, <1>4 DEF EndInv

(* The allocator's work.                                                    *)
LEMMA HeapDoneEnd ==
  ASSUME EndInv, NEW t \in Task, HeapDone(t), UNCHANGED idleVars PROVE EndInv'
<1> USE DEF At, Goto, listVars, lifeVars, tickVars, swapVars, loopVars, idleVars
<1>0. other[t] = NULL
  BY DEF EndInv, EndTypeOK
<1>1. /\ running /\ mode = "run" /\ ~pendSV /\ current = t /\ pc[t] = "heapBusy"
      /\ heapCalls' = [heapCalls EXCEPT ![t] = @ - 1]
      /\ pc' = [pc EXCEPT ![t] = "resumeHeap"]
      /\ UNCHANGED <<lists, task_prior, ticksToDelay, bitmap, ptrDelay, status,
                     numberOfTasks, running, tickCount, nextUnblock, pendedTicks,
                     current, suspended, yieldPending, pendSV, mode, pendedLeft,
                     switchReq, wait, other, terminating, idleAt, tcb, unblock>>
  BY <1>0 DEF HeapDone
<1>2. ListsInv' /\ BitmapInv' /\ Live' = Live /\ Sleeping' = Sleeping
  BY <1>1, EndFrame
<1>3. heapCalls' \in [Task -> 0 .. 2] /\ pc' \in [Task -> EndLabel]
  BY <1>1 DEF EndInv, EndTypeOK, IdleInv
<1>4. EndTypeOK'
  BY <1>1, <1>3 DEF EndInv, EndTypeOK
<1>5. EndedInv' /\ IdleInv'
  BY <1>1, <1>2 DEF EndInv, EndTypeOK, EndedInv, IdleInv
<1>6. SuspensionInv' /\ RequestInv'
  BY <1>1, <1>2 DEF EndInv, EndTypeOK, SuspensionInv, RequestInv, Suspending
<1> QED BY <1>2, <1>4, <1>5, <1>6 DEF EndInv

(* Nobody creates a task while the scheduler runs.                          *)
LEMMA NoCreation ==
  ASSUME EndInv, NEW t \in Task PROVE ~CreateLink(t) /\ ~CreateYield(t)
BY DEF EndInv, EndTypeOK, CreateLink, CreateYield, At

(* A tick during a suspension is counted.                                   *)
LEMMA SysTickPendedEnd ==
  ASSUME EndInv, SysTickPended, UNCHANGED idleVars PROVE EndInv'
<1> USE DEF SysTickPended, SysTickEnabled, listVars, lifeVars, tickVars, loopVars,
            callVars, idleVars
<1>1. ListsInv' /\ BitmapInv' /\ Live' = Live /\ Sleeping' = Sleeping
  BY EndFrame
<1>2. EndTypeOK'
  BY DEF EndInv, EndTypeOK
<1>3. EndedInv' /\ IdleInv'
  BY <1>1 DEF EndInv, EndTypeOK, EndedInv, IdleInv
<1>4. SuspensionInv' /\ RequestInv'
  BY <1>1 DEF EndInv, EndTypeOK, SuspensionInv, RequestInv, Suspending
<1> QED BY <1>1, <1>2, <1>3, <1>4 DEF EndInv
-----------------------------------------------------------------------------
(* The next due time stays within clock_t.                                  *)
LEMMA EndResetType ==
  ASSUME EndInv, NEW L \in DelayList
  PROVE  ResetUnblock(lists, L) \in 0 .. MaxTick
BY DEF EndInv, EndTypeOK, ResetUnblock, ListMem, ListId, Ptr

(* The counter moves, and swaps the delay lists when it wraps.              *)
LEMMA TickBeginEnd ==
  ASSUME EndInv, NEW m \in {"isr", "retick"}, TickBegin(m), running, ~pendSV,
         m = "isr" => mode = "run" /\ suspended = 0,
         m = "retick" => mode = "resume" /\ pendedLeft > 0,
         UNCHANGED idleVars
  PROVE  EndInv'
<1> USE DEF TickBegin, lifeVars, swapVars, callVars, idleVars
<1>1. ListsInv' /\ BitmapInv' /\ Live' = Live /\ Sleeping' = Sleeping
  BY EndFrame
<1>2. EndTypeOK'
  <2>1. Overflow \in DelayList
    BY DEF Overflow, DelayList
  <2>2. tickCount' \in 0 .. MaxTick
    BY SumMod DEF EndInv, EndTypeOK
  <2>3. nextUnblock' \in 0 .. MaxTick
    BY <2>1, EndResetType DEF EndInv, EndTypeOK
  <2> QED BY <2>1, <2>2, <2>3 DEF EndInv, EndTypeOK, Mode
<1>3. EndedInv' /\ IdleInv'
  BY <1>1 DEF EndInv, EndTypeOK, EndedInv, IdleInv
<1>4. SuspensionInv' /\ RequestInv'
  BY <1>1 DEF EndInv, EndTypeOK, SuspensionInv, RequestInv, Suspending
<1> QED BY <1>1, <1>2, <1>3, <1>4 DEF EndInv

(* A tick interrupt, or the replay of a pended tick, begins.                *)
LEMMA TicksEnd ==
  ASSUME EndInv, SysTick \/ ResumeTick, UNCHANGED idleVars PROVE EndInv'
<1>1. ResumeTick => running /\ ~pendSV
  BY DEF EndInv, IdleInv, RequestInv, ResumeTick
<1> QED BY <1>1, TickBeginEnd DEF SysTick, SysTickEnabled, ResumeTick

(* What a tick returns is a truth value, and TRUE if it woke a task that is *)
(* at least as urgent as the running one.                                   *)
LEMMA EndSwitchRequired ==
  EndInv => /\ SwitchRequired \in BOOLEAN
            /\ switchReq \/ yieldPending => SwitchRequired
BY DEF EndInv, EndTypeOK, SwitchRequired

(* The tick interrupt returns.                                              *)
LEMMA SysTickEndEnd ==
  ASSUME EndInv, SysTickEnd, UNCHANGED idleVars PROVE EndInv'
<1> USE DEF SysTickEnd, TickEnd, listVars, lifeVars, callVars, idleVars
<1>1. ListsInv' /\ BitmapInv' /\ Live' = Live /\ Sleeping' = Sleeping
  BY EndFrame
<1>2. nextUnblock' \in 0 .. MaxTick
  BY EndResetType DEF EndInv, EndTypeOK
<1>3. /\ pendSV' \in BOOLEAN /\ switchReq' = FALSE /\ mode' = "run"
      /\ switchReq \/ yieldPending => pendSV'
  BY EndSwitchRequired
<1>4. EndTypeOK'
  BY <1>2, <1>3 DEF EndInv, EndTypeOK, Mode
<1>5. EndedInv' /\ IdleInv'
  BY <1>1, <1>3 DEF EndInv, EndTypeOK, EndedInv, IdleInv
<1>6. SuspensionInv' /\ RequestInv'
  <2> HIDE DEF SysTickEnd
  <2>1. /\ mode = "isr" /\ switchReq' = FALSE
        /\ UNCHANGED <<bitmap, task_prior, status, numberOfTasks, running,
                       current, suspended, yieldPending, pendedLeft, pc>>
    BY DEF SysTickEnd
  <2> QED BY <1>1, <1>3, <2>1 DEF EndInv, EndTypeOK, SuspensionInv, RequestInv, Suspending
<1> QED BY <1>1, <1>4, <1>5, <1>6 DEF EndInv

(* The replay of one tick ends.                                             *)
LEMMA ResumeTickEndEnd ==
  ASSUME EndInv, ResumeTickEnd, UNCHANGED idleVars PROVE EndInv'
<1> USE DEF ResumeTickEnd, TickEnd, listVars, lifeVars, callVars, idleVars
<1>1. ListsInv' /\ BitmapInv' /\ Live' = Live /\ Sleeping' = Sleeping
  BY EndFrame
<1>2. nextUnblock' \in 0 .. MaxTick /\ pendedLeft' \in Nat
  BY EndResetType DEF EndInv, EndTypeOK, SuspensionInv
<1>3. /\ yieldPending' \in BOOLEAN /\ switchReq' = FALSE /\ mode' = "resume"
      /\ switchReq \/ yieldPending => yieldPending'
  BY EndSwitchRequired
<1>4. EndTypeOK'
  BY <1>2, <1>3 DEF EndInv, EndTypeOK, Mode
<1>5. EndedInv' /\ IdleInv'
  BY <1>1, <1>3 DEF EndInv, EndTypeOK, EndedInv, IdleInv
<1>6. SuspensionInv' /\ RequestInv'
  <2> HIDE DEF ResumeTickEnd
  <2>1. /\ mode = "retick" /\ pendedLeft' = pendedLeft - 1
        /\ UNCHANGED <<bitmap, task_prior, status, numberOfTasks, running,
                       current, suspended, pendSV, pc>>
    BY DEF ResumeTickEnd
  <2> QED BY <1>1, <1>3, <2>1 DEF EndInv, EndTypeOK, SuspensionInv, RequestInv, Suspending
<1> QED BY <1>1, <1>4, <1>5, <1>6 DEF EndInv

(* A due task is made ready; one that has ended is never among them.        *)
LEMMA TickWakeEnd ==
  ASSUME EndInv, TickWake, UNCHANGED idleVars PROVE EndInv'
<1> DEFINE t == lists.head[ptrDelay]
           p == task_prior[t]
<1>1. lists \in ListMem /\ Linked(lists, Live) /\ Live \in SUBSET Task /\ LinksOK
  BY EndLinks
<1>2. ptrDelay \in DelayList /\ ptrDelay \in ListId
  BY DEF EndInv, EndTypeOK, ListId
<1>3. t \in Live /\ lists.taskListHead[t] = ptrDelay
  BY <1>1, <1>2 DEF TickWake, Due, Linked, HeadsAgree
<1>4. /\ mode \in {"isr", "retick"}
      /\ lists' = AppendReady(os_taskListRemove(lists, t), t, p)
      /\ bitmap' = bitmap \cup {p}
      /\ switchReq' = (switchReq \/ p >= task_prior[current])
      /\ UNCHANGED <<task_prior, ticksToDelay, ptrDelay, status, numberOfTasks,
                     running, tickCount, nextUnblock, pendedTicks, current,
                     suspended, yieldPending, pendSV, mode, pendedLeft, pc, wait,
                     heapCalls, other, terminating, tcb, idleAt, unblock>>
  BY DEF TickWake, lifeVars, tickVars, swapVars, callVars, idleVars
<1> HIDE DEF t
<1>5. /\ LinksOK'
      /\ Live' = Live
      /\ lists'.taskListHead = [lists.taskListHead EXCEPT ![t] = p]
      /\ Elsewhere(Live)
  BY <1>1, <1>2, <1>3, <1>4, WakeLinks
<1>6. p \in Prio /\ t \in Task
  BY <1>1, <1>3 DEF LinksOK
<1>7. switchReq' \in BOOLEAN /\ (switchReq' <=> switchReq \/ p >= task_prior[current])
  BY <1>4 DEF EndInv, EndTypeOK
<1>8. EndTypeOK'
  BY <1>4, <1>5, <1>7 DEF EndInv, EndTypeOK, LinksOK
<1>9. Sleeping' = Sleeping \ {t}
  BY <1>1, <1>3, <1>5, <1>6 DEF Sleeping, ListMem, Prio, DelayList, DELAY1, DELAY2
<1>10. EndedInv'
  BY <1>3, <1>4, <1>5 DEF EndInv, EndTypeOK, EndedInv, Elsewhere, Live
<1>11. t # Idle
  <2>1. running
    BY <1>4 DEF EndInv, IdleInv
  <2> QED BY <1>2, <1>3, <2>1 DEF EndInv, IdleInv, DelayList, DELAY1, DELAY2
<1>12. IdleInv'
  BY <1>1, <1>4, <1>5, <1>6, <1>11 DEF EndInv, EndTypeOK, IdleInv, ListMem
<1>13. SuspensionInv'
  BY <1>4 DEF EndInv, SuspensionInv, Suspending
<1>14. RequestInv'
  <2>1. current # NULL /\ current \in Task
    BY <1>4 DEF EndInv, EndTypeOK, IdleInv, Ptr
  <2>2. ~(p >= task_prior[current]) => p <= task_prior[current]
    BY <1>6, <2>1 DEF EndInv, EndTypeOK, Prio
  <2> QED BY <1>4, <1>7, <1>9, <2>1, <2>2 DEF EndInv, RequestInv
<1> QED BY <1>5, <1>8, <1>10, <1>12, <1>13, <1>14 DEF EndInv, LinksOK

(* The context switch: it leaves a task that has ended, and never takes one *)
(* (task.c:55-63).                                                          *)
LEMMA PendSVEnd ==
  ASSUME EndInv, PendSV, UNCHANGED idleVars PROVE EndInv'
<1> USE DEF PendSV, listVars, lifeVars, tickVars, loopVars, callVars, idleVars
<1>1. ListsInv' /\ BitmapInv' /\ Live' = Live /\ Sleeping' = Sleeping
  BY EndFrame
<1>2. suspended = 0
  BY DEF EndInv, RequestInv
<1>3. /\ current' \in Live
      /\ lists.taskListHead[current'] \in bitmap
      /\ \A p \in bitmap : p <= lists.taskListHead[current']
  BY <1>2, EndLinks, TopReady DEF EndInv, IdleInv, Live
<1>4. current' \in Task /\ status[current'] = "live"
  BY <1>3 DEF Live
<1>5. lists.taskListHead[current'] = task_prior[current'] /\ current' \notin Sleeping
  <2>1. \A u \in Live : lists.taskListHead[u] \in bitmap
                          => /\ lists.taskListHead[u] = task_prior[u]
                             /\ u \notin Sleeping
    <3> SUFFICES ASSUME NEW u \in Live, lists.taskListHead[u] \in bitmap
                 PROVE  /\ lists.taskListHead[u] = task_prior[u]
                        /\ u \notin Sleeping
      OBVIOUS
    <3>1. lists.taskListHead[u] \in Prio
      BY DEF EndInv, EndTypeOK
    <3>2. lists.taskListHead[u] = task_prior[u]
      BY <3>1 DEF EndInv, ListsInv
    <3>3. lists.taskListHead[u] \notin DelayList
      BY <3>1 DEF Prio, DelayList, DELAY1, DELAY2
    <3> QED BY <3>2, <3>3 DEF Sleeping
  <2> QED BY <1>3, <2>1
<1>6. EndTypeOK'
  BY <1>2, <1>4 DEF EndInv, EndTypeOK, Ptr
<1>7. EndedInv' /\ IdleInv'
  BY <1>1, <1>4 DEF EndInv, EndTypeOK, EndedInv, IdleInv
<1>8. SuspensionInv'
  BY <1>2, <1>4 DEF EndInv, EndTypeOK, IdleInv, SuspensionInv, Suspending, Ptr
<1>9. RequestInv'
  BY <1>1, <1>2, <1>3, <1>4, <1>5 DEF EndInv, EndTypeOK, RequestInv, EndedInv
<1> QED BY <1>1, <1>6, <1>7, <1>8, <1>9 DEF EndInv

(* The running task goes to sleep.                                          *)
LEMMA DelayAddEnd ==
  ASSUME EndInv, NEW t \in Task, DelayAdd(t), UNCHANGED idleVars PROVE EndInv'
<1> DEFINE removed == os_taskListRemove(lists, t)
           time == TimeToWake(t)
           L == IF Wraps(time) THEN Overflow ELSE ptrDelay
           wake == [ticksToDelay EXCEPT ![t] = time]
<1>1. /\ running /\ mode = "run" /\ ~pendSV /\ current = t /\ pc[t] = "delay"
      /\ bitmap' = ClearIfEmpty(removed, task_prior[t])
      /\ ticksToDelay' = wake
      /\ lists' = os_listInsertByDelay(removed, t, L, wake)
      /\ nextUnblock' = SoonerUnblock(time)
      /\ wait' = [wait EXCEPT ![t] = 0]
      /\ pc' = [pc EXCEPT ![t] = "resumeDelay"]
      /\ UNCHANGED <<task_prior, ptrDelay, status, numberOfTasks, running,
                     tickCount, pendedTicks, current, suspended, yieldPending,
                     pendSV, mode, pendedLeft, switchReq, heapCalls, other,
                     terminating, tcb, idleAt, unblock>>
  BY DEF DelayAdd, At, Goto, lifeVars, swapVars, loopVars, idleVars
<1>2. t \in Live /\ t # Idle /\ Live \in SUBSET Task
  <2>1. status[t] = "live"
    BY <1>1 DEF EndInv, EndTypeOK, EndedInv, IdleInv
  <2>2. t # Idle
    BY <1>1 DEF EndInv, IdleInv
  <2> QED BY <2>1, <2>2 DEF Live
<1>3. time \in 0 .. MaxTick /\ nextUnblock' \in 0 .. MaxTick
  <2>1. tickCount + wait[t] \in Int
    BY DEF EndInv, EndTypeOK
  <2>2. time \in 0 .. MaxTick
    BY <2>1, SumMod DEF TimeToWake
  <2> QED BY <1>1, <2>2 DEF EndInv, EndTypeOK, SoonerUnblock
<1>4. L \in DelayList /\ L \in ListId \ Prio
  BY DEF EndInv, EndTypeOK, Overflow, DelayList, DELAY1, DELAY2, Prio, ListId
<1>5. LinksOK /\ lists \in ListMem
  BY EndLinks
<1> HIDE DEF removed, L, time
<1>6. /\ LinksOK'
      /\ Live' = Live
      /\ lists'.taskListHead = [lists.taskListHead EXCEPT ![t] = L]
      /\ Elsewhere(Live)
  BY <1>1, <1>2, <1>4, <1>5, SleepLinks DEF removed
<1>7. EndTypeOK'
  <2>1. ticksToDelay' \in [Task -> 0 .. MaxTick] /\ wait' \in [Task -> 0 .. MaxTick]
    BY <1>1, <1>3 DEF EndInv, EndTypeOK
  <2>2. pc' \in [Task -> EndLabel]
    BY <1>1 DEF EndInv, EndTypeOK
  <2> QED BY <1>1, <1>3, <1>6, <2>1, <2>2 DEF EndInv, EndTypeOK, LinksOK
<1>8. Sleeping' = Sleeping \cup {t}
  BY <1>2, <1>4, <1>5, <1>6 DEF Sleeping, ListMem
<1>9. EndedInv'
  BY <1>1, <1>2, <1>6 DEF EndInv, EndTypeOK, EndedInv, Elsewhere, Live
<1>10. IdleInv'
  BY <1>1, <1>2, <1>5, <1>6 DEF EndInv, EndTypeOK, IdleInv, ListMem
<1>11. SuspensionInv' /\ RequestInv'
  BY <1>1, <1>2, <1>8 DEF EndInv, EndTypeOK, SuspensionInv, RequestInv, Suspending
<1> QED BY <1>6, <1>7, <1>9, <1>10, <1>11 DEF EndInv, LinksOK

(* A new task of main() or IDLE joins the lists.                            *)
LEMMA AddNewTaskEnd ==
  ASSUME EndInv, ~running, NEW t \in Task, t \notin Live, NEW p \in Prio,
         AddNewTask(t, p), BecomesCurrent(t, p)
  PROVE  /\ LinksOK'
         /\ Live' = Live \cup {t}
         /\ lists'.taskListHead = [lists.taskListHead EXCEPT ![t] = p]
         /\ current' \in Live' /\ current' \in Task
         /\ status'[current'] = "live"
         /\ numberOfTasks' \in Nat
         /\ \A r \in bitmap' : r <= task_prior'[current']
         /\ Sleeping' = Sleeping
<1>1. lists \in ListMem /\ Live \in SUBSET Task /\ LinksOK
  BY EndLinks
<1>2. /\ LinksOK'
      /\ Live' = Live \cup {t}
      /\ lists'.taskListHead = [lists.taskListHead EXCEPT ![t] = p]
  BY <1>1, AddTaskLinks DEF AddNewTask
<1>3. current \in Live \cup {NULL}
  BY DEF EndInv, IdleInv
<1>4. current' \in Live' /\ current' \in Task
  BY <1>1, <1>2, <1>3 DEF BecomesCurrent
<1>5. status'[current'] = "live"
  BY <1>4 DEF Live
<1>6. numberOfTasks' \in Nat
  BY DEF EndInv, EndTypeOK, AddNewTask
<1>7. \A r \in bitmap' : r <= task_prior'[current']
  <2>1. /\ bitmap' = bitmap \cup {p}
        /\ task_prior' = [task_prior EXCEPT ![t] = p]
        /\ task_prior \in [Task -> Prio] /\ bitmap \subseteq Prio
    BY <1>1 DEF AddNewTask, LinksOK
  <2>2. CASE current = NULL
    <3>1. bitmap = {}
      BY <2>2 DEF EndInv, RequestInv
    <3> QED BY <2>1, <2>2, <3>1 DEF BecomesCurrent, Prio
  <2>3. CASE current # NULL
    <3>1. current \in Live /\ current # t /\ current \in Task
      BY <1>1, <1>3, <2>3
    <3>2. \A r \in bitmap : r <= task_prior[current]
      <4>1. /\ ~pendSV /\ mode = "run" /\ pc[current] = "user"
        BY <3>1 DEF EndInv, IdleInv
      <4> QED BY <2>3, <4>1 DEF EndInv, RequestInv
    <3>3. CASE task_prior[current] <= p
      BY <2>1, <3>1, <3>2, <3>3 DEF BecomesCurrent, Prio
    <3>4. CASE ~(task_prior[current] <= p)
      <4>1. current' = current
        BY <2>3, <3>4 DEF BecomesCurrent
      <4> QED BY <2>1, <3>1, <3>2, <3>4, <4>1 DEF Prio
    <3> QED BY <3>3, <3>4
  <2> QED BY <2>2, <2>3
<1>8. Sleeping' = Sleeping
  BY <1>1, <1>2 DEF Sleeping, ListMem, Prio, DelayList, DELAY1, DELAY2
<1> QED BY <1>2, <1>4, <1>5, <1>6, <1>7, <1>8

(* main() creates a task.                                                   *)
LEMMA BootCreateEnd ==
  ASSUME EndInv, NEW t \in Task, BootCreate(t), UNCHANGED idleVars
  PROVE  EndInv'
<1>1. PICK arg \in PrioArgs :
        /\ ~running /\ t # Idle /\ status[t] = "free"
        /\ AddNewTask(t, Clamp(arg)) /\ BecomesCurrent(t, Clamp(arg))
        /\ UNCHANGED <<ticksToDelay, ptrDelay, running, tickCount, nextUnblock,
                       pendedTicks, suspended, yieldPending, pendSV, mode,
                       pendedLeft, switchReq, pc, wait, heapCalls, other,
                       terminating, tcb, idleAt, unblock>>
  BY DEF BootCreate, tickVars, loopVars, callVars, idleVars
<1> DEFINE p == Clamp(arg)
<1>2. p \in Prio
  BY ClampPrio
<1> HIDE DEF p
<1>3. t \notin Live
  BY <1>1 DEF Live
<1>4. /\ LinksOK'
      /\ Live' = Live \cup {t}
      /\ lists'.taskListHead = [lists.taskListHead EXCEPT ![t] = p]
      /\ current' \in Live' /\ current' \in Task
      /\ status'[current'] = "live"
      /\ numberOfTasks' \in Nat
      /\ \A r \in bitmap' : r <= task_prior'[current']
      /\ Sleeping' = Sleeping
  BY <1>1, <1>2, <1>3, AddNewTaskEnd DEF p
<1>5. /\ status' = [status EXCEPT ![t] = "live"]
      /\ task_prior' = [task_prior EXCEPT ![t] = p]
  BY <1>1 DEF AddNewTask, p
<1>6. EndTypeOK'
  BY <1>1, <1>4, <1>5 DEF EndInv, EndTypeOK, LinksOK, Ptr
<1>7. terminating = NULL /\ tcb = NULL
  BY <1>1 DEF EndInv, EndTypeOK, EndedInv, IdleInv
<1>8. EndedInv'
  BY <1>1, <1>5, <1>7 DEF EndInv, EndTypeOK, EndedInv, IdleInv
<1>9. IdleInv'
  BY <1>1, <1>2, <1>3, <1>4, <1>5 DEF EndInv, EndTypeOK, IdleInv, Live
<1>10. SuspensionInv' /\ RequestInv'
  <2>1. /\ mode = "run" /\ ~pendSV /\ suspended = 0
        /\ \A u \in Task : pc[u] = "user"
        /\ ~yieldPending /\ ~switchReq
    BY <1>1 DEF EndInv, IdleInv, SuspensionInv, RequestInv
  <2>2. SuspensionInv'
    BY <1>1, <1>4, <2>1 DEF SuspensionInv, Suspending
  <2>3. current' \notin Sleeping'
    BY <1>1, <1>3, <1>4, <2>1 DEF EndInv, EndTypeOK, RequestInv, BecomesCurrent, Sleeping, Ptr
  <2>4. RequestInv'
    BY <1>1, <1>4, <2>1, <2>3 DEF RequestInv
  <2> QED BY <2>2, <2>4
<1> QED BY <1>4, <1>6, <1>8, <1>9, <1>10 DEF EndInv, LinksOK

(* os_taskStartScheduler creates IDLE and starts.                           *)
LEMMA StartEnd == ASSUME EndInv, Start, UNCHANGED idleVars PROVE EndInv'
<1>1. /\ ~running /\ running' = TRUE /\ tickCount' = 0 /\ nextUnblock' = MaxTick
      /\ AddNewTask(Idle, 0) /\ BecomesCurrent(Idle, 0)
      /\ UNCHANGED <<ticksToDelay, ptrDelay, pendedTicks, suspended, yieldPending,
                     pendSV, mode, pendedLeft, switchReq, pc, wait, heapCalls,
                     other, terminating, tcb, idleAt, unblock>>
  BY DEF Start, loopVars, callVars, idleVars
<1>2. 0 \in Prio /\ Idle \notin Live
  BY <1>1 DEF EndInv, IdleInv, Prio, Live
<1>3. /\ LinksOK'
      /\ Live' = Live \cup {Idle}
      /\ lists'.taskListHead = [lists.taskListHead EXCEPT ![Idle] = 0]
      /\ current' \in Live' /\ current' \in Task
      /\ status'[current'] = "live"
      /\ numberOfTasks' \in Nat
      /\ \A r \in bitmap' : r <= task_prior'[current']
      /\ Sleeping' = Sleeping
  BY <1>1, <1>2, AddNewTaskEnd
<1>4. /\ status' = [status EXCEPT ![Idle] = "live"]
      /\ task_prior' = [task_prior EXCEPT ![Idle] = 0]
  BY <1>1 DEF AddNewTask
<1>5. EndTypeOK'
  BY <1>1, <1>3, <1>4 DEF EndInv, EndTypeOK, LinksOK, Ptr
<1>6. terminating = NULL /\ tcb = NULL
  BY <1>1 DEF EndInv, EndTypeOK, EndedInv, IdleInv
<1>7. EndedInv'
  BY <1>1, <1>4, <1>6 DEF EndInv, EndTypeOK, EndedInv, IdleInv
<1>8. lists \in ListMem /\ Live \in SUBSET Task
  BY EndLinks
<1>9. IdleInv'
  BY <1>1, <1>3, <1>4, <1>8 DEF EndInv, EndTypeOK, IdleInv, ListMem, Live
<1>10. SuspensionInv' /\ RequestInv'
  <2>1. /\ mode = "run" /\ ~pendSV /\ suspended = 0
        /\ \A u \in Task : pc[u] = "user"
        /\ ~yieldPending /\ ~switchReq
    BY <1>1 DEF EndInv, IdleInv, SuspensionInv, RequestInv
  <2>2. SuspensionInv'
    BY <1>1, <1>3, <2>1 DEF SuspensionInv, Suspending
  <2>3. current' \notin Sleeping'
    BY <1>1, <1>2, <1>3, <2>1 DEF EndInv, EndTypeOK, RequestInv, BecomesCurrent, Sleeping, Ptr
  <2>4. RequestInv'
    BY <1>1, <1>3, <2>1, <2>3 DEF RequestInv
  <2> QED BY <2>2, <2>4
<1> QED BY <1>3, <1>5, <1>7, <1>9, <1>10 DEF EndInv, LinksOK
-----------------------------------------------------------------------------
(* Linked lists stay linked when the links of a TCB outside them change.    *)
LEMMA OutsideLinked ==
  ASSUME NEW m \in ListMem, NEW S \in SUBSET Task, Linked(m, S),
         NEW t \in Task \ S, NEW r,
         r.head = m.head, r.taskListHead = m.taskListHead,
         r.next = [m.next EXCEPT ![t] = NULL],
         r.last = [m.last EXCEPT ![t] = NULL]
  PROVE  Linked(r, S)
<1>1. \A u \in S : r.next[u] = m.next[u] /\ r.last[u] = m.last[u]
  BY DEF ListMem
<1>2. NoCycle(r.next, S) /\ NoCycle(r.last, S)
  BY <1>1 DEF Linked, NoCycle
<1>3. LinksAgree(r, S)
  BY <1>1 DEF Linked, LinksAgree
<1>4. HeadsAgree(r, S)
  BY <1>1 DEF Linked, HeadsAgree
<1> QED BY <1>2, <1>3, <1>4 DEF Linked

(* The running task deletes itself: it is ready, so what it remembers is    *)
(* its own ready list. If it is the only one to have ended, the list of     *)
(* those to be deleted was empty.                                           *)
LEMMA EndSelfEnd ==
  ASSUME EndInv, OneEnded', NEW t \in Task, EndSelf(t) PROVE EndInv'
<1> DEFINE removed == os_taskListRemove(lists, t)
<1>1. /\ running /\ mode = "run" /\ ~pendSV /\ current = t /\ pc[t] = "user"
      /\ t \in Quitters
      /\ lists' = os_listInsertEnd(removed, t, terminating)
      /\ bitmap' = ClearIfEmpty(removed, task_prior[t])
      /\ terminating' = IF terminating = NULL THEN t ELSE terminating
      /\ status' = [status EXCEPT ![t] = "dead"]
      /\ pc' = [pc EXCEPT ![t] = "ended"]
      /\ UNCHANGED <<task_prior, ticksToDelay, ptrDelay, numberOfTasks, running,
                     tickCount, nextUnblock, pendedTicks, current, suspended,
                     yieldPending, pendSV, mode, pendedLeft, switchReq, wait,
                     heapCalls, other, idleAt, tcb, unblock>>
  BY DEF EndSelf, At, Goto, tickVars, swapVars, loopVars
<1>2. t \in Live /\ t # Idle /\ Live \in SUBSET Task
  BY <1>1 DEF EndInv, EndTypeOK, EndedInv, IdleInv, Live
<1>3. terminating = NULL
  <2>1. status'[t] = "dead"
    BY <1>1 DEF EndInv, EndTypeOK
  <2>2. terminating # NULL => status'[terminating] = "dead"
    BY <1>1 DEF EndInv, EndTypeOK, EndedInv
  <2>3. terminating # NULL => terminating = t
    BY <2>1, <2>2 DEF EndInv, EndTypeOK, OneEnded
  <2> QED BY <1>2, <2>3 DEF EndInv, EndedInv, Live
<1>4. LinksOK /\ lists \in ListMem /\ Linked(lists, Live)
  BY EndLinks
<1>5. lists.taskListHead[t] = task_prior[t] /\ task_prior[t] \in Prio \ {0}
  <2>1. t \notin Sleeping
    BY <1>1 DEF EndInv, RequestInv
  <2>2. lists.taskListHead[t] \in Prio
    BY <1>2, <1>4, <2>1 DEF Sleeping, Linked, LinksAgree, ListId
  <2>3. lists.taskListHead[t] = task_prior[t]
    BY <1>2, <2>2 DEF EndInv, ListsInv
  <2>4. task_prior[t] > 0
    <3>1. status'[t] = "dead" /\ task_prior' = task_prior
      BY <1>1 DEF EndInv, EndTypeOK
    <3> QED BY <3>1 DEF OneEnded
  <2> QED BY <2>2, <2>3, <2>4 DEF Prio
<1>6. /\ removed \in ListMem
      /\ removed.stuck = lists.stuck
      /\ removed.taskListHead = lists.taskListHead
      /\ Linked(removed, Live \ {t})
      /\ \A p \in Prio : p \in bitmap' <=> removed.head[p] # NULL
  BY <1>1, <1>2, <1>4, RemoveLinks
<1>7. lists' = [removed EXCEPT !.next[t] = NULL, !.last[t] = NULL]
  BY <1>1, <1>3 DEF os_listInsertEnd
<1> HIDE DEF removed
<1>8. /\ Linked(lists', Live \ {t}) /\ lists' \in ListMem
      /\ lists'.head = removed.head
      /\ lists'.taskListHead = lists.taskListHead
      /\ lists'.stuck = lists.stuck
      /\ lists'.next[t] = NULL /\ lists'.last[t] = NULL
  <2>1. lists' = [head |-> removed.head, next |-> [removed.next EXCEPT ![t] = NULL],
                  last |-> [removed.last EXCEPT ![t] = NULL],
                  taskListHead |-> removed.taskListHead, stuck |-> removed.stuck]
    BY <1>6, <1>7 DEF ListMem
  <2>2. /\ lists'.head = removed.head
        /\ lists'.taskListHead = removed.taskListHead
        /\ lists'.stuck = removed.stuck
        /\ lists'.next = [removed.next EXCEPT ![t] = NULL]
        /\ lists'.last = [removed.last EXCEPT ![t] = NULL]
    BY <2>1
  <2>3. /\ removed.next \in [Task -> Ptr] /\ removed.last \in [Task -> Ptr]
        /\ removed.head \in [ListId -> Ptr]
    BY <1>6 DEF ListMem
  <2>4. /\ [removed.next EXCEPT ![t] = NULL] \in [Task -> Ptr]
        /\ [removed.last EXCEPT ![t] = NULL] \in [Task -> Ptr]
    BY <2>3 DEF Ptr
  <2>5. lists' \in ListMem
    BY <1>6, <2>1, <2>3, <2>4 DEF ListMem
  <2>6. Live \ {t} \in SUBSET Task /\ t \in Task \ (Live \ {t})
    BY <1>2
  <2>7. Linked(lists', Live \ {t})
    BY <1>6, <2>2, <2>6, OutsideLinked
  <2>8. lists'.next[t] = NULL /\ lists'.last[t] = NULL
    BY <2>2, <2>3
  <2> QED BY <1>6, <2>2, <2>5, <2>7, <2>8
<1>9. Live' = Live \ {t}
  BY <1>1 DEF Live, EndInv, EndTypeOK
<1>10. ListsInv' /\ BitmapInv'
  BY <1>1, <1>4, <1>6, <1>8, <1>9 DEF EndInv, ListsInv, BitmapInv
<1>11. bitmap' \subseteq bitmap
  BY <1>1 DEF ClearIfEmpty
<1>12. EndTypeOK'
  <2>1. status' \in [Task -> {"free", "live", "dead"}] /\ pc' \in [Task -> EndLabel]
    BY <1>1 DEF EndInv, EndTypeOK
  <2>2. terminating' \in Quitters \cup {NULL} /\ tcb' \in {NULL, terminating'}
    BY <1>1, <1>3 DEF EndInv, EndTypeOK
  <2> QED BY <1>1, <1>8, <1>11, <2>1, <2>2 DEF EndInv, EndTypeOK
<1>13. EndedInv'
  BY <1>1, <1>3, <1>5, <1>8 DEF EndInv, EndTypeOK, EndedInv
<1>14. IdleInv'
  BY <1>1, <1>2, <1>8, <1>9 DEF EndInv, EndTypeOK, IdleInv
<1>15. SuspensionInv'
  BY <1>1 DEF EndInv, EndTypeOK, SuspensionInv, Suspending
<1>16. RequestInv'
  BY <1>1, <1>9, <1>11 DEF EndInv, EndTypeOK, RequestInv, Sleeping
<1> QED BY <1>10, <1>12, <1>13, <1>14, <1>15, <1>16 DEF EndInv

(* TRIGGER() at the end of os_taskDelete: only then is the task gone.       *)
LEMMA EndTriggerEnd ==
  ASSUME EndInv, NEW t \in Task, EndTrigger(t) PROVE EndInv'
<1> USE DEF EndTrigger, At, Goto, listVars, lifeVars, tickVars, loopVars, idleVars
<1>1. ListsInv' /\ BitmapInv' /\ Live' = Live /\ Sleeping' = Sleeping
  BY EndFrame
<1>2. EndTypeOK'
  BY DEF EndInv, EndTypeOK
<1>3. EndedInv' /\ IdleInv'
  BY <1>1 DEF EndInv, EndTypeOK, EndedInv, IdleInv
<1>4. SuspensionInv' /\ RequestInv'
  BY <1>1 DEF EndInv, EndTypeOK, SuspensionInv, RequestInv, Suspending
<1> QED BY <1>1, <1>2, <1>3, <1>4 DEF EndInv

(* While IDLE runs its own code, its ready list is the only one with a task.*)
LEMMA IdleAlways ==
  ASSUME EndInv, At(Idle, "user") PROVE \A p \in Prio \ {0} : lists.head[p] = NULL
<1>1. \A p \in bitmap : p <= task_prior[Idle]
  BY DEF EndInv, RequestInv, At
<1>2. task_prior[Idle] = 0
  BY DEF EndInv, IdleInv, ListsInv, Live, Prio, At
<1>3. bitmap \subseteq {0}
  BY <1>1, <1>2 DEF EndInv, EndTypeOK, Prio
<1> QED BY <1>3 DEF EndInv, BitmapInv

(* So its removal of the ended task (task.c:469) changes nothing.           *)
LEMMA IdleRemoveNothing ==
  ASSUME EndInv, IdleRemove PROVE lists' = lists
<1>1. At(Idle, "user") /\ idleAt = "remove"
      /\ lists' = os_taskListRemove(lists, tcb)
  BY DEF IdleRemove, IdleRuns
<1>2. /\ tcb \in Task
      /\ lists.next[tcb] = NULL /\ lists.last[tcb] = NULL
      /\ lists.taskListHead[tcb] \in Prio \ {0}
  BY <1>1 DEF EndInv, EndTypeOK, EndedInv
<1>3. lists.head[lists.taskListHead[tcb]] = NULL
  BY <1>1, <1>2, IdleAlways
<1>4. os_taskListRemove(lists, tcb)
        = [lists EXCEPT !.head[lists.taskListHead[tcb]] = lists.next[tcb]]
  BY <1>2 DEF os_taskListRemove
<1>5. lists \in ListMem
  BY EndLinks
<1>6. [lists.head EXCEPT ![lists.taskListHead[tcb]] = NULL] = lists.head
  BY <1>3, <1>5 DEF ListMem
<1>7. lists = [head |-> lists.head, next |-> lists.next, last |-> lists.last,
               taskListHead |-> lists.taskListHead, stuck |-> lists.stuck]
  BY <1>5 DEF ListMem
<1>8. [lists EXCEPT !.head[lists.taskListHead[tcb]] = NULL]
        = [head |-> [lists.head EXCEPT ![lists.taskListHead[tcb]] = NULL],
           next |-> lists.next, last |-> lists.last,
           taskListHead |-> lists.taskListHead, stuck |-> lists.stuck]
  BY <1>5 DEF ListMem
<1> QED BY <1>1, <1>2, <1>4, <1>6, <1>7, <1>8

(* The loop of IdleTask.                                                    *)
LEMMA IdleStepEnd == ASSUME EndInv, IdleStep PROVE EndInv'
<1> USE DEF At, listVars, lifeVars, tickVars, swapVars, loopVars, callVars, idleVars, vars
<1>1. UNCHANGED <<lists, status, task_prior, bitmap>>
  BY IdleRemoveNothing DEF IdleStep, IdleTest, IdleRemove, IdleFree, IdleCount,
     IdleLoad, IdleStore
<1>2. ListsInv' /\ BitmapInv' /\ Live' = Live /\ Sleeping' = Sleeping
  BY <1>1, EndFrame
<1>3. ASSUME IdleTest PROVE EndInv'
  BY <1>2, <1>3 DEF IdleTest, IdleRuns, EndInv, EndTypeOK, IdleAt, EndedInv, IdleInv,
     SuspensionInv, RequestInv
<1>4. ASSUME IdleRemove PROVE EndInv'
  BY <1>1, <1>2, <1>4 DEF IdleRemove, IdleRuns, EndInv, EndTypeOK, IdleAt, EndedInv, IdleInv,
     SuspensionInv, RequestInv
<1>5. ASSUME IdleFree PROVE EndInv'
  <2>1. EndTypeOK'
    BY <1>5 DEF IdleFree, IdleRuns, Goto, EndInv, EndTypeOK, IdleAt
  <2>2. EndedInv' /\ IdleInv'
    BY <1>2, <1>5 DEF IdleFree, IdleRuns, Goto, EndInv, EndTypeOK, EndedInv, IdleInv
  <2>3. SuspensionInv' /\ RequestInv'
    BY <1>2, <1>5 DEF IdleFree, IdleRuns, Goto, EndInv, EndTypeOK, SuspensionInv,
       RequestInv, Suspending
  <2> QED BY <1>2, <2>1, <2>2, <2>3 DEF EndInv
<1>6. ASSUME IdleCount PROVE EndInv'
  <2>1. numberOfTasks' \in Nat
    BY <1>6 DEF IdleCount, EndInv, EndTypeOK
  <2> QED
    BY <1>2, <1>6, <2>1 DEF IdleCount, IdleRuns, EndInv, EndTypeOK, IdleAt, EndedInv,
       IdleInv, SuspensionInv, RequestInv
<1>7. ASSUME IdleLoad PROVE EndInv'
  <2>1. unblock' \in 0 .. MaxTick
    BY <1>7, EndResetType DEF IdleLoad, EndInv, EndTypeOK
  <2> QED
    BY <1>2, <1>7, <2>1 DEF IdleLoad, IdleRuns, EndInv, EndTypeOK, IdleAt, EndedInv,
       IdleInv, SuspensionInv, RequestInv
<1>8. ASSUME IdleStore PROVE EndInv'
  BY <1>2, <1>8 DEF IdleStore, IdleRuns, EndInv, EndTypeOK, IdleAt, EndedInv, IdleInv,
     SuspensionInv, RequestInv
<1> QED BY <1>3, <1>4, <1>5, <1>6, <1>7, <1>8 DEF IdleStep
-----------------------------------------------------------------------------
(***************************************************************************)
(* What holds of the ended tasks in every state, also where the lists are   *)
(* broken.                                                                  *)
(***************************************************************************)
StatusInv ==
  /\ status \in [Task -> {"free", "live", "dead"}]
  /\ task_prior \in [Task -> Prio]
  /\ other = [t \in Task |-> NULL]
  /\ status[Idle] # "dead"

StillEnded ==
  \A t \in Task : status[t] = "dead" => status'[t] = "dead" /\ task_prior'[t] = task_prior[t]

(* Steps that leave the tasks alone keep it.                                *)
LEMMA StatusFrame ==
  ASSUME StatusInv, UNCHANGED <<status, task_prior, other>>
  PROVE  StatusInv' /\ StillEnded
BY DEF StatusInv, StillEnded

(* A task is created where there was none.                                  *)
LEMMA StatusAdd ==
  ASSUME StatusInv, NEW t \in Task, status[t] # "dead", NEW p \in Prio,
         AddNewTask(t, p), UNCHANGED other
  PROVE  StatusInv' /\ StillEnded
BY DEF StatusInv, StillEnded, AddNewTask

(* Nobody deletes another task, or creates one while the scheduler runs.    *)
LEMMA StatusKernel ==
  ASSUME StatusInv, NEW t \in Task, DelayCall(t) \/ Kernel(t)
  PROVE  StatusInv' /\ StillEnded
<1>1. CASE HeapDone(t)
  BY <1>1, StatusFrame DEF HeapDone, StatusInv, listVars
<1>2. CASE CreateLink(t)
  <2>1. PICK arg \in PrioArgs : AddNewTask(other[t], Clamp(arg)) /\ UNCHANGED other
    BY <1>2 DEF CreateLink
  <2>2. other[t] \notin Task
    BY DEF StatusInv
  <2>3. UNCHANGED <<status, task_prior, other>>
    BY <2>1, <2>2 DEF AddNewTask, StatusInv
  <2> QED BY <2>3, StatusFrame
<1>3. CASE CreateYield(t)
  <2>1. UNCHANGED <<status, task_prior, other>>
    BY <1>3 DEF CreateYield, StatusInv, listVars, lifeVars
  <2> QED BY <2>1, StatusFrame
<1>4. CASE DelayCall(t) \/ DelayAdd(t) \/ DelayTrigger(t) \/ ResumeEnter(t)
           \/ ResumeExit(t) \/ HeapCall(t)
  BY <1>4, StatusFrame DEF DelayCall, DelayAdd, DelayTrigger, ResumeEnter, ResumeExit,
     HeapCall, listVars, lifeVars, callVars
<1> QED BY <1>1, <1>2, <1>3, <1>4 DEF Kernel

(* Once ended, a task stays so, with its priority.                          *)
LEMMA EndedGrow ==
  ASSUME StatusInv, [TermNext]_allVars
  PROVE  StatusInv' /\ (OneEnded' => OneEnded)
<1>1. StatusInv' /\ StillEnded
  <2>1. ASSUME NEW t \in Task, BootCreate(t) PROVE StatusInv' /\ StillEnded
    <3>1. PICK arg \in PrioArgs :
            status[t] = "free" /\ AddNewTask(t, Clamp(arg)) /\ UNCHANGED other
      BY <2>1 DEF BootCreate, callVars
    <3> QED BY <3>1, ClampPrio, StatusAdd
  <2>2. CASE Start
    <3>1. status[Idle] # "dead" /\ 0 \in Prio
      BY DEF StatusInv, Prio
    <3> QED BY <2>2, <3>1, StatusAdd DEF Start, callVars
  <2>3. CASE Tick \/ InTick \/ PendSV
    <3>1. UNCHANGED <<status, task_prior, other>>
      BY <2>3 DEF Tick, InTick, SysTick, SysTickPended, ResumeTick, TickBegin, TickWake,
         SysTickEnd, ResumeTickEnd, PendSV, listVars, lifeVars, callVars
    <3> QED BY <3>1, StatusFrame
  <2>4. ASSUME NEW t \in Task, EndSelf(t) PROVE StatusInv' /\ StillEnded
    <3>1. /\ status' = [status EXCEPT ![t] = "dead"] /\ t # Idle
          /\ UNCHANGED <<task_prior, other>>
      BY <2>4 DEF EndSelf
    <3> QED BY <3>1 DEF StatusInv, StillEnded
  <2>5. ASSUME NEW t \in Task, EndTrigger(t) PROVE StatusInv' /\ StillEnded
    BY <2>5, StatusFrame DEF EndTrigger, listVars, lifeVars
  <2>6. CASE IdleStep
    <3>1. UNCHANGED <<status, task_prior, other>>
      BY <2>6 DEF IdleStep, IdleTest, IdleRemove, IdleFree, IdleCount, IdleLoad, IdleStore,
         vars, listVars, lifeVars, callVars
    <3> QED BY <3>1, StatusFrame
  <2>7. CASE UNCHANGED allVars
    BY <2>7, StatusFrame DEF allVars, vars, listVars, lifeVars, callVars
  <2> QED BY <2>1, <2>2, <2>3, <2>4, <2>5, <2>6, <2>7, StatusKernel DEF TermNext, Boot
<1>2. OneEnded' => OneEnded
  BY <1>1 DEF OneEnded, StillEnded
<1> QED BY <1>1, <1>2

(* A step to a state where one task has ended preserves the invariant.      *)
LEMMA EndStep ==
  ASSUME EndInv, OneEnded', [TermNext]_allVars PROVE EndInv'
<1>1. CASE Boot /\ UNCHANGED idleVars
  BY <1>1, BootCreateEnd, StartEnd DEF Boot
<1>2. CASE (Tick \/ InTick \/ PendSV) /\ UNCHANGED idleVars
  BY <1>2, TicksEnd, SysTickPendedEnd, TickWakeEnd, SysTickEndEnd, ResumeTickEndEnd,
     PendSVEnd DEF Tick, InTick
<1>3. ASSUME NEW t \in Task, DelayCall(t) \/ Kernel(t), UNCHANGED idleVars
      PROVE  EndInv'
  BY <1>3, DelayCallEnd, DelayAddEnd, DelayTriggerEnd, ResumeEnterEnd, ResumeExitEnd,
     HeapCallEnd, HeapDoneEnd, NoCreation DEF Kernel
<1>4. ASSUME NEW t \in Task, EndSelf(t) \/ EndTrigger(t) PROVE EndInv'
  BY <1>4, EndSelfEnd, EndTriggerEnd
<1>5. CASE IdleStep
  BY <1>5, IdleStepEnd
<1>6. CASE UNCHANGED allVars
  <2> USE <1>6 DEF allVars, vars, listVars, lifeVars, tickVars, swapVars, loopVars,
                   callVars, idleVars
  <2>1. ListsInv' /\ BitmapInv' /\ Live' = Live /\ Sleeping' = Sleeping
    BY EndFrame
  <2>2. EndTypeOK'
    BY DEF EndInv, EndTypeOK
  <2>3. EndedInv' /\ IdleInv'
    BY <2>1 DEF EndInv, EndedInv, IdleInv
  <2>4. SuspensionInv' /\ RequestInv'
    BY <2>1 DEF EndInv, SuspensionInv, RequestInv
  <2> QED BY <2>1, <2>2, <2>3, <2>4 DEF EndInv
<1> QED BY <1>1, <1>2, <1>3, <1>4, <1>5, <1>6 DEF TermNext

(***************************************************************************)
(* Whatever tasks delete themselves, and of whatever priority: EndInv holds *)
(* up to the second that does, or the first of the priority of IDLE.        *)
(***************************************************************************)
THEOREM EndSound == TermSpec => []EndInductive
<1> DEFINE J == StatusInv /\ EndInductive
<1>1. TermInit => J
  <2> SUFFICES ASSUME TermInit PROVE J
    OBVIOUS
  <2>1. EndInv
    BY EndInit
  <2>2. StatusInv
    BY <2>1 DEF TermInit, Init, StatusInv, EndInv, EndTypeOK
  <2> QED BY <2>1, <2>2 DEF EndInductive
<1>2. J /\ [TermNext]_allVars => J'
  <2> SUFFICES ASSUME StatusInv, EndInductive, [TermNext]_allVars
               PROVE  StatusInv' /\ (OneEnded' => EndInv')
    BY DEF EndInductive
  <2>1. StatusInv' /\ (OneEnded' => OneEnded)
    BY EndedGrow
  <2>2. ASSUME OneEnded' PROVE EndInv'
    <3>1. EndInv
      BY <2>1, <2>2 DEF EndInductive
    <3> QED BY <2>2, <3>1, EndStep
  <2> QED BY <2>1, <2>2
<1> QED BY <1>1, <1>2, PTL DEF TermSpec

(* Until a second task deletes itself, the first is never run again: the    *)
(* switch that os_taskDelete requests (task.c:1062-1076) is taken before    *)
(* its next instruction, and no switch selects it, whatever IDLE does.      *)
THEOREM EndedNeverRun == TermSpec => []FirstNeverRuns
<1>1. EndInductive => FirstNeverRuns
  BY DEF EndInductive, FirstNeverRuns, EndInv, RequestInv, DeletedNeverRuns, At
<1> QED BY <1>1, EndSound, PTL

(***************************************************************************)
(* Until then the lists and the bitmap stay exact, every switch finds a     *)
(* ready task and preemption stays strict, although os_taskDelete leaves    *)
(* the TCB with a taskListHead, IDLE removes it again and again and         *)
(* miscounts the tasks (task.c:466-477, 321).                               *)
(***************************************************************************)
THEOREM EndStaysHarmless == TermSpec => []FirstHarmless
<1>1. EndInv => StrictPriority
  <2> SUFFICES ASSUME EndInv, NEW t \in Task, At(t, "user")
               PROVE  /\ OnList(t, task_prior[t])
                      /\ \A p \in bitmap : p <= task_prior[t]
    BY DEF StrictPriority, Executing
  <2>1. t \in Live /\ t \notin Sleeping
    BY DEF EndInv, EndTypeOK, EndedInv, IdleInv, RequestInv, At, Live
  <2>2. lists.taskListHead[t] = task_prior[t]
    BY <2>1, EndLinks DEF EndInv, ListsInv, Sleeping, Linked, LinksAgree, ListId
  <2>3. OnList(t, task_prior[t])
    BY <2>1, <2>2, EndLinks, LinkedMembers DEF OnList
  <2>4. \A p \in bitmap : p <= task_prior[t]
    BY DEF EndInv, RequestInv, At
  <2> QED BY <2>3, <2>4
<1>2. EndInv => ListsIntact
  BY EndLinks, IntactFromLinks
<1>3. EndInv => SwitchFindsTask
  BY DEF EndInv, IdleInv, SwitchFindsTask
<1>4. EndInv => BitmapExact
  BY EndLinks, BitmapFromLinks
<1>5. EndInductive => FirstHarmless
  BY <1>1, <1>2, <1>3, <1>4 DEF EndInductive, FirstHarmless
<1> QED BY <1>5, EndSound, PTL
=============================================================================
