------------------------------ MODULE Scheduler ------------------------------
(***************************************************************************)
(* The scheduler core of the kernel (task.c) on one Cortex-M3: creation,    *)
(* delay and deletion of tasks, suspension of the scheduler, the tick       *)
(* interrupt and the context switch.                                        *)
(*                                                                         *)
(* What is atomic.  SysTick and PendSV have the same, lowest priority       *)
(* (port.c:41-43), so neither preempts the other, and both are masked in a  *)
(* critical section.  A handler or a critical section is therefore one      *)
(* step, except where it contains a loop: each iteration is then a step and *)
(* `mode` keeps everything else out until the loop ends.  Task code outside *)
(* critical sections is cut at every point where an interrupt changes what  *)
(* it does next; while the scheduler is suspended an interrupt can change   *)
(* only the pended ticks and the pending yield.                             *)
(***************************************************************************)
EXTENDS TaskLists, FiniteSets

CONSTANTS
  Idle,        (* the task os_taskStartScheduler creates                     *)
  MaxTick,     (* largest clock_t: 0xffffffff in the code                    *)
  PendBound,   (* bound: ticks that may elapse in one suspended section      *)
  DelayTicks,  (* bound: the arguments tasks pass to os_delay                *)
  PrioArgs,    (* bound: the priorities passed to os_create_task             *)
  Managers     (* the tasks whose code creates and deletes other tasks       *)

ASSUME SchedulerAssumption ==
  /\ Idle \in Task
  /\ IsFiniteSet(Task)
  /\ MaxTick \in Nat \ {0}
  /\ PendBound \in Nat
  /\ DelayTicks \subseteq 0 .. MaxTick
  /\ PrioArgs \subseteq Nat
  /\ Managers \subseteq Task \ {Idle}

VARIABLES
  lists,         (* the task lists and the links in the TCBs                 *)
  task_prior,    (* TCB: priority                                            *)
  ticksToDelay,  (* TCB: the tick at which a delayed task is due             *)
  status,        (* TCB memory: "free", "new" (allocated), "live", "dead"    *)
  numberOfTasks, (* os_currentNumberOfTasks                                  *)
  bitmap,        (* os_priorityBitmap, as the set of its bits                *)
  ptrDelay,      (* os_ptrDelayTaskList; the other list is the overflow list *)
  current,       (* os_currentTCB                                            *)
  running,       (* os_schedulerRunning                                      *)
  tickCount,     (* os_tickCount                                             *)
  nextUnblock,   (* os_nextTaskUnblockTime                                   *)
  suspended,     (* os_schedulerSuspended                                    *)
  pendedTicks,   (* os_pendedTicks                                           *)
  yieldPending,  (* os_yieldPending                                          *)
  pendSV,        (* the PENDSVSET bit of the interrupt controller            *)
  mode,          (* which multi-step section runs with interrupts masked     *)
  pendedLeft,    (* uxPendedCounts in os_resumeAllTask                       *)
  switchReq,     (* SwitchRequired in os_taskIncrementTick                   *)
  pc,            (* where each task is in its kernel call                    *)
  wait,          (* per task: the argument of os_delay                       *)
  heapCalls,     (* per task: allocator calls still to make                  *)
  other          (* per task: the TCB it creates or deletes                  *)

listVars == <<lists, task_prior, ticksToDelay, bitmap, ptrDelay>>
lifeVars == <<status, numberOfTasks, running>>
tickVars == <<tickCount, nextUnblock, pendedTicks>>
swapVars == <<current, suspended, yieldPending, pendSV>>
loopVars == <<mode, pendedLeft, switchReq>>
callVars == <<pc, wait, heapCalls, other>>
vars == <<listVars, lifeVars, tickVars, swapVars, loopVars, callVars>>

Status == {"free", "new", "live", "dead"}
Mode == {"run", "isr", "resume", "retick"}
Label == {"user", "delay", "trigger", "heap", "heapBusy", "link", "linked",
          "resumeDelay", "resumeHeap"}

TypeOK ==
  /\ lists \in ListMem
  /\ task_prior \in [Task -> Prio]
  /\ ticksToDelay \in [Task -> 0 .. MaxTick]
  /\ status \in [Task -> Status]
  /\ numberOfTasks \in Int
  /\ bitmap \subseteq Prio
  /\ ptrDelay \in DelayList
  /\ current \in Ptr
  /\ running \in BOOLEAN
  /\ tickCount \in 0 .. MaxTick
  /\ nextUnblock \in 0 .. MaxTick
  /\ suspended \in Int
  /\ pendedTicks \in Nat
  /\ yieldPending \in BOOLEAN
  /\ pendSV \in BOOLEAN
  /\ mode \in Mode
  /\ pendedLeft \in Nat
  /\ switchReq \in BOOLEAN
  /\ pc \in [Task -> Label]
  /\ wait \in [Task -> 0 .. MaxTick]
  /\ heapCalls \in [Task -> 0 .. 3]
  /\ other \in [Task -> Ptr]

-----------------------------------------------------------------------------
(* os_ptrOverflowDelayTaskList *)
Overflow == IF ptrDelay = DELAY1 THEN DELAY2 ELSE DELAY1

(* os_initiNewTask: a priority out of range becomes the highest one. *)
Clamp(p) == IF p >= MaxPrio THEN MaxPrio - 1 ELSE p

(* GET_HIGHEST_PRIORITY and the head of that ready list. *)
HighestReady ==
  LET top == CHOOSE p \in bitmap : \A q \in bitmap : q <= p
  IN  lists.head[top]

(* The bitmap after a task left its ready list: task.c:705, 1033. *)
StaleBit(m, p) == bitmap          \* mutant: the bit is never cleared
ClearIfEmpty(m, p) == IF m.head[p] = NULL THEN bitmap \ {p} ELSE bitmap

(* os_resetNextTaskUnblockTime for the delay list L of m. *)
UnblockStale(m, L) == nextUnblock   \* mutant: the next due time is not reset
ResetUnblock(m, L) ==
  IF m.head[L] = NULL THEN MaxTick ELSE ticksToDelay[m.head[L]]

(* os_initiNewTask and the critical section of os_addNewTaskToReadyList. *)
NotCounted(t, p) ==                           \* mutant: the counter is left alone
  /\ task_prior' = [task_prior EXCEPT ![t] = p]
  /\ lists' = AppendReady(lists, t, p)
  /\ bitmap' = bitmap \cup {p}
  /\ status' = [status EXCEPT ![t] = "live"]
  /\ UNCHANGED numberOfTasks

AddNewTask(t, p) ==
  /\ task_prior' = [task_prior EXCEPT ![t] = p]
  /\ lists' = AppendReady(lists, t, p)
  /\ bitmap' = bitmap \cup {p}
  /\ status' = [status EXCEPT ![t] = "live"]
  /\ numberOfTasks' = numberOfTasks + 1

-----------------------------------------------------------------------------
(* Task t runs, outside any masked section, and has reached label l. *)
At(t, l) ==
  /\ running
  /\ mode = "run"
  /\ ~pendSV              \* a pending PendSV is taken first
  /\ current = t
  /\ pc[t] = l

Goto(t, l) == pc' = [pc EXCEPT ![t] = l]

(***************************************************************************)
(* Before the scheduler runs: main() creates tasks, then starts it.         *)
(***************************************************************************)
BecomesCurrent(t, p) ==
  current' = IF current = NULL \/ task_prior[current] <= p THEN t ELSE current

BootCreate(t) ==
  \E arg \in PrioArgs :
    /\ ~running
    /\ t # Idle
    /\ status[t] = "free"
    /\ AddNewTask(t, Clamp(arg))
    /\ BecomesCurrent(t, Clamp(arg))
    /\ UNCHANGED <<ticksToDelay, ptrDelay, running, tickVars, suspended,
                   yieldPending, pendSV, loopVars, callVars>>

Start ==
  /\ ~running
  /\ AddNewTask(Idle, 0)
  /\ BecomesCurrent(Idle, 0)
  /\ nextUnblock' = MaxTick
  /\ running' = TRUE
  /\ tickCount' = 0
  /\ UNCHANGED <<ticksToDelay, ptrDelay, pendedTicks, suspended,
                 yieldPending, pendSV, loopVars, callVars>>

-----------------------------------------------------------------------------
(***************************************************************************)
(* os_delay                                                                *)
(***************************************************************************)
DelayZero(t) ==
  /\ At(t, "user")
  /\ t # Idle
  /\ 0 \in DelayTicks
  /\ pendSV' = TRUE
  /\ UNCHANGED <<listVars, lifeVars, tickVars, current, suspended,
                 yieldPending, loopVars, callVars>>

DelayCall(t) ==
  \E n \in DelayTicks \ {0} :
    /\ At(t, "user")
    /\ t # Idle
    /\ suspended' = suspended + 1
    /\ wait' = [wait EXCEPT ![t] = n]
    /\ Goto(t, "delay")
    /\ UNCHANGED <<listVars, lifeVars, tickVars, current, yieldPending,
                   pendSV, loopVars, heapCalls, other>>

(***************************************************************************)
(* os_addCurrentTaskToDelayedList(ticksToWait, FALSE): the sum may wrap,    *)
(* and then the task waits on the overflow list.                            *)
(***************************************************************************)
WideSum(t) == tickCount + wait[t]             \* mutant: the sum is not clock_t
NextTick(t) == (tickCount + 1) % (MaxTick + 1)  \* mutant: the argument is ignored
TimeToWake(t) == (tickCount + wait[t]) % (MaxTick + 1)

WrapIgnored(time) == FALSE                    \* mutant: one delay list
Wraps(time) == time < tickCount

UnblockKept(time) == nextUnblock              \* mutant: a nearer time forgotten
SoonerUnblock(time) ==
  IF ~Wraps(time) /\ time < nextUnblock THEN time ELSE nextUnblock

DelayAdd(t) ==
  LET timeToWake == TimeToWake(t)
      removed    == os_taskListRemove(lists, t)
      wake       == [ticksToDelay EXCEPT ![t] = timeToWake]
  IN  /\ At(t, "delay")
      /\ bitmap' = ClearIfEmpty(removed, task_prior[t])
      /\ ticksToDelay' = wake
      /\ lists' = os_listInsertByDelay(removed, t,
                     IF Wraps(timeToWake) THEN Overflow ELSE ptrDelay, wake)
      /\ nextUnblock' = SoonerUnblock(timeToWake)
      /\ wait' = [wait EXCEPT ![t] = 0]
      /\ Goto(t, "resumeDelay")
      /\ UNCHANGED <<task_prior, ptrDelay, lifeVars, tickCount, pendedTicks,
                     swapVars, loopVars, heapCalls, other>>

(* TRIGGER() when os_resumeAllTask has not already requested the switch. *)
DelayTrigger(t) ==
  /\ At(t, "trigger")
  /\ pendSV' = TRUE
  /\ Goto(t, "user")
  /\ UNCHANGED <<listVars, lifeVars, tickVars, current, suspended,
                 yieldPending, loopVars, wait, heapCalls, other>>

-----------------------------------------------------------------------------
(***************************************************************************)
(* os_resumeAllTask: its critical section replays the pended ticks.  Its    *)
(* loop over os_pendingReadyList has nothing to move: only                  *)
(* os_taskRemoveFromEventList fills that list.                              *)
(***************************************************************************)
StillSuspended(t) ==                          \* mutant: the count stays up
  /\ \E l \in {"resumeDelay", "resumeHeap"} : At(t, l)
  /\ mode' = "resume"
  /\ pendedLeft' = pendedTicks
  /\ UNCHANGED <<listVars, lifeVars, tickVars, swapVars, switchReq, callVars>>

ResumeEnter(t) ==
  /\ \E l \in {"resumeDelay", "resumeHeap"} : At(t, l)
  /\ suspended' = suspended - 1
  /\ mode' = "resume"
  /\ pendedLeft' = IF suspended = 1 /\ numberOfTasks > 0 THEN pendedTicks ELSE 0
  /\ UNCHANGED <<listVars, lifeVars, tickVars, current, yieldPending, pendSV,
                 switchReq, callVars>>

(* The outermost resume of a running system, which replays and may yield. *)
TestedLate == suspended = 1 /\ numberOfTasks > 0   \* mutant: off by one
Outermost == suspended = 0 /\ numberOfTasks > 0

(* What follows the call: os_delay may still trigger, os_malloc and os_free *)
(* return to a caller that has more of them to do, or a task to link.       *)
AfterResume(t) ==
  IF pc[t] = "resumeDelay"
    THEN IF Outermost /\ yieldPending THEN "user" ELSE "trigger"
    ELSE IF heapCalls[t] > 0 THEN "heap"
                             ELSE IF other[t] # NULL THEN "link" ELSE "user"

ResumeExit(t) ==
  /\ mode = "resume"
  /\ current = t
  /\ pendedLeft = 0
  /\ pendedTicks' = IF Outermost THEN 0 ELSE pendedTicks
  /\ pendSV' = (Outermost /\ yieldPending)
  /\ mode' = "run"
  /\ Goto(t, AfterResume(t))
  /\ UNCHANGED <<listVars, lifeVars, tickCount, nextUnblock, current,
                 suspended, yieldPending, pendedLeft, switchReq, wait,
                 heapCalls, other>>

-----------------------------------------------------------------------------
(***************************************************************************)
(* os_taskIncrementTick, from SysTick_Handler or for a pended tick.         *)
(***************************************************************************)
TickBegin(m) ==
  LET tick == (tickCount + 1) % (MaxTick + 1)
  IN  /\ mode' = m
      /\ tickCount' = tick
      /\ ptrDelay' = IF tick = 0 THEN Overflow ELSE ptrDelay
      /\ nextUnblock' = IF tick = 0 THEN ResetUnblock(lists, Overflow)
                                    ELSE nextUnblock
      /\ UNCHANGED <<lists, task_prior, ticksToDelay, bitmap, lifeVars,
                     pendedTicks, swapVars, pendedLeft, switchReq, callVars>>

SysTickEnabled == running /\ mode = "run" /\ ~pendSV

SysTick ==
  /\ SysTickEnabled
  /\ suspended = 0
  /\ TickBegin("isr")

(* The scheduler is suspended: count the tick for os_resumeAllTask. *)
SysTickPended ==
  /\ SysTickEnabled
  /\ suspended # 0
  /\ pendedTicks < PendBound
  /\ pendedTicks' = pendedTicks + 1
  /\ pendSV' = yieldPending
  /\ UNCHANGED <<listVars, lifeVars, tickCount, nextUnblock, current,
                 suspended, yieldPending, loopVars, callVars>>

ResumeTick ==
  /\ mode = "resume"
  /\ pendedLeft > 0
  /\ TickBegin("retick")

(* The head of the delay list is due. *)
DueStrictly ==                                \* mutant: > where the code has >=
  /\ tickCount > nextUnblock
  /\ lists.head[ptrDelay] # NULL
  /\ ticksToDelay[lists.head[ptrDelay]] <= tickCount

Due ==
  /\ tickCount >= nextUnblock
  /\ lists.head[ptrDelay] # NULL
  /\ ticksToDelay[lists.head[ptrDelay]] <= tickCount

TickWake ==
  LET t == lists.head[ptrDelay]
      p == task_prior[t]
  IN  /\ mode \in {"isr", "retick"}
      /\ Due
      /\ lists' = AppendReady(os_taskListRemove(lists, t), t, p)
      /\ bitmap' = bitmap \cup {p}
      /\ switchReq' = (switchReq \/ p >= task_prior[current])
      /\ UNCHANGED <<task_prior, ticksToDelay, ptrDelay, lifeVars, tickVars,
                     swapVars, mode, pendedLeft, callVars>>

(* No further task is due: SwitchRequired is returned to the caller. *)
TickEnd(m) ==
  /\ mode = m
  /\ ~Due
  /\ nextUnblock' = IF tickCount >= nextUnblock
                      THEN ResetUnblock(lists, ptrDelay) ELSE nextUnblock
  /\ switchReq' = FALSE

WokenIgnored == yieldPending                  \* mutant: nobody compares priorities
SwitchRequired ==
  \/ switchReq
  \/ lists.last[current] # NULL      \* current has company on its list
  \/ lists.next[current] # NULL
  \/ yieldPending

SysTickEnd ==
  /\ TickEnd("isr")
  /\ pendSV' = SwitchRequired
  /\ mode' = "run"
  /\ UNCHANGED <<listVars, lifeVars, tickCount, pendedTicks, current,
                 suspended, yieldPending, pendedLeft, callVars>>

ResumeTickEnd ==
  /\ TickEnd("retick")
  /\ yieldPending' = SwitchRequired
  /\ pendedLeft' = pendedLeft - 1
  /\ mode' = "resume"
  /\ UNCHANGED <<listVars, lifeVars, tickCount, pendedTicks, current,
                 suspended, pendSV, callVars>>

(* PendSV_Handler: os_switchContext. *)
PendSV ==
  /\ running
  /\ mode = "run"
  /\ pendSV
  /\ pendSV' = FALSE
  /\ yieldPending' = (suspended # 0)
  /\ current' = IF suspended # 0 THEN current ELSE HighestReady
  /\ UNCHANGED <<listVars, lifeVars, tickVars, suspended, loopVars, callVars>>

-----------------------------------------------------------------------------
(***************************************************************************)
(* os_malloc and os_free, as the scheduler sees them: the scheduler is      *)
(* suspended around the work on the heap.                                   *)
(***************************************************************************)
HeapCall(t) ==
  /\ At(t, "heap")
  /\ suspended' = suspended + 1
  /\ Goto(t, "heapBusy")
  /\ UNCHANGED <<listVars, lifeVars, tickVars, current, yieldPending, pendSV,
                 loopVars, wait, heapCalls, other>>

(* The last call of os_DeleteTCB releases the TCB itself. *)
HeapDone(t) ==
  LET releases == heapCalls[t] = 1 /\ other[t] # NULL /\ status[other[t]] = "dead"
  IN  /\ At(t, "heapBusy")
      /\ heapCalls' = [heapCalls EXCEPT ![t] = @ - 1]
      /\ status' = IF releases THEN [status EXCEPT ![other[t]] = "free"] ELSE status
      /\ other' = IF releases THEN [other EXCEPT ![t] = NULL] ELSE other
      /\ Goto(t, "resumeHeap")
      /\ UNCHANGED <<listVars, numberOfTasks, running, tickVars, swapVars,
                     loopVars, wait>>

(***************************************************************************)
(* os_create_task by a running task: two allocations, or one that fails, or *)
(* a second one that fails and the release of the first.                    *)
(***************************************************************************)
CreateCall(t) ==
  /\ At(t, "user")
  /\ t \in Managers
  /\ \/ \E new \in Task \ {Idle} :
          /\ status[new] = "free"
          /\ status' = [status EXCEPT ![new] = "new"]
          /\ other' = [other EXCEPT ![t] = new]
          /\ heapCalls' = [heapCalls EXCEPT ![t] = 2]
     \/ \E n \in {1, 3} :
          /\ heapCalls' = [heapCalls EXCEPT ![t] = n]
          /\ UNCHANGED <<status, other>>
  /\ Goto(t, "heap")
  /\ UNCHANGED <<listVars, numberOfTasks, running, tickVars, swapVars,
                 loopVars, wait>>

CreateLink(t) ==
  \E arg \in PrioArgs :
    /\ At(t, "link")
    /\ AddNewTask(other[t], Clamp(arg))
    /\ pc' = [pc EXCEPT ![t] = "linked", ![other[t]] = "user"]
    /\ UNCHANGED <<ticksToDelay, ptrDelay, running, tickVars, swapVars,
                   loopVars, wait, heapCalls, other>>

(* After the critical section: yield to a more urgent new task. *)
CreateYield(t) ==
  /\ At(t, "linked")
  /\ pendSV' = (task_prior[current] < task_prior[other[t]])
  /\ other' = [other EXCEPT ![t] = NULL]
  /\ Goto(t, "user")
  /\ UNCHANGED <<listVars, lifeVars, tickVars, current, suspended,
                 yieldPending, loopVars, wait, heapCalls>>

(***************************************************************************)
(* os_taskDelete(victim) by another task: the critical section, then        *)
(* os_DeleteTCB (two calls of os_free) outside it.  The memory that the     *)
(* victim was allocating or releasing itself is lost.                       *)
(*                                                                         *)
(* The removal from an event list (task.c:1039-1042) is left out: no task   *)
(* is on one, and eventListHead is NULL (task.c:185), so that the test      *)
(* reads word 0 of the vector table, the initial stack pointer.  That is    *)
(* never 0, and the removal is not made.                                    *)
(***************************************************************************)
Delete(t) ==
  \E victim \in Task \ {t, Idle} :
    LET removed == os_taskListRemove(lists, victim)
    IN  /\ At(t, "user")
        /\ t \in Managers
        /\ status[victim] = "live"
        /\ lists' = removed
        /\ bitmap' = ClearIfEmpty(removed, task_prior[victim])
        /\ numberOfTasks' = numberOfTasks - 1
        /\ nextUnblock' = ResetUnblock(removed, ptrDelay)
        /\ status' = [status EXCEPT ![victim] = "dead"]
        /\ heapCalls' = [heapCalls EXCEPT ![t] = 2, ![victim] = 0]
        /\ other' = [other EXCEPT ![t] = victim, ![victim] = NULL]
        /\ pc' = [pc EXCEPT ![t] = "heap", ![victim] = "user"]
        /\ UNCHANGED <<task_prior, ticksToDelay, ptrDelay, running, tickCount,
                       pendedTicks, swapVars, loopVars, wait>>

-----------------------------------------------------------------------------
Init ==
  /\ lists = EmptyLists
  /\ task_prior = [t \in Task |-> 0]
  /\ ticksToDelay = [t \in Task |-> 0]
  /\ status = [t \in Task |-> "free"]
  /\ numberOfTasks = 0
  /\ bitmap = {}
  /\ ptrDelay = DELAY1
  /\ current = NULL
  /\ running = FALSE
  /\ tickCount = 0
  /\ nextUnblock = 0
  /\ suspended = 0
  /\ pendedTicks = 0
  /\ yieldPending = FALSE
  /\ pendSV = FALSE
  /\ mode = "run"
  /\ pendedLeft = 0
  /\ switchReq = FALSE
  /\ pc = [t \in Task |-> "user"]
  /\ wait = [t \in Task |-> 0]
  /\ heapCalls = [t \in Task |-> 0]
  /\ other = [t \in Task |-> NULL]

Boot == Start \/ \E t \in Task : BootCreate(t)

(* Calls an application may make or not. *)
Call(t) == DelayZero(t) \/ DelayCall(t) \/ CreateCall(t) \/ Delete(t)

(* What a task does inside a kernel call, and cannot stop doing. *)
Kernel(t) ==
  \/ DelayAdd(t) \/ DelayTrigger(t)
  \/ ResumeEnter(t) \/ ResumeExit(t)
  \/ HeapCall(t) \/ HeapDone(t) \/ CreateLink(t) \/ CreateYield(t)

Tick == SysTick \/ SysTickPended
InTick == TickWake \/ SysTickEnd \/ ResumeTick \/ ResumeTickEnd

Next ==
  /\ ~lists.stuck
  /\ \/ Boot
     \/ \E t \in Task : Call(t) \/ Kernel(t)
     \/ Tick
     \/ InTick
     \/ PendSV

Spec == Init /\ [][Next]_vars

(***************************************************************************)
(* Fairness.  The processor does not stop: a handler that was entered, a    *)
(* pending PendSV and the kernel code of the running task make progress.    *)
(* SysTick is strongly fair because its request is latched by the interrupt *)
(* controller and served as soon as it is unmasked.  Nothing is assumed of  *)
(* application code, which may compute for ever between two calls.          *)
(***************************************************************************)
Fairness ==
  /\ WF_vars(~lists.stuck /\ InTick)
  /\ WF_vars(~lists.stuck /\ PendSV)
  /\ WF_vars(~lists.stuck /\ \E t \in Task : Kernel(t))
  /\ SF_vars(~lists.stuck /\ Tick)

FairSpec == Spec /\ Fairness
-----------------------------------------------------------------------------
(***************************************************************************)
(* Safety.                                                                  *)
(***************************************************************************)

(* The list a live task is really on. *)
OnList(t, L) == t \in Members(lists, L)

(***************************************************************************)
(* Every live task is on exactly one list, the one its taskListHead names;  *)
(* nothing else is on a list (in particular no TCB that was deleted or      *)
(* freed); links in both directions agree and every list ends.  It is what  *)
(* each use of a list head, next, last and taskListHead in task.c relies on *)
(* (task.c:214-387).                                                        *)
(***************************************************************************)
ListsIntact ==
  /\ ~lists.stuck
  /\ \A L \in ListId :
       /\ ~Endless(lists, lists.head[L], Task)
       /\ lists.head[L] # NULL => lists.last[lists.head[L]] = NULL
       /\ \A t \in Members(lists, L) :
            /\ status[t] = "live"
            /\ lists.taskListHead[t] = L
            /\ lists.next[t] # NULL => lists.last[lists.next[t]] = t
  /\ \A t \in Task : status[t] = "live" => OnList(t, lists.taskListHead[t])

(***************************************************************************)
(* A bit of the bitmap is set exactly if that ready list has a task, and a  *)
(* ready list holds tasks of its priority: the context switch takes the     *)
(* head of the list of the highest bit unchecked (task.c:55-63), so a stale *)
(* bit would make os_currentTCB null.                                       *)
(***************************************************************************)
BitmapExact ==
  \A p \in Prio :
    /\ p \in bitmap <=> lists.head[p] # NULL
    /\ \A t \in Members(lists, p) : task_prior[t] = p

(***************************************************************************)
(* Preemption is strict: whenever a task executes application code, with no *)
(* context switch about to be taken, it is ready and no ready task is more  *)
(* urgent.  Every path that makes a task ready or takes the running one off *)
(* its list must have requested a switch (task.c:425-431, 559-582, 645-682, *)
(* 762-765).                                                                *)
(***************************************************************************)
Executing(t) == At(t, "user")

StrictPriority ==
  \A t \in Task : Executing(t) =>
    /\ OnList(t, task_prior[t])
    /\ \A p \in bitmap : p <= task_prior[t]

(***************************************************************************)
(* Between ticks os_nextTaskUnblockTime is the earliest due time on the      *)
(* delay list, or the largest tick if it is empty: too large, and the tick  *)
(* handler skips a task that is due (task.c:529); it is maintained in seven *)
(* places (task.c:73, 492, 536, 548, 654, 736, 1057).                       *)
(***************************************************************************)
UnblockTimeExact ==
  LET due == {ticksToDelay[t] : t \in Members(lists, ptrDelay)}
  IN  running /\ mode \in {"run", "resume"} =>
        \/ due = {} /\ nextUnblock = MaxTick
        \/ nextUnblock \in due /\ \A d \in due : nextUnblock <= d

(***************************************************************************)
(* The two delay lists are in phase with the counter: a task on the current *)
(* list is due later in this round of the counter (not yet, once expired    *)
(* ones are taken off), one on the overflow list after it wraps, and both   *)
(* are sorted; when the counter wraps the list that is retired is empty.    *)
(***************************************************************************)
DelayListsInPhase ==
  /\ \A t \in Members(lists, ptrDelay) :
       /\ tickCount <= ticksToDelay[t]
       /\ mode \in {"run", "resume"} => tickCount # ticksToDelay[t]
  /\ \A t \in Members(lists, Overflow) : ticksToDelay[t] < tickCount
  /\ \A L \in DelayList : \A t \in Members(lists, L) :
       lists.next[t] # NULL => ticksToDelay[t] <= ticksToDelay[lists.next[t]]

(***************************************************************************)
(* os_currentNumberOfTasks counts the live tasks: os_resumeAllTask does     *)
(* nothing when it is 0 (task.c:634).                                       *)
(***************************************************************************)
TaskCount == numberOfTasks = Cardinality({t \in Task : status[t] = "live"})

(***************************************************************************)
(* A suspended scheduler means that the running task is inside a kernel     *)
(* call: it never returns to its application, and is never switched out,    *)
(* with the scheduler still suspended (task.c:607-689).                     *)
(***************************************************************************)
Suspending == {"delay", "heapBusy", "resumeDelay", "resumeHeap"}

SuspensionBalanced ==
  /\ running /\ mode = "run" =>
       suspended = IF pc[current] \in Suspending THEN 1 ELSE 0
  /\ \A t \in Task \ {current} : pc[t] \notin Suspending
  /\ mode # "run" => suspended = 0

(***************************************************************************)
(* Action property.  Time, the processed ticks and those still owed, goes   *)
(* forward by one with each tick interrupt and does not move otherwise: a   *)
(* tick that arrives while the scheduler is suspended is neither lost nor   *)
(* counted twice by the replay (task.c:574-577, 657-674).                   *)
(***************************************************************************)
Owed == CASE mode = "resume" -> pendedLeft
          [] mode = "retick" -> pendedLeft - 1
          [] OTHER           -> pendedTicks

Time == (tickCount + Owed) % (MaxTick + 1)

NoTickLost ==
  [][running => Time' = IF Tick THEN (Time + 1) % (MaxTick + 1) ELSE Time]_vars

-----------------------------------------------------------------------------
(***************************************************************************)
(* The inductive invariant that Scheduler_proofs uses.  Inv is what holds   *)
(* of the links, of the running task and of the TCBs that pass through a    *)
(* creation or a deletion; TimeInv relates the delay lists to the counter   *)
(* and PriorityInv the ready lists to the requests for a switch.            *)
(***************************************************************************)
Live == {t \in Task : status[t] = "live"}

ListsInv ==
  /\ ~lists.stuck
  /\ Linked(lists, Live)
  /\ \A t \in Live : lists.taskListHead[t] \in Prio
                       => lists.taskListHead[t] = task_prior[t]

BitmapInv == \A p \in Prio : p \in bitmap <=> lists.head[p] # NULL

(* Before Start only main() runs; afterwards IDLE is ready for ever. *)
RunInv ==
  /\ ~running => /\ mode = "run" /\ ~pendSV /\ suspended = 0
                 /\ \A t \in Task : pc[t] = "user" /\ other[t] = NULL
                 /\ Idle \notin Live
  /\ running => /\ current # NULL
                /\ Idle \in Live
                /\ lists.taskListHead[Idle] = 0
  /\ current # NULL => current \in Live
  /\ pc[Idle] = "user"
  /\ \A t \in Task \ Live : pc[t] = "user"

SuspensionInv ==
  /\ suspended = IF running /\ mode = "run" /\ pc[current] \in Suspending
                   THEN 1 ELSE 0
  /\ \A t \in Task \ {current} : pc[t] \notin Suspending
  /\ mode = "isr" => pc[current] \notin Suspending
  /\ mode \in {"resume", "retick"} => pc[current] \in {"resumeDelay", "resumeHeap"}
  /\ mode = "retick" => pendedLeft > 0

(* A TCB that is neither free nor on a list has one task working on it. *)
Working(t) == other[t] # NULL /\ pc[t] # "linked"

CallsInv ==
  /\ \A t \in Task :
       /\ pc[t] \in {"heap", "heapBusy"} => heapCalls[t] > 0
       /\ pc[t] \in {"user", "delay", "trigger", "resumeDelay"} => other[t] = NULL
       /\ pc[t] \in {"link", "linked"} => other[t] # NULL
       /\ Working(t) => status[other[t]] \in {"new", "dead"}
       /\ Working(t) /\ pc[t] \in {"link", "resumeHeap"} /\ heapCalls[t] = 0
            => status[other[t]] = "new"
       /\ pc[t] = "link" => heapCalls[t] = 0
  /\ \A t, u \in Task : Working(t) /\ Working(u) /\ other[t] = other[u] => t = u

Inv ==
  /\ TypeOK
  /\ ListsInv
  /\ BitmapInv
  /\ RunInv
  /\ SuspensionInv
  /\ CallsInv
  /\ TaskCount

Sleeping == {t \in Live : lists.taskListHead[t] \in DelayList}

(* Due times are sorted; those of a list that is in use are not reached. *)
DueInv ==
  \A t \in Sleeping :
    /\ lists.next[t] # NULL => ticksToDelay[t] <= ticksToDelay[lists.next[t]]
    /\ lists.taskListHead[t] # ptrDelay => ticksToDelay[t] < tickCount
    /\ lists.taskListHead[t] = ptrDelay =>
         /\ tickCount <= ticksToDelay[t]
         /\ mode \in {"run", "resume"} => tickCount < ticksToDelay[t]

UnblockInv ==
  running => \/ nextUnblock = ResetUnblock(lists, ptrDelay)
             \/ mode \in {"isr", "retick"} /\ tickCount >= nextUnblock

(* A sleeping task is in os_delay, and is left as soon as it returns. *)
AwakeInv ==
  /\ mode # "run" => ~pendSV
  /\ ~running => Sleeping = {}
  /\ \A t \in Sleeping : pc[t] \in {"user", "trigger", "resumeDelay"}
  /\ current \in Sleeping /\ pc[current] = "user" => pendSV
  /\ \A t \in Task : pc[t] = "delay" <=> wait[t] > 0

TimeInv == DueInv /\ UnblockInv /\ AwakeInv

(* A task more urgent than the running one implies a request to switch. *)
NoneMoreUrgent ==
  \A p \in bitmap :
    \/ p <= task_prior[current]
    \/ pc[current] = "linked" /\ p <= task_prior[other[current]]

PriorityInv ==
  /\ switchReq => mode \in {"isr", "retick"}
  /\ yieldPending /\ mode \in {"run", "isr"} /\ suspended = 0 => pendSV
  /\ current = NULL => bitmap = {}
  /\ current # NULL => \/ pendSV
                       \/ yieldPending
                       \/ switchReq
                       \/ pc[current] \in {"resumeDelay", "trigger"}
                       \/ NoneMoreUrgent

Inductive == Inv /\ TimeInv /\ PriorityInv

-----------------------------------------------------------------------------
(***************************************************************************)
(* What a delayed task is promised: Delays, where a task that is in the     *)
(* call has the argument it passed (wait), and a sleeping one the ticks     *)
(* that its due time is away from the counter.                              *)
(***************************************************************************)
Asleep(t) ==
  status[t] = "live" /\ lists.taskListHead[t] \in DelayList

Promise ==
  INSTANCE Delays WITH
    LongestDelay <- MaxTick,
    state <- [t \in Task |-> IF status[t] # "live" THEN "absent"
                             ELSE IF Asleep(t) THEN "asleep"
                             ELSE IF wait[t] > 0 THEN "asking" ELSE "awake"],
    left  <- [t \in Task |-> IF Asleep(t)
                               THEN (ticksToDelay[t] - tickCount) % (MaxTick + 1)
                               ELSE wait[t]]

(***************************************************************************)
(* A task that calls os_delay(n) wakes after exactly n processed ticks, n   *)
(* being the argument of its call (task.c:507-585, 696-766): the due time   *)
(* computed from it (task.c:719), kept over wraps, replays of pended ticks, *)
(* ties and deletions, is neither early nor late.                           *)
(***************************************************************************)
DelaysExact == Promise!Spec

(* A task that waits in os_delay becomes ready again, or is deleted. *)
SleepersWake == \A t \in Task : Asleep(t) ~> ~Asleep(t)

(***************************************************************************)
(* task.c:567 says that the tick switches between the ready tasks of the    *)
(* current priority (time slices): a task that stays ready at the highest   *)
(* priority eventually runs.                                                *)
(***************************************************************************)
Eligible(t) ==
  /\ running
  /\ status[t] = "live"
  /\ ~Asleep(t)
  /\ \A u \in Task : status[u] = "live" /\ ~Asleep(u)
                       => task_prior[u] <= task_prior[t]

TimeSlices == \A t \in Task : Eligible(t) ~> (current = t \/ ~Eligible(t))
=============================================================================
