----------------------------- MODULE Termination -----------------------------
(***************************************************************************)
(* A task that deletes itself, and IDLE that releases its memory            *)
(* (task.c:460-479, 1013-1076), on top of the scheduler.                    *)
(*                                                                         *)
(* IdleTask works outside critical sections: any other task may run between *)
(* two of its steps.  Its removal of a TCB is one step: the lists it        *)
(* touches are those of tasks that are not ready while IDLE runs.           *)
(***************************************************************************)
EXTENDS Scheduler

CONSTANTS
  Quitters,    (* the tasks whose code deletes its own task                  *)
  MaxCount     (* largest u32_t, the type of os_currentNumberOfTasks         *)

ASSUME TerminationAssumption ==
  /\ Quitters \subseteq Task \ {Idle}
  /\ MaxCount \in Nat \ {0}

VARIABLES
  terminating,   (* os_tasksWaitingTermination                               *)
  idleAt,        (* where IdleTask is, while it is not inside os_free        *)
  tcb,           (* its local variable TCB                                   *)
  unblock,       (* the value os_resetNextTaskUnblockTime is about to store  *)
  released       (* history: how often a TCB was passed to os_free           *)

idleVars == <<terminating, idleAt, tcb, unblock, released>>
allVars == <<vars, idleVars>>

TermInit ==
  /\ Init
  /\ terminating = NULL
  /\ idleAt = "test"
  /\ tcb = NULL
  /\ unblock = 0
  /\ released = [t \in Task |-> 0]

-----------------------------------------------------------------------------
(***************************************************************************)
(* os_listInsertEnd(t, &os_tasksWaitingTermination): on the empty list the  *)
(* task keeps the taskListHead of the ready list it came from (task.c:321). *)
(***************************************************************************)
os_listInsertEnd(m, t, head) ==
  LET tail == CHOOSE u \in Stops(m, head, Task) : TRUE
  IN  IF head = NULL
        THEN [m EXCEPT !.next[t] = NULL, !.last[t] = NULL]
        ELSE IF Endless(m, head, Task)
          THEN [m EXCEPT !.taskListHead[t] = NoList, !.stuck = TRUE]
          ELSE [m EXCEPT !.taskListHead[t] = NoList,
                         !.next = [m.next EXCEPT ![tail] = t, ![t] = NULL],
                         !.last[t] = tail]

(***************************************************************************)
(* os_taskDelete of the running task.  It is in no event list: its          *)
(* eventListHead is NULL, and *NULL is the first word of the vector table.  *)
(***************************************************************************)
EndSelf(t) ==
  LET removed == os_taskListRemove(lists, t)
  IN  /\ At(t, "user")
      /\ t \in Quitters
      /\ lists' = os_listInsertEnd(removed, t, terminating)
      /\ bitmap' = ClearIfEmpty(removed, task_prior[t])
      /\ terminating' = IF terminating = NULL THEN t ELSE terminating
      /\ status' = [status EXCEPT ![t] = "dead"]
      /\ Goto(t, "ended")
      /\ UNCHANGED <<task_prior, ticksToDelay, ptrDelay, numberOfTasks, running,
                     tickVars, swapVars, loopVars, wait, heapCalls, other,
                     idleAt, tcb, unblock, released>>

NoTrigger(t) ==                               \* mutant: no switch requested
  /\ At(t, "ended")
  /\ Goto(t, "gone")
  /\ UNCHANGED <<listVars, lifeVars, tickVars, swapVars, loopVars, wait,
                 heapCalls, other, idleVars>>

EndTrigger(t) ==
  /\ At(t, "ended")
  /\ pendSV' = TRUE
  /\ Goto(t, "gone")
  /\ UNCHANGED <<listVars, lifeVars, tickVars, current, suspended, yieldPending,
                 loopVars, wait, heapCalls, other, idleVars>>

-----------------------------------------------------------------------------
(***************************************************************************)
(* The loop of IdleTask.                                                    *)
(***************************************************************************)
IdleRuns(l) == At(Idle, "user") /\ idleAt = l

IdleTest ==
  /\ IdleRuns("test")
  /\ terminating # NULL
  /\ tcb' = terminating
  /\ idleAt' = "remove"
  /\ UNCHANGED <<vars, terminating, unblock, released>>

IdleRemove ==
  /\ IdleRuns("remove")
  /\ lists' = os_taskListRemove(lists, tcb)
  /\ idleAt' = "free"
  /\ UNCHANGED <<task_prior, ticksToDelay, bitmap, ptrDelay, lifeVars, tickVars,
                 swapVars, loopVars, callVars, terminating, tcb, unblock, released>>

(* os_free(TCB->stack_start), os_free(TCB): two calls of the allocator. *)
IdleFree ==
  /\ IdleRuns("free")
  /\ heapCalls' = [heapCalls EXCEPT ![Idle] = 2]
  /\ Goto(Idle, "heap")
  /\ idleAt' = "count"
  /\ released' = [released EXCEPT ![tcb] = IF @ = 2 THEN 2 ELSE @ + 1]
  /\ UNCHANGED <<listVars, lifeVars, tickVars, swapVars, loopVars, wait, other,
                 terminating, tcb, unblock>>

IdleCount ==
  /\ IdleRuns("count")
  /\ numberOfTasks' = (numberOfTasks - 1) % (MaxCount + 1)
  /\ idleAt' = "load"
  /\ UNCHANGED <<listVars, status, running, tickVars, swapVars, loopVars,
                 callVars, terminating, tcb, unblock, released>>

(* os_resetNextTaskUnblockTime: what it reads, and what it writes later. *)
IdleLoad ==
  /\ IdleRuns("load")
  /\ unblock' = ResetUnblock(lists, ptrDelay)
  /\ idleAt' = "store"
  /\ UNCHANGED <<vars, terminating, tcb, released>>

IdleStore ==
  /\ IdleRuns("store")
  /\ nextUnblock' = unblock
  /\ idleAt' = "test"
  /\ UNCHANGED <<listVars, lifeVars, tickCount, pendedTicks, swapVars, loopVars,
                 callVars, terminating, tcb, unblock, released>>

IdleStep ==
  \/ IdleTest \/ IdleRemove \/ IdleFree \/ IdleCount \/ IdleLoad \/ IdleStore

-----------------------------------------------------------------------------
(***************************************************************************)
(* A deleted task that is run again, or a switch to NULL, ends the model:   *)
(* what the processor then does depends on memory that was released.        *)
(***************************************************************************)
Sane == running => current # NULL /\ ~At(current, "gone")

TermNext ==
  /\ ~lists.stuck
  /\ Sane
  /\ \/ /\ \/ Boot \/ Tick \/ InTick \/ PendSV
           \/ \E t \in Task : DelayCall(t) \/ Kernel(t)
        /\ UNCHANGED idleVars
     \/ \E t \in Task : EndSelf(t) \/ EndTrigger(t)
     \/ IdleStep

TermSpec == TermInit /\ [][TermNext]_allVars

-----------------------------------------------------------------------------
(***************************************************************************)
(* A task that has deleted itself executes no code after os_taskDelete      *)
(* (task.c:1045-1051: it is put on the list of those that IDLE deletes).    *)
(***************************************************************************)
DeletedNeverRuns == \A t \in Task : ~At(t, "gone")

(***************************************************************************)
(* At most one task has ended, and none of the priority of IDLE: the states *)
(* up to the second task that deletes itself.  IDLE never takes the first   *)
(* one off os_tasksWaitingTermination, and works through its TCB again and  *)
(* again; a second one, or one of priority 0, then corrupts the lists       *)
(* (MCZombie.cfg, MCLowest.cfg).                                            *)
(***************************************************************************)
OneEnded ==
  /\ \A a, b \in Task : status[a] = "dead" /\ status[b] = "dead" => a = b
  /\ \A t \in Task : status[t] = "dead" => task_prior[t] > 0

(***************************************************************************)
(* task.c:469 says that IDLE takes the task off the list of tasks to be     *)
(* deleted: it then releases its memory once.                               *)
(***************************************************************************)
ReleasedOnce == \A t \in Task : released[t] <= 1

(***************************************************************************)
(* task.c:61 says that a context switch gets the TCB of the ready task of   *)
(* the highest priority: there always is one, as IDLE never ends.           *)
(***************************************************************************)
SwitchFindsTask == running => current # NULL

(***************************************************************************)
(* task.c:475 says that IDLE resets the next unblock time because a deleted *)
(* task may have been the next to wake: afterwards no task that sleeps is   *)
(* due before it, or the tick handler passes over that task.                *)
(***************************************************************************)
UnblockNotLate ==
  running /\ mode = "run" =>
    \A t \in Members(lists, ptrDelay) : nextUnblock <= ticksToDelay[t]

-----------------------------------------------------------------------------
(***************************************************************************)
(* The invariant of the states with one ended task, which                   *)
(* Termination_proofs uses.  The parts of Inv that hold of IDLE and of the number of    *)
(* tasks do not: IDLE calls the allocator and counts down again and again.  *)
(***************************************************************************)
Ended == {"ended", "gone"}
Releasing == {"heap", "heapBusy", "resumeHeap"}
EndLabel == {"user", "delay", "trigger", "resumeDelay"} \cup Releasing \cup Ended
IdleAt == {"test", "remove", "free", "count", "load", "store"}

EndTypeOK ==
  /\ lists \in ListMem
  /\ task_prior \in [Task -> Prio]
  /\ ticksToDelay \in [Task -> 0 .. MaxTick]
  /\ status \in [Task -> {"free", "live", "dead"}]
  /\ numberOfTasks \in Nat
  /\ bitmap \subseteq Prio
  /\ ptrDelay \in DelayList
  /\ current \in Ptr
  /\ running \in BOOLEAN
  /\ tickCount \in 0 .. MaxTick
  /\ nextUnblock \in 0 .. MaxTick
  /\ pendedTicks \in Nat
  /\ yieldPending \in BOOLEAN
  /\ pendSV \in BOOLEAN
  /\ mode \in Mode
  /\ pendedLeft \in Nat
  /\ switchReq \in BOOLEAN
  /\ pc \in [Task -> EndLabel]
  /\ wait \in [Task -> 0 .. MaxTick]
  /\ heapCalls \in [Task -> 0 .. 2]
  /\ other = [t \in Task |-> NULL]
  /\ terminating \in Quitters \cup {NULL}
  /\ tcb \in {NULL, terminating}
  /\ idleAt \in IdleAt
  /\ unblock \in 0 .. MaxTick

(***************************************************************************)
(* The task that has ended is on no list that leads anywhere, but keeps the *)
(* taskListHead of a ready list that is not that of IDLE.                   *)
(***************************************************************************)
EndedInv ==
  /\ \A t \in Task : status[t] = "dead" <=> pc[t] \in Ended
  /\ \A t \in Task : status[t] = "dead" => t = terminating
  /\ terminating # NULL =>
       /\ status[terminating] = "dead"
       /\ lists.next[terminating] = NULL
       /\ lists.last[terminating] = NULL
       /\ lists.taskListHead[terminating] \in Prio \ {0}
  /\ idleAt \in {"remove", "free"} => tcb # NULL

(* IDLE is ready for ever. *)
IdleInv ==
  /\ ~running => /\ mode = "run" /\ ~pendSV
                 /\ \A t \in Task : pc[t] = "user"
                 /\ status[Idle] = "free"
                 /\ current \in Live \cup {NULL}
  /\ running => /\ status[Idle] = "live"
                /\ lists.taskListHead[Idle] = 0
                /\ current # NULL
                /\ status[current] # "free"
  /\ \A t \in Task : status[t] = "free" => pc[t] = "user"
  /\ pc[Idle] \in {"user"} \cup Releasing
  /\ \A t \in Task : pc[t] \in Releasing => t = Idle
  /\ \A t \in Task : pc[t] \in {"heap", "heapBusy"} => heapCalls[t] > 0

(***************************************************************************)
(* Requests for a switch.  None outlives a suspended section unless the     *)
(* resume replays ticks, which it does while the count is not 0; and a task *)
(* that sleeps, or has ended, is left at once.                              *)
(***************************************************************************)
RequestInv ==
  /\ pendSV => mode = "run" /\ suspended = 0
  /\ yieldPending => pendSV \/ mode \in {"resume", "retick"}
  /\ mode \in {"resume", "retick"} /\ (yieldPending \/ pendedLeft > 0)
       => numberOfTasks > 0
  /\ switchReq => mode \in {"isr", "retick"}
  /\ current # NULL /\ pc[current] = "gone" => pendSV
  /\ current \in Sleeping /\ pc[current] = "user" => pendSV
  /\ current = NULL => bitmap = {}
  /\ current # NULL => \/ pendSV \/ yieldPending \/ switchReq
                       \/ pc[current] \in {"resumeDelay", "trigger", "ended"}
                       \/ \A p \in bitmap : p <= task_prior[current]

EndInv ==
  /\ EndTypeOK
  /\ ListsInv
  /\ BitmapInv
  /\ EndedInv
  /\ IdleInv
  /\ SuspensionInv
  /\ RequestInv

(***************************************************************************)
(* Until a second task deletes itself, the first one is not run again       *)
(* although it stays on the list of IDLE (task.c:466-477, 1045-1051).       *)
(***************************************************************************)
FirstNeverRuns == OneEnded => DeletedNeverRuns

(***************************************************************************)
(* Until then, too, what IDLE writes through the links of the ended TCB     *)
(* reaches no list (task.c:469, 321): lists and bitmap agree, every switch  *)
(* finds a ready task, and a most urgent one runs.                          *)
(***************************************************************************)
FirstHarmless ==
  OneEnded => BitmapExact /\ ListsIntact /\ SwitchFindsTask /\ StrictPriority

(* EndInv is what every step preserves that ends no second task. *)
EndInductive == OneEnded => EndInv
=============================================================================
