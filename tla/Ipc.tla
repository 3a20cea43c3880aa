-------------------------------- MODULE Ipc --------------------------------
(***************************************************************************)
(* Tasks that call mQueueSend and mQueueReceive on one queue or semaphore   *)
(* and may wait (ipc.c:112-322), on top of the scheduler: the operations on *)
(* the queue are those of QueueData, the time-outs those of TimeOut.        *)
(*                                                                         *)
(* xTasksWaitingToSend and xTasksWaitingToReceive are not variables: they   *)
(* are NULL when the queue is made (ipc.c:62-63) and nothing assigns them,  *)
(* as os_taskPlaceOnEventList gets them by value (task.c:889).  Hence every *)
(* call of os_taskRemoveFromEventList is behind a test that fails.  Nor are *)
(* the lock counters, which take the values -1 and 0 only: the loops of     *)
(* UnlockQueue never run.                                                   *)
(***************************************************************************)
EXTENDS Scheduler, Sequences

CONSTANTS
  Item, NoItem, MaxLength,   (* as in QueueData                             *)
  MaxOverflow,               (* largest u32_t, the type of numOfOverflows   *)
  ItemSizes,                 (* bound: 1 for a queue, 0 for a semaphore     *)
  Ops,                       (* bound: the calls that tasks make            *)
  Waits,                     (* bound: the arguments TicksToWait            *)
  Waiters                    (* bound: the tasks that pass more than 0      *)

Sends == {"back", "front"}
Receives == {"receive", "peek"}

ASSUME IpcAssumption ==
  /\ MaxLength \in Nat \ {0}
  /\ NoItem \notin Item
  /\ MaxOverflow \in Nat \ {0}
  /\ ItemSizes \subseteq {0, 1}
  /\ Ops \subseteq Sends \cup Receives
  /\ Waits \subseteq 0 .. MaxTick - 1    \* 0xffffffff would use another list
  /\ Waiters \subseteq Task \ {Idle}

INSTANCE QueueData
INSTANCE TimeOut

VARIABLES
  q,               (* the queue                                              *)
  numOfOverflows,  (* os_numOfOverflows                                      *)
  call             (* per task: its call; `wait` holds its TicksToWait       *)

ipcVars == <<q, numOfOverflows, call>>
allVars == <<vars, ipcVars>>

NoCall ==
  [ op           |-> "none",
    item         |-> NoItem,
    entryTimeSet |-> FALSE,
    timeOut      |-> os_taskSetTimeOutState(0, 0),
    asked        |-> 0,       (* history: the TicksToWait of the caller *)
    age          |-> 0 ]      (* history: ticks since timeOut was first set *)

(* main() has made the queue before it starts the scheduler. *)
Made(length, size) ==
  mQueueReset([ uxLength |-> length, uxItemSize |-> size, waiting |-> 0,
                writeTo |-> 0, readFrom |-> 0,
                slot |-> [i \in 0 .. MaxLength - 1 |-> NoItem] ])

IpcInit ==
  /\ Init
  /\ \E length \in 1 .. MaxLength :
       \/ 1 \in ItemSizes /\ q = Made(length, 1)
       \/ 0 \in ItemSizes /\ \E tokens \in 0 .. length :
            q = [Made(length, 0) EXCEPT !.waiting = tokens]
  /\ numOfOverflows = 0
  /\ call = [t \in Task |-> NoCall]

-----------------------------------------------------------------------------
(* A step of the scheduler: SWITCH_DELAYED_LISTS counts the wraps. *)
Elapse ==
  /\ q' = q
  /\ numOfOverflows' = IF ptrDelay' # ptrDelay
                         THEN (numOfOverflows + 1) % (MaxOverflow + 1)
                         ELSE numOfOverflows
  /\ call' = IF tickCount' = tickCount THEN call
             ELSE [t \in Task |->
                     IF call[t].entryTimeSet /\ call[t].age < call[t].asked
                       THEN [call[t] EXCEPT !.age = @ + 1] ELSE call[t]]

Returns(t) == Goto(t, "user") /\ call' = [call EXCEPT ![t] = NoCall]

Ask(t, op, x, n) ==
  /\ At(t, "user")
  /\ t # Idle
  /\ op = "peek" => q.uxItemSize = 1
  /\ op = "front" => q.uxItemSize = 1
  /\ call' = [call EXCEPT ![t] = [NoCall EXCEPT !.op = op, !.item = x, !.asked = n]]
  /\ wait' = [wait EXCEPT ![t] = n]
  /\ Goto(t, "try")
  /\ UNCHANGED <<listVars, lifeVars, tickVars, swapVars, loopVars, heapCalls,
                 other, q, numOfOverflows>>

Ready(t) == IF call[t].op \in Sends THEN HasRoom(q) ELSE ~IsQueueEmpty(q)

(* The critical section at the head of the loop: the queue serves the call. *)
Served(t) ==
  CASE call[t].op = "back"    -> copyDataToQueue(q, call[t].item, SEND_TO_BACK)
    [] call[t].op = "front"   -> copyDataToQueue(q, call[t].item, SEND_TO_FRONT)
    [] call[t].op = "receive" -> Taken(q)
    [] call[t].op = "peek"    -> Peeked(q)

Serve(t) ==
  /\ At(t, "try")
  /\ Ready(t)
  /\ q' = Served(t)
  /\ Returns(t)
  /\ wait' = [wait EXCEPT ![t] = 0]
  /\ UNCHANGED <<listVars, lifeVars, tickVars, swapVars, loopVars, heapCalls,
                 other, numOfOverflows>>

(* Or it does not: the call returns FALSE, or notes the time once. *)
Refuse(t) ==
  /\ At(t, "try")
  /\ ~Ready(t)
  /\ wait[t] = 0
  /\ Returns(t)
  /\ UNCHANGED <<listVars, lifeVars, tickVars, swapVars, loopVars, wait,
                 heapCalls, other, q, numOfOverflows>>

NoteTime(t) ==
  /\ At(t, "try")
  /\ ~Ready(t)
  /\ wait[t] > 0
  /\ call' = IF call[t].entryTimeSet THEN call
             ELSE [call EXCEPT ![t].entryTimeSet = TRUE,
                               ![t].timeOut = os_taskSetTimeOutState(
                                                tickCount, numOfOverflows)]
  /\ Goto(t, "suspend")
  /\ UNCHANGED <<listVars, lifeVars, tickVars, swapVars, loopVars, wait,
                 heapCalls, other, q, numOfOverflows>>

Suspend(t) ==
  /\ At(t, "suspend")
  /\ suspended' = suspended + 1
  /\ Goto(t, "check")
  /\ UNCHANGED <<listVars, lifeVars, tickVars, current, yieldPending, pendSV,
                 loopVars, wait, heapCalls, other, ipcVars>>

(* os_taskCheckForTimeOut; a call whose time is over leaves the loop. *)
CheckKeepsRecord(t) ==                        \* mutant: the record is not set again
  LET late == TimedOut(call[t].timeOut, wait[t], tickCount, numOfOverflows)
  IN  /\ At(t, "check")
      /\ Goto(t, IF late THEN "resumeGiveUp" ELSE "place")
      /\ wait' = IF late THEN wait
                 ELSE [wait EXCEPT ![t] = TicksLeft(call[t].timeOut, @, tickCount)]
      /\ UNCHANGED <<listVars, lifeVars, tickVars, swapVars, loopVars, heapCalls,
                     other, ipcVars>>

Check(t) ==
  LET late == TimedOut(call[t].timeOut, wait[t], tickCount, numOfOverflows)
  IN  /\ At(t, "check")
      /\ Goto(t, IF late THEN "resumeGiveUp" ELSE "place")
      /\ wait' = IF late THEN wait
                 ELSE [wait EXCEPT ![t] = TicksLeft(call[t].timeOut, @, tickCount)]
      /\ call' = IF late THEN call
                 ELSE [call EXCEPT ![t].timeOut =
                         os_taskSetTimeOutState(tickCount, numOfOverflows)]
      /\ UNCHANGED <<listVars, lifeVars, tickVars, swapVars, loopVars, heapCalls,
                     other, q, numOfOverflows>>

(***************************************************************************)
(* os_taskPlaceOnEventList(list, TicksToWait) with list NULL.  The list it  *)
(* inserts the task into is its own parameter, which thereby loses the      *)
(* links of the list it is on; the removal that follows (task.c:704) clears *)
(* that parameter and no head.                                              *)
(***************************************************************************)
OnLocalList(m, t) ==
  [m EXCEPT !.taskListHead[t] = NoList, !.next[t] = NULL, !.last[t] = NULL]

Blocked(t) == IF call[t].op \in Sends THEN IsQueueFull(q) ELSE IsQueueEmpty(q)

Place(t) ==
  LET local == OnLocalList(lists, t)
      time  == TimeToWake(t)
      wake  == [ticksToDelay EXCEPT ![t] = time]
  IN  /\ At(t, "place")
      /\ Blocked(t)
      /\ bitmap' = ClearIfEmpty(local, task_prior[t])
      /\ ticksToDelay' = wake
      /\ lists' = os_listInsertByDelay(local, t,
                     IF Wraps(time) THEN Overflow ELSE ptrDelay, wake)
      /\ nextUnblock' = SoonerUnblock(time)
      /\ Goto(t, "resumeBlocked")
      /\ UNCHANGED <<task_prior, ptrDelay, lifeVars, tickCount, pendedTicks,
                     swapVars, loopVars, wait, heapCalls, other, ipcVars>>

(* The queue has changed since the critical section: try again. *)
TryAgain(t) ==
  /\ At(t, "place")
  /\ ~Blocked(t)
  /\ Goto(t, "resumeAgain")
  /\ UNCHANGED <<listVars, lifeVars, tickVars, swapVars, loopVars, wait,
                 heapCalls, other, ipcVars>>

(***************************************************************************)
(* os_resumeAllTask as in Scheduler, for the three calls of the loop.       *)
(***************************************************************************)
Resuming == {"resumeBlocked", "resumeAgain", "resumeGiveUp"}

OnlyThePath(t) == pc[t] # "resumeGiveUp"      \* mutant: time over, not resumed
Resumes(t) == pc[t] \in Resuming

EnterResume(t) ==
  /\ \E l \in Resuming : At(t, l)
  /\ suspended' = IF Resumes(t) THEN suspended - 1 ELSE suspended
  /\ mode' = "resume"
  /\ pendedLeft' = IF suspended' = 0 /\ numberOfTasks > 0 THEN pendedTicks ELSE 0
  /\ UNCHANGED <<listVars, lifeVars, tickVars, current, yieldPending, pendSV,
                 switchReq, callVars, ipcVars>>

AfterWait(t) ==
  CASE pc[t] = "resumeBlocked" ->
         IF Outermost /\ yieldPending THEN "try" ELSE "triggerWait"
    [] pc[t] = "resumeAgain"   -> "try"
    [] pc[t] = "resumeGiveUp"  -> "giveUp"

LeaveResume(t) ==
  /\ mode = "resume"
  /\ current = t
  /\ pc[t] \in Resuming
  /\ pendedLeft = 0
  /\ pendedTicks' = IF Outermost THEN 0 ELSE pendedTicks
  /\ pendSV' = (Outermost /\ yieldPending)
  /\ mode' = "run"
  /\ Goto(t, AfterWait(t))
  /\ UNCHANGED <<listVars, lifeVars, tickCount, nextUnblock, current,
                 suspended, yieldPending, pendedLeft, switchReq, wait,
                 heapCalls, other, ipcVars>>

TriggerWait(t) ==
  /\ At(t, "triggerWait")
  /\ pendSV' = TRUE
  /\ Goto(t, "try")
  /\ UNCHANGED <<listVars, lifeVars, tickVars, current, suspended,
                 yieldPending, loopVars, wait, heapCalls, other, ipcVars>>

(* A sender gives up; a receiver only if the queue is still empty. *)
GiveUp(t) ==
  /\ At(t, "giveUp")
  /\ IF call[t].op \in Receives /\ ~IsQueueEmpty(q)
       THEN Goto(t, "try") /\ UNCHANGED <<call, wait>>
       ELSE Returns(t) /\ wait' = [wait EXCEPT ![t] = 0]
  /\ UNCHANGED <<listVars, lifeVars, tickVars, swapVars, loopVars, heapCalls,
                 other, q, numOfOverflows>>

-----------------------------------------------------------------------------
Loop(t) ==
  \/ Serve(t) \/ Refuse(t) \/ NoteTime(t) \/ Suspend(t) \/ Check(t)
  \/ Place(t) \/ TryAgain(t) \/ EnterResume(t) \/ LeaveResume(t)
  \/ TriggerWait(t) \/ GiveUp(t)

AskSome(t) ==
  \E n \in {w \in Waits : w = 0 \/ t \in Waiters} :
    \/ q.uxItemSize = 1 /\ \E op \in Ops \cap Sends, x \in Item : Ask(t, op, x, n)
    \/ q.uxItemSize = 0 /\ n = 0 /\ "back" \in Ops /\ Ask(t, "back", NoItem, n)
    \/ \E op \in Ops \cap Receives : Ask(t, op, NoItem, n)

DelayKernel(t) ==
  \/ DelayAdd(t) \/ DelayTrigger(t) \/ ResumeEnter(t)
  \/ pc[t] \notin Resuming /\ ResumeExit(t)

IpcNext ==
  /\ ~lists.stuck
  /\ \/ Boot /\ Elapse
     \/ \E t \in Task : (DelayCall(t) \/ DelayKernel(t)) /\ Elapse
     \/ Tick /\ Elapse
     \/ InTick /\ Elapse
     \/ PendSV /\ Elapse
     \/ \E t \in Task : AskSome(t) \/ Loop(t)

IpcSpec == IpcInit /\ [][IpcNext]_allVars

(* As in Scheduler: the processor does not stop, and the tick is latched. *)
IpcFairSpec ==
  /\ IpcSpec
  /\ WF_allVars(~lists.stuck /\ InTick /\ Elapse)
  /\ WF_allVars(~lists.stuck /\ PendSV /\ Elapse)
  /\ WF_allVars(~lists.stuck /\ \E t \in Task : DelayKernel(t) /\ Elapse)
  /\ WF_allVars(~lists.stuck /\ \E t \in Task : Loop(t))
  /\ SF_allVars(~lists.stuck /\ Tick /\ Elapse)
-----------------------------------------------------------------------------
(***************************************************************************)
(* A call that gives up has let at least TicksToWait ticks pass, over all   *)
(* its rounds, whatever tasks and ticks came in between and also when ticks *)
(* were pended and replayed (ipc.c:110, task.c:823-872).                    *)
(***************************************************************************)
NoEarlyTimeOut ==
  \A t \in Task :
    pc[t] \in {"resumeGiveUp", "giveUp"} => call[t].age >= call[t].asked

(***************************************************************************)
(* The scheduler is suspended exactly while the running task is between     *)
(* os_suspendAllTask and os_resumeAllTask of one round: each of the three   *)
(* ways out of a round resumes it, and no other task is in between          *)
(* (ipc.c:159-193, 282-320).                                                *)
(***************************************************************************)
Inside == {"check", "place", "delay", "resumeDelay"} \cup Resuming

RoundsBalanced ==
  /\ running /\ mode = "run" =>
       suspended = IF pc[current] \in Inside THEN 1 ELSE 0
  /\ \A t \in Task \ {current} : pc[t] \notin Inside

(***************************************************************************)
(* The queue stays a sound ring, whichever tasks work on it by turns and    *)
(* whatever the links of the tasks look like (ipc.c:343-396).               *)
(***************************************************************************)
QueueKept == q.waiting <= q.uxLength /\ InPhase(q) /\ AllSent(q)

(***************************************************************************)
(* The tasks share one bounded sequence.  Its content changes only when a   *)
(* call of the running task is served, and is then longer by the message of *)
(* that call, at the end that the call names, or shorter by the first one.  *)
(* So a message is sent once however many rounds its call goes through,     *)
(* and a call that gives up has sent nothing (ipc.c:112-396).               *)
(***************************************************************************)
ServedBy(t) ==
  /\ pc[t] = "try" /\ pc'[t] = "user" /\ current = t
  /\ \/ /\ call[t].op = "back" /\ Len(Messages(q)) < q.uxLength
        /\ Messages(q)' = Append(Messages(q), call[t].item)
     \/ /\ call[t].op = "front" /\ Len(Messages(q)) < q.uxLength
        /\ Messages(q)' = <<call[t].item>> \o Messages(q)
     \/ /\ call[t].op = "receive" /\ Messages(q) # <<>>
        /\ Messages(q)' = Tail(Messages(q))

SharedInOrder == [][\E t \in Task : ServedBy(t)]_(Messages(q))

(***************************************************************************)
(* ipc.c:170 and 293 say that a task that finds the queue full or empty is  *)
(* suspended: it is not back in its loop while it is on a delay list.       *)
(***************************************************************************)
WaiterBlocked == \A t \in Task : At(t, "try") => ~Asleep(t)

(***************************************************************************)
(* ipc.c:109-110 and 202-203 say that a call that may wait returns, with    *)
(* FALSE if its time passes.                                                *)
(***************************************************************************)
CallsReturn == \A t \in Task : pc[t] = "try" ~> pc[t] = "user"
-----------------------------------------------------------------------------
(***************************************************************************)
(* The inductive invariants that Ipc_proofs uses.  They say nothing of the  *)
(* links, which a call that waits leaves broken.                            *)
(***************************************************************************)
InLoop == {"try", "suspend", "check", "place", "triggerWait", "giveUp"} \cup Resuming
CallLabel == {"user", "delay", "trigger", "resumeDelay"} \cup InLoop

Call_t ==
  [ op           : Ops \cup {"none"},
    item         : Item \cup {NoItem},
    entryTimeSet : BOOLEAN,
    timeOut      : [overflowCount : 0 .. MaxOverflow, timeOnEntering : 0 .. MaxTick],
    asked        : Waits \cup {0},
    age          : 0 .. MaxTick ]

CallTypeOK ==
  /\ tickCount \in 0 .. MaxTick
  /\ ptrDelay \in DelayList
  /\ numOfOverflows \in 0 .. MaxOverflow
  /\ pc \in [Task -> CallLabel]
  /\ wait \in [Task -> 0 .. MaxTick]
  /\ call \in [Task -> Call_t]

(* Before Start no tick passes; a replay is that of the running task. *)
ReplayInv ==
  /\ ~running => tickCount = 0 /\ mode = "run"
  /\ mode \in {"resume", "retick"} =>
       current \in Task /\ pc[current] \in Resuming \cup {"resumeDelay"}

(***************************************************************************)
(* While the time of a call is not over, what it still has to wait, less    *)
(* the ticks since its record was set, is what its caller asked for, less   *)
(* its age; and a counter that wrapped in between has not caught up with    *)
(* the record.                                                              *)
(***************************************************************************)
RecordKept(t) ==
  LET c   == call[t]
      gap == Passed(c.timeOut, tickCount)
  IN  /\ gap <= c.age
      /\ wait[t] - gap = c.asked - c.age
      /\ numOfOverflows # c.timeOut.overflowCount
           => tickCount < c.timeOut.timeOnEntering

Timing(t) ==
  /\ pc[t] \notin InLoop => ~call[t].entryTimeSet
  /\ pc[t] \in InLoop \ {"try"} => call[t].entryTimeSet
  /\ pc[t] = "try" /\ ~call[t].entryTimeSet
       => wait[t] = call[t].asked /\ call[t].age = 0
  /\ call[t].entryTimeSet /\ call[t].age < call[t].asked => RecordKept(t)
  /\ pc[t] \in {"resumeGiveUp", "giveUp"} => call[t].age >= call[t].asked

TimingInv == \A t \in Task : Timing(t)

CallInv == CallTypeOK /\ ReplayInv /\ TimingInv

(* Who is inside a suspended section: what RoundsBalanced needs before it. *)
RoundsInv ==
  /\ suspended = IF running /\ mode = "run" /\ pc[current] \in Inside THEN 1 ELSE 0
  /\ \A t \in Task \ {current} : pc[t] \notin Inside
  /\ mode = "isr" => pc[current] \notin Inside
  /\ ~running => ~pendSV /\ \A t \in Task : pc[t] = "user"

(***************************************************************************)
(* What is left of the lists: links and heads lead to live tasks, a task    *)
(* remembers its own ready list or none of them, and the list of every bit  *)
(* of the bitmap has a head.  Bit 0 is that of IDLE alone, so it stays set. *)
(***************************************************************************)
LeadTo(m, S) ==
  /\ \A L \in ListId : m.head[L] \in S \cup {NULL}
  /\ \A t \in Task : m.next[t] \in S \cup {NULL} /\ m.last[t] \in S \cup {NULL}

SwitchInv ==
  /\ lists \in ListMem
  /\ LeadTo(lists, Live)
  /\ task_prior \in [Task -> Prio]
  /\ status \in [Task -> Status]
  /\ bitmap \subseteq Prio
  /\ ptrDelay \in DelayList
  /\ \A p \in bitmap : lists.head[p] # NULL
  /\ \A t \in Live : lists.taskListHead[t] \in {task_prior[t], NoList} \cup DelayList
  /\ \A t \in Live \ {Idle} : task_prior[t] > 0
  /\ current \in Live \cup {NULL}
  /\ pc[Idle] = "user"
  /\ running => current # NULL /\ 0 \in bitmap
  /\ ~running => Idle \notin Live

(***************************************************************************)
(* The queue is sound, and a call that is in the loop brings what a queue   *)
(* of its kind takes: a message, or NULL to the back of a semaphore.        *)
(***************************************************************************)
QueueInv ==
  /\ q \in QueueMem
  /\ QueueKept
  /\ \A t \in Task :
       /\ pc[t] \in InLoop => call[t].op \in Sends \cup Receives
       /\ call[t].op \in Sends /\ q.uxItemSize = 1 => call[t].item \in Item
       /\ call[t].op \in Sends /\ q.uxItemSize = 0
            => call[t].op = "back" /\ call[t].item = NoItem
=============================================================================
