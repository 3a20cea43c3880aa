# os_cook: a TLA+ model of the kernel

os_cook is a small preemptive kernel for one Cortex-M3 (about 2 000 lines of C
and assembler under `src/`). This directory holds TLA+ modules translated from
its source, TLC configurations that check them on small instances, and proofs,
checked by TLAPS, of the properties that matter most for every size of the
system. Line numbers below are those of the files under `src/`.

## 1. The system

### Components

| component | state | operations | modelled by |
|---|---|---|---|
| task lists (`task.c:211-387`, `task.h:10-25`) | list heads; `next`, `last`, `taskListHead` in each TCB | `os_addTaskToReadyList`, `os_taskListRemove`, `os_listInsertByDelay`, `os_listInsertEnd` | `TaskLists`, the last one in `Termination` (without the event links) |
| scheduler (`task.c:4-63, 394-766, 1013-1076`, `systick.c`, `intr.s`) | bitmap, delay-list pointers, tick counter, next due time, suspension count, pended ticks, pending yield, current task | creation, start, `os_delay`, deletion, suspend/resume, tick, context switch | `Scheduler` |
| what `os_delay` promises | who sleeps, ticks left | sleep, wake, tick | `Delays` (abstract) |
| self-deletion and IDLE (`task.c:460-479, 1045-1052`) | `os_tasksWaitingTermination`, the local variables of `IdleTask` | `os_taskDelete` of the caller, the loop of `IdleTask` | `Termination` |
| heap (`mem.c`) | free list by address, block headers, bytes left | `os_malloc`, `os_free` | `Heap`; the suspended sections around it in `Scheduler` |
| what the allocator promises | the regions given out | ask, grant, refuse, release | `Allocator` (abstract) |
| queues and semaphores (`ipc.c:1-105, 325-531`, `mqueue.h`, `semaphore.h`) | ring of messages, two pointers, count | create, reset, delete, send to either end, receive, peek, post, wait | `QueueData` (operators), `MsgQueue` (calls that do not wait) |
| what a queue promises | a bounded sequence | create, send, receive, refuse | `BoundedFifo` (abstract) |
| blocking calls (`ipc.c:107-322`, `task.c:695-742, 889-898`) | per call its time-out record and what is left of its time | the retry loop of `mQueueSend` and `mQueueReceive` | `Ipc` |
| time-outs (`task.c:812-872`) | overflow and tick count at the start of a wait | set, check | `TimeOut` (operators), `TimedWait` (one call) |
| mutexes (`ipc.c:536-690`, `task.c:900-1010`) | owner, `hold` | lock and unlock, up to the first unlock and after it; what needs a second task is never reached | `Mutex` |
| port layer (`cortex-m3/port.c`, `intr.s`, `systick.c`, `cm3.h`) | BASEPRI, nesting counter, pending bits | start-up, critical sections, PendSV, SysTick | `Port`; by its effect in `Scheduler` |
| board support, start-up (`cortex-m3/bsp`, `startup.s`) | device registers | register set-up, polled serial output | not modelled: no kernel state |
| demo (`keil_project/main.c`) | two tasks | create, start, delay for ever | `BootCreate`, `Start`, `DelayCall` |

### Interaction

A task enters the kernel by a plain function call. Kernel code outside critical
sections runs with interrupts enabled and keeps others out by *suspending the
scheduler* (a counter): SysTick then only counts a pended tick, PendSV only notes
a pending yield, and `os_resumeAllTask` replays both in a critical section. A
context switch is never a call: code sets PENDSVSET and the handler runs when
interrupts are unmasked. SysTick and PendSV have the same, lowest priority
(`port.c:41-43`), so neither preempts the other; when both are pending PendSV,
which has the lower exception number, goes first. `os_create_task` and
`os_taskDelete` call the allocator, which suspends and resumes the scheduler
twice per operation; between those sections other tasks run.

A blocking call tries its queue in a critical section, then suspends the scheduler,
checks its time-out, puts the task to sleep and resumes: other tasks run between
those steps. IDLE is a task like any other and works on the lists of tasks that
have ended. Mutexes are built on critical sections, so on the port layer.

### What is hard

- Interleaving: a tick can arrive between any two instructions outside a critical
  section, and preemption between two suspended sections of one operation.
- Wrap-around: due times are `clock_t` sums that wrap; two delay lists change
  roles when the counter wraps; `0xffffffff` is at once a time and "no time".
- Caches: the next due time and the priority bitmap duplicate what the lists say
  and are maintained at many places.
- Requests that outlive their cause: a switch requested while the scheduler is
  suspended, a tick that arrived meanwhile.
- Raw links: removal trusts the `taskListHead` a TCB remembers.
- Retries: a blocking call goes back to wait for what is left of its time, and
  computes it from counters that wrap.
- One nesting counter for all tasks, and handlers that clear the mask without
  restoring it.

`PROJECT.json` lists each hazard at its line with the properties aimed at it.

### What makes each component correct

- task lists: links agree, every traversal ends, a task is on one list;
- scheduler: strict preemption, exact bitmap and next due time, delay lists in
  phase with the counter, no tick lost, balanced suspension, exact delays,
  sleepers wake;
- termination: a task that has ended is never run again, its memory is released
  once, and the lists of the others stay right;
- heap: blocks tile the memory and do not overlap, free blocks are sorted and
  coalesced, bytes are conserved, a request that fits is not refused;
- queues: messages in order, `0 <= count <= length`; blocking calls: nobody gives up
  before its time, each round resumes the scheduler once;
- time-outs: a call waits its time in all, over retries and wrap-around;
- mutexes: `hold` tells how often the owner has locked, and a task that holds no lock can
  be switched out (neither is so: `MCHold`, run `mutex`);
- port layer: a task in a critical section is alone, the mask is set there and
  nowhere else, requested switches and ticks are served if sections are left.

## 2. The modules

**TaskLists** is the memory of the lists, as one record `ListMem` (heads, links,
`taskListHead` of every TCB). The list functions are operators from the record
before to the record after, so that an action composes them in the order of the
code. A list is what is reachable through links, not a sequence: if a change of the
code broke a link the model would break in the same way. `Visited` is the least
closed set of nodes (no recursion, so the module can be proved about); a
traversal that would not end sets `stuck`.

**Scheduler** has one variable per global of `task.c`, the PENDSVSET bit, and for
each task where it is in its kernel call. The correspondence of actions and code:

| action | code |
|---|---|
| `BootCreate`, `Start` | `os_create_task` from `main`, `os_taskStartScheduler` |
| `DelayZero`, `DelayCall`, `DelayAdd`, `DelayTrigger` | `os_delay` up to the suspension; the list work; TRIGGER at its end |
| `ResumeEnter`, `ResumeTick`, `ResumeTickEnd`, `ResumeExit` | the critical section of `os_resumeAllTask`, one step per pended tick |
| `SysTick`, `TickWake`, `SysTickEnd`, `SysTickPended` | the tick handler: count the tick, one step per woken task, request the switch; or pend it |
| `PendSV` | `PendSV_Handler`, `os_switchContext` |
| `CreateCall`, `CreateLink`, `CreateYield` | `os_create_task` by a task: allocations, critical section, test of the priority |
| `HeapCall`, `HeapDone` | `os_malloc`, `os_free`: a suspended section each, failing or not |
| `Delete` | the critical section of `os_taskDelete(other)`; `os_DeleteTCB` follows as two allocator calls |

*What is atomic.* A handler or critical section is one step, or several with
`mode` keeping everything else out when it contains a loop. Code that runs with
the scheduler suspended touches only state no interrupt reads then, so it is one
step; ticks and PendSV can come before and after it. Application code is "any of
the calls, at any time" (`Call`), and it may also never call.

*Inputs.* Priorities are arguments to `os_create_task` (out of range included:
`Clamp`), delays any value of `DelayTicks`, and the tasks of `Managers` may
create and delete.

**Delays** is the abstract specification: a task that asks for n ticks (`Ask`) goes to
sleep for the n it has asked for (`Sleep`) and is awake again after exactly n ticks; no
tick is counted while a call is between the two, and none may pass over a sleeper with 0
ticks left. It has no counter that wraps, no lists and no cache. `Scheduler!Promise` is
the refinement mapping: a task is asking from `DelayCall` until `DelayAdd`, with its ticks
left being the argument of the call (`wait`); it is asleep iff it is on a delay list, and
its ticks left are then `(ticksToDelay - tickCount) % (MaxTick + 1)`. So a due time that is
not computed from the argument violates it (the mutant `NextTick`).

**Heap** models `mem.c`: the memory is one record (`b_start` and the headers' links,
sizes and allocated bits, `b_FreeBytesRemaining`, whether `b_end` is set), and the
static functions are operators on it. A traversal stops at the node that `Before`
returns, reached through the links.

| action | code |
|---|---|
| `Ask`, `Grant`, `Refuse` | a call of `os_malloc`; its suspended section, which ends with a block (unlinked, split, the rest inserted, counted, marked) or with NULL; the first one runs `os_memInit` |
| `Unmark` | `os_free` up to line 136: the tests, and the allocated bit cleared |
| `Insert` | its suspended section: the bytes counted, the block inserted and coalesced |
| `Killed` | `os_taskDelete` of a task that is in one of the two calls and not yet in its suspended section |

*What is atomic.* Suspended sections exclude each other, so each is one step. `Unmark`
runs before the suspension, with other tasks in between. The instructions of
`os_insertBlockIntoFreeList` decide about both neighbours while they link; the
operator links first and merges afterwards, which leaves the same memory.
*Addresses* are offsets from the first aligned byte of `os_mem`. A header that has
been swallowed is reset: nothing reads it again.
*Inputs.* A task requests any size of `Requests` and releases any block that the
application holds, whoever asked for it.

**Allocator** is the abstract specification: regions are granted that are large
enough and apart from all that are held; a request is refused only if no such region
exists. It has no free list, so it says that the free list, the split and the
coalescing together lose nothing. `Heap!Promise` is the refinement mapping: a block is
held from its grant until it is back on the list. A block whose release was cut off by
a deletion stays held for ever.

**QueueData** has the functions of `ipc.c` on a `messageQueue_t` as operators from the
queue before to the queue after. Pointers are slot numbers, a slot holds a message, and a
semaphore is a queue whose messages have no bytes. **MsgQueue** makes one queue of them;
each call that does not wait is one step, because it does its work in one critical
section. A creation may fail and return NULL, and a queue may have no slots: its
`pcReadFrom` is then below its storage (`ipc.c:44`), and every call is refused.

| action | code |
|---|---|
| `mQueueCreate`, `mQueueCreateSemaphore`, `CreateFails`, `mQueueDelete`, `Reset` | `ipc.c:34-105, 519-531`; the memory of a new queue holds what was left in it |
| `mQueueSend`, `SendRefused` | `mQueueSend` with TicksToWait 0, `sem_post` |
| `mQueueReceive`, `ReceiveRefused` | `mQueueReceive` with TicksToWait 0, also as a peek, `sem_wait` |

**BoundedFifo** is the abstract specification: a sequence of at most `capacity`
messages; senders are refused only when it is full, receivers only when it is empty.
`MsgQueue!Fifo` is the refinement mapping: the content is `Messages(q)`, the slots behind
`pcReadFrom`.

**TimeOut** has `os_taskSetTimeOutState` and `os_taskCheckForTimeOut` as operators on a
time-out record. **TimedWait** is one call that uses them: it notes the time (`Enter`),
checks at any later ticks (`Check`), and returns. `elapsed` and `asked` are history, which
the code does not have: they say what the verdict should be.

**Ipc** composes `Scheduler`, `QueueData` and `TimeOut`: tasks call `mQueueSend` and
`mQueueReceive` on one queue and may wait.

| action | code |
|---|---|
| `Ask` | the call, by application code |
| `Serve`, `Refuse`, `NoteTime` | the critical section at the head of the loop and its three ways out |
| `Suspend`, `Check` | `os_suspendAllTask`, `os_taskCheckForTimeOut` |
| `Place`, `TryAgain` | `os_taskPlaceOnEventList`, or the queue has changed meanwhile |
| `EnterResume`, `LeaveResume`, `TriggerWait`, `GiveUp` | `os_resumeAllTask` on the three ways out of a round, TRIGGER, the last look at the queue |
| `Elapse` | conjoined to every step of `Scheduler`: `os_numOfOverflows`, and the age of each call (history) |

`os_taskPlaceOnEventList` gets the list head by value (`task.c:889`), so that
`xTasksWaitingToSend` and `xTasksWaitingToReceive` are NULL for ever. This is why the
branches that wake a waiting task, `os_taskRemoveFromEventList`, `os_pendingReadyList` and
`os_setTrigger` are not modelled: nothing reaches them. For the same reason the lock
counters are only ever -1 or 0 and the loops of `UnlockQueue` do nothing. `Place` does to
the links what the code does: a task that waits is linked into a delay list while the ready
list still points to it. A traversal that would not end sets `lists.stuck`, and the model
stops there.

**Termination** adds to `Scheduler` tasks that delete themselves (`EndSelf`,
`EndTrigger`: `task.c:1023-1076`) and the loop of `IdleTask` outside any
critical section: `IdleTest`, `IdleRemove`, `IdleFree`, `IdleCount`, and `IdleLoad` and
`IdleStore`, the read and the write of `os_resetNextTaskUnblockTime`. The model
ends (`Sane`) when a switch selects a deleted task or NULL: what the processor does then
depends on released memory. `IdleRemove` is one step, as the lists it touches are those of
tasks that are not ready while IDLE runs.

**Port** models the instructions around BASEPRI: `EnterMask` and `EnterCount`,
`ExitCount` and `ExitUnmask` (`os_enterCritical`, `os_exitCritical`), `DelayAdd` and
`DelayTrigger` (`os_delay`), `BootStep` (`os_taskStartScheduler` and the SVC handler),
`SysTickBegin` and `SysTickEnd`, `PendSVBegin` and `PendSVEnd`, `TimerExpires`. An
exception that is pending and not masked is taken before the next instruction
(`Imminent`). What the handlers decide is left open here: a tick wakes any sleepers, a
switch picks any task that is awake. `Scheduler` has that side, and relies on what `Port`
shows: critical sections exclude each other and the handlers.

**Mutex** adds one mutex to `Port`: `LockAgain`, `LockEnter`, `LockTake` (`mutexLock` by
the owner, and of a free mutex), `UnlockCount`, `UnlockEnter`, `UnlockRelease`. `LockTake`
returns with the critical section open, and `UnlockRelease` leaves only the section of
`UnlockEnter`: the nesting counter goes 1, 2, 1. `hold` wraps at its width. A task that
finds the mutex held by another one is no step: `LockerStays` says why none does.

The modules **MC...** give the constants their values for TLC; `TimedWait` and
`MsgQueue` need none. **Scheduler_proofs** holds the lemmas about lists and the theorems
about links, bitmap and counts; **SchedulerTime_proofs**, on top of it, those about time,
priorities and the refinement of `Delays`. **Ipc_proofs** and **Termination_proofs** also
extend `Scheduler_proofs`; they prove their own invariants and reuse its lemmas about
lists. **Heap_proofs**, **MsgQueue_proofs**, **TimedWait_proofs** and **Port_proofs** hold
the theorems about the heap, queues, time-outs, and the port layer with mutexes;
`Ipc_proofs` instantiates `MsgQueue_proofs` for its queue.

## 3. The runs

IDLE is always one of the tasks of the scheduler's runs.

| run | instance | shows |
|---|---|---|
| `life` | 2 tasks that delay, create and delete each other, priorities 0 and 2 of 3, counter of 4 values, up to 2 ticks in a suspended section, with fairness | links, bitmap, counts, suspension, the whole inductive invariant; strict preemption; no tick lost; `Delays` implemented, so that a task sleeps for what it asked; every sleeper is made ready or deleted |
| `delete` | 3 tasks of one priority that delay themselves, one creates and deletes the others | sorted insertion with ties and in the middle, several tasks due at one tick, deletion at the head, middle and end of a delay list: next due time, lists and delays exact |
| `timeslice` | 2 tasks, with fairness | disagreement 1 below |
| `heap` | 2 tasks, a heap of 20 bytes, headers and alignment of 2, sizes of 6 bits | blocks tile the heap, list exact and coalesced, bytes exact, `Allocator` implemented |
| `timedwait` | one call, counter of 4 values, waits of 1 to 3 ticks, gaps of up to a round | "timed out" exactly when it is, one budget over all retries |
| `queue` | queues of 0 to 3 slots with 2 messages, semaphores of maximum 0 to 3, nobody overwrites | pointers and count agree, `BoundedFifo` implemented |
| `ipc` | 2 tasks and a queue or semaphore of length 1, one of them waits 2 ticks | nobody gives up before its time, each round resumes the scheduler once |
| `blocked` | 1 task that waits on a queue | disagreement 2 |
| `end` | 2 tasks that may end and delay themselves, of any of 3 priorities, IDLE's too; up to the second that ends, or one of IDLE's priority (`OneEnded`) | the first one is not run again, links, bitmap and preemption stay right, every switch finds a task |
| `zombie` | 2 tasks that end themselves, 1 that delays itself | disagreement 3 |
| `port` | 2 tasks, IDLE and `main()`, critical sections nested twice, with fairness | one counter is enough, the mask is exact, sleepers leave, requests are served if sections are left |
| `mutex` | 1 task that locks, unlocks and delays itself | disagreement 4 |

*Bounds.* `MaxTick` (2 or 3) replaces `0xffffffff`: it is large enough for due times
before, at and after the wrap and for the value that doubles as "no time", and so
small that the counter wraps many times in a run. `PendBound` caps the ticks that
arrive in one suspended section: 1 or 2 make the replay wake tasks, wrap the
counter and find a second tick after the first; in `delete`, 0 leaves pended
ticks to the other runs. `DelayTicks`, `PrioArgs`, `Managers` and `Quitters` bound what
applications ask for. Three users are enough for a list with a middle.
In `heap`, 20 bytes hold up to four blocks, so that a release meets every combination of
free and held neighbours; the requests include 0, sizes that need rounding, one larger
than the heap, and one with the top bit (63) that would wrap to a small size; a rest is kept (at most 4 bytes) or split off.
In `timedwait`, `MaxGap` of a whole round is the most that the code can tell apart: two
checks of one call must not be further apart. In `queue`, three slots are enough for
pointers at both ends and between, and for messages around the end of the ring. In `ipc`,
`Waits` leaves out `0xffffffff`, which would use `os_suspendedTaskList`. In `port`,
`InitialNesting` stands for `0xaaaaaaaa`, and two levels are the first that an inner exit
could unmask. In `mutex` two locks and three levels of nesting let a task lock, unlock and
lock again. `end` explores, with the constraint `OneEnded`, every state up to the one in
which a second task ends, or one of IDLE's priority; what the code does from there on is
disagreement 3 and `MCLowest`. Symmetry
is used only for tasks that differ in nothing, and in no liveness run. Deadlock
is checked in every run but `ipc`, which stops when a traversal would not end.

*Fairness* (`FairSpec`). Weak fairness of the handlers' steps, of PendSV and of the
running task's kernel code: a processor does not stop. Strong fairness of the tick:
SysTick comes again and again and its request is latched while masked, so it is
served although masked sections disable it over and over. None for application
code: a task may compute for ever. `SleepersWake` needs no more than this.
`PendBound` means for liveness that a suspended section ends before a further
tick, as a section of finite length does. `PortFairSpec` assumes that handlers,
start-up and the second halves of the critical-section functions are executed, and nothing
else: not that a critical section is left, because the one of `mutexLock` is not.
`PendingServed` therefore has that as its premise: if again and again no thread is inside a
section (`OutsideSections`), what is pending is served. Nothing is assumed of
application code, which may compute for ever. That a call which waits ever returns is
checked nowhere but in `MCReturn`, and is violated there.

### Where code and comments disagree

1. `timeslice`. The comment at `task.c:567` says that the tick alternates between the
   ready tasks of the current priority. The tick does request a switch, but
   `os_switchContext` takes the head of the highest ready list (`task.c:62`) and nothing
   rotates that list. The run finds two ready tasks of the highest priority of which one
   never runs.
2. `blocked`. `ipc.c:170` and `ipc.c:293` say that a task that waits is suspended.
   `os_taskPlaceOnEventList` gets the list by value and links the task into that
   parameter (`task.c:889-898`), so that the removal from the ready list clears the parameter.
   The run finds the task on a delay list and back in its loop.
3. `zombie`. `os_listInsertEnd` does not set `taskListHead` on an empty list
   (`task.c:321-326`), so that IDLE's removal of a task that ended itself writes its
   successor to the head of a ready list (`task.c:279`). With two such tasks the second
   one is run after its deletion.
4. `mutex`. `task.c:744` says of `os_delay` that the task is delayed. `mutexLock` returns
   from its success path inside the critical section that it entered (`ipc.c:586-596`), and
   `mutexUnlock` leaves only the one that it enters itself (`ipc.c:660-677`), so that after
   the first lock the nesting counter never returns to 0. The run finds a task that has
   locked and unlocked a mutex and then calls `os_delay`: it is on a delay list, the switch
   is pending and masked, and it goes on. `LockerStays`, which is proved, is the rest of the
   consequence: no other task ever runs again. So no task finds a mutex held by
   another, which `ipc.c:598-637`, `mutex.h:25` and `task.c:938-942` are written for, and
   the models have no contention.

More configurations are kept beside the runs. Each one ends with a violation of its one
property (`tlc -config MCLate.cfg MCTermination`, and so on). They show what
the code does where the runs leave an input out, or what a defect leads to:

| configuration | module | shows |
|---|---|---|
| `MCOverwrite` | `MsgQueue` | a send with OVERWRITE to a full queue counts one message more than there is room for (`ipc.c:123`, 376) |
| `MCResult` | `MsgQueue` | success is reported as PASS, which is 0 and so FALSE (`ipc.c:110`, 138, 203, 261) |
| `MCReturn` | `MCIpc` | the consequence of 2: a call that waits never returns, although `ipc.c:109-110` says what it returns (fairness: `IpcFairSpec`) |
| `MCRelease`, `MCLowest` | `MCTermination` | further consequences of 3: memory is released twice; with a task of IDLE's priority a switch selects NULL |
| `MCLate` | `MCTermination` | IDLE stores a next unblock time later than a due time, because it reads and writes outside a critical section (`task.c:476`) |
| `MCHold` | `MCMutex` | after 256 locks `hold` is 0 (`ipc.c:579`, `mutex.h:10`) |

Two configurations pass: `MCShared` (`MCIpc`) checks the inductive invariants of `Ipc` of
section 4 and the order of messages of two tasks (`SharedInOrder`), `MCLocker`
(`MCMutex`) `MutexInv` and `LockerStays` with two tasks and a count that wraps. The
latter describe what a defect does and not what the code promises, so they are no run.

## 4. The proofs

Every theorem about the scheduler holds for any finite set of tasks, any number of priorities, any
width of `clock_t` and any bounds, under `ListsAssumption` and
`SchedulerAssumption`, which every run evaluates.

The invariants TLC checks are not inductive: `ListsIntact` says nothing of links
behind a cycle, `BitmapExact` needs that IDLE never leaves its list, and so on.
The inductive invariant `Inductive` of `Scheduler` (a property of `life`) has three parts:

- `Inv`: types; `Linked`, the links of the live tasks agree and hold no cycle;
  the bitmap; IDLE is ready for ever and the running task is alive; who may be
  inside a suspended section; a TCB that is neither free nor on a list has exactly
  one task working on it; the count of tasks;
- `TimeInv`: due times along the delay lists against the counter, the next due
  time, and who may be asleep;
- `PriorityInv`: a ready task more urgent than the running one implies a request
  for a switch somewhere (PENDSVSET, the pending yield, the handler's local
  variable, or code that is yet to request it).

*Lists without recursion.* `NoCycle(link, S)` says that every nonempty set of nodes
contains one whose link leaves the set. From it `Scheduler_proofs` derives that
traversals end, that `Visited` from a head is exactly the set of tasks that
remember this list, and that removal, append and sorted insertion preserve it.
Sortedness, stated for neighbours, yields that the head is the minimum by the
same argument, applied to a set that would be closed under `last`.

| theorem | says |
|---|---|
| `TypeCorrect`, `ListsAlwaysIntact`, `BitmapAlwaysExact`, `TasksCounted`, `AlwaysBalanced` | `[]` of the invariant, from `Inv` |
| `UnblockAlwaysExact`, `AlwaysInPhase` | the next due time is exact; lists sorted and in phase |
| `NeverLosesTicks` | action property: time moves by one with each tick and by nothing else |
| `AlwaysStrict` | strict preemption |
| `InductiveHolds` | the three parts together |
| `DelaysAreExact` | `Spec => Promise!Spec`: `Scheduler` implements `Delays` |

For the heap, `HeapInv` adds to the checked invariants that links of blocks not in the
list are NULL (`Clean`), which `os_free` tests, and that a block is held for one reason
(`HeldOnce`). Each operator on the memory has a lemma that it keeps `ListOK`
(`LinkOK`, `MergeOK`, `InsertOK`, `UnlinkOK`, `CutOK`); `TakeOK` and `ReleaseOK` add
coalescing and the count of bytes. `WantedIs` is the arithmetic of sizes: below the
top bit nothing wraps. `RoomIsFound` is the heart of the refinement: room that no held
block overlaps lies in one free block, because free blocks do not touch, so first fit
finds a block. The theorems hold for any size of the heap, any alignment and any width
of `size_t`, under `HeapAssumption`.

| theorem | says |
|---|---|
| `HeapAlwaysSound` | `HeapInv` is invariant |
| `HeapTypeCorrect`, `AlwaysTiled`, `FreeListAlwaysExact`, `AlwaysCoalesced`, `BytesAlwaysExact`, `AlwaysAligned` | `[]` of `TypeOK` and of each property of run `heap` |
| `HeapAllocates` | `Spec => Promise!Spec`: `Heap` implements `Allocator` |

For queues, `QueueInv` says where the messages lie: behind `pcReadFrom`, in
consecutive slots around the end of the ring. The lemmas `SlotIs`, `RingNext` and
`RingApart` are the arithmetic of a ring; `BackOfQueue`, `FrontOfQueue` and `FromQueue` say
what each operation does to the sequence `Messages(q)`, and they carry the refinement. The theorems hold for any
length and any messages, if senders do not overwrite (`OVERWRITE` is not in
`Positions`) and the first value of a semaphore is within its maximum, which
`ipc.c:527` does not test.

| theorem | says |
|---|---|
| `QueueAlwaysSound`, `QueueNeverOverfull`, `QueueAlwaysInPhase` | `[]` of `QueueInv`, `NeverOverfull`, `PointersInPhase` |
| `QueueKeepsOrder` | `Spec => Fifo!Spec`: `MsgQueue` implements `BoundedFifo` |

For time-outs, `RecordInv` relates the record to the counters: the record plus the ticks
since it was set is the counter, wrapped at most once, and the overflow count tells which.
`CheckSees` then says what `os_taskCheckForTimeOut` reads off. The theorems hold for any
width of the counter and any waits, if two checks of one call are at most a round apart.

| theorem | says |
|---|---|
| `WaitAlwaysSound`, `BudgetAlwaysKept` | `[]` of `WaitInv` and `BudgetKept` |
| `VerdictAlwaysExact` | action property: "timed out" exactly when the time is over |

For the port layer, `PortInductive` says how far start-up is, that a thread inside or at
the edge of a critical section is the running one with no handler active, and what
BASEPRI is then. `MutexInv` adds the mutex; the steps of `Port` are reused by `MutexPortOK`.
The theorems hold for any number of tasks and any depth of nesting below the width of the
counter; those about the mutex do not ask whether `hold` wraps. `Stuck`
is the part of `MutexInv` that carries `LockerStays`: the owner is inside a section deeper
than any that its own calls will leave.

| theorem | says |
|---|---|
| `PortSound`, `AlwaysAlone`, `MaskAlwaysExact`, `SleepersAlwaysLeave` | `[]` of `PortInductive`, `CriticalAlone`, `MaskExact`, `SleeperLeaves` |
| `MutexSound`, `LockerAlwaysStays` | `[]` of `MutexInv`; `LockerStays`: who locks the mutex is the only task that runs from then on |

For calls that wait, nothing can be taken over from `Scheduler`: a task that waits is on a
delay list while the ready list still points to it, so that links disagree, lists may
have cycles and traversals need not end. `Ipc` needs three invariants of its own, and the
queue a fourth:

- `CallInv`: `RecordKept` relates the record of a call, its remaining time, its age and
  both counters over all rounds. A tick adds one to the age and one to the ticks since
  the record (`TickKeepsRecord`), and `Check` moves what has passed from the one account to
  the other. It says nothing of lists, so it needs no assumption on priorities.
- `SwitchInv`: what is left of the lists. Heads and links lead to live tasks or NULL
  (`RemoveLeads`, `AppendLeads`, `InsertLeads`: no list function makes a link from nothing),
  and each bit of the bitmap has a head. IDLE is never moved, and if it alone has priority
  0 nobody else clears bit 0: so a switch finds a task.
- `RoundsInv`: `suspended` is 1 exactly where the running task is inside a round. It
  needs `SwitchInv`, because a switch must find somebody to run.
- `QueueInv`: the queue is a sound ring, and calls bring what it takes. The steps are the
  lemmas of `MsgQueue_proofs`.

`RoundsAlwaysBalanced` and its neighbours assume `IdleAlone`: no application task has
priority 0, as in `main.c:48-52`, and there is more than one priority. The code does not
enforce this; TLC found no violation of `RoundsBalanced` without it, but a proof would have
to follow the cycles of a list that IDLE shares.

| theorem | says |
|---|---|
| `CallsAlwaysCharged`, `NeverEarly` | `[]` of `CallInv` and `NoEarlyTimeOut` |
| `LinksAlwaysLead`, `RoundsAlwaysBalanced` | `[]` of `SwitchInv /\ RoundsInv` and of `RoundsBalanced` |
| `AlwaysSomeTask` | a switch gets the TCB of a task (`task.c:61`) |
| `SharedQueueSound`, `SharedQueueInOrder` | `[]` of `QueueInv`; action property `SharedInOrder`: the content changes by the message of a served call and by nothing else |

For tasks that end themselves, `Inv` fails in two places: IDLE lowers the count of
tasks in every round, and calls the allocator. `EndInv` therefore drops `TaskCount` and
asks where the count is read (`task.c:634`): only to decide whether a resume replays
pended ticks, and no request for a switch may depend on it (`RequestInv`). `EndedInv` says
what the ended task leaves behind: a TCB with no links and with the `taskListHead` of
its old ready list. IDLE, which removes that TCB again and again because it never clears
`os_tasksWaitingTermination`, writes NULL to the head of that list each time. This is
harmless for one reason: IDLE executes only when every other ready list is empty, so the
head is NULL already (`IdleAlways`, `IdleRemoveNothing`).

The theorems are about any tasks that delete themselves and any priorities, and say what
holds as long as `OneEnded` does: at most one task has ended, and not one of the priority
of IDLE. Both parts are needed, and nothing is claimed beyond. With a second ended task
the removal follows the link between them (run `zombie`). With one of priority 0 the old
ready list is that of IDLE itself, which is not empty, and its removal takes IDLE
off: `BitmapExact` fails, and `MCLowest` shows a switch to NULL. A task that has ended stays
so, also where the lists are broken (`StatusInv`, `EndedGrow`); so `OneEnded` holds of every
state before one where it holds, and it is enough that a step which leads to such a state
preserves `EndInv` (`EndStep`).

| theorem | says |
|---|---|
| `EndSound` | `[]` of `EndInductive`, which is `OneEnded => EndInv` |
| `EndedNeverRun` | `[]` of `FirstNeverRuns`, which is `OneEnded => DeletedNeverRuns` |
| `EndStaysHarmless` | `[]` of `FirstHarmless`: while `OneEnded`, `BitmapExact`, `ListsIntact`, `SwitchFindsTask` and `StrictPriority` |

TLC has checked every one of these invariants before it was proved: `Inductive`, `HeapInv`,
`WaitInv`, `QueueInv` of `MsgQueue`, `PortInductive` and `EndInductive` in the runs, those of
`Ipc` and `Mutex` with the configurations `MCShared` (3.5 million states: two tasks, a queue
of two slots or a semaphore) and `MCLocker`.

Only model-checked: the liveness properties `SleepersWake`, `TimeSlices` and
`PendingServed` (fairness and ENABLED are beyond the prover), and what the violating runs
and configurations show. Every invariant and action property of a passing run is a
theorem.

## 5. What is not modelled

- Code that nothing reaches: event lists and the branches that take a task off one,
  `os_pendingReadyList`, `os_setTrigger`, `os_taskPriorInherit` and the part of
  `os_taskPriorDisinherit` that changes a priority (see disagreements 2 and 4).
- Waits of `0xffffffff` ticks, which would use `os_suspendedTaskList`; reset and deletion
  of a queue on which others wait. In `Ipc` peeks and sends to the front are modelled, but
  the run leaves them to `queue`.
- In `MsgQueue`: that `mQueueLength * ItemSize` may exceed the width of its type
  (`ipc.c:84`), so that a queue gets less storage than its slots need; a call on the NULL
  that a failed creation returns.
- In `Delete`: the removal from an event list (`task.c:1039-1042`). Its test dereferences
  `eventListHead`, which is NULL, and so reads word 0 of the vector table, the initial stack
  pointer. That is not 0, so the removal is not made; on a processor with something else
  at address 0 it would be.
- What runs after a deleted task or NULL has been selected (`Sane` in `Termination`).
- Locking a mutex in `main()`; `mutexDelete`, which only releases memory; code under
  `INCLUDE_...` macros that nothing defines.
- In `Scheduler` the contents of the heap: an allocation succeeds or fails at will.
- In `Heap`: releasing a block twice or writing outside it. Two tasks that release one
  block at once could both pass the test at `mem.c:131` before either clears the bit at
  `mem.c:136`; the application must not.
- `b_MinimumEverFreeBytesRemaining`, which is written and never read.
- Stacks and saved registers (`os_initTaskStack`), task names, entry points and arguments.
- `RaiseBASEPRIReturn`, which has no caller.
- A failed creation of IDLE: the scheduler does not start and nothing follows.
- Deletion of a TCB that is on no list (one whose handle is published at `task.c:204`
  before the task is linked), and double deletion: `Delete` takes live victims.
- `os_create_task` reads the priority of the new TCB after its critical section
  (`task.c:427`). If another task deleted it and freed its memory meanwhile, the model
  reads the old value, although the memory may have been allocated again.
- `os_delay` called by an application before the start or from a handler.

## 6. What could follow

The registers that PendSV and SVC save and load, as an own module that implements one
processor per task; the branches of mutexes and event lists listed above, once the code
reaches them: `Mutex` and `Ipc` are laid out so that a repaired `mutexLock` or
`os_taskPlaceOnEventList` changes one action, and the properties are there to check the
repair. Of the hazards in `PROJECT.json`, those with a note and no property say what
keeps them open.
