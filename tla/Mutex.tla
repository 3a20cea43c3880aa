-------------------------------- MODULE Mutex --------------------------------
(***************************************************************************)
(* One mutex of ipc.c over the port layer.  mutexLock returns from its      *)
(* success path inside the critical section that it entered (ipc.c:586-596).*)
(* mutexUnlock leaves only the section that it enters itself (660-677), so  *)
(* from the first lock on the nesting counter never returns to 0, and the   *)
(* interrupts stay masked, whatever is unlocked.                            *)
(*                                                                         *)
(* A task that finds the mutex held by another one (ipc.c:598-637) is no    *)
(* step here: LockerStays, which Port_proofs proves, says that no other     *)
(* task ever runs after the first lock, so that none can find it held.      *)
(***************************************************************************)
EXTENDS Port

CONSTANTS
  NULL,
  MaxHold,    (* the largest u8_t, the type of hold                          *)
  MaxLocks    (* bound: how often one task has locked the mutex              *)

MutexAssumption ==
  /\ MaxHold \in Nat \ {0}
  /\ MaxLocks \in Nat
  /\ NULL \notin Task

VARIABLES
  owner, hold,  (* of the mutex                                              *)
  call,         (* where a task is in mutexLock or mutexUnlock               *)
  held          (* history: locks that a task took and did not give back     *)

mutexVars == <<owner, hold, call, held>>
allVars == <<portVars, mutexVars>>

MutexInit ==
  /\ PortInit
  /\ owner = NULL /\ hold = 0
  /\ call = [t \in Task |-> "out"]
  /\ held = [t \in Task |-> 0]

-----------------------------------------------------------------------------
InCall(t, where) == Runs(t, "run") /\ call[t] = where
Continues(t, where) == call' = [call EXCEPT ![t] = where]

(* mutexLock by the owner: counted outside any critical section of its own. *)
LockAgain(t) ==
  /\ InCall(t, "out")
  /\ owner = t
  /\ held[t] < MaxLocks
  /\ hold' = (hold + 1) % (MaxHold + 1)
  /\ held' = [held EXCEPT ![t] = @ + 1]
  /\ UNCHANGED <<portVars, owner, call>>

(* mutexLock by another task enters a critical section, *)
LockEnter(t) ==
  /\ call[t] = "out"
  /\ owner # t
  /\ held[t] < MaxLocks
  /\ depth[t] + 1 < MaxNest    \* bound: room for the unlock
  /\ EnterMask(t)
  /\ Continues(t, "locking")
  /\ UNCHANGED <<owner, hold, held>>

(* takes the mutex, which is free, and returns without leaving the section. *)
LockTake(t) ==
  /\ InCall(t, "locking")
  /\ hold = 0
  /\ hold' = 1
  /\ owner' = t
  /\ held' = [held EXCEPT ![t] = @ + 1]
  /\ Continues(t, "out")
  /\ UNCHANGED portVars

(* mutexUnlock by the owner: lowers hold, and goes on if that was the last. *)
UnlockCount(t) ==
  /\ InCall(t, "out")
  /\ owner = t
  /\ LET left == (hold + MaxHold) % (MaxHold + 1)
     IN  hold' = left /\ Continues(t, IF left = 0 THEN "unlocking" ELSE "out")
  /\ held' = [held EXCEPT ![t] = IF @ = 0 THEN 0 ELSE @ - 1]
  /\ UNCHANGED <<portVars, owner>>

UnlockEnter(t) ==
  /\ call[t] = "unlocking"
  /\ EnterMask(t)
  /\ Continues(t, "releasing")
  /\ UNCHANGED <<owner, hold, held>>

(* No task inherited a priority, so os_taskPriorDisinherit changes nothing. *)
UnlockRelease(t) ==
  /\ InCall(t, "releasing")
  /\ owner' = NULL
  /\ hold' = 0
  /\ ExitCount(t)
  /\ Continues(t, "out")
  /\ UNCHANGED held

(* What tasks do besides: they have no critical sections of their own. *)
Otherwise(t) ==
  /\ \/ EnterCount(t)
     \/ ExitUnmask(t)
     \/ DelayTrigger(t)
     \/ call[t] = "out" /\ DelayAdd(t)
  /\ UNCHANGED mutexVars

MutexNext ==
  \/ (BootStep \/ Hardware) /\ UNCHANGED mutexVars
  \/ \E t \in Task \ {Idle} :
       \/ LockAgain(t)
       \/ LockEnter(t)
       \/ LockTake(t)
       \/ UnlockCount(t)
       \/ UnlockEnter(t)
       \/ UnlockRelease(t)
       \/ Otherwise(t)

MutexSpec == MutexInit /\ [][MutexNext]_allVars

-----------------------------------------------------------------------------
(***************************************************************************)
(* A task that holds no lock and calls os_delay leaves the processor        *)
(* ("任务延时，单位为tick", task.c:744), whatever it locked and unlocked    *)
(* before.  The section that its mutexLock left open keeps PendSV masked    *)
(* after the unlock too, so os_delay returns at once.                       *)
(***************************************************************************)
UnlockedSleeps ==
  (current \in asleep /\ held[current] = 0) => SleeperLeaves

(***************************************************************************)
(* hold counts the locks of the owner, and is 0 when nobody holds the mutex *)
(* ("为0时表示，互斥量没有被持有，大于0时表示被递归持有的次数", mutex.h:10).*)
(***************************************************************************)
HoldTells ==
  \A t \in Task : held[t] > 0 => hold = held[t]

(* Task t is inside a section that no step of its own will leave. *)
Stuck(t) ==
  /\ depth[t] > 0
  /\ call[t] = "releasing" /\ pc[t] # "entering" => depth[t] > 1

(***************************************************************************)
(* Once a task has locked the mutex no other task runs ever again, after    *)
(* its unlock neither (ipc.c:586-596, 660-677).                             *)
(***************************************************************************)
LockerStays == \A t \in Task : [](owner = t => [](current = t))

(***************************************************************************)
(* The inductive invariant of Port_proofs.  A task that is about to take    *)
(* the mutex finds it free: mutexLock has no other outcome.                 *)
(***************************************************************************)
MutexInv ==
  /\ PortInv
  /\ owner \in Task \cup {NULL}
  /\ hold \in 0 .. MaxHold
  /\ call \in [Task -> {"out", "locking", "unlocking", "releasing"}]
  /\ held \in [Task -> 0 .. MaxLocks]
  /\ owner = NULL => hold = 0
  /\ \A t \in Task :
       /\ owner = t => Stuck(t)
       /\ owner # t => call[t] \in {"out", "locking"}
       /\ call[t] = "locking" => /\ owner = NULL /\ held[t] < MaxLocks
                                 /\ depth[t] > 0 \/ pc[t] = "entering"
=============================================================================
