-------------------------------- MODULE Port --------------------------------
(***************************************************************************)
(* The port layer: start-up, BASEPRI and the nesting counter of critical    *)
(* sections, and the two handlers that BASEPRI holds back (port.c,          *)
(* systick.c, intr.s).  What the handlers do to the lists is the subject of *)
(* Scheduler: here a tick wakes any sleepers and a switch picks any task    *)
(* that is awake.                                                           *)
(*                                                                         *)
(* SysTick and PendSV have one priority, the lowest: neither preempts the   *)
(* other, and PendSV goes first when both are pending.                      *)
(***************************************************************************)
EXTENDS Integers

CONSTANTS
  Task,             (* the tasks that main() created, and IDLE               *)
  Idle,
  Main,             (* main(), before the first task runs                    *)
  MaxNesting,       (* the largest u32_t                                     *)
  InitialNesting,   (* 0xaaaaaaaa                                            *)
  MaxNest           (* bound: critical sections that one thread is inside    *)

ASSUME PortAssumption ==
  /\ Idle \in Task
  /\ Main \notin Task
  /\ MaxNesting \in Nat /\ InitialNesting \in Nat /\ MaxNest \in Nat \ {0}
  /\ 0 < InitialNesting
  /\ InitialNesting + MaxNest <= MaxNesting

VARIABLES
  boot,      (* how far os_taskStartScheduler is: see BootStep               *)
  current,   (* the thread whose context is loaded                           *)
  masked,    (* BASEPRI is set                                               *)
  nesting,   (* CriticalNesting                                              *)
  pendSV,    (* PENDSVSET                                                    *)
  pendST,    (* SysTick is pending                                           *)
  active,    (* the handler that runs, or "none"                             *)
  asleep,    (* the tasks that os_delay took off the ready lists             *)
  pc,        (* where a thread is in ENTER_CRITICAL, EXIT_CRITICAL, os_delay *)
  depth      (* history: critical sections that a thread entered and not left*)

threadVars == <<pc, depth>>
nvic == <<pendSV, pendST, active>>
portVars == <<boot, current, masked, nesting, nvic, asleep, threadVars>>

Thread == Task \cup {Main}

PortTypeOK ==
  /\ boot \in {"creating", "disabled", "timed", "zeroed", "tasks"}
  /\ current \in Thread
  /\ {masked, pendSV, pendST} \subseteq BOOLEAN
  /\ nesting \in 0 .. MaxNesting
  /\ active \in {"none", "SysTick", "PendSV"}
  /\ asleep \subseteq Task \ {Idle}
  /\ pc \in [Thread -> {"run", "entering", "exiting", "delaying"}]
  /\ depth \in [Thread -> 0 .. MaxNest]

PortInit ==
  /\ boot = "creating"
  /\ current = Main
  /\ masked = FALSE
  /\ nesting = InitialNesting
  /\ pendSV = FALSE /\ pendST = FALSE
  /\ active = "none"
  /\ asleep = {}
  /\ pc = [t \in Thread |-> "run"]
  /\ depth = [t \in Thread |-> 0]

-----------------------------------------------------------------------------
(* An exception that is pending and not masked is taken before the next instruction. *)
Imminent == ~masked /\ active = "none" /\ (pendSV \/ pendST)

(* Thread t is at `step` and executes its next instruction. *)
Runs(t, step) == current = t /\ active = "none" /\ ~Imminent /\ pc[t] = step

Goto(t, step) == pc' = [pc EXCEPT ![t] = step]

(* os_enterCritical masks, and then counts. *)
EnterMask(t) ==
  /\ Runs(t, "run")
  /\ depth[t] < MaxNest
  /\ masked' = TRUE
  /\ Goto(t, "entering")
  /\ UNCHANGED <<boot, current, nesting, nvic, asleep, depth>>

EnterCount(t) ==
  /\ Runs(t, "entering")
  /\ nesting' = (nesting + 1) % (MaxNesting + 1)
  /\ depth' = [depth EXCEPT ![t] = @ + 1]
  /\ Goto(t, "run")
  /\ UNCHANGED <<boot, current, masked, nvic, asleep>>

(* os_exitCritical counts, and unmasks if that was the last level. *)
ExitCount(t) ==
  /\ Runs(t, "run")
  /\ depth[t] > 0
  /\ nesting' = (nesting + MaxNesting) % (MaxNesting + 1)
  /\ depth' = [depth EXCEPT ![t] = @ - 1]
  /\ Goto(t, "exiting")
  /\ UNCHANGED <<boot, current, masked, nvic, asleep>>

AnyLevel(n) == TRUE     \* a fault: every exit unmasks
TestsBefore(n) == n = 1 \* a fault: the counter is tested before it is lowered
LastLevel(n) == n = 0

ExitUnmask(t) ==
  /\ Runs(t, "exiting")
  /\ masked' = (masked /\ ~LastLevel(nesting))
  /\ Goto(t, "run")
  /\ UNCHANGED <<boot, current, nesting, nvic, asleep, depth>>

(* TRIGGER *)
Trigger(t) ==
  /\ Runs(t, "run")
  /\ t \in Task
  /\ pendSV' = TRUE
  /\ UNCHANGED <<boot, current, masked, nesting, pendST, active, asleep, threadVars>>

(* os_delay: its suspended section, and the TRIGGER at its end. *)
DelayAdd(t) ==
  /\ Runs(t, "run")
  /\ t \in Task \ {Idle}
  /\ asleep' = asleep \cup {t}
  /\ Goto(t, "delaying")
  /\ UNCHANGED <<boot, current, masked, nesting, nvic, depth>>

NotTriggered(t) ==   \* a fault: os_delay returns without TRIGGER
  /\ Runs(t, "delaying")
  /\ Goto(t, "run")
  /\ UNCHANGED <<boot, current, masked, nesting, nvic, asleep, depth>>

DelayTrigger(t) ==
  /\ Runs(t, "delaying")
  /\ pendSV' = TRUE
  /\ Goto(t, "run")
  /\ UNCHANGED <<boot, current, masked, nesting, pendST, active, asleep, depth>>

-----------------------------------------------------------------------------
(***************************************************************************)
(* os_taskStartScheduler once IDLE exists: DISABLE_INTERRUPTS,              *)
(* os_setupTimer, the counter set to 0, and SVC, whose handler loads the    *)
(* context of os_currentTCB and clears BASEPRI.                             *)
(***************************************************************************)
BootStep ==
  /\ current = Main /\ pc[Main] = "run"
  /\ UNCHANGED <<nvic, asleep, threadVars>>
  /\ \/ /\ boot = "creating" /\ depth[Main] = 0
        /\ boot' = "disabled" /\ masked' = TRUE
        /\ UNCHANGED <<current, nesting>>
     \/ /\ boot = "disabled" /\ boot' = "timed"
        /\ UNCHANGED <<current, nesting, masked>>
     \/ /\ boot = "timed" /\ boot' = "zeroed" /\ nesting' = 0
        /\ UNCHANGED <<current, masked>>
     \/ /\ boot = "zeroed" /\ boot' = "tasks" /\ current' \in Task /\ masked' = FALSE
        /\ UNCHANGED nesting

(* The timer runs out.  A second time before the handler runs leaves no trace. *)
TimerExpires ==
  /\ boot \in {"timed", "zeroed", "tasks"}
  /\ ~pendST
  /\ pendST' = TRUE
  /\ UNCHANGED <<boot, current, masked, nesting, pendSV, active, asleep, threadVars>>

(* SysTick_Handler, up to its RaiseBASEPRI. *)
SysTickBegin ==
  /\ Imminent /\ ~pendSV
  /\ active' = "SysTick" /\ pendST' = FALSE /\ masked' = TRUE
  /\ UNCHANGED <<boot, current, nesting, pendSV, asleep, threadVars>>

StaysMasked ==   \* a fault: ClearBASEPRIFromISR is left out
  /\ active = "SysTick" /\ active' = "none"
  /\ UNCHANGED <<boot, current, masked, nesting, pendST, pendSV, asleep, threadVars>>

(* os_taskIncrementTick may wake sleepers, and may ask for a switch. *)
SysTickEnd ==
  /\ active = "SysTick" /\ active' = "none" /\ masked' = FALSE
  /\ \E woken \in SUBSET asleep : asleep' = asleep \ woken
  /\ \E asks \in BOOLEAN : pendSV' = (pendSV \/ asks)
  /\ UNCHANGED <<boot, current, nesting, pendST, threadVars>>

(* PendSV_Handler, up to os_switchContext. *)
PendSVBegin ==
  /\ Imminent /\ pendSV
  /\ active' = "PendSV" /\ pendSV' = FALSE /\ masked' = TRUE
  /\ UNCHANGED <<boot, current, nesting, pendST, asleep, threadVars>>

(* It clears BASEPRI and loads the context of the task that was selected. *)
PendSVEnd ==
  /\ active = "PendSV" /\ active' = "none" /\ masked' = FALSE
  /\ current' \in Task \ asleep
  /\ UNCHANGED <<boot, nesting, pendST, pendSV, asleep, threadVars>>

Hardware == TimerExpires \/ SysTickBegin \/ SysTickEnd \/ PendSVBegin \/ PendSVEnd

(* main() has only critical sections of its own until DISABLE_INTERRUPTS. *)
MayEnter(t) == t = Main => boot = "creating"

PortNext ==
  \/ BootStep
  \/ Hardware
  \/ \E t \in Thread :
       \/ MayEnter(t) /\ EnterMask(t)
       \/ EnterCount(t)
       \/ ExitCount(t)
       \/ ExitUnmask(t)
       \/ Trigger(t)
       \/ depth[t] = 0 /\ DelayAdd(t)
       \/ DelayTrigger(t)

PortSpec == PortInit /\ [][PortNext]_portVars

(***************************************************************************)
(* The processor does not stop in kernel code.  Nothing is assumed of the   *)
(* code inside critical sections, nor of application code: mutexLock, for   *)
(* one, returns from inside a section (ipc.c:586-596).                      *)
(***************************************************************************)
PortFairSpec ==
  /\ PortSpec
  /\ WF_portVars(BootStep)
  /\ WF_portVars(SysTickBegin \/ SysTickEnd \/ PendSVBegin \/ PendSVEnd)
  /\ \A t \in Thread : WF_portVars(EnterCount(t) \/ ExitUnmask(t) \/ DelayTrigger(t))

-----------------------------------------------------------------------------
(***************************************************************************)
(* The counter is one for all threads and no context switch saves it.  That *)
(* is sound because a thread inside a critical section is the running one   *)
(* and nothing interrupts it, so that the counter is always its own         *)
(* (port.c:176-197).                                                        *)
(***************************************************************************)
CriticalAlone ==
  /\ \A t \in Thread : depth[t] > 0 => t = current /\ active = "none"
  /\ boot = "tasks" => nesting = depth[current]
  /\ boot \in {"creating", "disabled", "timed"} => nesting = InitialNesting + depth[Main]

(***************************************************************************)
(* Between its instructions a task is masked exactly when it is inside a    *)
(* critical section, whatever interrupted it before: the handlers clear     *)
(* BASEPRI and do not restore it (systick.c:34, intr.s:69-70).  In main()   *)
(* nothing interrupts from the moment the timer runs (task.c:490).          *)
(***************************************************************************)
MaskExact ==
  /\ (boot = "tasks" /\ active = "none" /\ pc[current] = "run")
       => (masked <=> nesting > 0)
  /\ boot \in {"timed", "zeroed"} => masked /\ active = "none"

(***************************************************************************)
(* A task that asked to sleep does not go on before it is woken: when       *)
(* os_delay returns, the switch that takes the processor away is imminent   *)
(* ("任务延时，单位为tick", task.c:744).                                    *)
(***************************************************************************)
SleeperLeaves ==
  (active = "none" /\ pc[current] = "run" /\ current \in asleep) => Imminent

(* A thread that is between the mask and the counter, on either side. *)
OnTheEdge(t) == pc[t] \in {"entering", "exiting"}

(***************************************************************************)
(* What every step of the port layer preserves, in three parts: start-up;   *)
(* who may be inside a critical section, and what the counter then is; and  *)
(* what BASEPRI is when.  Port_proofs uses it.                              *)
(***************************************************************************)
BootInv ==
  /\ boot # "tasks" => current = Main /\ active = "none" /\ ~pendSV /\ asleep = {}
  /\ pendST => boot \in {"timed", "zeroed", "tasks"}
  /\ boot = "tasks" => current \in Task
  /\ boot # "creating" => depth[Main] = 0 /\ pc[Main] = "run"
  /\ pc[Main] # "delaying"

NestingInv ==
  /\ \A t \in Thread : depth[t] > 0 \/ OnTheEdge(t) => t = current /\ active = "none"
  /\ \A t \in Thread : pc[t] = "entering" => depth[t] < MaxNest
  /\ boot = "tasks" => nesting = depth[current]
  /\ boot \in {"creating", "disabled", "timed"} => nesting = InitialNesting + depth[Main]
  /\ boot = "zeroed" => nesting = 0

MaskInv ==
  /\ boot \in {"disabled", "timed", "zeroed"} => masked
  /\ active # "none" => masked
  /\ boot = "tasks" /\ active = "none" =>
       (masked <=> depth[current] > 0 \/ OnTheEdge(current))

PortInv == PortTypeOK /\ BootInv /\ NestingInv /\ MaskInv

(* And what holds if tasks delay themselves outside critical sections only. *)
SleepInv ==
  /\ \A t \in Task : pc[t] = "delaying" => depth[t] = 0
  /\ current \in asleep /\ active # "PendSV" /\ pc[current] # "delaying" =>
       pendSV /\ active = "none" /\ depth[current] = 0 /\ pc[current] = "run"

(* The inductive invariant of PortSpec. *)
PortInductive == PortInv /\ SleepInv

(***************************************************************************)
(* If again and again no thread is inside a critical section, a requested   *)
(* switch and a pending tick are served: each exit of the last level does   *)
(* unmask, and what is pending is taken before the next section begins      *)
(* (cm3.h:54-60, port.c:188-197).  A section that is never left, as the one *)
(* of mutexLock, does keep both waiting for ever: see Mutex.                *)
(***************************************************************************)
OutsideSections == \A t \in Thread : depth[t] = 0

PendingServed ==
  []<>OutsideSections => /\ pendSV ~> active = "PendSV"
                         /\ pendST ~> active = "SysTick"
=============================================================================
