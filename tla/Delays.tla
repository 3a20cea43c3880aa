-------------------------------- MODULE Delays --------------------------------
(***************************************************************************)
(* What os_delay promises (task.c:507-585, 696-766), without a counter that *)
(* wraps, lists or a next due time: a task that asks for a delay of n ticks *)
(* is awake again after exactly n ticks.  No tick is counted between the    *)
(* call and the sleep, none passes while a task whose delay is over still   *)
(* sleeps, and none is woken earlier.                                       *)
(***************************************************************************)
EXTENDS Naturals

CONSTANTS
  Task,
  LongestDelay   (* a natural number: the longest delay that may be asked for *)

VARIABLES
  state,   (* "absent", "awake", "asking" (in the call) or "asleep" *)
  left     (* the argument of the call, then the ticks still to wait *)

vars == <<state, left>>

TypeOK ==
  /\ state \in [Task -> {"absent", "awake", "asking", "asleep"}]
  /\ left \in [Task -> 0 .. LongestDelay]

Init ==
  /\ state = [t \in Task |-> "absent"]
  /\ left = [t \in Task |-> 0]

Create(t) ==
  /\ state[t] = "absent"
  /\ state' = [state EXCEPT ![t] = "awake"]
  /\ UNCHANGED left

Delete(t) ==
  /\ state[t] # "absent"
  /\ state' = [state EXCEPT ![t] = "absent"]
  /\ left' = [left EXCEPT ![t] = 0]

(* os_delay(n) is called; the scheduler is suspended first (task.c:750).    *)
Ask(t) ==
  \E n \in 1 .. LongestDelay :
    /\ state[t] = "awake"
    /\ state' = [state EXCEPT ![t] = "asking"]
    /\ left' = [left EXCEPT ![t] = n]

(* The task goes to sleep for as long as it has asked for.                  *)
Sleep(t) ==
  /\ state[t] = "asking"
  /\ state' = [state EXCEPT ![t] = "asleep"]
  /\ UNCHANGED left

Wake(t) ==
  /\ state[t] = "asleep"
  /\ left[t] = 0
  /\ state' = [state EXCEPT ![t] = "awake"]
  /\ UNCHANGED left

Sleepers == {t \in Task : state[t] = "asleep"}

Tick ==
  /\ \A t \in Task : state[t] # "asking"
  /\ \A t \in Sleepers : left[t] > 0
  /\ left' = [t \in Task |-> IF t \in Sleepers THEN left[t] - 1 ELSE left[t]]
  /\ UNCHANGED state

Next ==
  \/ Tick
  \/ \E t \in Task : Create(t) \/ Delete(t) \/ Ask(t) \/ Sleep(t) \/ Wake(t)

Spec == Init /\ [][Next]_vars
=============================================================================
