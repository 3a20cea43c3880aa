------------------------------- MODULE TimeOut -------------------------------
(***************************************************************************)
(* The time-out record of a blocking call (TimeOut_t, task.h) and the two   *)
(* functions on it (task.c:812-872).  The counters are passed as arguments: *)
(* tick is os_tickCount and overflows os_numOfOverflows.                    *)
(***************************************************************************)
EXTENDS Integers

CONSTANT MaxTick     (* largest clock_t and u32_t: 0xffffffff in the code *)

ClockMod == MaxTick + 1

os_taskSetTimeOutState(tick, overflows) ==
  [overflowCount |-> overflows, timeOnEntering |-> tick]

(* Ticks since the record was set, in the arithmetic of clock_t. *)
Passed(to, tick) == (tick - to.timeOnEntering) % ClockMod

(* What os_taskCheckForTimeOut returns ... *)
DifferenceOnly(to, left, tick, overflows) ==     \* mutant: overflows ignored
  Passed(to, tick) >= left

TimedOut(to, left, tick, overflows) ==
  \/ overflows # to.overflowCount /\ tick >= to.timeOnEntering
  \/ Passed(to, tick) >= left

(* ... and what it leaves in *TicksToWait otherwise; it then restarts the   *)
(* record.                                                                  *)
WholeWait(to, left, tick) == left                \* mutant: the wait starts anew
TicksLeft(to, left, tick) == left - Passed(to, tick)
=============================================================================
