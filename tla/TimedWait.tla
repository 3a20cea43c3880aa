------------------------------ MODULE TimedWait ------------------------------
(***************************************************************************)
(* One blocking call against the clock: it notes the time when it finds     *)
(* nothing, is made ready at any later tick, checks for a time-out, and     *)
(* goes back to wait for what is left (ipc.c:112-196, 205-322, 569-641).    *)
(* The counters wrap; asked, elapsed and gap are history.                   *)
(***************************************************************************)
EXTENDS TimeOut

CONSTANTS
  Waits,     (* the arguments TicksToWait                                    *)
  MaxGap     (* bound: the ticks that pass between two checks of one call    *)

(***************************************************************************)
(* A task that waits is made ready after at most TicksToWait ticks.  MaxGap *)
(* adds the ticks for which more urgent tasks then keep it from running;    *)
(* beyond one round of the counter the code cannot tell the time.           *)
(***************************************************************************)
ASSUME WaitAssumption ==
  /\ MaxTick \in Nat \ {0}
  /\ Waits \subseteq 1 .. MaxTick
  /\ MaxGap \in 1 .. MaxTick + 1

VARIABLES
  tickCount,       (* os_tickCount                                           *)
  numOfOverflows,  (* os_numOfOverflows                                      *)
  timeOut,         (* the local TimeOut of the call                          *)
  ticksToWait,     (* its TicksToWait                                        *)
  phase,           (* "idle", "waiting", "expired"                           *)
  asked,           (* the TicksToWait of the caller                          *)
  elapsed,         (* ticks since the call noted the time                    *)
  gap              (* ticks since the record was last set                    *)

clockVars == <<tickCount, numOfOverflows>>
callVars == <<timeOut, ticksToWait>>
vars == <<clockVars, callVars, phase, asked, elapsed, gap>>

TypeOK ==
  /\ tickCount \in 0 .. MaxTick
  /\ numOfOverflows \in 0 .. MaxTick
  /\ timeOut \in [overflowCount : 0 .. MaxTick, timeOnEntering : 0 .. MaxTick]
  /\ ticksToWait \in 0 .. MaxTick
  /\ phase \in {"idle", "waiting", "expired"}
  /\ asked \in 0 .. MaxTick
  /\ elapsed \in Nat
  /\ gap \in 0 .. MaxGap

Init ==
  /\ tickCount = 0
  /\ numOfOverflows = 0
  /\ timeOut = os_taskSetTimeOutState(0, 0)
  /\ ticksToWait = 0
  /\ phase = "idle"
  /\ asked = 0
  /\ elapsed = 0
  /\ gap = 0

-----------------------------------------------------------------------------
(* No call that shares one budget lasts longer: the history need not count on. *)
Longest == MaxTick + MaxGap

(* os_taskIncrementTick: the counter, and SWITCH_DELAYED_LISTS at its wrap. *)
Tick ==
  LET tick == (tickCount + 1) % ClockMod
  IN  /\ phase # "idle" => gap < MaxGap
      /\ tickCount' = tick
      /\ numOfOverflows' = IF tick = 0 THEN (numOfOverflows + 1) % ClockMod
                                       ELSE numOfOverflows
      /\ gap' = IF phase = "idle" THEN 0 ELSE gap + 1
      /\ elapsed' = IF phase = "idle" THEN 0
                  ELSE IF elapsed < Longest THEN elapsed + 1 ELSE elapsed
      /\ UNCHANGED <<callVars, phase, asked>>

(* The call finds nothing and may wait: the record is set, once. *)
Enter(n) ==
  /\ phase = "idle"
  /\ phase' = "waiting"
  /\ asked' = n
  /\ ticksToWait' = n
  /\ timeOut' = os_taskSetTimeOutState(tickCount, numOfOverflows)
  /\ elapsed' = 0
  /\ gap' = 0
  /\ UNCHANGED clockVars

Expired == TimedOut(timeOut, ticksToWait, tickCount, numOfOverflows)

(***************************************************************************)
(* os_taskCheckForTimeOut.  A receiver whose time is over but that sees a   *)
(* message tries again, and may check again (ipc.c:316).                    *)
(***************************************************************************)
CheckKeepsRecord ==                  \* mutant: the record is not set again
  /\ phase # "idle"
  /\ phase' = IF Expired THEN "expired" ELSE "waiting"
  /\ ticksToWait' = IF Expired THEN ticksToWait
                               ELSE TicksLeft(timeOut, ticksToWait, tickCount)
  /\ gap' = IF Expired THEN gap ELSE 0
  /\ UNCHANGED <<clockVars, timeOut, asked, elapsed>>

Check ==
  /\ phase # "idle"
  /\ IF Expired
       THEN /\ phase' = "expired"
            /\ UNCHANGED <<callVars, gap>>
       ELSE /\ phase' = "waiting"
            /\ ticksToWait' = TicksLeft(timeOut, ticksToWait, tickCount)
            /\ timeOut' = os_taskSetTimeOutState(tickCount, numOfOverflows)
            /\ gap' = 0
  /\ UNCHANGED <<clockVars, asked, elapsed>>

(* The call returns, with what it waited for or because its time is over. *)
Return ==
  /\ phase # "idle"
  /\ phase' = "idle"
  /\ asked' = 0
  /\ elapsed' = 0
  /\ gap' = 0
  /\ UNCHANGED <<clockVars, callVars>>

Next == Tick \/ Check \/ Return \/ \E n \in Waits : Enter(n)

Spec == Init /\ [][Next]_vars

-----------------------------------------------------------------------------
(***************************************************************************)
(* Action property.  A check says "timed out" exactly if the ticks since    *)
(* the call began have reached what the caller asked for, however often it  *)
(* was checked before and wherever the counter wrapped: no call gives up    *)
(* early or waits longer (task.c:848-867).                                  *)
(***************************************************************************)
VerdictExact == [][Check => (phase' = "expired" <=> elapsed >= asked)]_vars

(***************************************************************************)
(* The ticks left at the last check and those waited before add up to what  *)
(* the caller asked for: the retries of one call share one budget           *)
(* (task.c:858).                                                            *)
(***************************************************************************)
BudgetKept ==
  phase # "idle" => /\ ticksToWait + (elapsed - gap) = asked
                    /\ ticksToWait > 0

(* How the record and the counters relate: the inductive part. *)
RecordInv ==
  phase # "idle" =>
    LET sum == timeOut.timeOnEntering + gap
    IN  /\ sum < ClockMod => /\ tickCount = sum
                             /\ numOfOverflows = timeOut.overflowCount
        /\ sum >= ClockMod => /\ tickCount = sum - ClockMod
                              /\ numOfOverflows = (timeOut.overflowCount + 1) % ClockMod

ExpiredInv == phase = "expired" => elapsed >= asked

WaitInv == TypeOK /\ BudgetKept /\ RecordInv /\ ExpiredInv
=============================================================================
