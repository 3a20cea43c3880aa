----------------------------- MODULE Port_proofs -----------------------------
(***************************************************************************)
(* Proofs about the port layer and about a mutex on it, for any number of   *)
(* tasks, any initial value of the counter and any nesting within its width.*)
(***************************************************************************)
EXTENDS Mutex, TLAPS

(* One level more and one level less, within the width of the counter. *)
LEMMA Levels ==
  ASSUME NEW m \in Nat, NEW n \in Nat
  PROVE  /\ n < m => ((n + 1) % (m + 1)) = n + 1
         /\ 0 < n /\ n <= m => ((n + m) % (m + 1)) = n - 1
<1>1. ASSUME NEW x \in Nat, NEW k \in Nat \ {0}
      PROVE  /\ x < k => (x % k) = x
             /\ k <= x /\ x < 2 * k => (x % k) = x - k
  <2>1. (x % k) \in 0 .. k - 1 /\ x = k * (x \div k) + (x % k) /\ x \div k \in Int
    BY <1>1, SMT
  <2>2. ASSUME NEW q \in Int, NEW r \in 0 .. k - 1, x = k * q + r
        PROVE  (x < k => q = 0) /\ (k <= x /\ x < 2 * k => q = 1)
    <3>1. (q >= 1 => k * q >= k) /\ (q >= 2 => k * q >= 2 * k)
      BY <1>1, <2>2, SMT
    <3>2. (q <= -1 => k * q <= -k) /\ (q = 0 => k * q = 0)
      BY <1>1, <2>2, SMT
    <3> QED
      BY <1>1, <2>2, <3>1, <3>2, SMT
  <2> QED
    BY <1>1, <2>1, <2>2, SMT
<1> DEFINE x == n + 1
           y == n + m
           k == m + 1
<1>2. /\ x \in Nat /\ y \in Nat /\ k \in Nat \ {0}
      /\ n < m => x < k
      /\ 0 < n /\ n <= m => k <= y /\ y < 2 * k
      /\ y - k = n - 1
  OBVIOUS
<1> HIDE DEF x, y, k
<1>3. n < m => (x % k) = x
  BY <1>1, <1>2
<1>4. 0 < n /\ n <= m => (y % k) = y - k
  BY <1>1, <1>2
<1> QED
  BY <1>2, <1>3, <1>4 DEF x, y, k

(* What the assumptions say of the constants. *)
LEMMA Constants ==
  /\ Idle \in Task /\ Main \notin Task /\ Task \subseteq Thread /\ Main \in Thread
  /\ MaxNesting \in Nat /\ InitialNesting \in Nat \ {0} /\ MaxNest \in Nat \ {0}
  /\ InitialNesting + MaxNest <= MaxNesting
BY PortAssumption DEF Thread

(* A thread in main() has only Main's identity. *)
LEMMA InitPort == PortInit => PortInductive
<1> SUFFICES ASSUME PortInit PROVE PortInductive
  OBVIOUS
<1>1. PortTypeOK
  <2>1. InitialNesting \in 0 .. MaxNesting /\ 0 \in 0 .. MaxNest
    BY Constants
  <2>2. {masked, pendSV, pendST} \subseteq BOOLEAN
    BY DEF PortInit
  <2> QED
    BY <2>1, <2>2, Constants DEF PortInit, PortTypeOK
<1>2. BootInv /\ NestingInv /\ MaskInv /\ SleepInv
  BY Constants DEF PortInit, BootInv, NestingInv, MaskInv, SleepInv, OnTheEdge, Thread
<1> QED
  BY <1>1, <1>2 DEF PortInductive, PortInv

-----------------------------------------------------------------------------
(* Who executes an instruction: in main() it is Main, which has not started yet. *)
LEMMA WhoRuns ==
  ASSUME PortInv, NEW t \in Thread, NEW step, Runs(t, step)
  PROVE  /\ t = current /\ active = "none" /\ pc[t] = step
         /\ t \in Task => boot = "tasks"
         /\ t = Main => boot # "tasks"
         /\ boot = "tasks" => nesting = depth[t]
         /\ boot = "creating" => nesting = InitialNesting + depth[t]
         /\ t = Main => step = "run" \/ boot = "creating"
BY Constants DEF PortInv, BootInv, NestingInv, Runs

(* os_enterCritical keeps the invariant. *)
LEMMA EnterOK ==
  ASSUME PortInv, NEW t \in Thread, MayEnter(t),
         EnterMask(t) \/ EnterCount(t)
  PROVE  PortInv'
<1>1. CASE EnterMask(t)
  <2>1. /\ t = current /\ active = "none" /\ pc[t] = "run" /\ ~Imminent
        /\ t \in Task => boot = "tasks"
        /\ t = Main => boot = "creating"
    BY <1>1, WhoRuns, Constants DEF EnterMask, Runs, PortInv, BootInv, MayEnter
  <2>2. PortTypeOK'
    BY <1>1 DEF PortInv, PortTypeOK, EnterMask, Goto, nvic
  <2>3. BootInv'
    BY <1>1, <2>1, Constants DEF PortInv, PortTypeOK, BootInv, EnterMask, Goto, nvic, Thread
  <2>4. NestingInv'
    BY <1>1, <2>1 DEF PortInv, PortTypeOK, NestingInv, OnTheEdge, EnterMask, Goto, nvic
  <2>5. MaskInv'
    BY <1>1, <2>1 DEF PortInv, PortTypeOK, MaskInv, OnTheEdge, EnterMask, Goto, nvic
  <2> QED
    BY <2>2, <2>3, <2>4, <2>5 DEF PortInv
<1>2. CASE EnterCount(t)
  <2>1. /\ t = current /\ active = "none" /\ pc[t] = "entering"
        /\ t \in Task => boot = "tasks"
        /\ t = Main => boot = "creating"
        /\ boot = "tasks" => nesting = depth[t]
        /\ boot = "creating" => nesting = InitialNesting + depth[t]
        /\ depth[t] < MaxNest /\ depth[t] \in Nat /\ nesting \in 0 .. MaxNesting
    BY <1>2, WhoRuns, Constants DEF EnterCount, Runs, PortInv, BootInv, NestingInv, PortTypeOK
  <2>2. nesting < MaxNesting /\ nesting \in Nat
    BY <2>1, Constants DEF Thread
  <2>3. nesting' = nesting + 1
    BY <1>2, <2>2, Levels, Constants DEF EnterCount
  <2>4. PortTypeOK'
    BY <1>2, <2>1, <2>2, <2>3, Constants DEF PortInv, PortTypeOK, EnterCount, Goto, nvic
  <2>5. BootInv'
    BY <1>2, <2>1, Constants DEF PortInv, PortTypeOK, BootInv, EnterCount, Goto, nvic, Thread
  <2>6. NestingInv'
    <3>1. /\ \A u \in Thread : u # t => depth'[u] = depth[u] /\ pc'[u] = pc[u]
          /\ depth'[t] = depth[t] + 1 /\ pc'[t] = "run"
          /\ current' = current /\ active' = active /\ boot' = boot
      BY <1>2 DEF PortInv, PortTypeOK, EnterCount, Goto, nvic
    <3>2. boot \in {"creating", "tasks"} /\ (boot = "creating" => t = Main)
      BY <2>1, Constants DEF PortInv, BootInv, Thread
    <3> QED
      BY <2>1, <2>3, <3>1, <3>2, Constants DEF PortInv, NestingInv, OnTheEdge
  <2>7. MaskInv'
    <3>1. depth'[t] = depth[t] + 1 /\ current' = current /\ active' = active /\ boot' = boot
          /\ masked' = masked /\ pc'[t] = "run" /\ depth'[t] > 0
      BY <1>2, <2>1 DEF PortInv, PortTypeOK, EnterCount, Goto, nvic
    <3> QED
      BY <2>1, <3>1 DEF PortInv, MaskInv, OnTheEdge
  <2> QED
    BY <2>4, <2>5, <2>6, <2>7 DEF PortInv
<1> QED
  BY <1>1, <1>2

(* os_exitCritical keeps the invariant. *)
LEMMA ExitCountOK ==
  ASSUME PortInv, NEW t \in Thread, ExitCount(t)
  PROVE  PortInv'
<1>1. /\ t = current /\ active = "none" /\ pc[t] = "run"
      /\ t \in Task => boot = "tasks"
      /\ t = Main => boot = "creating"
      /\ boot = "tasks" => nesting = depth[t]
      /\ boot = "creating" => nesting = InitialNesting + depth[t]
      /\ depth[t] > 0 /\ depth[t] \in 0 .. MaxNest /\ nesting \in 0 .. MaxNesting
  BY WhoRuns, Constants DEF ExitCount, Runs, PortInv, BootInv, NestingInv, PortTypeOK
<1>2. nesting \in Nat /\ 0 < nesting /\ nesting <= MaxNesting /\ boot \in {"creating", "tasks"}
      /\ (boot = "creating" => t = Main)
  BY <1>1, Constants DEF Thread, PortInv, BootInv
<1>3. nesting' = nesting - 1
  BY <1>2, Levels, Constants DEF ExitCount
<1>4. /\ \A u \in Thread : u # t => depth'[u] = depth[u] /\ pc'[u] = pc[u]
      /\ depth'[t] = depth[t] - 1 /\ pc'[t] = "exiting"
      /\ current' = current /\ active' = active /\ boot' = boot /\ masked' = masked
  BY DEF PortInv, PortTypeOK, ExitCount, Goto, nvic
<1>5. PortTypeOK'
  BY <1>1, <1>2, <1>3, Constants DEF PortInv, PortTypeOK, ExitCount, Goto, nvic
<1>6. BootInv'
  BY <1>1, Constants DEF PortInv, PortTypeOK, BootInv, ExitCount, Goto, nvic, Thread
<1>7. NestingInv'
  BY <1>1, <1>2, <1>3, <1>4, Constants DEF PortInv, NestingInv, OnTheEdge
<1>8. MaskInv'
  BY <1>1, <1>2, <1>4 DEF PortInv, MaskInv, OnTheEdge
<1> QED
  BY <1>5, <1>6, <1>7, <1>8 DEF PortInv

(* os_exitCritical unmasks if the last level was left, and keeps the invariant. *)
LEMMA ExitUnmaskOK ==
  ASSUME PortInv, NEW t \in Thread, ExitUnmask(t)
  PROVE  PortInv'
<1>1. /\ t = current /\ active = "none" /\ pc[t] = "exiting"
      /\ t \in Task => boot = "tasks"
      /\ t = Main => boot = "creating"
      /\ boot = "tasks" => nesting = depth[t]
      /\ boot = "creating" => nesting = InitialNesting + depth[t]
      /\ depth[t] \in 0 .. MaxNest
  BY WhoRuns, Constants DEF ExitUnmask, Runs, PortInv, BootInv, NestingInv, PortTypeOK
<1>2. boot \in {"creating", "tasks"} /\ (boot = "creating" => t = Main)
  BY <1>1, Constants DEF Thread, PortInv, BootInv
<1>3. masked' = (masked /\ nesting # 0)
  BY DEF ExitUnmask, LastLevel
<1>4. /\ \A u \in Thread : u # t => pc'[u] = pc[u]
      /\ depth' = depth /\ pc'[t] = "run" /\ nesting' = nesting
      /\ current' = current /\ active' = active /\ boot' = boot
  BY DEF PortInv, PortTypeOK, ExitUnmask, Goto, nvic
<1>5. PortTypeOK'
  BY <1>1, <1>3 DEF PortInv, PortTypeOK, ExitUnmask, Goto, nvic
<1>6. BootInv'
  BY <1>1, Constants DEF PortInv, PortTypeOK, BootInv, ExitUnmask, Goto, nvic, Thread
<1>7. NestingInv'
  BY <1>1, <1>2, <1>4, Constants DEF PortInv, NestingInv, OnTheEdge
<1>8. MaskInv'
  <2>1. boot = "tasks" => masked /\ (nesting # 0 <=> depth[t] > 0)
    BY <1>1 DEF PortInv, MaskInv, OnTheEdge
  <2>2. boot = "tasks" => (masked' <=> depth[t] > 0)
    BY <1>3, <2>1
  <2> QED
    BY <1>1, <1>2, <1>4, <2>2 DEF MaskInv, OnTheEdge
<1> QED
  BY <1>5, <1>6, <1>7, <1>8 DEF PortInv

(* TRIGGER and os_delay keep the invariant. *)
LEMMA CallsOK ==
  ASSUME PortInv, NEW t \in Thread, Trigger(t) \/ DelayAdd(t) \/ DelayTrigger(t)
  PROVE  PortInv'
<1>1. /\ t = current /\ active = "none" /\ pc[t] \in {"run", "delaying"}
      /\ t \in Task => boot = "tasks"
      /\ t = Main => pc[t] = "run" \/ boot = "creating"
  BY WhoRuns, Constants DEF Trigger, DelayAdd, DelayTrigger, Runs, PortInv, BootInv
<1>2. CASE Trigger(t)
  BY <1>1, <1>2, Constants DEF PortInv, PortTypeOK, BootInv, NestingInv, MaskInv, OnTheEdge,
     Trigger, threadVars, Thread
<1>3. CASE DelayAdd(t)
  <2>1. /\ \A u \in Thread : u # t => pc'[u] = pc[u]
        /\ depth' = depth /\ pc'[t] = "delaying" /\ nesting' = nesting /\ masked' = masked
        /\ current' = current /\ active' = active /\ boot' = boot
        /\ pc[t] = "run" /\ t \in Task \ {Idle} /\ boot = "tasks"
    BY <1>1, <1>3 DEF PortInv, PortTypeOK, DelayAdd, Goto, nvic, Runs
  <2>2. PortTypeOK'
    BY <1>3, <2>1 DEF PortInv, PortTypeOK, DelayAdd, Goto, nvic
  <2>3. BootInv'
    BY <1>1, <1>3, <2>1, Constants DEF PortInv, BootInv, DelayAdd, nvic
  <2>4. NestingInv' /\ MaskInv'
    BY <1>1, <2>1 DEF PortInv, NestingInv, MaskInv, OnTheEdge
  <2> QED
    BY <2>2, <2>3, <2>4 DEF PortInv
<1>4. CASE DelayTrigger(t)
  <2>1. /\ \A u \in Thread : u # t => pc'[u] = pc[u]
        /\ depth' = depth /\ pc'[t] = "run" /\ nesting' = nesting /\ masked' = masked
        /\ current' = current /\ active' = active /\ boot' = boot
        /\ pc[t] = "delaying" /\ t # Main
    BY <1>1, <1>4 DEF PortInv, PortTypeOK, BootInv, DelayTrigger, Goto, Runs
  <2>2. PortTypeOK'
    BY <1>4, <2>1 DEF PortInv, PortTypeOK, DelayTrigger, Goto
  <2>3. boot = "tasks"
    BY <1>1, <2>1 DEF Thread
  <2>4. BootInv'
    BY <1>1, <1>4, <2>1, <2>3, Constants DEF PortInv, BootInv, DelayTrigger
  <2>5. NestingInv' /\ MaskInv'
    BY <1>1, <2>1 DEF PortInv, NestingInv, MaskInv, OnTheEdge
  <2> QED
    BY <2>2, <2>4, <2>5 DEF PortInv
<1> QED
  BY <1>2, <1>3, <1>4

(* Start-up keeps the invariant. *)
LEMMA BootOK ==
  ASSUME PortInv, BootStep
  PROVE  PortInv'
<1>1. /\ current = Main /\ pc[Main] = "run" /\ boot # "tasks" /\ active = "none"
      /\ depth' = depth /\ pc' = pc /\ active' = active /\ asleep' = asleep
      /\ pendSV' = pendSV /\ pendST' = pendST
  BY Constants DEF BootStep, PortInv, BootInv, nvic, threadVars
<1>2. \A t \in Thread : depth[t] > 0 \/ OnTheEdge(t) => t = Main /\ boot = "creating"
  BY <1>1, Constants DEF PortInv, BootInv, NestingInv, OnTheEdge
<1>3. \A t \in Thread : depth[t] \in 0 .. MaxNest
  BY DEF PortInv, PortTypeOK
<1>4. CASE boot = "creating" /\ depth[Main] = 0 /\ boot' = "disabled" /\ masked' = TRUE
           /\ UNCHANGED <<current, nesting>>
  BY <1>1, <1>2, <1>4, Constants DEF PortInv, PortTypeOK, BootInv, NestingInv, MaskInv, OnTheEdge
<1>5. CASE boot = "disabled" /\ boot' = "timed" /\ UNCHANGED <<current, nesting, masked>>
  BY <1>1, <1>2, <1>5, Constants DEF PortInv, PortTypeOK, BootInv, NestingInv, MaskInv, OnTheEdge
<1>6. CASE boot = "timed" /\ boot' = "zeroed" /\ nesting' = 0 /\ UNCHANGED <<current, masked>>
  BY <1>1, <1>2, <1>6, Constants DEF PortInv, PortTypeOK, BootInv, NestingInv, MaskInv, OnTheEdge
<1>7. CASE boot = "zeroed" /\ boot' = "tasks" /\ current' \in Task /\ masked' = FALSE
           /\ UNCHANGED nesting
  <2>1. depth[current'] = 0 /\ ~OnTheEdge(current') /\ depth[Main] = 0
    BY <1>1, <1>2, <1>3, <1>7, Constants DEF OnTheEdge
  <2>2. PortTypeOK'
    BY <1>1, <1>7, Constants DEF PortInv, PortTypeOK
  <2>3. nesting = 0
    BY <1>7 DEF PortInv, BootInv, NestingInv
  <2> QED
    BY <1>1, <1>2, <1>7, <2>1, <2>2, <2>3, Constants
    DEF PortInv, BootInv, NestingInv, MaskInv, OnTheEdge
<1> QED
  BY <1>4, <1>5, <1>6, <1>7 DEF BootStep

(* The timer and the handlers keep the invariant. *)
LEMMA HardwareOK ==
  ASSUME PortInv, Hardware
  PROVE  PortInv'
<1> USE DEF PortInv, PortTypeOK, BootInv, NestingInv, MaskInv, OnTheEdge, threadVars
<1>1. CASE TimerExpires
  BY <1>1 DEF TimerExpires
<1>2. Imminent => /\ boot = "tasks" /\ active = "none" /\ ~masked
                  /\ \A t \in Thread : ~(depth[t] > 0 \/ OnTheEdge(t))
  BY Constants DEF Imminent
<1>3. CASE SysTickBegin
  BY <1>2, <1>3 DEF SysTickBegin
<1>4. CASE PendSVBegin
  BY <1>2, <1>4 DEF PendSVBegin
<1>5. active # "none" => /\ boot = "tasks"
                         /\ \A t \in Thread : ~(depth[t] > 0 \/ OnTheEdge(t))
  OBVIOUS
<1>6. CASE SysTickEnd
  <2>1. PICK woken \in SUBSET asleep, asks \in BOOLEAN :
          asleep' = asleep \ woken /\ pendSV' = (pendSV \/ asks)
    BY <1>6 DEF SysTickEnd
  <2>2. asleep' \subseteq Task \ {Idle} /\ pendSV' \in BOOLEAN
    BY <2>1
  <2> QED
    BY <1>5, <1>6, <2>2, Constants DEF SysTickEnd
<1>7. CASE PendSVEnd
  <2>1. current' \in Task /\ nesting = 0 /\ depth[current'] = 0 /\ ~OnTheEdge(current')
    BY <1>5, <1>7, Constants DEF PendSVEnd
  <2> QED
    BY <1>5, <1>7, <2>1, Constants DEF PendSVEnd
<1> QED
  BY <1>1, <1>3, <1>4, <1>6, <1>7 DEF Hardware

(* In main() nothing enters a critical section once the start has begun. *)
LEMMA NextOK ==
  ASSUME PortInv, PortNext
  PROVE  PortInv'
<1>1. ASSUME NEW t \in Thread, EnterCount(t) PROVE MayEnter(t)
  BY <1>1, WhoRuns, Constants DEF EnterCount, MayEnter, PortInv, BootInv, Runs
<1> QED
  BY <1>1, BootOK, HardwareOK, EnterOK, ExitCountOK, ExitUnmaskOK, CallsOK DEF PortNext

(* A sleeper that is about to leave the processor does not execute anything first. *)
LEMMA SleepOK ==
  ASSUME PortInv, SleepInv, PortNext
  PROVE  SleepInv'
<1>1. /\ pc \in [Thread -> {"run", "entering", "exiting", "delaying"}]
      /\ depth \in [Thread -> 0 .. MaxNest]
      /\ asleep \subseteq Task \ {Idle}
      /\ Task \subseteq Thread /\ Main \notin Task /\ current \in Thread
  BY Constants DEF PortInv, PortTypeOK
<1>2. CASE BootStep
  <2>1. asleep' = {} /\ pc' = pc /\ depth' = depth
    BY <1>2, Constants DEF BootStep, threadVars, PortInv, BootInv
  <2> QED
    BY <2>1 DEF SleepInv
<1>3. CASE Hardware
  <2>1. pc' = pc /\ depth' = depth
    BY <1>3 DEF Hardware, TimerExpires, SysTickBegin, SysTickEnd, PendSVBegin, PendSVEnd,
       threadVars
  <2>2. CASE TimerExpires
    BY <2>1, <2>2 DEF TimerExpires, SleepInv
  <2>3. CASE SysTickBegin
    BY <2>1, <2>3 DEF SysTickBegin, SleepInv, Imminent
  <2>4. CASE SysTickEnd
    BY <2>1, <2>4 DEF SysTickEnd, SleepInv
  <2>5. CASE PendSVBegin
    BY <2>1, <2>5 DEF PendSVBegin, SleepInv
  <2>6. CASE PendSVEnd
    BY <2>1, <2>6 DEF PendSVEnd, SleepInv
  <2> QED
    BY <1>3, <2>2, <2>3, <2>4, <2>5, <2>6 DEF Hardware
<1>4. ASSUME NEW t \in Thread,
             EnterMask(t) \/ EnterCount(t) \/ ExitCount(t) \/ ExitUnmask(t) \/ Trigger(t)
      PROVE  SleepInv'
  <2>1. /\ current = t /\ active = "none" /\ ~Imminent /\ pc[t] # "delaying"
    BY <1>4 DEF EnterMask, EnterCount, ExitCount, ExitUnmask, Trigger, Runs
  <2>2. current \notin asleep
    <3>1. current \in asleep => /\ pendSV /\ boot = "tasks"
                               /\ depth[current] = 0 /\ ~OnTheEdge(current)
      BY <1>1, <2>1 DEF SleepInv, PortInv, BootInv, OnTheEdge
    <3> QED
      BY <2>1, <3>1 DEF PortInv, MaskInv, Imminent
  <2>3. /\ asleep' = asleep /\ current' = current
        /\ pc'[t] # "delaying"
        /\ \A u \in Thread : u # t => pc'[u] = pc[u] /\ depth'[u] = depth[u]
    BY <1>1, <1>4 DEF EnterMask, EnterCount, ExitCount, ExitUnmask, Trigger, Goto, threadVars,
       Runs
  <2> QED
    BY <1>1, <2>1, <2>2, <2>3 DEF SleepInv
<1>5. ASSUME NEW t \in Thread, depth[t] = 0, DelayAdd(t) PROVE SleepInv'
  <2>1. /\ current' = t /\ depth' = depth /\ pc'[t] = "delaying"
        /\ \A u \in Thread : u # t => pc'[u] = pc[u]
    BY <1>1, <1>5 DEF DelayAdd, Goto, Runs
  <2> QED
    BY <1>1, <1>5, <2>1 DEF SleepInv
<1>6. ASSUME NEW t \in Thread, DelayTrigger(t) PROVE SleepInv'
  <2>1. /\ current' = t /\ depth' = depth /\ pc'[t] = "run" /\ pc[t] = "delaying"
        /\ active' = "none" /\ pendSV' /\ t # Main
        /\ \A u \in Thread : u # t => pc'[u] = pc[u]
    BY <1>1, <1>6 DEF DelayTrigger, Goto, Runs, PortInv, BootInv
  <2>2. depth[t] = 0
    BY <2>1 DEF SleepInv, Thread
  <2> QED
    BY <1>1, <2>1, <2>2 DEF SleepInv
<1> QED
  BY <1>2, <1>3, <1>4, <1>5, <1>6 DEF PortNext

(* The invariant of the port layer, for any number of tasks. *)
THEOREM PortSound == PortSpec => []PortInductive
<1>1. PortInit => PortInductive
  BY InitPort
<1>2. PortInductive /\ [PortNext]_portVars => PortInductive'
  <2> SUFFICES ASSUME PortInductive, [PortNext]_portVars PROVE PortInductive'
    OBVIOUS
  <2>1. CASE PortNext
    BY <2>1, NextOK, SleepOK DEF PortInductive
  <2>2. CASE UNCHANGED portVars
    BY <2>2 DEF PortInductive, PortInv, PortTypeOK, BootInv, NestingInv, MaskInv, SleepInv,
       OnTheEdge, portVars, nvic, threadVars
  <2> QED
    BY <2>1, <2>2
<1> QED
  BY <1>1, <1>2, PTL DEF PortSpec

(***************************************************************************)
(* One counter is enough for all tasks: a thread inside a critical section  *)
(* is the running one, and no handler runs (port.c:176-197).                *)
(***************************************************************************)
THEOREM AlwaysAlone == PortSpec => []CriticalAlone
<1>1. PortInductive => CriticalAlone
  BY DEF PortInductive, PortInv, NestingInv, CriticalAlone
<1> QED
  BY <1>1, PortSound, PTL

(* Masked exactly inside critical sections (port.c:176-197, systick.c:34). *)
THEOREM MaskAlwaysExact == PortSpec => []MaskExact
<1>1. PortInductive => MaskExact
  <2> SUFFICES ASSUME PortInductive PROVE MaskExact
    OBVIOUS
  <2>1. boot = "tasks" => nesting = depth[current]
    BY DEF PortInductive, PortInv, NestingInv
  <2>2. boot \in {"timed", "zeroed"} => masked /\ active = "none"
    BY DEF PortInductive, PortInv, BootInv, MaskInv
  <2>3. (boot = "tasks" /\ active = "none" /\ pc[current] = "run")
          => (masked <=> nesting > 0)
    BY <2>1 DEF PortInductive, PortInv, MaskInv, OnTheEdge
  <2> QED
    BY <2>2, <2>3 DEF MaskExact
<1> QED
  BY <1>1, PortSound, PTL

(* A task that delays itself outside critical sections leaves (task.c:744). *)
THEOREM SleepersAlwaysLeave == PortSpec => []SleeperLeaves
<1>1. PortInductive => SleeperLeaves
  <2> SUFFICES ASSUME PortInductive, active = "none", pc[current] = "run", current \in asleep
               PROVE  Imminent
    BY DEF SleeperLeaves
  <2>1. pendSV /\ depth[current] = 0
    BY DEF PortInductive, SleepInv
  <2>2. boot = "tasks"
    BY DEF PortInductive, PortInv, BootInv
  <2> QED
    BY <2>1, <2>2 DEF PortInductive, PortInv, MaskInv, OnTheEdge, Imminent
<1> QED
  BY <1>1, PortSound, PTL

-----------------------------------------------------------------------------
(* What the mutex adds to the constants. *)
LEMMA MutexConstants ==
  ASSUME MutexAssumption
  PROVE  MaxHold \in Nat \ {0} /\ MaxLocks \in Nat /\ NULL \notin Task
BY DEF MutexAssumption

(* The mutex is free at the start. *)
LEMMA InitMutex ==
  ASSUME MutexAssumption
  PROVE  MutexInit => MutexInv
BY InitPort, MutexConstants DEF MutexInit, MutexInv, PortInductive

(* The calls on a mutex leave the port layer as it must be. *)
LEMMA MutexPortOK ==
  ASSUME MutexInv, MutexNext
  PROVE  PortInv'
<1>1. PortInv /\ Task \subseteq Thread /\ \A t \in Task : MayEnter(t)
  BY Constants DEF MutexInv, MayEnter
<1>2. CASE BootStep \/ Hardware
  BY <1>1, <1>2, BootOK, HardwareOK
<1>3. ASSUME NEW t \in Task, LockEnter(t) \/ UnlockEnter(t) \/ EnterCount(t) PROVE PortInv'
  BY <1>1, <1>3, EnterOK DEF LockEnter, UnlockEnter
<1>4. ASSUME NEW t \in Task, UnlockRelease(t) PROVE PortInv'
  BY <1>1, <1>4, ExitCountOK DEF UnlockRelease
<1>5. ASSUME NEW t \in Task, ExitUnmask(t) PROVE PortInv'
  BY <1>1, <1>5, ExitUnmaskOK
<1>6. ASSUME NEW t \in Task, DelayAdd(t) \/ DelayTrigger(t) PROVE PortInv'
  BY <1>1, <1>6, CallsOK
<1>7. ASSUME NEW t \in Task, LockAgain(t) \/ LockTake(t) \/ UnlockCount(t) PROVE PortInv'
  <2>1. UNCHANGED portVars
    BY <1>7 DEF LockAgain, LockTake, UnlockCount
  <2> QED
    BY <1>1, <2>1 DEF PortInv, PortTypeOK, BootInv, NestingInv, MaskInv, OnTheEdge, portVars,
       nvic, threadVars
<1> QED
  BY <1>2, <1>3, <1>4, <1>5, <1>6, <1>7 DEF MutexNext, Otherwise

(* What the steps of one task do to the counters and labels of all of them. *)
LEMMA Types ==
  ASSUME MutexInv
  PROVE  /\ pc \in [Thread -> {"run", "entering", "exiting", "delaying"}]
         /\ depth \in [Thread -> 0 .. MaxNest] /\ Task \subseteq Thread
         /\ call \in [Task -> {"out", "locking", "unlocking", "releasing"}]
         /\ held \in [Task -> 0 .. MaxLocks] /\ hold \in 0 .. MaxHold
         /\ \A u \in Thread : depth[u] \in Nat
BY Constants DEF MutexInv, PortInv, PortTypeOK

(* Whoever is stuck is the running task. *)
LEMMA StuckRuns ==
  ASSUME PortInv, NEW t \in Task, Stuck(t)
  PROVE  current = t
BY Constants DEF PortInv, NestingInv, Stuck

(* No step of the task itself or of another one leaves the section that is open. *)
LEMMA StuckOK ==
  ASSUME MutexInv, MutexNext, NEW t \in Task, Stuck(t)
  PROVE  Stuck(t)'
<1>1. depth[t] \in Nat /\ depth[t] > 0
  BY Types DEF Stuck
<1>2. CASE (BootStep \/ Hardware) /\ UNCHANGED mutexVars
  <2>1. depth' = depth /\ pc' = pc /\ call' = call
    BY <1>2 DEF BootStep, Hardware, TimerExpires, SysTickBegin, SysTickEnd, PendSVBegin,
       PendSVEnd, threadVars, mutexVars
  <2> QED
    BY <2>1 DEF Stuck
<1>3. ASSUME NEW u \in Task, Otherwise(u) PROVE Stuck(t)'
  <2>1. /\ call' = call
        /\ depth'[t] = depth[t] \/ depth'[t] = depth[t] + 1
        /\ pc[t] = "entering" => pc'[t] = "entering" \/ depth'[t] = depth[t] + 1
    <3>1. CASE EnterCount(u)
      BY <1>3, <3>1, Types DEF EnterCount, Goto, Otherwise, mutexVars
    <3>2. CASE ExitUnmask(u) \/ DelayTrigger(u) \/ DelayAdd(u)
      BY <1>3, <3>2, Types DEF ExitUnmask, DelayTrigger, DelayAdd, Goto, Runs, Otherwise,
         mutexVars
    <3> QED
      BY <1>3, <3>1, <3>2 DEF Otherwise
  <2> QED
    BY <1>1, <2>1 DEF Stuck
<1>4. ASSUME NEW u \in Task, LockAgain(u) \/ LockTake(u) \/ UnlockCount(u) PROVE Stuck(t)'
  <2>1. /\ depth' = depth /\ pc' = pc
        /\ call'[t] = call[t] \/ call'[t] \in {"out", "unlocking"}
    BY <1>4, Types DEF LockAgain, LockTake, UnlockCount, Continues, portVars, threadVars
  <2> QED
    BY <1>1, <2>1 DEF Stuck
<1>5. ASSUME NEW u \in Task, LockEnter(u) \/ UnlockEnter(u) PROVE Stuck(t)'
  <2>1. depth' = depth /\ (t = u => pc'[t] = "entering") /\ (t # u => pc'[t] = pc[t])
    BY <1>5, Types DEF LockEnter, UnlockEnter, EnterMask, Goto
  <2>2. t # u => call'[t] = call[t]
    BY <1>5, Types DEF LockEnter, UnlockEnter, Continues
  <2> QED
    BY <1>1, <2>1, <2>2 DEF Stuck
<1>6. ASSUME NEW u \in Task, UnlockRelease(u) PROVE Stuck(t)'
  <2>1. CASE u = t
    <3>1. /\ call[t] = "releasing" /\ pc[t] = "run" /\ call'[t] = "out"
          /\ depth'[t] = depth[t] - 1
      BY <1>6, <2>1, Types DEF UnlockRelease, InCall, Runs, ExitCount, Continues
    <3>2. depth[t] > 1
      BY <3>1 DEF Stuck
    <3> QED
      BY <1>1, <3>1, <3>2 DEF Stuck
  <2>2. CASE u # t
    <3>1. call'[t] = call[t] /\ depth'[t] = depth[t] /\ pc'[t] = pc[t]
      BY <1>6, <2>2, Types DEF UnlockRelease, ExitCount, Goto, Continues
    <3> QED
      BY <3>1 DEF Stuck
  <2> QED
    BY <2>1, <2>2
<1> QED
  BY <1>2, <1>3, <1>4, <1>5, <1>6 DEF MutexNext

(* A task inside mutexLock is the running one, and the mutex is free. *)
LEMMA LockerAlone ==
  ASSUME MutexInv, NEW t \in Task, current = t
  PROVE  /\ owner \in {t, NULL}
         /\ \A u \in Task : call[u] = "locking" => u = t
BY Types, StuckRuns DEF MutexInv, PortInv, NestingInv, OnTheEdge

(* The mutex and its owner, after a step that is no call. *)
LEMMA OtherwiseOK ==
  ASSUME MutexInv, MutexNext, PortInv', UNCHANGED mutexVars,
         \/ BootStep \/ Hardware
         \/ \E t \in Task : EnterCount(t) \/ ExitUnmask(t) \/ DelayTrigger(t) \/ DelayAdd(t)
  PROVE  MutexInv'
<1> DEFINE Kept ==
      \A t \in Task :
        /\ depth[t] > 0 => depth'[t] > 0
        /\ pc[t] = "entering" => pc'[t] = "entering" \/ depth'[t] > 0
<1>1. Kept
  <2>1. CASE BootStep \/ Hardware
    BY <2>1 DEF BootStep, Hardware, TimerExpires, SysTickBegin, SysTickEnd, PendSVBegin,
       PendSVEnd, threadVars
  <2>2. ASSUME NEW u \in Task, EnterCount(u) PROVE Kept
    BY <2>2, Types DEF EnterCount, Goto
  <2>3. ASSUME NEW u \in Task, ExitUnmask(u) \/ DelayTrigger(u) \/ DelayAdd(u) PROVE Kept
    BY <2>3, Types DEF ExitUnmask, DelayTrigger, DelayAdd, Goto, Runs
  <2> HIDE DEF Kept
  <2> QED
    BY <2>1, <2>2, <2>3
<1>2. owner' = owner /\ hold' = hold /\ call' = call /\ held' = held
  BY DEF mutexVars
<1>3. \A t \in Task : owner = t => Stuck(t)'
  BY StuckOK DEF MutexInv
<1> QED
  BY <1>1, <1>2, <1>3 DEF MutexInv

(* mutexLock keeps the invariant, however often hold wraps. *)
LEMMA LockOK ==
  ASSUME MutexAssumption, MutexInv, MutexNext, PortInv', NEW t \in Task,
         LockAgain(t) \/ LockEnter(t) \/ LockTake(t)
  PROVE  MutexInv'
<1> DEFINE Where == {"out", "locking", "unlocking", "releasing"}
<1>1. current = t
  BY DEF LockAgain, LockEnter, LockTake, InCall, EnterMask, Runs
<1>2. CASE LockAgain(t)
  <2>1. /\ owner = t /\ owner' = owner /\ call' = call /\ pc' = pc /\ depth' = depth
        /\ hold' = (hold + 1) % (MaxHold + 1)
        /\ held' = [held EXCEPT ![t] = held[t] + 1] /\ held[t] < MaxLocks
    BY <1>2 DEF LockAgain, portVars, threadVars
  <2>2. hold' \in 0 .. MaxHold
    BY <2>1, Types, MutexConstants
  <2>3. held' \in [Task -> 0 .. MaxLocks]
    BY <2>1, Types, MutexConstants
  <2>4. \A u \in Task : call[u] # "locking"
    BY <2>1, MutexConstants DEF MutexInv
  <2>5. Stuck(t)'
    BY <2>1, StuckOK DEF MutexInv
  <2> QED
    BY <2>1, <2>2, <2>3, <2>4, <2>5, MutexConstants DEF MutexInv
<1>3. CASE LockEnter(t)
  <2>1. /\ pc'[t] = "entering" /\ \A u \in Task : u # t => pc'[u] = pc[u]
        /\ depth' = depth /\ owner' = owner /\ hold' = hold /\ held' = held
        /\ call' \in [Task -> Where] /\ call'[t] = "locking"
        /\ \A u \in Task : u # t => call'[u] = call[u]
        /\ owner # t /\ held[t] < MaxLocks
    BY <1>3, Types DEF LockEnter, EnterMask, Goto, Continues
  <2>2. owner = NULL
    BY <1>1, <2>1, LockerAlone
  <2> QED
    BY <2>1, <2>2, Types, MutexConstants DEF MutexInv
<1>4. CASE LockTake(t)
  <2>1. /\ call[t] = "locking" /\ pc[t] = "run" /\ hold' = 1 /\ owner' = t
        /\ held' = [held EXCEPT ![t] = held[t] + 1]
        /\ call'[t] = "out" /\ \A u \in Task : u # t => call'[u] = call[u]
        /\ call' \in [Task -> Where]
        /\ pc' = pc /\ depth' = depth
    BY <1>4, Types DEF LockTake, InCall, Runs, Continues, portVars, threadVars
  <2>2. owner = NULL /\ depth[t] > 0 /\ held[t] < MaxLocks
    BY <2>1 DEF MutexInv
  <2>3. held' \in [Task -> 0 .. MaxLocks]
    BY <2>1, <2>2, Types, MutexConstants
  <2>4. \A u \in Task : u # t => call[u] = "out"
    BY <1>1, <2>2, LockerAlone, MutexConstants DEF MutexInv
  <2>5. Stuck(t)'
    BY <2>1, <2>2 DEF Stuck
  <2> QED
    BY <2>1, <2>3, <2>4, <2>5, MutexConstants DEF MutexInv
<1> QED
  BY <1>2, <1>3, <1>4

(* mutexUnlock keeps the invariant. *)
LEMMA UnlockOK ==
  ASSUME MutexAssumption, MutexInv, MutexNext, PortInv', NEW t \in Task,
         UnlockCount(t) \/ UnlockEnter(t) \/ UnlockRelease(t)
  PROVE  MutexInv'
<1> DEFINE Where == {"out", "locking", "unlocking", "releasing"}
<1>1. CASE UnlockCount(t)
  <2>1. /\ owner = t /\ owner' = owner /\ pc' = pc /\ depth' = depth
        /\ hold' = (hold + MaxHold) % (MaxHold + 1)
        /\ held' = [held EXCEPT ![t] = IF held[t] = 0 THEN 0 ELSE held[t] - 1]
        /\ call'[t] \in {"out", "unlocking"} /\ call' \in [Task -> Where]
        /\ \A u \in Task : u # t => call'[u] = call[u]
    BY <1>1, Types DEF UnlockCount, Continues, portVars, threadVars
  <2>2. hold' \in 0 .. MaxHold
    BY <2>1, Types, MutexConstants
  <2>3. held' \in [Task -> 0 .. MaxLocks]
    <3>1. (IF held[t] = 0 THEN 0 ELSE held[t] - 1) \in 0 .. MaxLocks
      BY Types, MutexConstants
    <3> QED
      BY <2>1, <3>1, Types
  <2>4. \A u \in Task : call[u] # "locking"
    BY <2>1, MutexConstants DEF MutexInv
  <2>5. Stuck(t)'
    BY <2>1, StuckOK DEF MutexInv
  <2> QED
    BY <2>1, <2>2, <2>3, <2>4, <2>5, MutexConstants DEF MutexInv
<1>2. CASE UnlockEnter(t)
  <2>1. /\ pc'[t] = "entering" /\ \A u \in Task : u # t => pc'[u] = pc[u]
        /\ depth' = depth /\ owner' = owner /\ hold' = hold /\ held' = held
        /\ call' \in [Task -> Where] /\ call[t] = "unlocking" /\ call'[t] = "releasing"
        /\ \A u \in Task : u # t => call'[u] = call[u]
    BY <1>2, Types DEF UnlockEnter, EnterMask, Goto, Continues
  <2>2. owner = t
    BY <2>1 DEF MutexInv
  <2>3. Stuck(t)'
    BY <2>2, StuckOK DEF MutexInv
  <2> QED
    BY <2>1, <2>2, <2>3, MutexConstants DEF MutexInv
<1>3. CASE UnlockRelease(t)
  <2>1. /\ call[t] = "releasing" /\ owner' = NULL /\ hold' = 0 /\ held' = held
        /\ call' \in [Task -> Where] /\ call'[t] = "out"
        /\ \A u \in Task : u # t => call'[u] = call[u]
    BY <1>3, Types DEF UnlockRelease, InCall, Continues
  <2>2. owner = t
    BY <2>1 DEF MutexInv
  <2>3. \A u \in Task : owner' # u /\ call'[u] = "out"
    BY <2>1, <2>2, MutexConstants DEF MutexInv
  <2> QED
    BY <2>1, <2>3, MutexConstants DEF MutexInv
<1> QED
  BY <1>1, <1>2, <1>3

(***************************************************************************)
(* In every state a mutex that has an owner has one that runs and is inside *)
(* a critical section, and a task that is about to take it finds it free    *)
(* (ipc.c:569-687).  Nothing is assumed of how often hold wraps.            *)
(***************************************************************************)
THEOREM MutexSound == ASSUME MutexAssumption PROVE MutexSpec => []MutexInv
<1>1. MutexInit => MutexInv
  BY InitMutex
<1>2. MutexInv /\ [MutexNext]_allVars => MutexInv'
  <2> SUFFICES ASSUME MutexInv, [MutexNext]_allVars PROVE MutexInv'
    OBVIOUS
  <2>1. CASE MutexNext
    <3>1. PortInv'
      BY <2>1, MutexPortOK
    <3>2. CASE (BootStep \/ Hardware) /\ UNCHANGED mutexVars
      BY <2>1, <3>1, <3>2, OtherwiseOK
    <3>3. ASSUME NEW t \in Task, Otherwise(t) PROVE MutexInv'
      BY <2>1, <3>1, <3>3, OtherwiseOK DEF Otherwise
    <3>4. ASSUME NEW t \in Task, LockAgain(t) \/ LockEnter(t) \/ LockTake(t) PROVE MutexInv'
      BY <2>1, <3>1, <3>4, LockOK
    <3>5. ASSUME NEW t \in Task, UnlockCount(t) \/ UnlockEnter(t) \/ UnlockRelease(t)
          PROVE  MutexInv'
      BY <2>1, <3>1, <3>5, UnlockOK
    <3> QED
      BY <2>1, <3>2, <3>3, <3>4, <3>5 DEF MutexNext
  <2>2. CASE UNCHANGED allVars
    BY <2>2 DEF MutexInv, PortInv, PortTypeOK, BootInv, NestingInv, MaskInv, Stuck,
       OnTheEdge, allVars, mutexVars, portVars, nvic, threadVars
  <2> QED
    BY <2>1, <2>2
<1> QED
  BY <1>1, <1>2, PTL DEF MutexSpec

(***************************************************************************)
(* From the moment a task owns the mutex no other task runs, for ever: the  *)
(* unlock leaves a section of its own, and the one of the lock stays open   *)
(* (ipc.c:586-596, 660-677).                                                *)
(***************************************************************************)
THEOREM LockerAlwaysStays == ASSUME MutexAssumption PROVE MutexSpec => LockerStays
<1> SUFFICES ASSUME NEW t \in Task
             PROVE  MutexSpec => [](owner = t => [](current = t))
  BY DEF LockerStays
<1>1. MutexInv /\ Stuck(t) /\ [MutexNext]_allVars => Stuck(t)'
  BY StuckOK DEF Stuck, allVars, mutexVars, portVars, threadVars
<1>2. MutexInv /\ owner = t => Stuck(t)
  BY DEF MutexInv
<1>3. MutexInv /\ Stuck(t) => current = t
  BY StuckRuns DEF MutexInv
<1>4. MutexSpec => []MutexInv
  BY MutexSound
<1> QED
  BY <1>1, <1>2, <1>3, <1>4, PTL DEF MutexSpec
=============================================================================
