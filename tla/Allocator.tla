------------------------------ MODULE Allocator ------------------------------
(***************************************************************************)
(* What os_malloc and os_free promise (mem.c:34-147), without a free list:  *)
(* a region that is granted is large enough, lies in the heap and overlaps  *)
(* no region that is held; a request is refused only if no place in the     *)
(* heap is left for it.                                                     *)
(***************************************************************************)
EXTENDS Integers

CONSTANTS
  Task,
  Requests,   (* the arguments of os_malloc, in bytes                        *)
  Room,       (* the size of the heap, in bytes                              *)
  NodeSize,   (* what a region costs besides the bytes asked for             *)
  NONE,       (* no request                                                  *)
  REFUSED     (* the last request got no memory                              *)

VARIABLES
  held,       (* the regions given out, as records [at, len]                 *)
  asks        (* per task: the request it waits for                          *)

vars == <<held, asks>>

Region == [at : 0 .. Room, len : 0 .. Room]

TypeOK ==
  /\ held \subseteq Region
  /\ asks \in [Task -> Requests \cup {NONE, REFUSED}]

Init ==
  /\ held = {}
  /\ asks = [t \in Task |-> NONE]

Apart(r, s) == r.at + r.len <= s.at \/ s.at + s.len <= r.at
Vacant(r) == r.at + r.len <= Room /\ \A s \in held : Apart(r, s)

Ask(t) ==
  \E n \in Requests :
    /\ asks[t] \in {NONE, REFUSED}
    /\ asks' = [asks EXCEPT ![t] = n]
    /\ UNCHANGED held

Grant(t) ==
  \E r \in Region :
    /\ asks[t] \notin {NONE, REFUSED, 0}
    /\ r.len >= asks[t] + NodeSize
    /\ Vacant(r)
    /\ held' = held \cup {r}
    /\ asks' = [asks EXCEPT ![t] = NONE]

Refuse(t) ==
  /\ asks[t] \notin {NONE, REFUSED}
  /\ asks[t] # 0 => \A r \in Region : r.len >= asks[t] + NodeSize => ~Vacant(r)
  /\ asks' = [asks EXCEPT ![t] = REFUSED]
  /\ UNCHANGED held

(* A task that waits may be deleted. *)
Withdraw(t) ==
  /\ asks' = [asks EXCEPT ![t] = NONE]
  /\ UNCHANGED held

Release ==
  \E r \in held :
    /\ held' = held \ {r}
    /\ UNCHANGED asks

Next ==
  \/ Release
  \/ \E t \in Task : Ask(t) \/ Grant(t) \/ Refuse(t) \/ Withdraw(t)

Spec == Init /\ [][Next]_vars
=============================================================================
