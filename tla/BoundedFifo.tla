----------------------------- MODULE BoundedFifo -----------------------------
(***************************************************************************)
(* What a message queue promises to the calls that do not wait (ipc.c):     *)
(* messages keep their order, none is lost, repeated or made up, a sender   *)
(* is refused only if the queue is full and a receiver only if it is empty. *)
(* A semaphore is a queue of tokens that starts with some of them.          *)
(***************************************************************************)
EXTENDS Integers, Sequences

CONSTANTS
  Item,     (* the messages *)
  NoItem    (* the token of a semaphore *)

VARIABLES
  capacity,   (* -1: there is no queue; one of no slots refuses every call *)
  content,
  call,       (* the last call *)
  ok,         (* whether it succeeded *)
  got         (* what the last successful receiver saw *)

vars == <<capacity, content, call, ok, got>>

Init ==
  /\ capacity = -1
  /\ content = <<>>
  /\ call = "none"
  /\ ok = TRUE
  /\ got = NoItem

Create ==
  /\ capacity = -1
  /\ capacity' \in Nat
  /\ \E tokens \in 0 .. capacity' : content' = [i \in 1 .. tokens |-> NoItem]
  /\ call' = "create"
  /\ ok' = TRUE
  /\ UNCHANGED got

(* There is no memory for a queue. *)
CreateFails ==
  /\ capacity = -1
  /\ call' = "create"
  /\ ok' = FALSE
  /\ UNCHANGED <<capacity, content, got>>

Delete ==
  /\ capacity >= 0
  /\ capacity' = -1
  /\ content' = <<>>
  /\ call' = "delete"
  /\ ok' = TRUE
  /\ UNCHANGED got

Reset ==
  /\ capacity >= 0
  /\ content' = <<>>
  /\ call' = "reset"
  /\ ok' = TRUE
  /\ UNCHANGED <<capacity, got>>

Send(x) ==
  /\ Len(content) < capacity
  /\ \/ call' = "back" /\ content' = Append(content, x)
     \/ call' = "front" /\ content' = <<x>> \o content
  /\ ok' = TRUE
  /\ UNCHANGED <<capacity, got>>

Receive ==
  /\ content # <<>>
  /\ \/ call' = "receive" /\ content' = Tail(content)
     \/ call' = "peek" /\ content' = content
  /\ got' = Head(content)
  /\ ok' = TRUE
  /\ UNCHANGED capacity

Refuse ==
  /\ capacity >= 0
  /\ \/ call' \in {"back", "front"} /\ Len(content) = capacity
     \/ call' \in {"receive", "peek"} /\ content = <<>>
  /\ ok' = FALSE
  /\ UNCHANGED <<capacity, content, got>>

Next ==
  \/ Create \/ CreateFails
  \/ \E x \in Item \cup {NoItem} : Send(x)
  \/ Delete \/ Reset \/ Receive \/ Refuse

Spec == Init /\ [][Next]_vars
=============================================================================
