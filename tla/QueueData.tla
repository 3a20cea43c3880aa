------------------------------ MODULE QueueData ------------------------------
(***************************************************************************)
(* The data of a message queue (messageQueue_t, mqueue.h) and the functions *)
(* of ipc.c that work on it, as operators from the queue before to the      *)
(* queue after.  Pointers are slot numbers counted from pcHead; a slot      *)
(* holds one message.  A semaphore is a queue of messages of no bytes: its  *)
(* uxItemSize is 0, its pointers never move and nothing is copied.          *)
(***************************************************************************)
EXTENDS Integers

CONSTANTS
  Item,       (* the messages                                               *)
  NoItem,     (* the NULL that semaphores pass                              *)
  MaxLength   (* bound: the lengths asked of mQueueCreate                   *)

ASSUME QueueDataAssumption ==
  /\ MaxLength \in Nat \ {0}
  /\ NoItem \notin Item

SEND_TO_BACK == 0
SEND_TO_FRONT == 1
OVERWRITE == 2

QueueMem ==
  [ uxLength   : 0 .. MaxLength,
    uxItemSize : 0 .. 1,           (* in slots: 1, or 0 for a semaphore *)
    waiting    : Nat,              (* uxMessagesWaiting *)
    writeTo    : Nat,              (* pcWriteTo *)
    readFrom   : Nat \cup {-1},    (* pcReadFrom: the slot read last *)
    slot       : [0 .. MaxLength - 1 -> Item \cup {NoItem}] ]

pcTail(q) == q.uxLength * q.uxItemSize

(* The pointer of a queue without slots is one slot before pcHead: the      *)
(* length wraps to the largest number and the product back (ipc.c:44).      *)
mQueueReset(q) ==
  [q EXCEPT !.waiting = 0, !.writeTo = 0,
            !.readFrom = (q.uxLength - 1) * q.uxItemSize]

(* One slot on, and back to pcHead at the end. *)
NoWrap(q, ptr) == ptr + q.uxItemSize             \* mutant: the end is passed
Advance(q, ptr) ==
  IF ptr + q.uxItemSize >= pcTail(q) THEN 0 ELSE ptr + q.uxItemSize

(* One slot back, and to the last slot before pcHead. *)
BackToTail(q, ptr) ==                            \* mutant: to pcTail itself
  IF ptr - q.uxItemSize < 0 THEN pcTail(q) ELSE ptr - q.uxItemSize
Retreat(q, ptr) ==
  IF ptr - q.uxItemSize < 0 THEN pcTail(q) - q.uxItemSize
                            ELSE ptr - q.uxItemSize

Copied(q, ptr, x) ==
  IF q.uxItemSize = 0 THEN q.slot ELSE [q.slot EXCEPT ![ptr] = x]

copyDataToQueue(q, x, position) ==
  IF position = SEND_TO_BACK
    THEN [q EXCEPT !.slot = Copied(q, q.writeTo, x),
                   !.writeTo = Advance(q, q.writeTo),
                   !.waiting = q.waiting + 1]
    ELSE [q EXCEPT !.slot = Copied(q, q.readFrom, x),
                   !.readFrom = Retreat(q, q.readFrom),
                   !.waiting = q.waiting + 1]

(* copyDataFromQueue: the pointer it leaves, and what is in the buffer. *)
ReadPtr(q) == IF q.uxItemSize = 0 THEN q.readFrom ELSE Advance(q, q.readFrom)
Message(q) == IF q.uxItemSize = 0 THEN NoItem ELSE q.slot[ReadPtr(q)]

(* mQueueReceive takes the message; a peek restores pcReadFrom. *)
PeekMoves(q) == [q EXCEPT !.readFrom = ReadPtr(q)]    \* mutant: not restored
Peeked(q) == q
Taken(q) == [q EXCEPT !.readFrom = ReadPtr(q), !.waiting = q.waiting - 1]

HasRoomOrEqual(q) == q.waiting <= q.uxLength     \* mutant: off by one
HasRoom(q) == q.waiting < q.uxLength
IsQueueFull(q) == q.waiting = q.uxLength
IsQueueEmpty(q) == q.waiting = 0

-----------------------------------------------------------------------------
(* The slot of the i-th message that waits. *)
SlotOf(q, i) == (q.readFrom + i) % q.uxLength

(* The messages that wait, in the order in which they will be received. *)
Messages(q) ==
  [i \in 1 .. q.waiting |-> IF q.uxItemSize = 0 THEN NoItem
                                                ELSE q.slot[SlotOf(q, i)]]

(***************************************************************************)
(* The pointers and the count agree: the messages lie in the slots behind   *)
(* pcReadFrom, around the end of the memory, and the next free slot follows.*)
(***************************************************************************)
InPhase(q) ==
  /\ q.uxItemSize = 0 => q.writeTo = 0 /\ q.readFrom = 0
  /\ q.uxItemSize = 1 /\ q.uxLength = 0 => q.writeTo = 0 /\ q.readFrom = -1
  /\ q.uxItemSize = 1 /\ q.uxLength > 0 =>
       /\ q.writeTo < q.uxLength
       /\ q.readFrom \in 0 .. q.uxLength - 1
       /\ q.writeTo = SlotOf(q, q.waiting + 1)

(* Every message that waits is one that was sent. *)
AllSent(q) == q.uxItemSize = 1 => \A i \in 1 .. q.waiting : Messages(q)[i] \in Item
=============================================================================
