------------------------------- MODULE MsgQueue -------------------------------
(***************************************************************************)
(* One message queue or semaphore and the calls that do not wait (ipc.c     *)
(* with TicksToWait 0).  What a call does to the queue it does in one       *)
(* critical section, so each call is one step, whoever makes it.            *)
(***************************************************************************)
EXTENDS QueueData, Sequences

CONSTANT Positions    (* the positions the application passes to mQueueSend *)

ASSUME PositionsAssumption ==
  Positions \subseteq {SEND_TO_BACK, SEND_TO_FRONT, OVERWRITE}

VARIABLES
  exists,     (* the memory of the queue is allocated                        *)
  q,          (* the queue                                                   *)
  ret,        (* the value the last call returned                            *)
  buffer,     (* what the last successful receiver got                       *)
  call,       (* history: the last call ...                                  *)
  ok          (* ... and whether it did what it was asked for                *)

vars == <<exists, q, ret, buffer, call, ok>>

TRUE_ == 1
FALSE_ == 0
PASS == 0
NULL_ == 0     (* no queue: the handle that a failed creation returns *)
HANDLE == 2    (* the address of the queue, which is neither *)

TypeOK ==
  /\ exists \in BOOLEAN
  /\ q \in QueueMem
  /\ ret \in {TRUE_, FALSE_, PASS, NULL_, HANDLE}
  /\ buffer \in Item \cup {NoItem}
  /\ ok \in BOOLEAN

Blank ==
  [ uxLength |-> 1, uxItemSize |-> 0, waiting |-> 0, writeTo |-> 0, readFrom |-> 0,
    slot |-> [i \in 0 .. MaxLength - 1 |-> NoItem] ]

Init ==
  /\ exists = FALSE
  /\ q = Blank
  /\ ret = PASS
  /\ buffer = NoItem
  /\ call = "none"
  /\ ok = TRUE

Returns(value, name, success) ==
  /\ ret' = value
  /\ call' = name
  /\ ok' = success

(* os_malloc gives memory with any contents, here what was left in it. *)
New(length, size) == mQueueReset([q EXCEPT !.uxLength = length, !.uxItemSize = size])

mQueueCreate(length) ==
  /\ ~exists
  /\ exists' = TRUE
  /\ q' = New(length, 1)
  /\ Returns(HANDLE, "create", TRUE)
  /\ UNCHANGED buffer

(* The caller keeps initValue within maxCount: nothing tests it. *)
mQueueCreateSemaphore(maxCount, initValue) ==
  /\ ~exists
  /\ exists' = TRUE
  /\ q' = [New(maxCount, 0) EXCEPT !.waiting = initValue]
  /\ Returns(HANDLE, "create", TRUE)
  /\ UNCHANGED buffer

(* os_malloc has no room: both kinds of creation return NULL. *)
CreateFails ==
  /\ ~exists
  /\ Returns(NULL_, "create", FALSE)
  /\ UNCHANGED <<exists, q, buffer>>

mQueueDelete ==
  /\ exists
  /\ exists' = FALSE
  /\ call' = "delete"
  /\ ok' = TRUE
  /\ UNCHANGED <<q, ret, buffer>>

Reset ==
  /\ exists
  /\ q' = mQueueReset(q)
  /\ Returns(PASS, "reset", TRUE)
  /\ UNCHANGED <<exists, buffer>>

SendName(position) == IF position = SEND_TO_BACK THEN "back" ELSE "front"

mQueueSend(x, position) ==
  /\ exists
  /\ HasRoom(q) \/ position = OVERWRITE
  /\ q' = copyDataToQueue(q, x, position)
  /\ Returns(PASS, SendName(position), TRUE)
  /\ UNCHANGED <<exists, buffer>>

SendRefused(position) ==
  /\ exists
  /\ ~(HasRoom(q) \/ position = OVERWRITE)
  /\ Returns(FALSE_, SendName(position), FALSE)
  /\ UNCHANGED <<exists, q, buffer>>

mQueueReceive(justPeeking) ==
  /\ exists
  /\ ~IsQueueEmpty(q)
  /\ q' = IF justPeeking THEN Peeked(q) ELSE Taken(q)
  /\ buffer' = Message(q)
  /\ Returns(PASS, IF justPeeking THEN "peek" ELSE "receive", TRUE)
  /\ UNCHANGED exists

ReceiveRefused(justPeeking) ==
  /\ exists
  /\ IsQueueEmpty(q)
  /\ Returns(FALSE_, IF justPeeking THEN "peek" ELSE "receive", FALSE)
  /\ UNCHANGED <<exists, q, buffer>>

(* sem_post sends NULL to the back, and sem_wait receives into NULL. *)
Sendable == IF q.uxItemSize = 0 THEN {NoItem} ELSE Item
Sendings == IF q.uxItemSize = 0 THEN {SEND_TO_BACK} ELSE Positions
Lookings == IF q.uxItemSize = 0 THEN {FALSE} ELSE BOOLEAN

Next ==
  \/ \E n \in 0 .. MaxLength :
       \/ mQueueCreate(n)
       \/ \E c \in 0 .. n : mQueueCreateSemaphore(n, c)
  \/ CreateFails
  \/ mQueueDelete
  \/ Reset
  \/ \E p \in Sendings : SendRefused(p) \/ \E x \in Sendable : mQueueSend(x, p)
  \/ \E peek \in Lookings : mQueueReceive(peek) \/ ReceiveRefused(peek)

Spec == Init /\ [][Next]_vars

-----------------------------------------------------------------------------
(***************************************************************************)
(* While nobody sends with OVERWRITE, the queue never counts more messages   *)
(* than it has room for (uxMessagesWaiting and uxLength, mqueue.h:19-20).   *)
(* OVERWRITE skips the test for room (ipc.c:123) and does overfill it, as   *)
(* MCOverwrite.cfg shows of RoomForAll.                                     *)
(***************************************************************************)
RoomForAll == exists => q.waiting <= q.uxLength

NeverOverfull == OVERWRITE \notin Positions => RoomForAll

(***************************************************************************)
(* Read pointer, write pointer and count of a queue that nobody overwrites  *)
(* agree in every state, whichever ends the senders use and wherever the    *)
(* ring wraps (ipc.c:343-396).                                              *)
(***************************************************************************)
PointersInPhase == exists => InPhase(q)

(* The inductive invariant that MsgQueue_proofs uses. *)
QueueInv == TypeOK /\ NeverOverfull /\ PointersInPhase /\ (exists => AllSent(q))

(***************************************************************************)
(* The ring implements the bounded queue: its content is what Messages      *)
(* finds behind pcReadFrom.                                                 *)
(***************************************************************************)
Fifo ==
  INSTANCE BoundedFifo WITH
    capacity <- IF exists THEN q.uxLength ELSE -1,
    content  <- IF exists THEN Messages(q) ELSE <<>>,
    got      <- buffer

(* A queue that nobody overwrites keeps its messages in order, loses,       *)
(* repeats and makes up none, and refuses only when it is full or empty     *)
(* (ipc.c:112-396, 519-531).                                                *)
KeepsOrder == Fifo!Spec

(***************************************************************************)
(* ipc.c:109-110 and 202-203 say that a call that succeeds returns TRUE and *)
(* one that does not returns FALSE.                                         *)
(***************************************************************************)
ResultTells ==
  call \in {"back", "front", "receive", "peek"} =>
    ret = IF ok THEN TRUE_ ELSE FALSE_
=============================================================================
