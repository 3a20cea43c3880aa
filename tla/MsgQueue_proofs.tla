--------------------------- MODULE MsgQueue_proofs ---------------------------
(* Proofs about message queues and semaphores: MsgQueue, for any length and *)
(* any set of messages, if nobody sends with OVERWRITE.                     *)
EXTENDS MsgQueue, SequenceTheorems, TLAPS

(* A queue whose pointers, count and contents agree. *)
Sound(m) == m \in QueueMem /\ m.waiting <= m.uxLength /\ InPhase(m) /\ AllSent(m)

(***************************************************************************)
(* The remainder of a number of at most two rounds.                         *)
(***************************************************************************)
LEMMA RoundOff ==
  ASSUME NEW x \in Nat, NEW m \in Nat \ {0}
  PROVE  /\ x < m => (x % m) = x
         /\ m <= x /\ x < 2 * m => (x % m) = x - m
         /\ x = 2 * m => (x % m) = 0
<1>1. (x % m) \in 0 .. m - 1 /\ x = m * (x \div m) + (x % m) /\ x \div m \in Int
  BY SMT
<1>2. ASSUME NEW k \in Int, NEW r \in 0 .. m - 1, x = m * k + r
      PROVE  /\ x < m => k = 0
             /\ m <= x /\ x < 2 * m => k = 1
             /\ x = 2 * m => k = 2
  <2>1. k >= 1 => m * k >= m /\ (k >= 2 => m * k >= 2 * m)
    BY <1>2, SMT
  <2>2. k <= -1 => m * k <= -m
    BY <1>2, SMT
  <2>3. k >= 3 => m * k >= 3 * m
    BY <1>2, SMT
  <2>4. (k = 0 => m * k = 0) /\ (k = 1 => m * k = m) /\ (k = 2 => m * k = 2 * m)
    BY <1>2, SMT
  <2>5. QED
    BY <1>2, <2>1, <2>2, <2>3, <2>4, SMT
<1>3. QED
  BY <1>1, <1>2, SMT

(* Where a number of less than two rounds, or of just two, lies in a round of l. *)
Ring(l, s) == IF s < l THEN s ELSE IF s < 2 * l THEN s - l ELSE 0

(* The slot of the i-th message, without the remainder. *)
LEMMA SlotIs ==
  ASSUME NEW m, m.uxLength \in Nat \ {0}, m.readFrom \in 0 .. m.uxLength - 1,
         NEW i \in 0 .. m.uxLength + 1
  PROVE  SlotOf(m, i) = Ring(m.uxLength, m.readFrom + i)
<1> DEFINE s == m.readFrom + i
           l == m.uxLength
<1>1. s \in Nat /\ l \in Nat \ {0} /\ s <= 2 * l
  BY SMT
<1>0. SlotOf(m, i) = s % l
  BY DEF SlotOf
<1> HIDE DEF s, l
<1>2. /\ s < l => (s % l) = s
      /\ l <= s /\ s < 2 * l => (s % l) = s - l
      /\ s = 2 * l => (s % l) = 0
  BY <1>1, RoundOff
<1>3. SlotOf(m, i) = Ring(l, s)
  BY <1>0, <1>1, <1>2 DEF Ring
<1> QED
  BY <1>3 DEF s, l

(* One slot further in the ring. *)
LEMMA RingNext ==
  ASSUME NEW l \in Nat \ {0}, NEW r \in 0 .. l - 1, NEW w \in 0 .. l
  PROVE  /\ Ring(l, r) = r
         /\ Ring(l, r + w) \in 0 .. l - 1
         /\ Ring(l, r + w + 1) = IF Ring(l, r + w) + 1 >= l THEN 0 ELSE Ring(l, r + w) + 1
BY DEF Ring

(* The slots of a ring that is not full differ from the one before and the one behind. *)
LEMMA RingApart ==
  ASSUME NEW l \in Nat \ {0}, NEW r \in 0 .. l - 1, NEW w \in 0 .. l - 1, NEW i \in 1 .. w
  PROVE  /\ Ring(l, r + i) # Ring(l, r + w + 1)
         /\ Ring(l, r + i) # r
         /\ Ring(l, r + i) \in 0 .. l - 1
BY DEF Ring

(* What Sound says of a queue of messages, without the remainder. *)
LEMMA Layout ==
  ASSUME NEW m, Sound(m), m.uxItemSize = 1, m.uxLength # 0
  PROVE  /\ m.uxLength \in 1 .. MaxLength
         /\ m.waiting \in 0 .. m.uxLength
         /\ m.readFrom \in 0 .. m.uxLength - 1
         /\ m.writeTo \in 0 .. m.uxLength - 1
         /\ m.slot \in [0 .. MaxLength - 1 -> Item \cup {NoItem}]
         /\ m.writeTo = SlotOf(m, m.waiting + 1)
         /\ \A i \in 1 .. m.waiting : m.slot[SlotOf(m, i)] \in Item
<1>1. /\ m.uxLength \in 1 .. MaxLength
      /\ m.waiting \in Nat /\ m.writeTo \in Nat
      /\ m.slot \in [0 .. MaxLength - 1 -> Item \cup {NoItem}]
  BY DEF Sound, QueueMem
<1>2. /\ m.writeTo < m.uxLength /\ m.readFrom \in 0 .. m.uxLength - 1
      /\ m.writeTo = SlotOf(m, m.waiting + 1)
      /\ m.waiting <= m.uxLength
  BY <1>1 DEF Sound, InPhase
<1>3. \A i \in 1 .. m.waiting : m.slot[SlotOf(m, i)] \in Item
  <2> SUFFICES ASSUME NEW i \in 1 .. m.waiting PROVE m.slot[SlotOf(m, i)] \in Item
    OBVIOUS
  <2>1. Messages(m)[i] \in Item
    BY DEF Sound, AllSent
  <2>2. Messages(m)[i] = m.slot[SlotOf(m, i)]
    BY DEF Messages
  <2> QED
    BY <2>1, <2>2
<1> QED
  BY <1>1, <1>2, <1>3, QueueDataAssumption

(* And the converse. *)
LEMMA SoundIf ==
  ASSUME NEW m, m \in QueueMem, m.uxItemSize = 1,
         m.uxLength > 0, m.readFrom \in 0 .. m.uxLength - 1,
         m.waiting <= m.uxLength, m.writeTo < m.uxLength,
         m.writeTo = SlotOf(m, m.waiting + 1),
         \A i \in 1 .. m.waiting : m.slot[SlotOf(m, i)] \in Item
  PROVE  Sound(m)
<1>1. m.uxLength \in Nat
  BY DEF QueueMem
<1>2. InPhase(m)
  BY <1>1 DEF InPhase
<1>3. AllSent(m)
  BY DEF AllSent, Messages
<1> QED
  BY <1>2, <1>3 DEF Sound

(* A semaphore is sound whatever its count within the length. *)
LEMMA SoundSemaphore ==
  ASSUME NEW m, m \in QueueMem, m.uxItemSize = 0
  PROVE  /\ Sound(m) <=> m.waiting <= m.uxLength /\ m.writeTo = 0 /\ m.readFrom = 0
         /\ Messages(m) = [i \in 1 .. m.waiting |-> NoItem]
BY DEF Sound, InPhase, AllSent, Messages

(* The messages of a sound queue are a sequence of as many as it counts. *)
LEMMA MessagesType ==
  ASSUME NEW m, Sound(m)
  PROVE  /\ Messages(m) \in Seq(Item \cup {NoItem})
         /\ Len(Messages(m)) = m.waiting
         /\ m.waiting \in Nat
<1>1. m.waiting \in Nat /\ m.uxItemSize \in {0, 1}
  BY DEF Sound, QueueMem
<1>2. \A i \in 1 .. m.waiting : Messages(m)[i] \in Item \cup {NoItem}
  BY <1>1 DEF Sound, AllSent, Messages
<1>3. Messages(m) \in [1 .. m.waiting -> Item \cup {NoItem}]
  BY <1>2 DEF Messages
<1> QED
  BY <1>1, <1>3

-----------------------------------------------------------------------------
(* A message sent to the back of a queue of messages. *)
LEMMA BackOfQueue ==
  ASSUME NEW m, Sound(m), m.uxItemSize = 1, m.waiting < m.uxLength, NEW x \in Item
  PROVE  LET n == copyDataToQueue(m, x, SEND_TO_BACK)
         IN  Sound(n) /\ Messages(n) = Append(Messages(m), x)
<1> DEFINE n == copyDataToQueue(m, x, SEND_TO_BACK)
<1>0. m.uxLength # 0
  BY DEF Sound, QueueMem
<1>1. PICK l \in 1 .. MaxLength, r \in Nat, w \in Nat, e \in Nat,
           f \in [0 .. MaxLength - 1 -> Item \cup {NoItem}] :
        l = m.uxLength /\ r = m.readFrom /\ w = m.waiting /\ e = m.writeTo /\ f = m.slot
  BY <1>0, Layout
<1>2. /\ l \in Nat \ {0} /\ MaxLength \in Nat \ {0} /\ l <= MaxLength
      /\ w \in 0 .. l - 1 /\ r \in 0 .. l - 1 /\ e \in 0 .. l - 1
      /\ e = SlotOf(m, w + 1)
  <2>1. /\ m.readFrom \in 0 .. m.uxLength - 1 /\ m.writeTo \in 0 .. m.uxLength - 1
        /\ m.writeTo = SlotOf(m, m.waiting + 1)
    BY <1>0, Layout
  <2> QED
    BY <1>1, <2>1, QueueDataAssumption
<1>3. \A i \in 1 .. w : f[SlotOf(m, i)] \in Item
  BY <1>0, <1>1, Layout
<1>4. \A i \in 0 .. l + 1 : SlotOf(m, i) = Ring(l, r + i)
  BY <1>1, <1>2, SlotIs
<1>5. n = [m EXCEPT !.slot = [f EXCEPT ![e] = x],
                    !.writeTo = IF e + 1 >= l THEN 0 ELSE e + 1,
                    !.waiting = w + 1]
  <2>1. Advance(m, m.writeTo) = IF e + 1 >= l THEN 0 ELSE e + 1
    BY <1>1 DEF Advance, pcTail
  <2>2. Copied(m, m.writeTo, x) = [f EXCEPT ![e] = x]
    BY <1>1 DEF Copied
  <2> QED
    BY <1>1, <2>1, <2>2 DEF copyDataToQueue
<1> HIDE DEF n
<1>6. /\ n.uxLength = l /\ n.uxItemSize = 1 /\ n.readFrom = r
      /\ n.waiting = w + 1
      /\ n.writeTo = (IF e + 1 >= l THEN 0 ELSE e + 1)
      /\ n.slot = [f EXCEPT ![e] = x]
      /\ n \in QueueMem
  <2>1. m \in QueueMem
    BY DEF Sound
  <2>2. [f EXCEPT ![e] = x] \in [0 .. MaxLength - 1 -> Item \cup {NoItem}]
    BY <1>2
  <2>3. (IF e + 1 >= l THEN 0 ELSE e + 1) \in Nat
    BY <1>2
  <2> DEFINE g == [f EXCEPT ![e] = x]
             p == IF e + 1 >= l THEN 0 ELSE e + 1
  <2>4. n = [m EXCEPT !.slot = g, !.writeTo = p, !.waiting = w + 1]
    BY <1>5
  <2>5. g \in [0 .. MaxLength - 1 -> Item \cup {NoItem}] /\ p \in Nat /\ w + 1 \in Nat
    BY <2>2, <2>3
  <2> HIDE DEF g, p
  <2>6. /\ n.uxLength = m.uxLength /\ n.uxItemSize = m.uxItemSize
        /\ n.readFrom = m.readFrom
        /\ n.waiting = w + 1 /\ n.writeTo = p /\ n.slot = g
        /\ n \in QueueMem
    BY <2>1, <2>4, <2>5 DEF QueueMem
  <2> QED
    BY <1>1, <2>6 DEF g, p
<1>7. \A i \in 0 .. l + 1 : SlotOf(n, i) = Ring(l, r + i)
  BY <1>2, <1>6, SlotIs
<1>8. /\ e = Ring(l, r + w + 1)
      /\ n.writeTo = Ring(l, r + (w + 1) + 1)
  <2>1. /\ w + 1 \in 0 .. l + 1 /\ w + 1 \in 0 .. l
        /\ r + (w + 1) = r + w + 1
    BY <1>2
  <2>2. e = Ring(l, r + (w + 1))
    BY <1>2, <1>4, <2>1
  <2>3. Ring(l, r + (w + 1) + 1) =
          IF Ring(l, r + (w + 1)) + 1 >= l THEN 0 ELSE Ring(l, r + (w + 1)) + 1
    <3> DEFINE v == w + 1
    <3>1. l \in Nat \ {0} /\ r \in 0 .. l - 1 /\ v \in 0 .. l
      BY <1>2
    <3> HIDE DEF v
    <3>2. Ring(l, r + v + 1) = IF Ring(l, r + v) + 1 >= l THEN 0 ELSE Ring(l, r + v) + 1
      BY <3>1, RingNext
    <3> QED
      BY <3>2 DEF v
  <2> QED
    BY <1>6, <2>1, <2>2, <2>3
<1>9. \A i \in 1 .. w : /\ i \in 0 .. l + 1
                       /\ Ring(l, r + i) \in 0 .. l - 1
                       /\ Ring(l, r + i) # e
  <2> TAKE i \in 1 .. w
  <2>1. l \in Nat \ {0} /\ r \in 0 .. l - 1 /\ w \in 0 .. l - 1 /\ i \in 0 .. l + 1
    BY <1>2
  <2>2. Ring(l, r + i) # Ring(l, r + w + 1) /\ Ring(l, r + i) \in 0 .. l - 1
    BY <2>1, RingApart
  <2> QED
    BY <1>8, <2>1, <2>2
<1>10. \A i \in 1 .. w : n.slot[SlotOf(n, i)] = f[SlotOf(m, i)]
  <2> TAKE i \in 1 .. w
  <2>1. /\ i \in 0 .. l + 1
        /\ Ring(l, r + i) \in 0 .. l - 1
        /\ Ring(l, r + i) # e
    BY <1>9
  <2>2. SlotOf(n, i) = Ring(l, r + i) /\ SlotOf(m, i) = Ring(l, r + i)
    BY <1>4, <1>7, <2>1
  <2>3. Ring(l, r + i) \in 0 .. MaxLength - 1
    BY <1>2, <2>1
  <2>4. n.slot[Ring(l, r + i)] = f[Ring(l, r + i)]
    BY <1>6, <2>1, <2>3
  <2> QED
    BY <2>2, <2>4
<1>11. n.slot[SlotOf(n, w + 1)] = x
  <2>1. w + 1 \in 0 .. l + 1 /\ r + (w + 1) = r + w + 1 /\ e \in 0 .. MaxLength - 1
    BY <1>2
  <2>2. SlotOf(n, w + 1) = e
    BY <1>7, <1>8, <2>1
  <2> QED
    BY <1>6, <2>1, <2>2
<1>12. \A i \in 1 .. n.waiting : /\ i \in 1 .. w \/ i = w + 1
                                /\ n.slot[SlotOf(n, i)] \in Item
  <2> SUFFICES ASSUME NEW i \in 1 .. w + 1
               PROVE  (i \in 1 .. w \/ i = w + 1) /\ n.slot[SlotOf(n, i)] \in Item
    BY <1>6
  <2>1. i \in 1 .. w \/ i = w + 1
    BY <1>2
  <2> QED
    BY <1>3, <1>10, <1>11, <2>1
<1>13. Sound(n)
  <2>1. n.waiting <= n.uxLength /\ n.uxLength > 0 /\ n.readFrom \in 0 .. n.uxLength - 1 /\ n.writeTo < n.uxLength
    BY <1>2, <1>6
  <2>2. n.writeTo = SlotOf(n, n.waiting + 1)
    <3>1. (w + 1) + 1 \in 0 .. l + 1 /\ r + ((w + 1) + 1) = r + (w + 1) + 1
      BY <1>2
    <3> QED
      BY <1>6, <1>7, <1>8, <3>1
  <2> QED
    BY <1>6, <1>12, <2>1, <2>2, SoundIf
<1>14. Messages(n) = Append(Messages(m), x)
  <2> DEFINE a == Append(Messages(m), x)
             S == Item \cup {NoItem}
  <2>1. /\ Messages(m) \in Seq(S) /\ Len(Messages(m)) = w
        /\ Messages(n) \in Seq(S) /\ Len(Messages(n)) = w + 1
    BY <1>1, <1>6, <1>13, MessagesType
  <2>2. x \in S
    OBVIOUS
  <2>3. \A i \in 1 .. w + 1 : Messages(n)[i] = n.slot[SlotOf(n, i)]
    BY <1>6 DEF Messages
  <2>4. \A i \in 1 .. w : Messages(m)[i] = f[SlotOf(m, i)]
    BY <1>1 DEF Messages
  <2> HIDE DEF S
  <2>5. /\ a \in Seq(S) /\ Len(a) = w + 1
        /\ \A i \in 1 .. w : a[i] = Messages(m)[i]
        /\ a[w + 1] = x
    BY <1>2, <2>1, <2>2, AppendProperties
  <2> HIDE DEF a
  <2>6. ASSUME NEW i \in 1 .. w + 1 PROVE Messages(n)[i] = a[i]
    <3>1. CASE i \in 1 .. w
      BY <1>10, <2>3, <2>4, <2>5, <3>1
    <3>2. CASE i = w + 1
      <4>1. w + 1 \in 1 .. w + 1
        BY <1>2
      <4>2. Messages(n)[w + 1] = x
        BY <1>11, <2>3, <4>1, Zenon
      <4>3. a[w + 1] = x
        BY <2>5
      <4> QED
        BY ONLY <3>2, <4>2, <4>3
    <3> QED
      BY <1>6, <1>12, <3>1, <3>2
  <2>7. Messages(n) = a
    BY <2>1, <2>5, <2>6, SeqEqual
  <2> QED
    BY <2>7 DEF a
<1> QED
  BY <1>13, <1>14 DEF n

(* A message sent to the front of a queue of messages. *)
LEMMA FrontOfQueue ==
  ASSUME NEW m, Sound(m), m.uxItemSize = 1, m.waiting < m.uxLength, NEW x \in Item
  PROVE  LET n == copyDataToQueue(m, x, SEND_TO_FRONT)
         IN  Sound(n) /\ Messages(n) = <<x>> \o Messages(m)
<1> DEFINE n == copyDataToQueue(m, x, SEND_TO_FRONT)
<1>0. m.uxLength # 0
  BY DEF Sound, QueueMem
<1>1. PICK l \in 1 .. MaxLength, r \in Nat, w \in Nat, e \in Nat,
           f \in [0 .. MaxLength - 1 -> Item \cup {NoItem}] :
        l = m.uxLength /\ r = m.readFrom /\ w = m.waiting /\ e = m.writeTo /\ f = m.slot
  BY <1>0, Layout
<1>2. /\ l \in Nat \ {0} /\ MaxLength \in Nat \ {0} /\ l <= MaxLength
      /\ w \in 0 .. l - 1 /\ r \in 0 .. l - 1 /\ e \in 0 .. l - 1
      /\ e = SlotOf(m, w + 1)
  <2>1. /\ m.readFrom \in 0 .. m.uxLength - 1 /\ m.writeTo \in 0 .. m.uxLength - 1
        /\ m.writeTo = SlotOf(m, m.waiting + 1)
    BY <1>0, Layout
  <2> QED
    BY <1>1, <2>1, QueueDataAssumption
<1>3. \A i \in 1 .. w : f[SlotOf(m, i)] \in Item
  BY <1>0, <1>1, Layout
<1>4. \A i \in 0 .. l + 1 : SlotOf(m, i) = Ring(l, r + i)
  BY <1>1, <1>2, SlotIs
<1>5. PICK b \in 0 .. l - 1 :
        /\ r = IF b + 1 >= l THEN 0 ELSE b + 1
        /\ n = [m EXCEPT !.slot = [f EXCEPT ![r] = x],
                         !.readFrom = b,
                         !.waiting = w + 1]
  <2> DEFINE b == IF r - 1 < 0 THEN l - 1 ELSE r - 1
  <2>1. Retreat(m, m.readFrom) = b
    BY <1>1 DEF Retreat, pcTail
  <2>2. Copied(m, m.readFrom, x) = [f EXCEPT ![r] = x]
    BY <1>1 DEF Copied
  <2>3. n = [m EXCEPT !.slot = [f EXCEPT ![r] = x], !.readFrom = b, !.waiting = w + 1]
    BY <1>1, <2>1, <2>2 DEF copyDataToQueue, SEND_TO_FRONT, SEND_TO_BACK
  <2>4. b \in 0 .. l - 1 /\ r = IF b + 1 >= l THEN 0 ELSE b + 1
    BY <1>2
  <2> HIDE DEF b, n
  <2> QED
    BY <2>3, <2>4
<1> HIDE DEF n
<1>6. /\ n.uxLength = l /\ n.uxItemSize = 1 /\ n.readFrom = b
      /\ n.waiting = w + 1
      /\ n.writeTo = e
      /\ n.slot = [f EXCEPT ![r] = x]
      /\ n \in QueueMem
  <2>1. m \in QueueMem
    BY DEF Sound
  <2> DEFINE g == [f EXCEPT ![r] = x]
  <2>2. g \in [0 .. MaxLength - 1 -> Item \cup {NoItem}] /\ b \in Nat /\ w + 1 \in Nat
    BY <1>2
  <2>3. n = [m EXCEPT !.slot = g, !.readFrom = b, !.waiting = w + 1]
    BY <1>5
  <2> HIDE DEF g
  <2>4. /\ n.uxLength = m.uxLength /\ n.uxItemSize = m.uxItemSize
        /\ n.writeTo = m.writeTo
        /\ n.waiting = w + 1 /\ n.readFrom = b /\ n.slot = g
        /\ n \in QueueMem
    BY <2>1, <2>2, <2>3 DEF QueueMem
  <2> QED
    BY <1>1, <2>4 DEF g
<1>7. \A i \in 0 .. l + 1 : SlotOf(n, i) = Ring(l, b + i)
  BY <1>2, <1>6, SlotIs
<1>8. ASSUME NEW i \in 0 .. w + 1
      PROVE  /\ i \in 0 .. l + 1 /\ i + 1 \in 0 .. l + 1
             /\ SlotOf(n, i + 1) = Ring(l, r + i)
  <2>1. i \in 0 .. l /\ i \in 0 .. l + 1 /\ i + 1 \in 0 .. l + 1
    BY <1>2
  <2>2. Ring(l, r + i) = Ring(l, b + (i + 1))
    <3>1. l \in Nat \ {0} /\ b \in 0 .. l - 1 /\ r = IF b + 1 >= l THEN 0 ELSE b + 1
      BY <1>2, <1>5
    <3> QED
      BY ONLY <3>1, <2>1 DEF Ring
  <2> QED
    BY <1>7, <2>1, <2>2
<1>9. SlotOf(n, 1) = r
  <2>1. SlotOf(n, 0 + 1) = Ring(l, r + 0)
    BY <1>2, <1>8
  <2>2. Ring(l, r + 0) = r
    BY <1>2 DEF Ring
  <2> QED
    BY <2>1, <2>2
<1>10. n.slot[SlotOf(n, 1)] = x
  <2>1. r \in 0 .. MaxLength - 1
    BY <1>2
  <2> QED
    BY <1>6, <1>9, <2>1
<1>11. ASSUME NEW i \in 1 .. w PROVE n.slot[SlotOf(n, i + 1)] = f[SlotOf(m, i)]
  <2>1. i \in 0 .. w + 1 /\ i \in 0 .. l + 1
    BY <1>2
  <2>2. SlotOf(n, i + 1) = Ring(l, r + i) /\ SlotOf(m, i) = Ring(l, r + i)
    BY <1>4, <1>8, <2>1
  <2>3. Ring(l, r + i) # r
    BY <1>2, RingApart
  <2> QED
    BY <1>6, <2>2, <2>3
<1>12. ASSUME NEW i \in 1 .. w + 1
       PROVE  /\ i = 1 \/ (i - 1 \in 1 .. w /\ (i - 1) + 1 = i)
              /\ n.slot[SlotOf(n, i)] \in Item
  <2>1. i = 1 \/ (i - 1 \in 1 .. w /\ (i - 1) + 1 = i)
    BY <1>2
  <2>2. CASE i = 1
    BY <1>10, <2>1, <2>2
  <2>3. CASE i - 1 \in 1 .. w /\ (i - 1) + 1 = i
    <3>1. n.slot[SlotOf(n, (i - 1) + 1)] = f[SlotOf(m, i - 1)]
      BY <1>11, <2>3
    <3>2. f[SlotOf(m, i - 1)] \in Item
      BY <1>3, <2>3
    <3> QED
      BY <2>1, <2>3, <3>1, <3>2
  <2> QED
    BY <2>1, <2>2, <2>3
<1>13. Sound(n)
  <2>1. n.waiting <= n.uxLength /\ n.uxLength > 0 /\ n.readFrom \in 0 .. n.uxLength - 1 /\ n.writeTo < n.uxLength
    BY <1>2, <1>6
  <2>2. n.writeTo = SlotOf(n, n.waiting + 1)
    <3>1. w + 1 \in 0 .. w + 1 /\ w + 1 \in 0 .. l + 1
      BY <1>2
    <3> QED
      BY <1>2, <1>4, <1>6, <1>8, <3>1
  <2>3. \A i \in 1 .. n.waiting : n.slot[SlotOf(n, i)] \in Item
    BY <1>6, <1>12
  <2> QED
    BY <1>6, <2>1, <2>2, <2>3, SoundIf
<1>14. Messages(n) = <<x>> \o Messages(m)
  <2> DEFINE a == <<x>> \o Messages(m)
             S == Item \cup {NoItem}
  <2>1. /\ Messages(m) \in Seq(S) /\ Len(Messages(m)) = w
        /\ Messages(n) \in Seq(S) /\ Len(Messages(n)) = w + 1
    BY <1>1, <1>6, <1>13, MessagesType
  <2>2. x \in S
    OBVIOUS
  <2>3. \A i \in 1 .. w + 1 : Messages(n)[i] = n.slot[SlotOf(n, i)]
    BY <1>6 DEF Messages
  <2>4. \A i \in 1 .. w : Messages(m)[i] = f[SlotOf(m, i)]
    BY <1>1 DEF Messages
  <2> HIDE DEF S
  <2>5. /\ a \in Seq(S) /\ Len(a) = w + 1
        /\ a[1] = x
        /\ \A i \in 1 .. w : a[i + 1] = Messages(m)[i]
    <3>1. <<x>> \in Seq(S) /\ Len(<<x>>) = 1 /\ <<x>>[1] = x
      BY <2>2
    <3>2. /\ a \in Seq(S) /\ Len(a) = 1 + w
          /\ \A i \in 1 .. 1 + w : a[i] = IF i <= 1 THEN <<x>>[i] ELSE Messages(m)[i - 1]
      BY <2>1, <3>1, ConcatProperties
    <3> HIDE DEF a
    <3>3. ASSUME NEW i \in 1 .. w PROVE a[i + 1] = Messages(m)[i]
      <4>1. i + 1 \in 1 .. 1 + w /\ ~(i + 1 <= 1) /\ (i + 1) - 1 = i
        BY <1>2
      <4> QED
        BY <3>2, <4>1
    <3>4. a[1] = x
      BY <1>2, <3>1, <3>2
    <3> QED
      BY <1>2, <3>2, <3>3, <3>4
  <2> HIDE DEF a
  <2>6. ASSUME NEW i \in 1 .. w + 1 PROVE Messages(n)[i] = a[i]
    <3>1. CASE i = 1
      BY <1>10, <2>3, <2>5, <3>1
    <3>2. CASE i - 1 \in 1 .. w /\ (i - 1) + 1 = i
      <4>1. n.slot[SlotOf(n, (i - 1) + 1)] = f[SlotOf(m, i - 1)]
        BY <1>11, <3>2
      <4>2. a[(i - 1) + 1] = f[SlotOf(m, i - 1)]
        BY <2>4, <2>5, <3>2
      <4> QED
        BY <2>3, <3>2, <4>1, <4>2
    <3> QED
      BY <1>12, <3>1, <3>2
  <2>7. Messages(n) = a
    BY <2>1, <2>5, <2>6, SeqEqual
  <2> QED
    BY <2>7 DEF a
<1> QED
  BY <1>13, <1>14 DEF n

(* A message taken from a queue of messages. *)
LEMMA FromQueue ==
  ASSUME NEW m, Sound(m), m.uxItemSize = 1, m.waiting # 0
  PROVE  /\ Sound(Taken(m)) /\ Messages(Taken(m)) = Tail(Messages(m))
         /\ Message(m) = Head(Messages(m))
<1> DEFINE n == Taken(m)
<1>0. m.uxLength # 0
  BY DEF Sound, QueueMem
<1>1. PICK l \in 1 .. MaxLength, r \in Nat, w \in Nat, e \in Nat,
           f \in [0 .. MaxLength - 1 -> Item \cup {NoItem}] :
        l = m.uxLength /\ r = m.readFrom /\ w = m.waiting /\ e = m.writeTo /\ f = m.slot
  BY <1>0, Layout
<1>2. /\ l \in Nat \ {0} /\ MaxLength \in Nat \ {0} /\ l <= MaxLength
      /\ w \in 1 .. l /\ r \in 0 .. l - 1 /\ e \in 0 .. l - 1
      /\ e = SlotOf(m, w + 1)
  <2>1. /\ m.readFrom \in 0 .. m.uxLength - 1 /\ m.writeTo \in 0 .. m.uxLength - 1
        /\ m.writeTo = SlotOf(m, m.waiting + 1) /\ m.waiting \in 0 .. m.uxLength
    BY <1>0, Layout
  <2> QED
    BY <1>1, <2>1, QueueDataAssumption
<1>3. \A i \in 1 .. w : f[SlotOf(m, i)] \in Item
  BY <1>0, <1>1, Layout
<1>4. \A i \in 0 .. l + 1 : SlotOf(m, i) = Ring(l, r + i)
  BY <1>1, <1>2, SlotIs
<1>5. PICK p \in 0 .. l - 1 :
        /\ p = IF r + 1 >= l THEN 0 ELSE r + 1
        /\ p = ReadPtr(m)
  <2> DEFINE p == IF r + 1 >= l THEN 0 ELSE r + 1
  <2>1. ReadPtr(m) = p
    BY <1>1 DEF ReadPtr, Advance, pcTail
  <2>2. p \in 0 .. l - 1
    BY <1>2
  <2> QED
    BY <2>1, <2>2
<1>6. /\ n.uxLength = l /\ n.uxItemSize = 1 /\ n.readFrom = p
      /\ n.waiting = w - 1 /\ n.writeTo = e /\ n.slot = f
      /\ n \in QueueMem
  <2>1. m \in QueueMem /\ p \in Nat /\ w - 1 \in Nat
    BY <1>2 DEF Sound
  <2>2. n = [m EXCEPT !.readFrom = p, !.waiting = w - 1]
    BY <1>1, <1>5 DEF Taken
  <2> HIDE DEF n
  <2> QED
    BY <1>1, <2>1, <2>2 DEF QueueMem
<1>7. Message(m) = f[p]
  BY <1>1, <1>5 DEF Message
<1> HIDE DEF n
<1>8. ASSUME NEW i \in 0 .. w PROVE SlotOf(n, i) = SlotOf(m, i + 1)
  <2>1. i \in 0 .. l /\ i \in 0 .. l + 1 /\ i + 1 \in 0 .. l + 1
    BY <1>2
  <2>2. SlotOf(n, i) = Ring(l, p + i)
    BY <1>2, <1>6, <2>1, SlotIs
  <2>3. Ring(l, p + i) = Ring(l, r + (i + 1))
    <3>1. l \in Nat \ {0} /\ r \in 0 .. l - 1 /\ p = IF r + 1 >= l THEN 0 ELSE r + 1
      BY <1>2, <1>5
    <3> QED
      BY ONLY <3>1, <2>1 DEF Ring
  <2> QED
    BY <1>4, <2>1, <2>2, <2>3
<1>9. SlotOf(m, 1) = p
  <2>1. SlotOf(n, 0) = SlotOf(m, 0 + 1)
    BY <1>2, <1>8
  <2>2. SlotOf(n, 0) = Ring(l, p + 0)
    <3>1. /\ n.uxLength \in Nat \ {0}
          /\ n.readFrom \in 0 .. n.uxLength - 1
          /\ 0 \in 0 .. n.uxLength + 1
      BY <1>2, <1>5, <1>6
    <3>2. SlotOf(n, 0) = Ring(n.uxLength, n.readFrom + 0)
      BY ONLY <3>1, SlotIs
    <3> QED
      BY <1>6, <3>2
  <2>3. Ring(l, p + 0) = p
    BY <1>2, <1>5 DEF Ring
  <2> QED
    BY <2>1, <2>2, <2>3
<1>10. ASSUME NEW i \in 1 .. w - 1
       PROVE  /\ i + 1 \in 1 .. w
              /\ n.slot[SlotOf(n, i)] = f[SlotOf(m, i + 1)]
  <2>1. i \in 0 .. w /\ i + 1 \in 1 .. w
    BY <1>2
  <2> QED
    BY <1>6, <1>8, <2>1
<1>11. Sound(n)
  <2>1. n.waiting <= n.uxLength /\ n.uxLength > 0 /\ n.readFrom \in 0 .. n.uxLength - 1 /\ n.writeTo < n.uxLength
    BY <1>2, <1>6
  <2>2. n.writeTo = SlotOf(n, n.waiting + 1)
    <3>1. w \in 0 .. w /\ (w - 1) + 1 = w
      BY <1>2
    <3> QED
      BY <1>2, <1>6, <1>8, <3>1
  <2>3. \A i \in 1 .. n.waiting : n.slot[SlotOf(n, i)] \in Item
    BY <1>3, <1>6, <1>10
  <2> QED
    BY <1>6, <2>1, <2>2, <2>3, SoundIf
<1>12. \A i \in 1 .. w : Messages(m)[i] = f[SlotOf(m, i)]
  BY <1>1 DEF Messages
<1>13. Messages(n) = Tail(Messages(m)) /\ Message(m) = Head(Messages(m))
  <2> DEFINE a == Tail(Messages(m))
             S == Item \cup {NoItem}
  <2>1. /\ Messages(m) \in Seq(S) /\ Len(Messages(m)) = w
        /\ Messages(n) \in Seq(S) /\ Len(Messages(n)) = w - 1
    BY <1>1, <1>6, <1>11, MessagesType
  <2>2. \A i \in 1 .. w - 1 : Messages(n)[i] = n.slot[SlotOf(n, i)]
    BY <1>6 DEF Messages
  <2> HIDE DEF S
  <2>3. Messages(m) # <<>>
    BY <1>2, <2>1
  <2>4. /\ a \in Seq(S) /\ Len(a) = w - 1
        /\ \A i \in 1 .. w - 1 : a[i] = Messages(m)[i + 1]
    BY <1>2, <2>1, <2>3, HeadTailProperties
  <2>5. Head(Messages(m)) = Messages(m)[1]
    BY <2>1, <2>3
  <2> HIDE DEF a
  <2>6. ASSUME NEW i \in 1 .. w - 1 PROVE Messages(n)[i] = a[i]
    <3>1. Messages(n)[i] = f[SlotOf(m, i + 1)] /\ i + 1 \in 1 .. w
      BY <1>10, <2>2
    <3>2. Messages(m)[i + 1] = f[SlotOf(m, i + 1)]
      BY <1>12, <3>1
    <3> QED
      BY <2>4, <3>1, <3>2
  <2>7. Messages(n) = a
    BY <2>1, <2>4, <2>6, SeqEqual
  <2>8. Messages(m)[1] = f[p]
    BY <1>2, <1>9, <1>12
  <2> QED
    BY <1>7, <2>5, <2>7, <2>8 DEF a
<1> QED
  BY <1>11, <1>13 DEF n

-----------------------------------------------------------------------------
(* A queue that is reset is sound and empty, whatever was in its memory. *)
LEMMA ResetOK ==
  ASSUME NEW m, m \in QueueMem
  PROVE  LET n == mQueueReset(m)
         IN  /\ Sound(n) /\ Messages(n) = <<>>
             /\ n.uxLength = m.uxLength /\ n.uxItemSize = m.uxItemSize
<1> DEFINE n == mQueueReset(m)
<1>1. m.uxLength \in Nat /\ m.uxItemSize \in {0, 1}
  BY QueueDataAssumption DEF QueueMem
<1>2. (m.uxLength - 1) * m.uxItemSize = IF m.uxItemSize = 0 THEN 0 ELSE m.uxLength - 1
  BY <1>1
<1>3. /\ n.uxLength = m.uxLength /\ n.uxItemSize = m.uxItemSize
      /\ n.waiting = 0 /\ n.writeTo = 0
      /\ n.readFrom = IF m.uxItemSize = 0 THEN 0 ELSE m.uxLength - 1
      /\ n \in QueueMem
  <2> DEFINE r == IF m.uxItemSize = 0 THEN 0 ELSE m.uxLength - 1
  <2>1. n = [m EXCEPT !.waiting = 0, !.writeTo = 0, !.readFrom = r]
    BY <1>2 DEF mQueueReset
  <2>2. r \in Nat \cup {-1}
    BY <1>1
  <2> HIDE DEF n, r
  <2>3. /\ n.uxLength = m.uxLength /\ n.uxItemSize = m.uxItemSize
        /\ n.waiting = 0 /\ n.writeTo = 0 /\ n.readFrom = r
        /\ n \in QueueMem
    BY <2>1, <2>2 DEF QueueMem
  <2> QED
    BY <2>3 DEF r
<1> HIDE DEF n
<1>4. Sound(n)
  <2>1. CASE m.uxItemSize = 0
    BY <1>1, <1>3, <2>1, SoundSemaphore
  <2>2. CASE m.uxItemSize = 1 /\ m.uxLength = 0
    BY <1>3, <2>2 DEF Sound, InPhase, AllSent, Messages
  <2>3. CASE m.uxItemSize = 1 /\ m.uxLength # 0
    <3>1. SlotOf(n, 1) = Ring(n.uxLength, n.readFrom + 1)
      BY <1>1, <1>3, <2>3, SlotIs
    <3>2. Ring(n.uxLength, n.readFrom + 1) = 0
      BY <1>1, <1>3, <2>3 DEF Ring
    <3>3. n.writeTo = SlotOf(n, n.waiting + 1)
      BY <1>3, <3>1, <3>2
    <3> QED
      BY <1>1, <1>3, <2>3, <3>3, SoundIf
  <2> QED
    BY <1>1, <2>1, <2>2, <2>3
<1>5. Messages(n) = <<>>
  <2>1. Messages(n) \in Seq(Item \cup {NoItem}) /\ Len(Messages(n)) = 0
    BY <1>3, <1>4, MessagesType
  <2> QED
    BY <2>1
<1> QED
  BY <1>3, <1>4, <1>5 DEF n

(* A message, or a token, sent where there is room. *)
LEMMA SendOK ==
  ASSUME NEW m, Sound(m), HasRoom(m),
         NEW x, NEW p,
         m.uxItemSize = 1 => x \in Item /\ p \in {SEND_TO_BACK, SEND_TO_FRONT},
         m.uxItemSize = 0 => x = NoItem /\ p = SEND_TO_BACK
  PROVE  LET n == copyDataToQueue(m, x, p)
         IN  /\ Sound(n) /\ n.uxLength = m.uxLength
             /\ p = SEND_TO_BACK => Messages(n) = Append(Messages(m), x)
             /\ p = SEND_TO_FRONT => Messages(n) = <<x>> \o Messages(m)
<1> DEFINE n == copyDataToQueue(m, x, p)
<1>1. m \in QueueMem /\ m.uxItemSize \in {0, 1} /\ m.waiting < m.uxLength
  BY DEF Sound, QueueMem, HasRoom
<1>2. SEND_TO_BACK # SEND_TO_FRONT
  BY DEF SEND_TO_BACK, SEND_TO_FRONT
<1>3. n.uxLength = m.uxLength
  BY <1>1 DEF copyDataToQueue, QueueMem
<1>4. CASE m.uxItemSize = 1 /\ p = SEND_TO_BACK
  BY <1>1, <1>2, <1>3, <1>4, BackOfQueue
<1>5. CASE m.uxItemSize = 1 /\ p = SEND_TO_FRONT
  BY <1>1, <1>2, <1>3, <1>5, FrontOfQueue
<1>6. CASE m.uxItemSize = 0
  <2>1. /\ m.waiting \in Nat /\ m.uxLength \in Nat
        /\ m.writeTo = 0 /\ m.readFrom = 0
        /\ Messages(m) = [i \in 1 .. m.waiting |-> NoItem]
    BY <1>1, <1>6, SoundSemaphore, QueueDataAssumption DEF QueueMem
  <2>2. Advance(m, m.writeTo) = 0
    BY <1>6, <2>1 DEF Advance, pcTail
  <2>3. n = [m EXCEPT !.slot = m.slot, !.writeTo = 0, !.waiting = m.waiting + 1]
    BY <1>6, <2>2 DEF copyDataToQueue, Copied
  <2> HIDE DEF n
  <2>4. /\ n \in QueueMem /\ n.uxItemSize = 0 /\ n.waiting = m.waiting + 1
        /\ n.writeTo = 0 /\ n.readFrom = 0
    <3>1. PICK g \in [0 .. MaxLength - 1 -> Item \cup {NoItem}], k \in Nat :
            g = m.slot /\ k = m.waiting + 1
      BY <1>1, <2>1 DEF QueueMem
    <3>2. n = [m EXCEPT !.slot = g, !.writeTo = 0, !.waiting = k]
      BY <2>3, <3>1
    <3>3. /\ n \in QueueMem /\ n.uxItemSize = m.uxItemSize /\ n.waiting = k
          /\ n.writeTo = 0 /\ n.readFrom = m.readFrom
      BY <1>1, <3>2 DEF QueueMem
    <3> QED
      BY <1>6, <2>1, <3>1, <3>3
  <2>5. Sound(n)
    BY <1>1, <1>3, <2>1, <2>4, SoundSemaphore
  <2>6. Messages(n) = Append(Messages(m), NoItem)
    <3> DEFINE k == m.waiting
               a == Append(Messages(m), NoItem)
    <3>1. Messages(n) = [i \in 1 .. k + 1 |-> NoItem] /\ Messages(m) = [i \in 1 .. k |-> NoItem]
      BY <2>1, <2>4, SoundSemaphore
    <3>2. k \in Nat /\ Messages(m) \in Seq({NoItem}) /\ Messages(n) \in Seq({NoItem})
          /\ Len(Messages(m)) = k /\ Len(Messages(n)) = k + 1
      BY <2>1, <3>1
    <3> HIDE DEF k
    <3>3. /\ a \in Seq({NoItem}) /\ Len(a) = k + 1
          /\ \A i \in 1 .. k + 1 : a[i] = NoItem
      BY <3>1, <3>2, AppendProperties
    <3> HIDE DEF a
    <3>4. \A i \in 1 .. k + 1 : Messages(n)[i] = a[i]
      BY <3>1, <3>3
    <3>5. Messages(n) = a
      BY <3>2, <3>3, <3>4, SeqEqual
    <3> QED
      BY <3>5 DEF a
  <2> QED
    BY <1>2, <1>3, <1>6, <2>5, <2>6 DEF n
<1> QED
  BY <1>1, <1>4, <1>5, <1>6

(* A message, or a token, taken where there is one. *)
LEMMA TakeOK ==
  ASSUME NEW m, Sound(m), ~IsQueueEmpty(m)
  PROVE  /\ Sound(Taken(m)) /\ Taken(m).uxLength = m.uxLength
         /\ Messages(Taken(m)) = Tail(Messages(m))
         /\ Message(m) = Head(Messages(m))
         /\ Messages(m) # <<>>
<1> DEFINE n == Taken(m)
<1>1. m \in QueueMem /\ m.uxItemSize \in {0, 1} /\ m.waiting \in Nat \ {0}
  BY DEF Sound, QueueMem, IsQueueEmpty
<1>2. n.uxLength = m.uxLength
  BY <1>1 DEF Taken, QueueMem
<1>3. Messages(m) # <<>>
  BY <1>1, MessagesType
<1>4. CASE m.uxItemSize = 1
  BY <1>1, <1>2, <1>3, <1>4, FromQueue
<1>5. CASE m.uxItemSize = 0
  <2>1. /\ m.uxLength \in Nat /\ m.waiting <= m.uxLength
        /\ m.writeTo = 0 /\ m.readFrom = 0
        /\ Messages(m) = [i \in 1 .. m.waiting |-> NoItem]
    BY <1>1, <1>5, SoundSemaphore, QueueDataAssumption DEF QueueMem
  <2>2. n = [m EXCEPT !.readFrom = 0, !.waiting = m.waiting - 1]
    BY <1>5, <2>1 DEF Taken, ReadPtr
  <2>3. Message(m) = NoItem
    BY <1>5 DEF Message
  <2> HIDE DEF n
  <2>4. /\ n \in QueueMem /\ n.uxItemSize = 0 /\ n.waiting = m.waiting - 1
        /\ n.writeTo = 0 /\ n.readFrom = 0
    <3>1. PICK k \in Nat : k = m.waiting - 1
      BY <1>1
    <3>2. n = [m EXCEPT !.readFrom = 0, !.waiting = k]
      BY <2>2, <3>1
    <3>3. /\ n \in QueueMem /\ n.uxItemSize = m.uxItemSize /\ n.waiting = k
          /\ n.writeTo = m.writeTo /\ n.readFrom = 0
      BY <1>1, <3>2 DEF QueueMem
    <3> QED
      BY <1>5, <2>1, <3>1, <3>3
  <2>5. Sound(n)
    BY <1>1, <1>2, <2>1, <2>4, SoundSemaphore
  <2>6. Messages(n) = Tail(Messages(m)) /\ Head(Messages(m)) = NoItem
    <3> DEFINE k == m.waiting
               a == Tail(Messages(m))
    <3>1. Messages(n) = [i \in 1 .. k - 1 |-> NoItem] /\ Messages(m) = [i \in 1 .. k |-> NoItem]
      BY <2>1, <2>4, SoundSemaphore
    <3>2. /\ k \in Nat \ {0} /\ Messages(m) \in Seq({NoItem}) /\ Messages(n) \in Seq({NoItem})
          /\ Len(Messages(m)) = k /\ Len(Messages(n)) = k - 1
      BY <1>1, <3>1
    <3> HIDE DEF k
    <3>3. /\ a \in Seq({NoItem}) /\ Len(a) = k - 1
          /\ \A i \in 1 .. k - 1 : a[i] = Messages(m)[i + 1]
      BY <1>3, <3>2, HeadTailProperties
    <3> HIDE DEF a
    <3>4. \A i \in 1 .. k - 1 : Messages(n)[i] = a[i]
      BY <3>1, <3>2, <3>3
    <3>5. Messages(n) = a
      BY <3>2, <3>3, <3>4, SeqEqual
    <3>6. Head(Messages(m)) = NoItem
      BY <1>3, <3>1, <3>2
    <3> QED
      BY <3>5, <3>6 DEF a
  <2> QED
    BY <1>2, <1>3, <2>3, <2>5, <2>6 DEF n
<1> QED
  BY <1>1, <1>4, <1>5

-----------------------------------------------------------------------------
(* The invariant, with Sound for its parts about the queue. *)
LEMMA InvIs ==
  ASSUME OVERWRITE \notin Positions
  PROVE  QueueInv <=> TypeOK /\ (exists => Sound(q))
BY DEF QueueInv, TypeOK, NeverOverfull, RoomForAll, PointersInPhase, Sound

(* Initially there is no queue. *)
LEMMA InitOK ==
  ASSUME OVERWRITE \notin Positions
  PROVE  Init => QueueInv /\ Fifo!Init
<1> SUFFICES ASSUME Init PROVE QueueInv /\ Fifo!Init
  OBVIOUS
<1>1. Blank \in QueueMem
  BY QueueDataAssumption DEF Blank, QueueMem
<1>2. TypeOK
  BY <1>1 DEF Init, TypeOK
<1>3. Fifo!Init
  BY DEF Init, Fifo!Init
<1> QED
  BY <1>2, <1>3, InvIs DEF Init

(* A new queue holds the tokens it was created with. *)
LEMMA CreateOK ==
  ASSUME QueueInv, OVERWRITE \notin Positions, NEW length \in 0 .. MaxLength,
         mQueueCreate(length) \/ \E c \in 0 .. length : mQueueCreateSemaphore(length, c)
  PROVE  QueueInv' /\ Fifo!Create
<1>1. TypeOK /\ q \in QueueMem
  BY InvIs DEF TypeOK
<1>2. ASSUME NEW size \in {0, 1}
      PROVE  /\ Sound(New(length, size)) /\ Messages(New(length, size)) = <<>>
             /\ New(length, size).uxLength = length
             /\ New(length, size).uxItemSize = size
             /\ New(length, size) \in QueueMem
  <2> DEFINE m == [q EXCEPT !.uxLength = length, !.uxItemSize = size]
  <2>1. m \in QueueMem /\ m.uxLength = length /\ m.uxItemSize = size
    <3>1. size \in 0 .. 1 /\ length \in 0 .. MaxLength
      OBVIOUS
    <3> QED
      BY <1>1, <3>1 DEF QueueMem
  <2> HIDE DEF m
  <2>2. /\ Sound(mQueueReset(m)) /\ Messages(mQueueReset(m)) = <<>>
        /\ mQueueReset(m).uxLength = length
        /\ mQueueReset(m).uxItemSize = size
    BY <2>1, ResetOK
  <2> QED
    BY <2>2 DEF New, m, Sound
<1>3. length \in Nat
  BY QueueDataAssumption
<1>4. CASE mQueueCreate(length)
  <2>1. exists' /\ ~exists /\ q' = New(length, 1)
    BY <1>4 DEF mQueueCreate
  <2>2. Sound(q') /\ Messages(q') = <<>> /\ q'.uxLength = length /\ q' \in QueueMem
    BY <1>2, <2>1
  <2>3. QueueInv'
    BY <1>1, <1>4, <2>2, InvIs DEF TypeOK, mQueueCreate, Returns, QueueInv, Sound,
       NeverOverfull, RoomForAll, PointersInPhase
  <2>4. \E tokens \in 0 .. length : Messages(q') = [i \in 1 .. tokens |-> NoItem]
    <3>1. [i \in 1 .. 0 |-> NoItem] = <<>> /\ 0 \in 0 .. length
      BY <1>3
    <3> QED
      BY <2>2, <3>1
  <2> QED
    BY <1>3, <1>4, <2>1, <2>2, <2>3, <2>4 DEF mQueueCreate, Returns, Fifo!Create
<1>5. ASSUME NEW c \in 0 .. length, mQueueCreateSemaphore(length, c)
      PROVE  QueueInv' /\ Fifo!Create
  <2> DEFINE m == New(length, 0)
  <2>1. exists' /\ ~exists /\ q' = [m EXCEPT !.waiting = c]
    BY <1>5 DEF mQueueCreateSemaphore
  <2>2. Sound(m) /\ m.uxLength = length /\ m.uxItemSize = 0 /\ m \in QueueMem
    BY <1>2
  <2> HIDE DEF m
  <2>3. m.writeTo = 0 /\ m.readFrom = 0
    BY <2>2, SoundSemaphore
  <2>4. /\ q' \in QueueMem /\ q'.uxLength = length /\ q'.uxItemSize = 0
        /\ q'.waiting = c /\ q'.writeTo = 0 /\ q'.readFrom = 0
    BY <1>3, <2>1, <2>2, <2>3 DEF QueueMem
  <2>5. Sound(q') /\ Messages(q') = [i \in 1 .. c |-> NoItem]
    BY <1>3, <2>4, SoundSemaphore
  <2>6. QueueInv'
    BY <1>1, <1>5, <2>4, <2>5 DEF TypeOK, mQueueCreateSemaphore, Returns, QueueInv, Sound,
       NeverOverfull, RoomForAll, PointersInPhase
  <2> QED
    BY <1>3, <1>5, <2>1, <2>4, <2>5, <2>6 DEF mQueueCreateSemaphore, Returns, Fifo!Create
<1> QED
  BY <1>4, <1>5

(* Every step keeps the invariant and is one of the bounded queue. *)
LEMMA StepOK ==
  ASSUME QueueInv, Next, OVERWRITE \notin Positions
  PROVE  QueueInv' /\ [Fifo!Next]_Fifo!vars
<1>1. TypeOK /\ q \in QueueMem /\ q.uxLength \in Nat /\ (exists => Sound(q))
  BY InvIs, QueueDataAssumption DEF TypeOK, QueueMem
<1>2. Positions \subseteq {SEND_TO_BACK, SEND_TO_FRONT}
  BY PositionsAssumption
<1>3. SEND_TO_BACK # SEND_TO_FRONT
  BY DEF SEND_TO_BACK, SEND_TO_FRONT
<1>4. ASSUME NEW length \in 0 .. MaxLength,
             mQueueCreate(length) \/ \E c \in 0 .. length : mQueueCreateSemaphore(length, c)
      PROVE  QueueInv' /\ Fifo!Next
  BY <1>4, CreateOK DEF Fifo!Next
<1>5. CASE mQueueDelete
  <2>1. QueueInv'
    BY <1>1, <1>5 DEF TypeOK, mQueueDelete, QueueInv, NeverOverfull, RoomForAll, PointersInPhase
  <2>2. Fifo!Delete
    BY <1>1, <1>5 DEF mQueueDelete, Fifo!Delete
  <2> QED
    BY <2>1, <2>2 DEF Fifo!Next
<1>6. CASE Reset
  <2>1. exists /\ exists' /\ q' = mQueueReset(q)
    BY <1>6 DEF Reset
  <2>2. Sound(q') /\ Messages(q') = <<>> /\ q'.uxLength = q.uxLength /\ q' \in QueueMem
    BY <1>1, <2>1, ResetOK DEF Sound
  <2>3. QueueInv'
    BY <1>1, <1>6, <2>2 DEF TypeOK, Reset, Returns, QueueInv, Sound,
       NeverOverfull, RoomForAll, PointersInPhase
  <2>4. Fifo!Reset
    BY <1>1, <1>6, <2>1, <2>2 DEF Reset, Returns, Fifo!Reset
  <2> QED
    BY <2>3, <2>4 DEF Fifo!Next
<1>7. ASSUME NEW p \in Sendings, SendRefused(p)
      PROVE  QueueInv' /\ Fifo!Next
  <2>1. /\ exists /\ exists' /\ q' = q /\ buffer' = buffer /\ ~HasRoom(q)
        /\ ret' = FALSE_ /\ ok' = FALSE /\ call' \in {"back", "front"}
    BY <1>7 DEF SendRefused, Returns, SendName
  <2>2. QueueInv'
    BY <1>1, <2>1 DEF TypeOK, QueueInv, Sound, NeverOverfull, RoomForAll, PointersInPhase
  <2>3. Len(Messages(q)) = q.uxLength
    BY <1>1, <2>1, MessagesType DEF HasRoom, Sound
  <2>4. Fifo!Refuse
    BY <1>1, <2>1, <2>3 DEF Fifo!Refuse
  <2> QED
    BY <2>2, <2>4 DEF Fifo!Next
<1>8. ASSUME NEW p \in Sendings, NEW x \in Sendable, mQueueSend(x, p)
      PROVE  QueueInv' /\ Fifo!Next
  <2>1. /\ exists /\ exists' /\ q' = copyDataToQueue(q, x, p) /\ buffer' = buffer
        /\ ret' = PASS /\ ok' = TRUE /\ call' = SendName(p)
        /\ HasRoom(q) \/ p = OVERWRITE
    BY <1>8 DEF mQueueSend, Returns
  <2>2. /\ q.uxItemSize = 1 => x \in Item /\ p \in {SEND_TO_BACK, SEND_TO_FRONT}
        /\ q.uxItemSize = 0 => x = NoItem /\ p = SEND_TO_BACK
        /\ q.uxItemSize \in {0, 1}
    BY <1>1, <1>2 DEF Sendable, Sendings, QueueMem
  <2>3. HasRoom(q) /\ p \in {SEND_TO_BACK, SEND_TO_FRONT} /\ x \in Item \cup {NoItem}
    BY <2>1, <2>2 DEF OVERWRITE, SEND_TO_BACK, SEND_TO_FRONT
  <2>4. /\ Sound(q') /\ q'.uxLength = q.uxLength
        /\ p = SEND_TO_BACK => Messages(q') = Append(Messages(q), x)
        /\ p = SEND_TO_FRONT => Messages(q') = <<x>> \o Messages(q)
    BY <1>1, <2>1, <2>2, <2>3, SendOK
  <2>5. QueueInv'
    BY <1>1, <2>1, <2>4 DEF TypeOK, QueueInv, Sound, NeverOverfull, RoomForAll, PointersInPhase
  <2>6. Len(Messages(q)) < q.uxLength
    BY <1>1, <2>1, <2>3, MessagesType DEF HasRoom
  <2>7. Fifo!Send(x)
    BY <1>3, <2>1, <2>3, <2>4, <2>6 DEF Fifo!Send, SendName
  <2> QED
    BY <2>3, <2>5, <2>7 DEF Fifo!Next
<1>9. ASSUME NEW peek \in Lookings, mQueueReceive(peek)
      PROVE  QueueInv' /\ Fifo!Next
  <2>1. /\ exists /\ exists' /\ ~IsQueueEmpty(q)
        /\ q' = IF peek THEN q ELSE Taken(q)
        /\ buffer' = Message(q)
        /\ ret' = PASS /\ ok' = TRUE
        /\ call' = IF peek THEN "peek" ELSE "receive"
    BY <1>9 DEF mQueueReceive, Returns, Peeked
  <2>2. /\ Sound(Taken(q)) /\ Taken(q).uxLength = q.uxLength
        /\ Messages(Taken(q)) = Tail(Messages(q))
        /\ Message(q) = Head(Messages(q)) /\ Messages(q) # <<>>
    BY <1>1, <2>1, TakeOK
  <2>3. Message(q) \in Item \cup {NoItem}
    BY <1>1, <2>1, <2>2, MessagesType, HeadTailProperties
  <2>4. Sound(q')
    BY <1>1, <2>1, <2>2
  <2>5. QueueInv'
    BY <1>1, <2>1, <2>3, <2>4 DEF TypeOK, QueueInv, Sound, NeverOverfull, RoomForAll, PointersInPhase
  <2>6. Fifo!Receive
    BY <2>1, <2>2 DEF Fifo!Receive
  <2> QED
    BY <2>5, <2>6 DEF Fifo!Next
<1>10. ASSUME NEW peek \in Lookings, ReceiveRefused(peek)
       PROVE  QueueInv' /\ Fifo!Next
  <2>1. /\ exists /\ exists' /\ q' = q /\ buffer' = buffer /\ IsQueueEmpty(q)
        /\ ret' = FALSE_ /\ ok' = FALSE /\ call' \in {"receive", "peek"}
    BY <1>10 DEF ReceiveRefused, Returns
  <2>2. QueueInv'
    BY <1>1, <2>1 DEF TypeOK, QueueInv, Sound, NeverOverfull, RoomForAll, PointersInPhase
  <2>3. Messages(q) = <<>>
    BY <1>1, <2>1, MessagesType DEF IsQueueEmpty
  <2>4. Fifo!Refuse
    BY <1>1, <2>1, <2>3 DEF Fifo!Refuse
  <2> QED
    BY <2>2, <2>4 DEF Fifo!Next
<1>11. CASE CreateFails
  <2>1. QueueInv'
    BY <1>1, <1>11 DEF TypeOK, CreateFails, Returns, QueueInv, NeverOverfull, RoomForAll,
       PointersInPhase
  <2>2. Fifo!CreateFails
    BY <1>1, <1>11 DEF CreateFails, Returns, Fifo!CreateFails
  <2> QED
    BY <2>1, <2>2 DEF Fifo!Next
<1> QED
  BY <1>4, <1>5, <1>6, <1>7, <1>8, <1>9, <1>10, <1>11 DEF Next

(* A step that changes nothing. *)
LEMMA StutterOK ==
  ASSUME QueueInv, UNCHANGED vars
  PROVE  QueueInv' /\ UNCHANGED Fifo!vars
BY DEF vars, QueueInv, TypeOK, NeverOverfull, RoomForAll, PointersInPhase, Fifo!vars

-----------------------------------------------------------------------------
(***************************************************************************)
(* Types, count, pointers and contents of a queue agree in every state,     *)
(* unless somebody sends with OVERWRITE (ipc.c:343-396).                    *)
(***************************************************************************)
THEOREM QueueAlwaysSound ==
  ASSUME OVERWRITE \notin Positions
  PROVE  Spec => []QueueInv
<1>1. Init => QueueInv
  BY InitOK
<1>2. QueueInv /\ [Next]_vars => QueueInv'
  BY StepOK, StutterOK
<1> QED
  BY <1>1, <1>2, PTL DEF Spec

(* The count never exceeds the length (mqueue.h:19-20). *)
THEOREM QueueNeverOverfull ==
  ASSUME OVERWRITE \notin Positions
  PROVE  Spec => []NeverOverfull
<1>1. QueueInv => NeverOverfull
  BY DEF QueueInv
<1> QED
  BY <1>1, QueueAlwaysSound, PTL

(* Read pointer, write pointer and count agree (ipc.c:343-396). *)
THEOREM QueueAlwaysInPhase ==
  ASSUME OVERWRITE \notin Positions
  PROVE  Spec => []PointersInPhase
<1>1. QueueInv => PointersInPhase
  BY DEF QueueInv
<1> QED
  BY <1>1, QueueAlwaysSound, PTL

(***************************************************************************)
(* The ring buffer with its pointers implements the bounded queue: order is *)
(* kept, nothing is lost, repeated or made up (ipc.c:112-396, 519-531).     *)
(***************************************************************************)
THEOREM QueueKeepsOrder ==
  ASSUME OVERWRITE \notin Positions
  PROVE  Spec => KeepsOrder
<1>1. Init => QueueInv /\ Fifo!Init
  BY InitOK
<1>2. QueueInv /\ [Next]_vars => QueueInv' /\ [Fifo!Next]_Fifo!vars
  BY StepOK, StutterOK
<1> QED
  BY <1>1, <1>2, PTL DEF Spec, KeepsOrder, Fifo!Spec
=============================================================================
