------------------------------ MODULE Heap_proofs ------------------------------
(***************************************************************************)
(* Proofs about Heap, for every size and alignment of the heap, every width *)
(* of size_t and any finite set of tasks.  First what the operators on the  *)
(* memory do (searching, linking, merging, unlinking, cutting: each keeps   *)
(* ListOK), with the arithmetic of sizes; then that HeapInv is inductive;   *)
(* last that Heap implements Allocator.                                     *)
(*                                                                         *)
(* A traversal is not followed node by node: were it never to stop, the     *)
(* links would map a finite set of nodes injectively into itself without    *)
(* the first one, which the pigeon-hole principle forbids.                  *)
(***************************************************************************)
EXTENDS Heap, FiniteSetTheorems, TLAPS

(* b_end lies in os_mem, behind the first block (mem.c:173-177).            *)
LEMMA EndIs == End \in Nat /\ End > 0 /\ End + NodeSize <= HeapBytes
BY HeapAssumption, SMT DEF End

(* A search from b_start ends behind a prefix of the list that lies in S.    *)
LEMMA BeforeIs ==
  ASSUME NEW m \in Mem, NEW F \in SUBSET Headers(m), Ascending(m, F),
         NEW S \in SUBSET Headers(m)
  PROVE  /\ Before(m, S) \in F \cup {b_start}
         /\ m.nxt[Before(m, S)] \notin S
         /\ \A f \in F : f <= Before(m, S) => f \in S
<1> DEFINE P == {n \in F \cup {b_start} :
                   n \in S \cup {b_start} /\ \A f \in F : f <= n => f \in S}
           V == Reached(m, S)
           f == [u \in V |-> m.nxt[u]]
<1>1. /\ End \in Nat /\ Headers(m) \subseteq Addr /\ Addr = 0 .. End - 1
      /\ b_start = -1
      /\ \A n \in F \cup {b_start} : m.nxt[n] \in F \cup {End} /\ n < m.nxt[n]
      /\ \A n \in F \cup {b_start} : \A g \in F : g <= n \/ m.nxt[n] <= g
  BY EndIs DEF Headers, Addr, b_start, Ascending
<1>2. V \subseteq P
  <2>1. P \subseteq S \cup {b_start} /\ b_start \in P
    BY <1>1
  <2>2. ASSUME NEW u \in P, m.nxt[u] \in S
        PROVE  m.nxt[u] \in P
    BY <1>1, <2>2
  <2> HIDE DEF P
  <2> QED BY <2>1, <2>2 DEF Reached
<1>3. b_start \in V
  BY DEF Reached
<1>4. ASSUME NEW u \in V, m.nxt[u] \in S
      PROVE  m.nxt[u] \in V
  BY <1>4 DEF Reached
<1>5. \E u \in V : m.nxt[u] \notin S
  <2> SUFFICES ASSUME \A u \in V : m.nxt[u] \in S
               PROVE  FALSE
    OBVIOUS
  <2>1. V \subseteq b_start .. End
    <3> SUFFICES ASSUME NEW v \in V PROVE v \in b_start .. End
      OBVIOUS
    <3>1. v \in F \cup {b_start}
      BY <1>2
    <3> HIDE DEF P, V
    <3> QED BY <3>1, <1>1
  <2>2. IsFiniteSet(V)
    <3>1. b_start \in Int /\ End \in Int
      BY <1>1
    <3> HIDE DEF P, V, b_start
    <3>2. IsFiniteSet(b_start .. End)
      BY <3>1, FS_Interval
    <3> QED BY <3>2, <2>1, FS_Subset
  <2>3. IsFiniteSet(V \ {b_start}) /\ Cardinality(V \ {b_start}) = Cardinality(V) - 1
    <3> HIDE DEF V
    <3> QED BY <2>2, <1>3, FS_RemoveElement
  <2>4. Cardinality(V) \in Nat
    BY <2>2, FS_CardinalityType
  <2>5. f \in [V -> V \ {b_start}]
    <3>1. \A u \in V : m.nxt[u] \in V /\ m.nxt[u] # b_start
      BY <1>4, <1>1
    <3> QED BY <3>1
  <2>6. PICK x \in V, y \in V : x # y /\ f[x] = f[y]
    <3> HIDE DEF f, V
    <3>1. Cardinality(V \ {b_start}) < Cardinality(V)
      BY <2>3, <2>4
    <3> QED BY <2>2, <2>3, <3>1, <2>5, FS_PigeonHole
  <2>7. x \in F \cup {b_start} /\ y \in F \cup {b_start} /\ m.nxt[x] = m.nxt[y]
    BY <2>6, <1>2
  <2>8. x \in Int /\ y \in Int /\ m.nxt[x] \in Int /\ (x \in F \/ x < 0) /\ (y \in F \/ y < 0)
    BY <2>7, <1>1
  <2>9. x < y \/ y < x
    BY <2>8, <2>6
  <2>10. m.nxt[x] >= 0
    BY <2>7, <1>1
  <2> HIDE DEF P, V, f
  <2> QED BY <2>7, <2>8, <2>9, <1>1
<1>6. Before(m, S) \in V /\ m.nxt[Before(m, S)] \notin S
  BY <1>5 DEF Before
<1>7. Before(m, S) \in P
  BY <1>6, <1>2
<1> HIDE DEF V
<1> QED BY <1>6, <1>7

(* Sums of aligned numbers are aligned.                                    *)
LEMMA ModSum ==
  ASSUME NEW a \in Int, NEW b \in Int, a % Align = 0, b % Align = 0
  PROVE  (a + b) % Align = 0
<1>1. Align \in Nat \ {0}
  BY HeapAssumption
<1> DEFINE p == a \div Align
           q == b \div Align
<1>2. p \in Int /\ q \in Int /\ a = Align * p /\ b = Align * q
  BY <1>1
<1>3. a + b = Align * (p + q) /\ p + q \in Int
  <2> HIDE DEF p, q
  <2> QED BY <1>1, <1>2
<1> DEFINE c == a + b
           k == p + q
<1> HIDE DEF p, q
<1>4. c \in Int /\ c = Align * k + 0 /\ k \in Int
  BY <1>1, <1>3
<1> HIDE DEF c, k
<1>5. c % Align = 0
  BY <1>1, <1>4
<1> QED BY <1>5 DEF c

(* The same for differences.                                               *)
LEMMA ModDifference ==
  ASSUME NEW a \in Int, NEW b \in Int, a % Align = 0, b % Align = 0
  PROVE  (a - b) % Align = 0
<1>1. Align \in Nat \ {0}
  BY HeapAssumption
<1> DEFINE p == a \div Align
           q == b \div Align
<1>2. p \in Int /\ q \in Int /\ a = Align * p /\ b = Align * q
  BY <1>1
<1>3. a - b = Align * (p - q) /\ p - q \in Int
  <2> HIDE DEF p, q
  <2> QED BY <1>1, <1>2
<1> DEFINE c == a - b
           k == p - q
<1> HIDE DEF p, q
<1>4. c \in Int /\ c = Align * k + 0 /\ k \in Int
  BY <1>1, <1>3
<1> HIDE DEF c, k
<1>5. c % Align = 0
  BY <1>1, <1>4
<1> QED BY <1>5 DEF c

(* Two touching free blocks become one.                                     *)
LEMMA MergeOK ==
  ASSUME NEW m \in Mem, NEW F, ListOK(m, F),
         NEW x \in F, NEW y \in F, x + m.size[x] = y,
         NEW M, M = Merge(m, x, y)
  PROVE  /\ M \in Mem
         /\ M.ready = m.ready /\ M.used = m.used /\ M.bytes = m.bytes
         /\ Headers(M) = Headers(m) \ {y}
         /\ ListOK(M, F \ {y})
         /\ \A a \in Addr \ {x, y} : M.size[a] = m.size[a]
         /\ M.size[x] = m.size[x] + m.size[y]
         /\ \A a \in (Addr \cup {b_start}) \ {x, y} : M.nxt[a] = m.nxt[a]
         /\ M.nxt[x] = m.nxt[y]
         /\ BytesIn(M, F \ {y}) = BytesIn(m, F)
         /\ AlignedIn(m) => AlignedIn(M)
<1>1. /\ End \in Nat /\ Addr = 0 .. End - 1 /\ b_start = -1 /\ NULL = -2
      /\ F \subseteq Headers(m) /\ Headers(m) \subseteq Addr
      /\ \A a \in Headers(m) : m.size[a] \in 1 .. End
      /\ \A a \in Addr : m.size[a] \in 0 .. End
  BY EndIs DEF Headers, Addr, b_start, NULL, ListOK, Mem
<1>2. /\ M.ready = m.ready /\ M.used = m.used /\ M.bytes = m.bytes
      /\ M.size = [m.size EXCEPT ![x] = m.size[x] + m.size[y], ![y] = 0]
      /\ M.nxt = [m.nxt EXCEPT ![x] = m.nxt[y], ![y] = NULL]
  BY DEF Merge, Mem
<1>3. /\ x < y /\ x \in Headers(m) /\ y \in Headers(m)
      /\ \A a \in Headers(m) : a + m.size[a] \in Headers(m) \cup {End}
      /\ \A a, b \in Headers(m) : a < b => a + m.size[a] <= b
      /\ 0 \in Headers(m)
  BY <1>1 DEF ListOK, Tiles
<1>4. /\ x \in Addr /\ y \in Addr /\ x \in Nat /\ y \in Nat
      /\ m.size[x] \in 1 .. End /\ m.size[y] \in 1 .. End
      /\ m.size[x] + m.size[y] \in 1 .. End
  <2>1. y + m.size[y] <= End
    BY <1>1, <1>3
  <2>2. /\ x \in Addr /\ y \in Addr /\ x \in Nat /\ y \in Nat
        /\ m.size[x] \in 1 .. End /\ m.size[y] \in 1 .. End
    BY <1>1, <1>3
  <2>3. x + m.size[x] + m.size[y] <= End
    BY <2>1
  <2>4. m.size[x] + m.size[y] \in 1 .. End
    <3>1. x >= 0 /\ x \in Int /\ m.size[x] \in Int /\ m.size[y] \in Int
          /\ m.size[x] > 0 /\ m.size[y] > 0 /\ End \in Int
      BY <2>2, <1>1
    <3> QED BY <3>1, <2>3
  <2> QED BY <2>2, <2>4
<1>5. \A a \in Addr : M.size[a] = IF a = x THEN m.size[x] + m.size[y]
                                  ELSE IF a = y THEN 0 ELSE m.size[a]
  BY <1>2, <1>3 DEF Mem
<1>6. \A a \in Addr \cup {b_start} :
        M.nxt[a] = IF a = y THEN NULL ELSE IF a = x THEN m.nxt[y] ELSE m.nxt[a]
  BY <1>2, <1>3 DEF Mem
<1>7. M \in Mem
  <2>1. M.size \in [Addr -> 0 .. End]
    <3>1. m.size \in [Addr -> 0 .. End] /\ 0 \in 0 .. End
      BY <1>1 DEF Mem
    <3>2. m.size[x] + m.size[y] \in 0 .. End
      BY <1>1, <1>4
    <3> QED BY <3>1, <3>2, <1>2
  <2>2. M.nxt \in [Addr \cup {b_start} -> Addr \cup {End, NULL}]
    <3>1. m.nxt \in [Addr \cup {b_start} -> Addr \cup {End, NULL}] /\ y \in Addr
      BY <1>1, <1>3 DEF Mem
    <3> QED BY <3>1, <1>2
  <2> QED BY <2>1, <2>2, <1>2 DEF Merge, Mem
<1>8. Headers(M) = Headers(m) \ {y}
  <2>1. \A a \in Addr : M.size[a] > 0 <=> (m.size[a] > 0 /\ a # y)
    BY <1>1, <1>3, <1>4, <1>5
  <2> QED BY <2>1 DEF Headers
<1>9. m.nxt[x] = y
  <2>1. m.nxt[x] \in F \cup {End} /\ x < m.nxt[x] /\ m.nxt[x] <= y
    BY <1>1, <1>3 DEF ListOK, Ascending
  <2>2. m.nxt[x] \in F
    BY <2>1, <1>1
  <2> QED BY <2>1, <2>2, <1>1, <1>3
<1>10. Tiles(M)
  <2>1. 0 \in Headers(M)
    BY <1>1, <1>3, <1>8
  <2>2. ASSUME NEW a \in Headers(M)
        PROVE  a + M.size[a] \in Headers(M) \cup {End}
    <3>1. CASE a = x
      <4>1. a + M.size[a] = y + m.size[y]
        BY <3>1, <1>1, <1>3, <1>5
      <4> QED BY <4>1, <1>1, <1>3, <1>8
    <3>2. CASE a # x
      <4>1. a \in Headers(m) /\ a # y /\ M.size[a] = m.size[a]
        BY <3>2, <1>1, <1>5, <1>8
      <4>2. a + m.size[a] # y
        BY <4>1, <3>2, <1>1, <1>3
      <4> QED BY <4>1, <4>2, <1>3, <1>8
    <3> QED BY <3>1, <3>2
  <2>3. ASSUME NEW a \in Headers(M), NEW b \in Headers(M), a < b
        PROVE  a + M.size[a] <= b
    <3>1. a \in Headers(m) /\ b \in Headers(m) /\ b # y /\ a # y
      BY <1>8
    <3>2. CASE a = x
      <4>1. y <= b
        BY <3>1, <3>2, <2>3, <1>1, <1>3
      <4>2. y + m.size[y] <= b
        BY <4>1, <3>1, <1>1, <1>3
      <4> QED BY <4>2, <3>2, <1>1, <1>3, <1>5
    <3>3. CASE a # x
      BY <3>1, <3>3, <2>3, <1>1, <1>3, <1>5
    <3> QED BY <3>2, <3>3
  <2> QED BY <2>1, <2>2, <2>3 DEF Tiles
<1>11. Ascending(M, F \ {y})
  <2>1. /\ \A n \in F \cup {b_start} : m.nxt[n] \in F \cup {End} /\ n < m.nxt[n]
        /\ \A n \in F \cup {b_start} : \A f \in F : f <= n \/ m.nxt[n] <= f
    BY DEF ListOK, Ascending
  <2> SUFFICES ASSUME NEW n \in (F \ {y}) \cup {b_start}
               PROVE  /\ M.nxt[n] \in (F \ {y}) \cup {End}
                      /\ n < M.nxt[n]
                      /\ \A f \in F \ {y} : f <= n \/ M.nxt[n] <= f
    BY DEF Ascending
  <2>2. CASE n = x
    <3>1. M.nxt[n] = m.nxt[y]
      BY <2>2, <1>1, <1>3, <1>6
    <3> QED BY <3>1, <2>1, <2>2, <1>1, <1>3, <1>9
  <2>3. CASE n # x
    <3>1. M.nxt[n] = m.nxt[n] /\ n \in F \cup {b_start}
      BY <2>3, <1>1, <1>6
    <3>2. m.nxt[n] # y
      <4> SUFFICES ASSUME m.nxt[n] = y PROVE FALSE
        OBVIOUS
      <4>1. n < y /\ (x <= n \/ y <= x)
        BY <2>1, <3>1
      <4>2. x < n /\ x \in F
        BY <4>1, <1>1, <1>3, <2>3, <3>1
      <4>3. n <= x \/ y <= n
        BY <2>1, <1>9, <3>1, <4>2, <1>1
      <4> QED BY <4>1, <4>2, <4>3, <1>1, <1>3, <3>1
    <3> QED BY <3>1, <3>2, <2>1
  <2> QED BY <2>2, <2>3
<1>12. Clean(M, F \ {y})
  BY <1>1, <1>3, <1>6 DEF Clean, ListOK
<1>13. BytesIn(M, F \ {y}) = BytesIn(m, F)
  <2> SUFFICES ASSUME NEW z \in Addr
               PROVE  (\E f \in F \ {y} : f <= z /\ z < f + M.size[f])
                         <=> \E f \in F : f <= z /\ z < f + m.size[f]
    BY DEF BytesIn
  <2>1. ASSUME NEW f \in F \ {y}, f <= z, z < f + M.size[f]
        PROVE  \E g \in F : g <= z /\ z < g + m.size[g]
    <3>1. CASE f = x /\ z < y
      BY <3>1, <2>1
    <3>2. CASE f = x /\ z >= y
      BY <3>2, <2>1, <1>1, <1>3, <1>5
    <3>3. CASE f # x
      BY <3>3, <2>1, <1>1, <1>5
    <3> QED BY <3>1, <3>2, <3>3, <1>1
  <2>2. ASSUME NEW f \in F, f <= z, z < f + m.size[f]
        PROVE  \E g \in F \ {y} : g <= z /\ z < g + M.size[g]
    <3>1. CASE f = x \/ f = y
      <4>1. x \in F \ {y} /\ x <= z /\ z < x + M.size[x]
        <5>1. x \in F \ {y} /\ M.size[x] = m.size[x] + m.size[y]
          BY <1>3, <1>4, <1>5
        <5>2. z \in Int
          BY <1>1
        <5> QED BY <5>1, <5>2, <3>1, <2>2, <1>3, <1>4
      <4> QED BY <4>1
    <3>2. CASE f # x /\ f # y
      BY <3>2, <2>2, <1>1, <1>5
    <3> QED BY <3>1, <3>2
  <2> QED BY <2>1, <2>2
<1>14. ASSUME AlignedIn(m)
       PROVE  AlignedIn(M)
  <2>1. (m.size[x] + m.size[y]) % Align = 0
    <3>1. m.size[x] % Align = 0 /\ m.size[y] % Align = 0
      BY <1>14, <1>3 DEF AlignedIn
    <3>2. m.size[x] \in Int /\ m.size[y] \in Int
      BY <1>1, <1>4
    <3> QED BY <3>1, <3>2, ModSum
  <2> QED BY <2>1, <1>14, <1>1, <1>5, <1>8 DEF AlignedIn
<1> QED
  <2>1. ListOK(M, F \ {y})
    BY <1>1, <1>8, <1>10, <1>11, <1>12 DEF ListOK
  <2>2. \A a \in Addr \ {x, y} : M.size[a] = m.size[a]
    BY <1>5
  <2>3. M.size[x] = m.size[x] + m.size[y] /\ M.nxt[x] = m.nxt[y]
    BY <1>3, <1>4, <1>5, <1>6
  <2>4. \A a \in (Addr \cup {b_start}) \ {x, y} : M.nxt[a] = m.nxt[a]
    BY <1>6
  <2> QED BY <2>1, <2>2, <2>3, <2>4, <1>2, <1>7, <1>8, <1>13, <1>14

(* The node behind which a block that is not in the list belongs.           *)
Place(m, F, it, b) ==
  /\ it \in F \cup {b_start}
  /\ it < b
  /\ m.nxt[it] = End \/ b < m.nxt[it]

(* What the heap is like once b has entered the list.                       *)
Entered(m, M, F, it, b) ==
  /\ M \in Mem
  /\ M.ready = m.ready /\ M.used = m.used /\ M.bytes = m.bytes
  /\ M.size = m.size
  /\ ListOK(M, F \cup {b})
  /\ M.nxt[b] = m.nxt[it] /\ M.nxt[it] = b
  /\ BytesIn(M, F \cup {b}) = BytesIn(m, F) \cup BytesIn(m, {b})

(* A block enters the list at its place.                                    *)
LEMMA LinkOK ==
  ASSUME NEW m \in Mem, NEW F, ListOK(m, F), NEW b \in Headers(m) \ F,
         NEW it, Place(m, F, it, b)
  PROVE  Entered(m, Link(m, it, b), F, it, b)
<1> DEFINE M == Link(m, it, b)
<1>0. it \in F \cup {b_start} /\ it < b /\ (m.nxt[it] = End \/ b < m.nxt[it])
  BY DEF Place
<1>1. /\ End \in Nat /\ Addr = 0 .. End - 1 /\ b_start = -1 /\ NULL = -2
      /\ F \subseteq Headers(m) /\ Headers(m) \subseteq Addr
      /\ m.nxt \in [Addr \cup {b_start} -> Addr \cup {End, NULL}]
  BY EndIs DEF Headers, Addr, b_start, NULL, ListOK, Mem
<1>2. /\ M.ready = m.ready /\ M.used = m.used /\ M.bytes = m.bytes
      /\ M.size = m.size
      /\ M.nxt = [m.nxt EXCEPT ![b] = m.nxt[it], ![it] = b]
  BY DEF Link, Mem
<1> HIDE DEF M
<1>3. /\ b \in Addr /\ it \in Addr \cup {b_start} /\ it # b
      /\ m.nxt[it] \in F \cup {End}
      /\ b < m.nxt[it]
  BY <1>0, <1>1 DEF ListOK, Ascending
<1>4. /\ \A a \in (Addr \cup {b_start}) \ {it, b} : M.nxt[a] = m.nxt[a]
      /\ M.nxt[b] = m.nxt[it] /\ M.nxt[it] = b
  BY <1>1, <1>2, <1>3
<1>5. M \in Mem
  <2>1. M.nxt \in [Addr \cup {b_start} -> Addr \cup {End, NULL}]
    BY <1>1, <1>2, <1>3
  <2> QED BY <2>1, <1>2 DEF M, Link, Mem
<1>6. Headers(M) = Headers(m) /\ Tiles(M)
  BY <1>2 DEF Headers, Tiles, ListOK
<1>7. Ascending(M, F \cup {b})
  <2>1. /\ \A n \in F \cup {b_start} : m.nxt[n] \in F \cup {End} /\ n < m.nxt[n]
        /\ \A n \in F \cup {b_start} : \A f \in F : f <= n \/ m.nxt[n] <= f
    BY DEF ListOK, Ascending
  <2> SUFFICES ASSUME NEW n \in (F \cup {b}) \cup {b_start}
               PROVE  /\ M.nxt[n] \in (F \cup {b}) \cup {End}
                      /\ n < M.nxt[n]
                      /\ \A f \in F \cup {b} : f <= n \/ M.nxt[n] <= f
    BY DEF Ascending
  <2>2. CASE n = it
    BY <1>0, <2>1, <2>2, <1>0, <1>1, <1>3, <1>4
  <2>3. CASE n = b
    BY <2>1, <2>3, <1>0, <1>1, <1>3, <1>4
  <2>4. CASE n # it /\ n # b
    <3>1. n \in F \cup {b_start} /\ M.nxt[n] = m.nxt[n]
      BY <2>4, <1>1, <1>4
    <3>2. b <= n \/ m.nxt[n] <= b
      <4>1. n <= it \/ m.nxt[it] <= n
        <5>1. it \in Int /\ b_start <= it
          BY <1>0, <1>1, <1>3
        <5>2. CASE n = b_start
          BY <5>1, <5>2
        <5>3. CASE n \in F
          BY <5>3, <2>1, <1>0
        <5> QED BY <5>2, <5>3, <3>1
      <4>2. CASE n < it
        <5>1. it \in F
          BY <4>2, <3>1, <1>0, <1>1
        <5>2. m.nxt[n] <= it
          BY <5>1, <4>2, <2>1, <3>1, <1>0, <1>1, <1>3
        <5> QED BY <5>2, <2>1, <3>1, <1>0, <1>1, <1>3
      <4>3. CASE m.nxt[it] <= n
        BY <4>3, <3>1, <2>1, <1>0, <1>1, <1>3
      <4> QED BY <4>1, <4>2, <4>3, <2>4, <3>1, <1>0, <1>1, <1>3
    <3> QED BY <3>1, <3>2, <2>1
  <2> QED BY <2>2, <2>3, <2>4
<1>8. Clean(M, F \cup {b})
  BY <1>0, <1>1, <1>3, <1>4 DEF Clean, ListOK
<1>9. BytesIn(M, F \cup {b}) = BytesIn(m, F) \cup BytesIn(m, {b})
  BY <1>2 DEF BytesIn
<1>10. ListOK(M, F \cup {b})
  BY <1>1, <1>6, <1>7, <1>8 DEF ListOK
<1> QED BY <1>2, <1>4, <1>5, <1>9, <1>10 DEF M, Entered

(* Where os_insertBlockIntoFreeList puts a block, and that what it does is  *)
(* to link it and to merge it with what it touches.                         *)
LEMMA InsertIs ==
  ASSUME NEW m \in Mem, NEW F, ListOK(m, F), NEW b \in Headers(m) \ F,
         NEW it, it = Before(m, Below(m, b)),
         NEW after, after = m.nxt[it]
  PROVE  /\ Place(m, F, it, b)
         /\ LET L == Link(m, it, b)
                N == IF JoinsNext(m, b, after) THEN Merge(L, b, after) ELSE L
            IN  os_insertBlockIntoFreeList(m, b)
                  = IF JoinsPrevious(m, it, b) THEN Merge(N, it, b) ELSE N
<1>1. /\ End \in Nat /\ Addr = 0 .. End - 1 /\ b_start = -1 /\ NULL = -2
      /\ F \subseteq Headers(m) /\ Headers(m) \subseteq Addr
      /\ m.nxt \in [Addr \cup {b_start} -> Addr \cup {End, NULL}]
      /\ m.size \in [Addr -> 0 .. End]
  BY EndIs DEF Headers, Addr, b_start, NULL, ListOK, Mem
<1>2. /\ it \in F \cup {b_start}
      /\ after \notin Below(m, b)
      /\ \A f \in F : f <= it => f \in Below(m, b)
  <2>1. F \in SUBSET Headers(m) /\ Ascending(m, F) /\ Below(m, b) \in SUBSET Headers(m)
    BY DEF ListOK, Below
  <2> QED BY <2>1, BeforeIs
<1>3. it < b
  <2>1. CASE it \in F
    <3>1. it \in Below(m, b)
      BY <2>1, <1>1, <1>2
    <3> QED BY <3>1 DEF Below
  <2>2. CASE it = b_start
    BY <2>2, <1>1
  <2> QED BY <2>1, <2>2, <1>2
<1>4. after \in F \cup {End} /\ it < after
  BY <1>2 DEF ListOK, Ascending
<1>5. after = End \/ b < after
  <2> SUFFICES ASSUME after # End, ~(b < after) PROVE FALSE
    OBVIOUS
  <2>1. after \in F /\ after # b /\ after \in Int /\ b \in Int
    BY <1>1, <1>4
  <2>2. after < b
    BY <2>1
  <2> QED BY <2>1, <2>2, <1>1, <1>2 DEF Below
<1> QED BY <1>2, <1>3, <1>5 DEF os_insertBlockIntoFreeList, Place

(* What the heap is like once the free block b has been inserted.           *)
Inserted(m, M, F, b) ==
  /\ M \in Mem
  /\ M.ready = m.ready /\ M.used = m.used /\ M.bytes = m.bytes
  /\ \A a \in Headers(m) \ (F \cup {b}) : a \in Headers(M) /\ M.size[a] = m.size[a]
  /\ Headers(M) \subseteq Headers(m)
  /\ ListOK(M, Headers(M) \cap (F \cup {b}))
  /\ Apart(M, Headers(M) \cap (F \cup {b}))
  /\ BytesIn(M, Headers(M) \cap (F \cup {b})) = BytesIn(m, F) \cup BytesIn(m, {b})
  /\ AlignedIn(m) => AlignedIn(M)

(* os_insertBlockIntoFreeList keeps the heap tiled and its list exact; of   *)
(* the headers only those of free blocks that are swallowed go.             *)
LEMMA InsertOK ==
  ASSUME NEW m \in Mem, NEW F, ListOK(m, F), Apart(m, F), NEW b \in Headers(m) \ F,
         NEW M, M = os_insertBlockIntoFreeList(m, b)
  PROVE  Inserted(m, M, F, b)
<1> SUFFICES /\ M \in Mem
             /\ M.ready = m.ready /\ M.used = m.used /\ M.bytes = m.bytes
             /\ \A a \in Headers(m) \ (F \cup {b}) : a \in Headers(M) /\ M.size[a] = m.size[a]
             /\ Headers(M) \subseteq Headers(m)
             /\ ListOK(M, Headers(M) \cap (F \cup {b}))
             /\ Apart(M, Headers(M) \cap (F \cup {b}))
             /\ BytesIn(M, Headers(M) \cap (F \cup {b})) = BytesIn(m, F) \cup BytesIn(m, {b})
             /\ AlignedIn(m) => AlignedIn(M)
  BY DEF Inserted
<1>1. /\ End \in Nat /\ Addr = 0 .. End - 1 /\ b_start = -1 /\ NULL = -2
      /\ F \subseteq Headers(m) /\ Headers(m) \subseteq Addr
      /\ \A a \in Headers(m) : m.size[a] \in 1 .. End
  BY EndIs DEF Headers, Addr, b_start, NULL, ListOK, Mem
<1>2. PICK it, after : it = Before(m, Below(m, b)) /\ after = m.nxt[it]
  OBVIOUS
<1>3. PICK L : L = Link(m, it, b)
  OBVIOUS
<1>4. PICK N : N = IF JoinsNext(m, b, after) THEN Merge(L, b, after) ELSE L
  OBVIOUS
<1>5. /\ it \in F \cup {b_start} /\ it < b /\ (after = End \/ b < after)
      /\ M = IF JoinsPrevious(m, it, b) THEN Merge(N, it, b) ELSE N
      /\ Place(m, F, it, b)
  BY <1>2, <1>3, <1>4, InsertIs DEF Place
<1>6. /\ L \in Mem
      /\ L.ready = m.ready /\ L.used = m.used /\ L.bytes = m.bytes
      /\ L.size = m.size
      /\ ListOK(L, F \cup {b})
      /\ L.nxt[b] = after /\ L.nxt[it] = b
      /\ BytesIn(L, F \cup {b}) = BytesIn(m, F) \cup BytesIn(m, {b})
  <2>1. /\ Place(m, F, it, b)
        /\ L = Link(m, it, b) /\ m.nxt[it] = after
    BY <1>2, <1>3, <1>5
  <2>2. Entered(m, L, F, it, b)
    BY <2>1, LinkOK
  <2> QED BY <2>1, <2>2 DEF Entered
<1>7. Headers(L) = Headers(m) /\ (AlignedIn(m) => AlignedIn(L))
  BY <1>6 DEF Headers, AlignedIn
<1>9. after \in F \cup {End}
  <2>1. Ascending(m, F)
    BY DEF ListOK
  <2> QED BY <2>1, <1>2, <1>5 DEF Ascending
  (* Only the new neighbours can touch. *)
<1>8. \A f \in F : f + m.size[f] \notin F /\ (f + m.size[f] = b => f = it)
  <2>1. \A f \in F : f + m.size[f] \notin F
    BY DEF Apart
  <2>2. ASSUME NEW f \in F, f + m.size[f] = b
        PROVE  f = it
    <3>1. f < b /\ f \in Int /\ it \in Int
      BY <2>2, <1>1, <1>5
    <3>2. f <= it \/ m.nxt[it] <= f
      BY <1>5 DEF ListOK, Ascending
    <3>3. f <= it
      <4>1. f \in 0 .. End - 1 /\ b \in Int
        BY <1>1
      <4>2. f <= it \/ after <= f
        BY <3>2, <1>2
      <4>3. after = End \/ b < after
        BY <1>5
      <4>4. ~(after <= f)
        <5>1. f < b /\ f < End /\ End \in Int /\ f \in Int
          BY <4>1, <3>1, <1>1
        <5>2. CASE after = End
          BY <5>1, <5>2
        <5>3. CASE b < after
          <6>1. after \in Int
            BY <1>9, <1>1
          <6> QED BY <5>1, <5>3, <6>1, <4>1
        <5> QED BY <5>2, <5>3, <4>3
      <4> QED BY <4>2, <4>4
    <3>4. CASE f < it
      <4>1. it \in F /\ it \in Headers(m) /\ f \in Headers(m)
        BY <3>1, <3>4, <1>1, <1>5
      <4>2. f + m.size[f] <= it
        BY <4>1, <3>4 DEF ListOK, Tiles
      <4> QED BY <4>2, <2>2, <1>5, <1>1
    <3> QED BY <3>1, <3>3, <3>4
  <2> QED BY <2>1, <2>2
<1> DEFINE G == IF JoinsNext(m, b, after) THEN (F \cup {b}) \ {after} ELSE F \cup {b}
<1>10. /\ N \in Mem
       /\ N.ready = m.ready /\ N.used = m.used /\ N.bytes = m.bytes
       /\ ListOK(N, G)
       /\ Headers(N) = Headers(m) \ ((F \cup {b}) \ G)
       /\ \A a \in Headers(m) \ {b} : a \in Headers(N) => N.size[a] = m.size[a]
       /\ BytesIn(N, G) = BytesIn(m, F) \cup BytesIn(m, {b})
       /\ AlignedIn(m) => AlignedIn(N)
       /\ b \in G
       /\ b + N.size[b] \notin G
       /\ it \in F => it \in G
  <2>1. CASE JoinsNext(m, b, after)
    <3>1. after \in F /\ after # b /\ after # it /\ b + L.size[b] = after
      BY <2>1, <1>1, <1>5, <1>6, <1>9 DEF JoinsNext
    <3>2. N = Merge(L, b, after) /\ b \in F \cup {b} /\ after \in F \cup {b}
      BY <2>1, <1>4, <3>1
    <3>3. /\ N \in Mem
          /\ N.ready = L.ready /\ N.used = L.used /\ N.bytes = L.bytes
          /\ Headers(N) = Headers(L) \ {after}
          /\ ListOK(N, (F \cup {b}) \ {after})
          /\ \A a \in Addr \ {b, after} : N.size[a] = L.size[a]
          /\ N.size[b] = L.size[b] + L.size[after]
          /\ BytesIn(N, (F \cup {b}) \ {after}) = BytesIn(L, F \cup {b})
          /\ AlignedIn(L) => AlignedIn(N)
      BY <1>6, <3>1, <3>2, MergeOK
    <3>4. G = (F \cup {b}) \ {after}
      BY <2>1
    <3>5. \A a \in Headers(m) \ {b} : a \in Headers(N) => N.size[a] = m.size[a]
      BY <3>3, <1>1, <1>6, <1>7
    <3>6. b + N.size[b] \notin G
      <4>1. /\ b \in Int /\ m.size[b] \in 1 .. End /\ after \in Int
            /\ m.size[after] \in 1 .. End
        BY <3>1, <1>1
      <4>2. b + N.size[b] = after + m.size[after]
        BY <4>1, <3>1, <3>3, <1>6
      <4>3. after + m.size[after] # b
        BY <4>1, <1>5, <1>1, <3>1
      <4> QED BY <4>2, <4>3, <3>1, <3>4, <1>8
    <3>7. (F \cup {b}) \ G = {after}
      BY <3>1, <3>4
    <3> HIDE DEF G
    <3> QED BY <3>1, <3>3, <3>4, <3>5, <3>6, <3>7, <1>6, <1>7
  <2>2. CASE ~JoinsNext(m, b, after)
    <3>1. N = L /\ G = F \cup {b}
      BY <2>2, <1>4
    <3>2. b + m.size[b] \notin F
      <4> SUFFICES ASSUME b + m.size[b] \in F PROVE FALSE
        OBVIOUS
      <4>1. /\ b \in Int /\ m.size[b] \in 1 .. End /\ it \in Int
            /\ b + m.size[b] \in Addr /\ b < b + m.size[b]
        BY <1>1, <1>5
      <4>2. b + m.size[b] <= it \/ after <= b + m.size[b]
        BY <1>2, <1>5 DEF ListOK, Ascending
      <4>3. after <= b + m.size[b]
        BY <4>1, <4>2, <1>5
      <4>4. after \in F /\ b < after
        BY <4>1, <4>3, <1>1, <1>5, <1>9
      <4>5. b + m.size[b] <= after
        BY <4>4, <1>1 DEF ListOK, Tiles
      <4>6. after \in Int /\ after # End
        BY <4>4, <1>1
      <4>7. b + m.size[b] = after
        BY <4>1, <4>3, <4>5, <4>6
      <4> QED BY <4>6, <4>7, <2>2 DEF JoinsNext
    <3>3. b + m.size[b] # b
      BY <1>1
    <3> HIDE DEF G
    <3> QED BY <3>1, <3>2, <3>3, <1>6, <1>7
  <2> QED BY <2>1, <2>2
<1> HIDE DEF G
<1>11. G \subseteq F \cup {b}
  BY DEF G
<1>12. G \subseteq Headers(N)
  BY <1>10 DEF ListOK
<1>13. CASE ~JoinsPrevious(m, it, b)
  <2>1. M = N
    BY <1>5, <1>13
  <2>2. Headers(N) \cap (F \cup {b}) = G
    BY <1>10, <1>11, <1>12
  <2>3. Apart(N, G)
    <3> SUFFICES ASSUME NEW f \in G PROVE f + N.size[f] \notin G
      BY DEF Apart
    <3>1. CASE f = b
      BY <3>1, <1>10
    <3>2. CASE f # b
      <4>1. f \in F /\ N.size[f] = m.size[f]
        BY <3>2, <1>1, <1>10, <1>11, <1>12
      <4>2. f + m.size[f] # b
        <5>1. f = it => f # b_start
          BY <4>1, <1>1
        <5> QED BY <4>1, <5>1, <1>8, <1>13 DEF JoinsPrevious
      <4> QED BY <4>1, <4>2, <1>8, <1>11
    <3> QED BY <3>1, <3>2
  <2> QED BY <2>1, <2>2, <2>3, <1>10, <1>1
<1>14. CASE JoinsPrevious(m, it, b)
  <2>1. it \in F /\ it \in G /\ it # b /\ it \in Headers(N) /\ it + N.size[it] = b
    <3>1. it \in F /\ it \in G /\ it # b
      BY <1>14, <1>1, <1>5, <1>10 DEF JoinsPrevious
    <3> QED BY <3>1, <1>14, <1>1, <1>10, <1>12 DEF JoinsPrevious
  <2>2. M = Merge(N, it, b) /\ b \in G
    BY <1>5, <1>10, <1>14
  <2>3. /\ M \in Mem
        /\ M.ready = N.ready /\ M.used = N.used /\ M.bytes = N.bytes
        /\ Headers(M) = Headers(N) \ {b}
        /\ ListOK(M, G \ {b})
        /\ \A a \in Addr \ {it, b} : M.size[a] = N.size[a]
        /\ M.size[it] = N.size[it] + N.size[b]
        /\ BytesIn(M, G \ {b}) = BytesIn(N, G)
        /\ AlignedIn(N) => AlignedIn(M)
    <3>1. N \in Mem /\ ListOK(N, G) /\ it \in G /\ b \in G
      BY <1>10, <2>1
    <3>2. it + N.size[it] = b /\ M = Merge(N, it, b)
      BY <2>1, <2>2
    <3> QED BY ONLY <3>1, <3>2, MergeOK
  <2>4. Headers(M) \cap (F \cup {b}) = G \ {b}
    BY <2>3, <1>10, <1>11, <1>12
  <2>5. Apart(M, G \ {b})
    <3> SUFFICES ASSUME NEW f \in G \ {b} PROVE f + M.size[f] \notin G \ {b}
      BY DEF Apart
    <3>1. CASE f = it
      <4>1. it \in Int /\ N.size[it] \in Int /\ N.size[b] \in Int
        <5>1. it \in Addr /\ b \in Addr
          BY <2>1, <1>1
        <5> QED BY <5>1, <1>1, <1>10 DEF Mem
      <4>2. f + M.size[f] = b + N.size[b]
        BY <4>1, <3>1, <2>1, <2>3
      <4> QED BY <4>2, <1>10
    <3>2. CASE f # it
      <4>1. f \in F /\ f \in Headers(m) /\ M.size[f] = m.size[f]
        BY <3>2, <2>3, <1>1, <1>10, <1>11, <1>12
      <4> QED BY <4>1, <1>8, <1>11
    <3> QED BY <3>1, <3>2
  <2>6. \A a \in Headers(m) \ (F \cup {b}) : a \in Headers(M) /\ M.size[a] = m.size[a]
    BY <2>1, <2>3, <1>1, <1>10
  <2>7. Headers(M) \subseteq Headers(m)
    BY <2>3, <1>10
  <2> QED BY <2>3, <2>4, <2>5, <2>6, <2>7, <1>10
<1> QED BY <1>13, <1>14

(* What the heap is like once y, the successor of a node, has left the list. *)
Unlinked(m, M, F, y) ==
  /\ M \in Mem
  /\ M.ready = m.ready /\ M.used = m.used /\ M.bytes = m.bytes
  /\ M.size = m.size
  /\ ListOK(M, F \ {y})
  /\ BytesIn(M, F \ {y}) = BytesIn(m, F) \ BytesIn(m, {y})

(* A block that leaves the list takes its bytes with it.                    *)
LEMMA UnlinkOK ==
  ASSUME NEW m \in Mem, NEW F, ListOK(m, F),
         NEW p \in F \cup {b_start}, NEW y \in F, m.nxt[p] = y,
         NEW M, M = Unlink(m, p)
  PROVE  Unlinked(m, M, F, y)
<1> SUFFICES /\ M \in Mem
             /\ M.ready = m.ready /\ M.used = m.used /\ M.bytes = m.bytes
             /\ M.size = m.size
             /\ ListOK(M, F \ {y})
             /\ BytesIn(M, F \ {y}) = BytesIn(m, F) \ BytesIn(m, {y})
  BY DEF Unlinked
<1>1. /\ End \in Nat /\ Addr = 0 .. End - 1 /\ b_start = -1 /\ NULL = -2
      /\ F \subseteq Headers(m) /\ Headers(m) \subseteq Addr
      /\ m.nxt \in [Addr \cup {b_start} -> Addr \cup {End, NULL}]
      /\ \A a \in Headers(m) : m.size[a] \in 1 .. End
  BY EndIs DEF Headers, Addr, b_start, NULL, ListOK, Mem
<1>2. /\ M.ready = m.ready /\ M.used = m.used /\ M.bytes = m.bytes
      /\ M.size = m.size
      /\ M.nxt = [m.nxt EXCEPT ![p] = m.nxt[y], ![y] = NULL]
  BY DEF Unlink, Mem
<1>3. /\ \A n \in F \cup {b_start} : m.nxt[n] \in F \cup {End} /\ n < m.nxt[n]
      /\ \A n \in F \cup {b_start} : \A f \in F : f <= n \/ m.nxt[n] <= f
  BY DEF ListOK, Ascending
<1>4. p < y /\ p # y /\ y \in Addr /\ m.nxt[y] \in F \cup {End} /\ y < m.nxt[y]
  BY <1>1, <1>3
<1>5. /\ \A a \in (Addr \cup {b_start}) \ {p, y} : M.nxt[a] = m.nxt[a]
      /\ M.nxt[p] = m.nxt[y] /\ M.nxt[y] = NULL
  BY <1>1, <1>2, <1>4
<1>6. M \in Mem
  <2>1. M.nxt \in [Addr \cup {b_start} -> Addr \cup {End, NULL}]
    <3>1. /\ m.nxt \in [Addr \cup {b_start} -> Addr \cup {End, NULL}]
          /\ m.nxt[y] \in Addr \cup {End, NULL}
      BY <1>1, <1>4
    <3> QED BY ONLY <3>1, <1>2
  <2> QED BY <2>1, <1>2 DEF Unlink, Mem
<1>7. Headers(M) = Headers(m) /\ Tiles(M)
  BY <1>2 DEF Headers, Tiles, ListOK
<1>8. Ascending(M, F \ {y})
  <2> SUFFICES ASSUME NEW n \in (F \ {y}) \cup {b_start}
               PROVE  /\ M.nxt[n] \in (F \ {y}) \cup {End}
                      /\ n < M.nxt[n]
                      /\ \A f \in F \ {y} : f <= n \/ M.nxt[n] <= f
    BY DEF Ascending
  <2>1. CASE n = p
    <3>1. M.nxt[n] = m.nxt[y] /\ m.nxt[n] = y
      BY <2>1, <1>5
    <3>2. M.nxt[n] \in (F \ {y}) \cup {End} /\ n < M.nxt[n]
      BY <3>1, <2>1, <1>1, <1>4
    <3>3. ASSUME NEW f \in F \ {y} PROVE f <= n \/ M.nxt[n] <= f
      BY <3>1, <2>1, <1>1, <1>3, <1>4
    <3> QED BY <3>2, <3>3
  <2>2. CASE n # p
    <3>1. M.nxt[n] = m.nxt[n] /\ n \in F \cup {b_start}
      BY <2>2, <1>1, <1>4, <1>5
    <3>2. m.nxt[n] # y
      <4> SUFFICES ASSUME m.nxt[n] = y PROVE FALSE
        OBVIOUS
      <4>1. n < y /\ n \in Int /\ p \in Int /\ y \in Int
        BY <1>1, <1>3, <1>4, <3>1
      <4>2. CASE n < p
        <5>1. p \in F
          BY <4>1, <4>2, <3>1, <1>1
        <5>2. p <= n \/ y <= p
          BY <5>1, <1>3, <3>1
        <5> QED BY <5>2, <4>1, <4>2, <1>4
      <4>3. CASE p < n
        <5>1. n \in F
          BY <4>1, <4>3, <3>1, <1>1
        <5>2. n <= p \/ y <= n
          BY <5>1, <1>3
        <5> QED BY <5>2, <4>1, <4>3
      <4> QED BY <4>1, <4>2, <4>3, <2>2
    <3> QED BY <3>1, <3>2, <1>3
  <2> QED BY <2>1, <2>2
<1>9. Clean(M, F \ {y})
  <2> SUFFICES ASSUME NEW a \in Addr \ (F \ {y}) PROVE M.nxt[a] = NULL
    BY DEF Clean
  <2>1. CASE a = y
    BY <2>1, <1>5
  <2>2. CASE a # y
    <3>1. a # p /\ a \notin F
      BY <2>2, <1>1, <1>4
    <3> QED BY <3>1, <2>2, <1>5 DEF Clean, ListOK
  <2> QED BY <2>1, <2>2
<1>10. ListOK(M, F \ {y})
  BY <1>1, <1>7, <1>8, <1>9 DEF ListOK
<1>11. BytesIn(M, F \ {y}) = BytesIn(m, F) \ BytesIn(m, {y})
  <2> SUFFICES ASSUME NEW z \in Addr
               PROVE  (\E f \in F \ {y} : f <= z /\ z < f + m.size[f])
                         <=> /\ \E f \in F : f <= z /\ z < f + m.size[f]
                             /\ ~(y <= z /\ z < y + m.size[y])
    BY <1>2 DEF BytesIn
  <2>1. ASSUME NEW f \in F \ {y}, f <= z, z < f + m.size[f],
               y <= z /\ z < y + m.size[y]
        PROVE  FALSE
    <3>1. /\ f \in Int /\ y \in Int /\ m.size[f] \in Int /\ m.size[y] \in Int
          /\ z \in Int
      BY <1>1
    <3>2. f < y => f + m.size[f] <= y
      BY <1>1 DEF ListOK, Tiles
    <3>3. y < f => y + m.size[y] <= f
      BY <1>1 DEF ListOK, Tiles
    <3> QED BY <3>1, <3>2, <3>3, <2>1
  <2> QED BY <2>1
<1> QED BY <1>2, <1>6, <1>10, <1>11

(* A block that is not in the list is cut in two.                           *)
LEMMA CutOK ==
  ASSUME NEW m \in Mem, NEW F, ListOK(m, F), NEW b \in Headers(m) \ F,
         NEW w \in Int, 0 < w, w < m.size[b],
         NEW M, M = Cut(m, b, w)
  PROVE  /\ M \in Mem
         /\ M.ready = m.ready /\ M.used = m.used /\ M.bytes = m.bytes
         /\ b + w \in Addr \ Headers(m)
         /\ Headers(M) = Headers(m) \cup {b + w}
         /\ M.size[b] = w /\ M.size[b + w] = m.size[b] - w
         /\ \A a \in Addr \ {b, b + w} : M.size[a] = m.size[a]
         /\ ListOK(M, F)
         /\ Apart(m, F) => Apart(M, F)
         /\ BytesIn(M, F) = BytesIn(m, F)
         /\ AlignedIn(m) /\ w % Align = 0 => AlignedIn(M)
<1>1. /\ End \in Nat /\ Addr = 0 .. End - 1
      /\ F \subseteq Headers(m) /\ Headers(m) \subseteq Addr
      /\ m.size \in [Addr -> 0 .. End]
      /\ \A a \in Headers(m) : m.size[a] \in 1 .. End
      /\ \A a \in Addr : m.size[a] > 0 => a \in Headers(m)
  BY EndIs DEF Headers, Addr, ListOK, Mem
<1>2. /\ M.ready = m.ready /\ M.used = m.used /\ M.bytes = m.bytes
      /\ M.nxt = m.nxt
      /\ M.size = [m.size EXCEPT ![b] = w, ![b + w] = m.size[b] - w]
  BY DEF Cut, Mem
<1>3. /\ 0 \in Headers(m)
      /\ \A a \in Headers(m) : a + m.size[a] \in Headers(m) \cup {End}
      /\ \A a, c \in Headers(m) : a < c => a + m.size[a] <= c
  BY DEF ListOK, Tiles
<1>4. /\ b \in Int /\ b >= 0 /\ m.size[b] \in Int /\ b + m.size[b] <= End
      /\ b + w \in Addr /\ b + w # b
  <2>1. b \in Int /\ b >= 0 /\ m.size[b] \in Int
    BY <1>1
  <2>2. b + m.size[b] <= End
    <3>1. b + m.size[b] \in Headers(m) \cup {End}
      BY <1>3
    <3> QED BY <3>1, <2>1, <1>1
  <2>3. b + w \in Int /\ b + w >= 0 /\ b + w < End /\ b + w # b
    BY <2>1, <2>2, <1>1
  <2> QED BY <2>1, <2>2, <2>3, <1>1
<1>5. b + w \notin Headers(m)
  <2> SUFFICES ASSUME b + w \in Headers(m) PROVE FALSE
    OBVIOUS
  <2>1. b < b + w
    BY <1>4
  <2>2. b + m.size[b] <= b + w
    BY <2>1, <1>3
  <2> QED BY <2>2, <1>4
<1>6. \A a \in Addr : M.size[a] = IF a = b THEN w
                                  ELSE IF a = b + w THEN m.size[b] - w
                                  ELSE m.size[a]
  BY <1>1, <1>2, <1>4
<1>7. M \in Mem
  <2>1. w \in 0 .. End /\ m.size[b] - w \in 0 .. End
    BY <1>1, <1>4
  <2>2. M.size \in [Addr -> 0 .. End]
    BY <2>1, <1>1, <1>2
  <2> QED BY <2>2, <1>2 DEF Cut, Mem
<1>8. Headers(M) = Headers(m) \cup {b + w}
  <2> SUFFICES ASSUME NEW a \in Addr
               PROVE  M.size[a] > 0 <=> (m.size[a] > 0 \/ a = b + w)
    BY <1>4 DEF Headers
  <2>1. m.size[b] > 0 /\ m.size[b] - w > 0
    BY <1>1, <1>4
  <2> QED BY <2>1, <1>6
<1>9. Tiles(M)
  <2>1. 0 \in Headers(M)
    BY <1>3, <1>8
  <2>2. ASSUME NEW a \in Headers(M)
        PROVE  a + M.size[a] \in Headers(M) \cup {End}
    <3>1. CASE a = b
      BY <3>1, <1>1, <1>6, <1>8
    <3>2. CASE a = b + w
      <4>1. a + M.size[a] = b + m.size[b]
        BY <3>2, <1>4, <1>6
      <4> QED BY <4>1, <1>3, <1>8
    <3>3. CASE a # b /\ a # b + w
      BY <3>3, <1>1, <1>3, <1>6, <1>8
    <3> QED BY <3>1, <3>2, <3>3
  <2>3. ASSUME NEW a \in Headers(M), NEW c \in Headers(M), a < c
        PROVE  a + M.size[a] <= c
    <3>0. a \in Int /\ c \in Int
      BY <1>1, <1>4, <1>8
    <3>1. CASE a = b
      <4>1. M.size[a] = w
        BY <3>1, <1>1, <1>6
      <4>2. CASE c = b + w
        BY <4>1, <4>2, <3>1, <3>0
      <4>3. CASE c # b + w
        <5>1. b + m.size[b] <= c
          BY <4>3, <3>1, <2>3, <1>3, <1>8
        <5> QED BY <5>1, <4>1, <3>0, <3>1, <1>4
      <4> QED BY <4>2, <4>3
    <3>2. CASE a = b + w
      <4>1. a + M.size[a] = b + m.size[b]
        BY <3>2, <1>4, <1>6
      <4>2. c \in Headers(m) /\ b < c
        BY <3>0, <3>2, <2>3, <1>4, <1>8
      <4> QED BY <4>1, <4>2, <1>3
    <3>3. CASE a # b /\ a # b + w
      <4>1. a \in Headers(m) /\ M.size[a] = m.size[a] /\ m.size[a] \in Int
        BY <3>3, <1>1, <1>6, <1>8
      <4>2. CASE c = b + w
        <5>1. a < b
          <6> SUFFICES ASSUME b < a PROVE FALSE
            BY <3>0, <3>3, <1>4
          <6>1. b + m.size[b] <= a
            BY <4>1, <1>3
          <6> QED BY <6>1, <4>2, <2>3, <3>0, <1>4
        <5>2. a + m.size[a] <= b
          BY <5>1, <4>1, <1>3
        <5> QED BY <5>2, <4>1, <4>2, <3>0, <1>4
      <4>3. CASE c # b + w
        BY <4>1, <4>3, <2>3, <1>3, <1>8
      <4> QED BY <4>2, <4>3
    <3> QED BY <3>1, <3>2, <3>3
  <2> QED BY <2>1, <2>2, <2>3 DEF Tiles
<1>10. ListOK(M, F)
  BY <1>2, <1>8, <1>9 DEF ListOK, Ascending, Clean
<1>11. \A f \in F : M.size[f] = m.size[f]
  BY <1>1, <1>5, <1>6
<1>12. BytesIn(M, F) = BytesIn(m, F) /\ (Apart(m, F) => Apart(M, F))
  BY <1>11 DEF BytesIn, Apart
<1>13. ASSUME AlignedIn(m), w % Align = 0
       PROVE  AlignedIn(M)
  <2>1. b % Align = 0 /\ m.size[b] % Align = 0
    BY <1>13 DEF AlignedIn
  <2>2. (b + w) % Align = 0
    BY <2>1, <1>4, <1>13, ModSum
  <2>3. (m.size[b] - w) % Align = 0
    BY <2>1, <1>4, <1>13, ModDifference
  <2> SUFFICES ASSUME NEW a \in Headers(M)
               PROVE  a % Align = 0 /\ M.size[a] % Align = 0
    BY DEF AlignedIn
  <2>4. CASE a = b
    BY <2>1, <2>4, <1>1, <1>6, <1>13
  <2>5. CASE a = b + w
    BY <2>2, <2>3, <2>5, <1>4, <1>6
  <2>6. CASE a # b /\ a # b + w
    BY <2>6, <1>1, <1>6, <1>8, <1>13 DEF AlignedIn
  <2> QED BY <2>4, <2>5, <2>6
<1> QED
  <2>1. M.size[b] = w /\ M.size[b + w] = m.size[b] - w
    BY <1>1, <1>4, <1>6
  <2>2. \A a \in Addr \ {b, b + w} : M.size[a] = m.size[a]
    BY <1>6
  <2> QED BY <2>1, <2>2, <1>2, <1>4, <1>5, <1>7, <1>8, <1>10, <1>12, <1>13

(* The bytes of one block (mem.c:10-15).                                     *)
LEMMA BlockBytes ==
  ASSUME NEW m \in Mem, Tiles(m), NEW b \in Headers(m)
  PROVE  /\ BytesIn(m, {b}) = b .. b + m.size[b] - 1
         /\ IsFiniteSet(BytesIn(m, {b}))
         /\ Cardinality(BytesIn(m, {b})) = m.size[b]
<1>1. /\ End \in Nat /\ Addr = 0 .. End - 1 /\ b \in Addr
      /\ m.size[b] \in 1 .. End
  BY EndIs DEF Headers, Addr, Mem
<1>2. b + m.size[b] <= End
  <2>1. b + m.size[b] \in Headers(m) \cup {End}
    BY DEF Tiles
  <2> QED BY <2>1, <1>1 DEF Headers
<1>3. BytesIn(m, {b}) = b .. b + m.size[b] - 1
  BY <1>1, <1>2 DEF BytesIn
<1> DEFINE lo == b
           hi == b + m.size[b] - 1
<1>4. lo \in Int /\ hi \in Int /\ lo <= hi /\ hi - lo + 1 = m.size[b]
  BY <1>1
<1> HIDE DEF lo, hi
<1>5. IsFiniteSet(lo .. hi) /\ Cardinality(lo .. hi) = hi - lo + 1
  BY <1>4, FS_Interval
<1> QED BY <1>3, <1>4, <1>5 DEF lo, hi

(* There are finitely many bytes in any set of blocks.                     *)
LEMMA BytesFinite ==
  ASSUME NEW m, NEW F
  PROVE  IsFiniteSet(BytesIn(m, F)) /\ Cardinality(BytesIn(m, F)) \in Nat
<1>1. End - 1 \in Int /\ 0 \in Int
  BY EndIs
<1>2. IsFiniteSet(Addr)
  BY ONLY <1>1, FS_Interval DEF Addr
<1>3. IsFiniteSet(BytesIn(m, F))
  BY <1>2, FS_Subset DEF BytesIn
<1> QED BY <1>3, FS_CardinalityType

(* A block shares no byte with others.                                     *)
LEMMA BytesApart ==
  ASSUME NEW m \in Mem, Tiles(m), NEW F \in SUBSET Headers(m),
         NEW b \in Headers(m) \ F
  PROVE  BytesIn(m, F) \cap BytesIn(m, {b}) = {}
<1>1. /\ End \in Nat /\ Addr = 0 .. End - 1 /\ Headers(m) \subseteq Addr
      /\ \A a \in Headers(m) : m.size[a] \in 1 .. End
  BY EndIs DEF Headers, Addr, Mem
<1> SUFFICES ASSUME NEW z \in Addr, NEW f \in F, f <= z, z < f + m.size[f],
                    b <= z, z < b + m.size[b]
             PROVE  FALSE
  BY DEF BytesIn
<1>2. /\ f \in Int /\ b \in Int /\ m.size[f] \in Int /\ m.size[b] \in Int
      /\ z \in Int /\ f # b
  BY <1>1
<1>3. f < b => f + m.size[f] <= b
  BY DEF Tiles
<1>4. b < f => b + m.size[b] <= f
  BY DEF Tiles
<1> QED BY <1>2, <1>3, <1>4

(* A block that was not in F adds its size.                                  *)
LEMMA BytesAdded ==
  ASSUME NEW m \in Mem, Tiles(m), NEW F \in SUBSET Headers(m),
         NEW b \in Headers(m) \ F
  PROVE  Cardinality(BytesIn(m, F) \cup BytesIn(m, {b}))
           = Cardinality(BytesIn(m, F)) + m.size[b]
<1> DEFINE S == BytesIn(m, F)
           T == BytesIn(m, {b})
<1>1. IsFiniteSet(S) /\ IsFiniteSet(T) /\ Cardinality(S) \in Nat
      /\ Cardinality(T) = m.size[b]
  BY BytesFinite, BlockBytes
<1>2. S \cap T = {}
  BY BytesApart
<1>3. Cardinality(T) \in Nat
  BY <1>1, FS_CardinalityType
<1> HIDE DEF S, T
<1>4. Cardinality(S \cup T) = Cardinality(S) + Cardinality(T) - Cardinality(S \cap T)
  BY <1>1, FS_Union
<1>5. Cardinality(S \cap T) = 0
  BY <1>2, FS_EmptySet
<1>6. Cardinality(S \cup T) = Cardinality(S) + m.size[b]
  BY <1>1, <1>3, <1>4, <1>5
<1> QED BY <1>6 DEF S, T

(* The bytes of a free heap whose bytes are those of G without the block b.  *)
LEMMA BytesLeft ==
  ASSUME NEW S, IsFiniteSet(S), NEW lo \in Int, NEW n \in Int, n > 0,
         lo .. lo + n - 1 \subseteq S
  PROVE  Cardinality(S \ (lo .. lo + n - 1)) = Cardinality(S) - n
<1> DEFINE hi == lo + n - 1
           T == lo .. hi
<1>1. hi \in Int /\ lo <= hi /\ hi - lo + 1 = n
  OBVIOUS
<1> HIDE DEF hi
<1>2. IsFiniteSet(T) /\ Cardinality(T) = n
  <2>1. IsFiniteSet(lo .. hi) /\ Cardinality(lo .. hi) = hi - lo + 1
    BY ONLY lo \in Int, <1>1, FS_Interval
  <2> QED BY <2>1, <1>1
<1>3. T \subseteq S
  BY DEF hi
<1> HIDE DEF T
<1>4. Cardinality(S \ T) = Cardinality(S) - Cardinality(S \cap T)
  BY FS_Difference
<1>5. S \cap T = T
  BY <1>3
<1>6. Cardinality(S \ T) = Cardinality(S) - n
  BY <1>2, <1>4, <1>5
<1> QED BY <1>6 DEF T, hi

(* A number below the modulus is its own rest.                             *)
LEMMA ModSmall ==
  ASSUME NEW a \in Nat, NEW d \in Nat, a < d
  PROVE  a % d = a
OBVIOUS

(* A size that is taken seriously is a whole number of alignment units that  *)
(* holds the request and a header: nothing wraps.                            *)
LEMMA WantedIs ==
  ASSUME NEW n \in Requests, NEW w, w = WantedSize(n)
  PROVE  /\ w \in Nat
         /\ w > 0 => /\ n > 0
                     /\ n + NodeSize <= w
                     /\ w % Align = 0
         /\ \A s \in Nat : n > 0 /\ n + NodeSize <= s /\ s < AllocatedBit /\ s % Align = 0
                              => w > 0 /\ w <= s
<1>1. /\ Align \in Nat \ {0} /\ NodeSize \in Nat \ {0} /\ HeapBytes \in Nat
      /\ AllocatedBit \in Nat /\ NodeSize + Align <= HeapBytes
      /\ HeapBytes + Align <= AllocatedBit
      /\ n \in 0 .. 2 * AllocatedBit - 1
  BY HeapAssumption
<1>2. CASE n >= AllocatedBit \/ n = 0
  <2>1. w = 0
    BY <1>2 DEF WantedSize
  <2> QED BY <2>1, <1>1, <1>2
<1>3. CASE n < AllocatedBit /\ n # 0
  <2> DEFINE s == n + NodeSize
             q == s \div Align
             r == s % Align
  <2>1. s \in Nat /\ s > 0 /\ q \in Int /\ r \in 0 .. Align - 1 /\ s = Align * q + r
    BY <1>1, <1>3
  <2>2. s + Align < 2 * AllocatedBit
    BY <1>1, <1>3
  <2>3. w = RoundUp(s) % (2 * AllocatedBit)
    BY <1>1, <1>3 DEF WantedSize
  <2> HIDE DEF s, q
  <2>4. r % Align = r
    BY <2>1, <1>1, ModSmall
  <2> DEFINE u == IF r = 0 THEN s ELSE s + (Align - r)
  <2>5. RoundUp(s) = u
    BY DEF RoundUp
  <2>6. u \in Nat /\ s <= u /\ u < s + Align /\ u < 2 * AllocatedBit
    BY <2>1, <2>2, <1>1
  <2>7. w = u
    <3> HIDE DEF u, r
    <3>1. 2 * AllocatedBit \in Nat
      BY <1>1
    <3> QED BY <3>1, <2>3, <2>5, <2>6, ModSmall
  <2>8. u % Align = 0
    <3>1. CASE r = 0
      BY <3>1
    <3>2. CASE r # 0
      <4>1. (s - r) % Align = 0
        <5> DEFINE c == s - r
        <5> HIDE DEF r
        <5>1. c \in Int /\ c = Align * q + 0
          BY <2>1, <1>1
        <5> HIDE DEF c
        <5>2. c % Align = 0
          BY <5>1, <2>1, <1>1
        <5> QED BY <5>2 DEF c
      <4>2. Align % Align = 0
        BY <1>1
      <4>3. u = (s - r) + Align /\ s - r \in Int
        <5> HIDE DEF r
        <5> QED BY <3>2, <2>1, <1>1
      <4> HIDE DEF u, r
      <4> QED BY <4>1, <4>2, <4>3, <1>1, ModSum
    <3> QED BY <3>1, <3>2
  <2>9. ASSUME NEW v \in Nat, s <= v, v % Align = 0
        PROVE  u <= v
    <3> SUFFICES ASSUME v < u PROVE FALSE
      BY <2>6
    <3>1. (u - v) % Align = 0
      <4> HIDE DEF u
      <4>1. u \in Int /\ v \in Int
        BY <2>6
      <4> QED BY <4>1, <2>8, <2>9, ModDifference
    <3> DEFINE d == u - v
    <3>2. d \in Nat /\ 0 < d /\ d < Align
      <4> HIDE DEF u
      <4> QED BY <2>1, <2>6, <2>9, <1>1
    <3> HIDE DEF u
    <3>3. d % Align = 0
      BY <3>1
    <3> HIDE DEF d
    <3> QED BY <3>2, <3>3, <1>1, ModSmall
  <2> HIDE DEF u
  <2>10. /\ w \in Nat /\ w > 0 /\ n > 0 /\ w % Align = 0
         /\ n + NodeSize <= w
    BY <2>1, <2>6, <2>7, <2>8, <1>1, <1>3 DEF s
  <2>11. \A v \in Nat : n + NodeSize <= v /\ v % Align = 0 => w <= v
    BY <2>7, <2>9 DEF s
  <2> QED BY <2>10, <2>11
<1> QED BY <1>1, <1>2, <1>3

(* A heap whose list holds exactly the blocks of F.                         *)
Sound(m, F) ==
  /\ m \in Mem
  /\ ListOK(m, F)
  /\ Apart(m, F)
  /\ m.bytes = Cardinality(BytesIn(m, F))
  /\ AlignedIn(m)

(* Only links and sizes matter to the list.                                 *)
LEMMA SameList ==
  ASSUME NEW m, NEW M, NEW F, M.nxt = m.nxt, M.size = m.size
  PROVE  /\ Headers(M) = Headers(m)
         /\ ListOK(m, F) => ListOK(M, F)
         /\ Apart(m, F) => Apart(M, F)
         /\ BytesIn(M, F) = BytesIn(m, F)
         /\ AlignedIn(m) => AlignedIn(M)
<1>1. Headers(M) = Headers(m)
  BY DEF Headers
<1>2. ListOK(m, F) => ListOK(M, F)
  BY <1>1 DEF ListOK, Tiles, Ascending, Clean
<1> QED BY <1>1, <1>2 DEF Apart, BytesIn, AlignedIn

(* The heap that os_memInit makes: one free block.                          *)
LEMMA MemInitOK ==
  /\ Sound(os_memInit, {0})
  /\ Headers(os_memInit) = {0}
  /\ os_memInit.ready
<1> DEFINE M == os_memInit
<1>1. /\ End \in Nat /\ End > 0 /\ Addr = 0 .. End - 1 /\ b_start = -1 /\ NULL = -2
  BY EndIs DEF Addr, b_start, NULL
<1>2. /\ M.ready = TRUE /\ M.bytes = End
      /\ M.nxt = [a \in Addr \cup {b_start} |->
                    IF a = b_start THEN 0 ELSE IF a = 0 THEN End ELSE NULL]
      /\ M.size = [a \in Addr |-> IF a = 0 THEN End ELSE 0]
      /\ M.used = [a \in Addr |-> FALSE]
  BY DEF os_memInit
<1>3. M \in Mem
  <2>1. M.nxt \in [Addr \cup {b_start} -> Addr \cup {End, NULL}]
    BY <1>1, <1>2
  <2>2. M.size \in [Addr -> 0 .. End] /\ M.used \in [Addr -> BOOLEAN]
    BY <1>1, <1>2
  <2> QED BY <2>1, <2>2, <1>1, <1>2 DEF os_memInit, Mem
<1> HIDE DEF M
<1>4. /\ 0 \in Addr
      /\ \A a \in Addr : M.size[a] = IF a = 0 THEN End ELSE 0
      /\ M.nxt[b_start] = 0 /\ M.nxt[0] = End
      /\ \A a \in Addr \ {0} : M.nxt[a] = NULL
  BY <1>1, <1>2
<1>5. Headers(M) = {0}
  BY <1>1, <1>4 DEF Headers
<1>6. Tiles(M)
  BY <1>1, <1>4, <1>5 DEF Tiles
<1>7. Ascending(M, {0})
  BY <1>1, <1>4 DEF Ascending
<1>8. ListOK(M, {0}) /\ Apart(M, {0})
  BY <1>1, <1>4, <1>5, <1>6, <1>7 DEF ListOK, Clean, Apart
<1>9. M.bytes = Cardinality(BytesIn(M, {0}))
  <2>1. 0 \in Headers(M) /\ M.size[0] = End
    BY <1>4, <1>5
  <2> QED BY <2>1, <1>2, <1>3, <1>6, BlockBytes
<1>10. AlignedIn(M)
  <2> DEFINE k == (HeapBytes - NodeSize) \div Align
  <2>1. Align \in Nat \ {0} /\ k \in Int
    BY HeapAssumption
  <2>2. End = Align * k + 0 /\ End \in Int
    <3>1. End = k * Align
      BY DEF End
    <3> HIDE DEF k
    <3> QED BY <2>1, <3>1, <1>1
  <2> HIDE DEF k
  <2>3. End % Align = 0 /\ 0 % Align = 0
    <3> HIDE DEF End
    <3> QED BY <2>1, <2>2
  <2> QED BY <2>3, <1>4, <1>5 DEF AlignedIn
<1> QED BY <1>2, <1>3, <1>5, <1>8, <1>9, <1>10 DEF M, Sound

(* First fit finds a block if there is one.                                 *)
LEMMA PreviousIs ==
  ASSUME NEW m, NEW F, Sound(m, F), NEW w \in Nat,
         NEW p, p = Previous(m, w), NEW y, y = m.nxt[p]
  PROVE  /\ p \in F \cup {b_start} /\ y \in F \cup {End}
         /\ y \in F => w <= m.size[y]
         /\ y = End => \A f \in F : m.size[f] < w
<1>1. /\ End \in Nat /\ Addr = 0 .. End - 1 /\ b_start = -1
      /\ m \in Mem /\ Ascending(m, F)
      /\ F \subseteq Headers(m) /\ Headers(m) \subseteq Addr
      /\ \A a \in Headers(m) : m.size[a] \in 1 .. End
  BY EndIs DEF Headers, Addr, b_start, Sound, ListOK, Mem
<1>2. F \in SUBSET Headers(m) /\ TooSmall(m, w) \in SUBSET Headers(m)
  BY <1>1 DEF TooSmall
<1>3. p \in F \cup {b_start} /\ y \notin TooSmall(m, w)
      /\ \A f \in F : f <= p => f \in TooSmall(m, w)
  BY <1>1, <1>2, BeforeIs DEF Previous
<1>4. y \in F \cup {End} /\ \A f \in F : f <= p \/ y <= f
  BY <1>1, <1>3 DEF Ascending
<1>5. ASSUME y \in F
      PROVE  w <= m.size[y]
  BY <1>1, <1>3, <1>5 DEF TooSmall
<1>6. ASSUME y = End, NEW f \in F
      PROVE  m.size[f] < w
  <2>1. f <= p
    BY <1>1, <1>4, <1>6
  <2> QED BY <2>1, <1>3 DEF TooSmall
<1> QED BY <1>3, <1>4, <1>5, <1>6

(* Take off the list the block that was found, and split it: the block is   *)
(* large enough, the blocks that were held are untouched.                   *)
LEMMA TakeOK ==
  ASSUME NEW m, NEW F, Sound(m, F), NEW w \in Nat, w > 0, w % Align = 0,
         NEW p, p = Previous(m, w), NEW y, y = m.nxt[p], y \in F,
         NEW M, M = Take(m, w)
  PROVE  /\ M.ready = m.ready
         /\ M.used = [m.used EXCEPT ![y] = TRUE]
         /\ y \in Headers(M) /\ w <= M.size[y]
         /\ \A a \in Headers(m) \ F : a \in Headers(M) /\ M.size[a] = m.size[a]
         /\ Sound(M, Headers(M) \ ((Headers(m) \ F) \cup {y}))
<1>1. /\ End \in Nat /\ Addr = 0 .. End - 1
      /\ m \in Mem /\ ListOK(m, F) /\ Apart(m, F) /\ AlignedIn(m)
      /\ m.bytes = Cardinality(BytesIn(m, F))
      /\ F \subseteq Headers(m) /\ Headers(m) \subseteq Addr
      /\ \A a \in Headers(m) : m.size[a] \in 1 .. End
  BY EndIs DEF Headers, Addr, Sound, ListOK, Mem
<1>2. p \in F \cup {b_start} /\ w <= m.size[y]
  BY PreviousIs
<1>3. PICK m1 : m1 = Unlink(m, p)
  OBVIOUS
<1>4. PICK m2 : m2 = IF m.size[y] - w > 2 * NodeSize
                       THEN os_insertBlockIntoFreeList(Cut(m1, y, w), y + w)
                       ELSE m1
  OBVIOUS
<1>5. M = [m2 EXCEPT !.bytes = m2.bytes - m2.size[y], !.used[y] = TRUE]
  BY <1>3, <1>4 DEF Take, Charged
<1>6. /\ m1 \in Mem
      /\ m1.ready = m.ready /\ m1.used = m.used /\ m1.bytes = m.bytes
      /\ m1.size = m.size
      /\ ListOK(m1, F \ {y})
      /\ BytesIn(m1, F \ {y}) = BytesIn(m, F) \ BytesIn(m, {y})
  <2>1. m \in Mem /\ ListOK(m, F) /\ p \in F \cup {b_start} /\ y \in F
        /\ m.nxt[p] = y /\ m1 = Unlink(m, p)
    BY <1>1, <1>2, <1>3
  <2>2. Unlinked(m, m1, F, y)
    BY ONLY <2>1, UnlinkOK
  <2> QED BY <2>2 DEF Unlinked
<1>7. /\ Headers(m1) = Headers(m) /\ Apart(m1, F \ {y}) /\ AlignedIn(m1)
      /\ y \in Headers(m1) \ (F \ {y})
  BY <1>1, <1>6 DEF Headers, Apart, AlignedIn
<1> DEFINE H == Headers(m) \ F
           G == Headers(m2) \ (H \cup {y})
           Fine == /\ m2 \in Mem
                   /\ m2.ready = m.ready /\ m2.used = m.used /\ m2.bytes = m.bytes
                   /\ y \in Headers(m2) /\ w <= m2.size[y]
                   /\ \A a \in H : a \in Headers(m2) /\ m2.size[a] = m.size[a]
                   /\ ListOK(m2, G) /\ Apart(m2, G) /\ AlignedIn(m2)
                   /\ m2.size[y] \in 1 .. m.size[y]
                   /\ BytesIn(m2, G)
                        = BytesIn(m, F) \ (y .. y + m2.size[y] - 1)
<1>8. y \in Int /\ m.size[y] \in 1 .. End /\ BytesIn(m, {y}) = y .. y + m.size[y] - 1
      /\ y \in Headers(m) /\ BytesIn(m, {y}) \subseteq BytesIn(m, F)
  <2>1. y \in Headers(m) /\ y \in Int /\ m.size[y] \in 1 .. End
    BY <1>1
  <2>2. Tiles(m)
    BY <1>1 DEF ListOK
  <2>3. BytesIn(m, {y}) \subseteq BytesIn(m, F)
    BY DEF BytesIn
  <2> QED BY <2>1, <2>2, <2>3, <1>1, BlockBytes
<1>9. Fine
  <2>1. CASE m.size[y] - w > 2 * NodeSize
    <3>1. NodeSize \in Nat
      BY HeapAssumption
    <3>2. 0 < w /\ w < m1.size[y]
      BY <2>1, <3>1, <1>6, <1>8
    <3>3. PICK c : c = Cut(m1, y, w)
      OBVIOUS
    <3>4. /\ c \in Mem
          /\ c.ready = m1.ready /\ c.used = m1.used /\ c.bytes = m1.bytes
          /\ y + w \in Addr \ Headers(m1)
          /\ Headers(c) = Headers(m1) \cup {y + w}
          /\ c.size[y] = w /\ c.size[y + w] = m1.size[y] - w
          /\ \A a \in Addr \ {y, y + w} : c.size[a] = m1.size[a]
          /\ ListOK(c, F \ {y}) /\ Apart(c, F \ {y})
          /\ BytesIn(c, F \ {y}) = BytesIn(m1, F \ {y})
          /\ AlignedIn(c)
      BY <3>2, <3>3, <1>6, <1>7, CutOK
    <3>5. y + w \in Headers(c) \ (F \ {y}) /\ m2 = os_insertBlockIntoFreeList(c, y + w)
      BY <3>3, <3>4, <2>1, <1>1, <1>4, <1>7
    <3> DEFINE K == Headers(m2) \cap ((F \ {y}) \cup {y + w})
    <3>6. /\ m2 \in Mem
          /\ m2.ready = c.ready /\ m2.used = c.used /\ m2.bytes = c.bytes
          /\ \A a \in Headers(c) \ ((F \ {y}) \cup {y + w}) :
               a \in Headers(m2) /\ m2.size[a] = c.size[a]
          /\ Headers(m2) \subseteq Headers(c)
          /\ ListOK(m2, K) /\ Apart(m2, K)
          /\ BytesIn(m2, K) = BytesIn(c, F \ {y}) \cup BytesIn(c, {y + w})
          /\ AlignedIn(m2)
      <4>1. PICK F1, b1 : F1 = F \ {y} /\ b1 = y + w
        OBVIOUS
      <4>2. c \in Mem /\ ListOK(c, F1) /\ Apart(c, F1) /\ b1 \in Headers(c) \ F1
            /\ m2 = os_insertBlockIntoFreeList(c, b1) /\ AlignedIn(c)
        BY <4>1, <3>4, <3>5
      <4>3. Inserted(c, m2, F1, b1)
        BY ONLY <4>2, InsertOK
      <4> QED BY <4>1, <4>2, <4>3 DEF Inserted
    <3>7. y + w \notin Headers(m) /\ y + w # y
      BY <3>4, <1>7
    <3>8. K = G
      BY <3>4, <3>6, <3>7, <1>7
    <3>9. y \in Headers(m2) /\ m2.size[y] = w
      BY <3>4, <3>6, <3>7, <1>7
    <3>10. \A a \in H : a \in Headers(m2) /\ m2.size[a] = m.size[a]
      <4> SUFFICES ASSUME NEW a \in H
                   PROVE  a \in Headers(m2) /\ m2.size[a] = m.size[a]
        OBVIOUS
      <4>1. a \in Headers(m) /\ a \notin F /\ a # y /\ a # y + w /\ a \in Addr
        BY <3>7, <1>1
      <4>2. a \in Headers(c) \ ((F \ {y}) \cup {y + w})
        BY <4>1, <3>4, <1>7
      <4> QED BY <4>1, <4>2, <3>4, <3>6, <1>6
    <3>11. BytesIn(m2, G) = BytesIn(m, F) \ (y .. y + m2.size[y] - 1)
      <4>1. Tiles(c) /\ y + w \in Headers(c)
        BY <3>4, <3>5 DEF ListOK
      <4>2. BytesIn(c, {y + w}) = y + w .. y + w + (m.size[y] - w) - 1
        BY <4>1, <3>4, <1>6, BlockBytes
      <4>3. BytesIn(m2, G) = (BytesIn(m, F) \ (y .. y + m.size[y] - 1))
                               \cup (y + w .. y + m.size[y] - 1)
        <5>1. y + w + (m.size[y] - w) - 1 = y + m.size[y] - 1
          BY <1>8
        <5> HIDE DEF K, G
        <5> QED BY <5>1, <4>2, <3>4, <3>6, <3>8, <1>6, <1>8
      <4>4. y .. y + m.size[y] - 1 \subseteq BytesIn(m, F)
        BY <1>8
      <4>5. \A z : z \in BytesIn(m, F) => z \in Int
        BY <1>1 DEF BytesIn
      <4> HIDE DEF G
      <4> SUFFICES ASSUME NEW z
                   PROVE  z \in BytesIn(m2, G)
                            <=> z \in BytesIn(m, F) /\ z \notin y .. y + w - 1
        BY <3>9
      <4>6. CASE z \notin BytesIn(m, F)
        <5>1. z \notin y + w .. y + m.size[y] - 1
          <6>1. y + w .. y + m.size[y] - 1 \subseteq y .. y + m.size[y] - 1
            BY <1>8
          <6> QED BY <6>1, <4>4, <4>6
        <5> QED BY <5>1, <4>3, <4>6
      <4>7. CASE z \in BytesIn(m, F)
        <5>1. z \in Int
          BY <4>5, <4>7
        <5>2. (z \notin y .. y + m.size[y] - 1 \/ z \in y + w .. y + m.size[y] - 1)
                <=> z \notin y .. y + w - 1
          BY <5>1, <1>2, <1>8
        <5> QED BY <5>2, <4>3, <4>7
      <4> QED BY <4>6, <4>7
    <3>12. m2.size[y] \in 1 .. m.size[y] /\ w <= m2.size[y]
      BY <3>9, <1>2, <1>8
    <3>13. m2.ready = m.ready /\ m2.used = m.used /\ m2.bytes = m.bytes
      BY <3>4, <3>6, <1>6
    <3> HIDE DEF G, K, H
    <3> QED BY <3>6, <3>8, <3>9, <3>10, <3>11, <3>12, <3>13
  <2>2. CASE ~(m.size[y] - w > 2 * NodeSize)
    <3>1. m2 = m1
      BY <2>2, <1>4
    <3>2. G = F \ {y}
      BY <3>1, <1>1, <1>7
    <3>3. BytesIn(m2, G) = BytesIn(m, F) \ (y .. y + m2.size[y] - 1)
      <4> HIDE DEF G
      <4> QED BY <3>1, <3>2, <1>6, <1>8
    <3>4. \A a \in H : a \in Headers(m2) /\ m2.size[a] = m.size[a]
      BY <3>1, <1>6, <1>7
    <3>5. m2.size[y] = m.size[y] /\ m2.size[y] \in 1 .. m.size[y]
      BY <3>1, <1>6, <1>8
    <3>6. ListOK(m2, G) /\ Apart(m2, G) /\ AlignedIn(m2)
      <4> HIDE DEF G
      <4> QED BY <3>1, <3>2, <1>6, <1>7
    <3>7. m2 \in Mem /\ y \in Headers(m2)
          /\ m2.ready = m.ready /\ m2.used = m.used /\ m2.bytes = m.bytes
      BY <3>1, <1>6, <1>7
    <3> HIDE DEF G, H
    <3> QED BY <3>3, <3>4, <3>5, <3>6, <3>7, <1>2
  <2> QED BY <2>1, <2>2
<1>10. /\ M.ready = m2.ready /\ M.nxt = m2.nxt /\ M.size = m2.size
       /\ M.bytes = m2.bytes - m2.size[y]
       /\ M.used = [m2.used EXCEPT ![y] = TRUE]
  BY <1>5, <1>9 DEF Mem
<1>11. M \in Mem
  <2>1. M.bytes \in Int
    BY <1>8, <1>9, <1>10 DEF Mem
  <2>2. M.used \in [Addr -> BOOLEAN]
    BY <1>9, <1>10 DEF Mem
  <2> QED BY <2>1, <2>2, <1>5, <1>9, <1>10 DEF Mem
<1>12. /\ Headers(M) = Headers(m2)
       /\ ListOK(M, G) /\ Apart(M, G) /\ AlignedIn(M)
       /\ BytesIn(M, G) = BytesIn(m2, G)
  BY <1>9, <1>10, SameList
<1>13. M.bytes = Cardinality(BytesIn(M, G))
  <2> DEFINE S == BytesIn(m, F)
             n == m2.size[y]
  <2>1. n \in Int /\ n > 0 /\ y \in Int /\ n <= m.size[y]
    BY <1>8, <1>9
  <2>2. y .. y + n - 1 \subseteq S
    <3>1. y .. y + n - 1 \subseteq y .. y + m.size[y] - 1
      <4> HIDE DEF n
      <4> QED BY <2>1, <1>8
    <3> QED BY <3>1, <1>8
  <2>3. IsFiniteSet(S)
    BY BytesFinite
  <2> HIDE DEF S, n
  <2>4. Cardinality(S \ (y .. y + n - 1)) = Cardinality(S) - n
    BY <2>1, <2>2, <2>3, BytesLeft
  <2> HIDE DEF G
  <2> QED BY <2>4, <1>1, <1>9, <1>10, <1>12 DEF S, n
<1>14. Sound(M, G)
  BY <1>11, <1>12, <1>13 DEF Sound
<1>15. G = Headers(M) \ ((Headers(m) \ F) \cup {y})
  BY <1>12
<1> QED BY <1>9, <1>10, <1>12, <1>14, <1>15

(* A block that is released joins the list; the others are untouched.       *)
LEMMA ReleaseOK ==
  ASSUME NEW m, NEW F, Sound(m, F), NEW b \in Headers(m) \ F,
         NEW c, c = [m EXCEPT !.bytes = m.bytes + m.size[b]],
         NEW M, M = os_insertBlockIntoFreeList(c, b)
  PROVE  /\ M.ready = m.ready /\ M.used = m.used
         /\ \A a \in Headers(m) \ (F \cup {b}) :
              a \in Headers(M) /\ M.size[a] = m.size[a]
         /\ Headers(M) \subseteq Headers(m)
         /\ Sound(M, Headers(M) \ (Headers(m) \ (F \cup {b})))
<1>1. /\ m \in Mem /\ ListOK(m, F) /\ Apart(m, F) /\ AlignedIn(m)
      /\ m.bytes = Cardinality(BytesIn(m, F))
      /\ F \subseteq Headers(m) /\ b \in Addr /\ m.size[b] \in Int
      /\ m.bytes \in Int
  BY EndIs DEF Sound, ListOK, Mem, Headers
<1>2. /\ c.ready = m.ready /\ c.nxt = m.nxt /\ c.size = m.size
      /\ c.used = m.used /\ c.bytes = m.bytes + m.size[b] /\ c \in Mem
  BY <1>1 DEF Mem
<1>3. /\ Headers(c) = Headers(m)
      /\ ListOK(c, F) /\ Apart(c, F) /\ AlignedIn(c)
      /\ BytesIn(c, F) = BytesIn(m, F) /\ BytesIn(c, {b}) = BytesIn(m, {b})
  BY <1>1, <1>2, SameList
<1> DEFINE K == Headers(M) \cap (F \cup {b})
<1>4. /\ M \in Mem
      /\ M.ready = c.ready /\ M.used = c.used /\ M.bytes = c.bytes
      /\ \A a \in Headers(c) \ (F \cup {b}) : a \in Headers(M) /\ M.size[a] = c.size[a]
      /\ Headers(M) \subseteq Headers(c)
      /\ ListOK(M, K) /\ Apart(M, K)
      /\ BytesIn(M, K) = BytesIn(c, F) \cup BytesIn(c, {b})
      /\ AlignedIn(M)
  <2>1. c \in Mem /\ ListOK(c, F) /\ Apart(c, F) /\ b \in Headers(c) \ F
        /\ M = os_insertBlockIntoFreeList(c, b) /\ AlignedIn(c)
    BY <1>2, <1>3
  <2>2. Inserted(c, M, F, b)
    BY ONLY <2>1, InsertOK
  <2> QED BY <2>1, <2>2 DEF Inserted
<1>5. Cardinality(BytesIn(m, F) \cup BytesIn(m, {b})) = Cardinality(BytesIn(m, F)) + m.size[b]
  <2>1. Tiles(m)
    BY <1>1 DEF ListOK
  <2> QED BY <2>1, <1>1, BytesAdded
<1>6. M.bytes = Cardinality(BytesIn(M, K))
  <2> HIDE DEF K
  <2> QED BY <1>1, <1>2, <1>3, <1>4, <1>5
<1>7. K = Headers(M) \ (Headers(m) \ (F \cup {b}))
  BY <1>3, <1>4
<1>8. Sound(M, K)
  BY <1>4, <1>6 DEF Sound
<1> QED BY <1>2, <1>3, <1>4, <1>7, <1>8

-----------------------------------------------------------------------------
(* The heap that a suspended section works on.                              *)
LEMMA PreparedIs ==
  ASSUME HeapInv, NEW m, m = Prepared
  PROVE  /\ m.ready
         /\ Held \subseteq Headers(m)
         /\ Sound(m, Headers(m) \ Held)
         /\ \A a \in owned : m.used[a]
         /\ Held # {} => m = mem
<1>1. CASE mem.ready
  <2>1. m = mem
    BY <1>1 DEF Prepared
  <2> QED BY <2>1, <1>1 DEF HeapInv, TypeOK, HeldOnce, BytesExact, Aligned, Free, Sound
<1>2. CASE ~mem.ready
  <2>1. m = os_memInit /\ Held = {} /\ owned = {}
    BY <1>2 DEF Prepared, HeapInv, Held
  <2> QED BY <2>1, MemInitOK
<1> QED BY <1>1, <1>2

(* Before the first os_malloc the invariant holds with no heap at all.     *)
LEMMA InitHolds == Init => HeapInv
<1> SUFFICES ASSUME Init PROVE HeapInv
  OBVIOUS
<1>1. /\ End \in Nat /\ End > 0 /\ Addr = 0 .. End - 1
      /\ mem.size = [a \in Addr |-> 0] /\ ~mem.ready /\ mem.bytes = 0
  BY EndIs DEF Addr, Init
<1>2. mem \in Mem
  BY <1>1 DEF Init, Mem
<1>3. Headers(mem) = {}
  BY <1>1 DEF Headers
<1>4. Held = {} /\ Free = {}
  BY <1>3 DEF Init, Held, Free
<1>5. TypeOK /\ HeldOnce
  BY <1>2 DEF Init, TypeOK, HeldOnce
<1>6. BytesIn(mem, {}) = {}
  BY DEF BytesIn
<1>7. BytesExact
  <2>1. Cardinality({}) = 0
    BY FS_EmptySet
  <2> QED BY <2>1, <1>1, <1>4, <1>6 DEF BytesExact
<1> QED BY <1>1, <1>3, <1>4, <1>5, <1>7 DEF HeapInv, Apart, Aligned, AlignedIn

(* What a call of os_malloc that gets memory does.                          *)
LEMMA GrantIs ==
  ASSUME HeapInv, NEW t \in Task, Grant(t)
  PROVE  \E y \in Addr \ Held :
           /\ y \in Headers(mem')
           /\ asks[t] \in Requests /\ asks[t] > 0
           /\ asks[t] + NodeSize <= mem'.size[y]
           /\ mem'.ready
           /\ mem'.used[y] /\ \A a \in owned : mem'.used[a]
           /\ \A a \in Held : a \in Headers(mem') /\ mem'.size[a] = mem.size[a]
           /\ Sound(mem', Headers(mem') \ (Held \cup {y}))
           /\ owned' = owned \cup {y}
<1>1. PICK m, w, p, y, M :
        /\ m = Prepared /\ w = WantedSize(asks[t])
        /\ p = Previous(m, w) /\ y = m.nxt[p] /\ M = Take(m, w)
  OBVIOUS
<1>2. /\ m.ready /\ Held \subseteq Headers(m) /\ Sound(m, Headers(m) \ Held)
      /\ \A a \in owned : m.used[a]
      /\ Held # {} => m = mem
  BY <1>1, PreparedIs
<1>3. PICK F : F = Headers(m) \ Held
  OBVIOUS
<1>4. asks[t] \in Requests
  BY DEF Grant, HeapInv, TypeOK
<1>5. w > 0 /\ y # End /\ mem' = M /\ owned' = owned \cup {y}
  BY <1>1 DEF Grant, HasRoom
<1>6. w \in Nat /\ asks[t] > 0 /\ asks[t] + NodeSize <= w /\ w % Align = 0
  BY <1>1, <1>4, <1>5, WantedIs
<1>7. y \in F
  <2>1. Sound(m, F) /\ w \in Nat /\ p = Previous(m, w) /\ y = m.nxt[p]
    BY <1>1, <1>2, <1>3, <1>6
  <2>2. y \in F \cup {End}
    BY ONLY <2>1, PreviousIs
  <2> QED BY <2>2, <1>5
<1>8. /\ M.ready = m.ready
      /\ M.used = [m.used EXCEPT ![y] = TRUE]
      /\ y \in Headers(M) /\ w <= M.size[y]
      /\ \A a \in Headers(m) \ F : a \in Headers(M) /\ M.size[a] = m.size[a]
      /\ Sound(M, Headers(M) \ ((Headers(m) \ F) \cup {y}))
  <2>1. /\ Sound(m, F) /\ w \in Nat /\ w > 0 /\ w % Align = 0
        /\ p = Previous(m, w) /\ y = m.nxt[p] /\ y \in F /\ M = Take(m, w)
    BY <1>1, <1>2, <1>3, <1>5, <1>6, <1>7
  <2> QED BY ONLY <2>1, TakeOK
<1>9. Headers(m) \ F = Held /\ y \in Addr \ Held
  BY <1>2, <1>3, <1>7 DEF Headers
<1>10. asks[t] + NodeSize <= M.size[y]
  <2>1. /\ asks[t] \in Int /\ NodeSize \in Int /\ w \in Int
        /\ M.size[y] \in Int
    <3>1. asks[t] \in Int /\ NodeSize \in Int
      <4>1. Requests \subseteq 0 .. 2 * AllocatedBit - 1 /\ AllocatedBit \in Nat
            /\ NodeSize \in Nat
        BY HeapAssumption
      <4>2. \A n \in 0 .. 2 * AllocatedBit - 1 : n \in Int
        BY <4>1
      <4>3. asks[t] \in 0 .. 2 * AllocatedBit - 1
        BY <4>1, <1>4, Zenon
      <4> QED BY <4>1, <4>2, <4>3
    <3>2. M \in Mem /\ y \in Addr
      BY <1>8, <1>9 DEF Sound
    <3>3. M.size[y] \in 0 .. End
      BY <3>2 DEF Mem
    <3> QED BY <3>1, <3>3, <1>6, EndIs
  <2> QED BY <2>1, <1>6, <1>8
<1>11. \A a \in owned \cup {y} : M.used[a]
  <2>1. m.used \in [Addr -> BOOLEAN] /\ owned \subseteq Addr /\ y \in Addr
    BY <1>2, <1>9 DEF Sound, Mem, HeapInv, TypeOK
  <2> SUFFICES ASSUME NEW a \in owned \cup {y} PROVE M.used[a]
    OBVIOUS
  <2>2. CASE a = y
    <3>1. M.used[y] = TRUE
      BY <2>1, <1>8
    <3> QED BY <3>1, <2>2
  <2>3. CASE a # y
    <3>1. M.used[a] = m.used[a] /\ a \in owned
      BY <2>1, <2>3, <1>8
    <3> QED BY <3>1, <1>2
  <2> QED BY <2>2, <2>3
<1>12. \A a \in Held : a \in Headers(M) /\ M.size[a] = mem.size[a]
  BY <1>2, <1>8, <1>9
<1>13. Sound(M, Headers(M) \ (Held \cup {y}))
  BY <1>8, <1>9
<1> QED BY <1>2, <1>4, <1>5, <1>6, <1>8, <1>9, <1>10, <1>11, <1>12, <1>13

(* What the end of os_free does.                                            *)
LEMMA InsertStepIs ==
  ASSUME HeapInv, NEW t \in Task, Insert(t)
  PROVE  /\ frees[t] \in Held
         /\ Held' = Held \ {frees[t]}
         /\ mem'.ready /\ mem'.used = mem.used
         /\ \A a \in Held \ {frees[t]} :
              a \in Headers(mem') /\ mem'.size[a] = mem.size[a]
         /\ Sound(mem', Headers(mem') \ (Held \ {frees[t]}))
<1>1. PICK b, F, c : /\ b = frees[t] /\ F = Free
                     /\ c = [mem EXCEPT !.bytes = mem.bytes + mem.size[b]]
  OBVIOUS
<1>2. b # NULL /\ mem' = os_insertBlockIntoFreeList(c, b)
  BY <1>1 DEF Insert
<1>3. b \in Held
  BY <1>1, <1>2 DEF Held
<1>4. /\ Held \subseteq Headers(mem) /\ mem.ready /\ Sound(mem, F)
      /\ F = Headers(mem) \ Held
  <2>1. Held \subseteq Headers(mem) /\ mem.ready
    BY <1>3 DEF HeapInv
  <2> QED BY <2>1, <1>1 DEF HeapInv, TypeOK, BytesExact, Aligned, Free, Sound
<1>5. Held' = Held \ {b}
  <2>1. /\ owned' = owned /\ lost' = lost /\ frees' = [frees EXCEPT ![t] = NULL]
        /\ frees \in [Task -> Addr \cup {NULL}]
        /\ b \notin owned /\ b \notin lost
        /\ \A u \in Task : frees[u] = b => u = t
    BY <1>1, <1>2 DEF Insert, HeapInv, TypeOK, HeldOnce
  <2>2. \A x : (x \in {frees'[u] : u \in Task} /\ x # NULL)
                 <=> (x \in {frees[u] : u \in Task} /\ x # NULL /\ x # b)
    BY <2>1, <1>1
  <2> QED BY <2>1, <2>2, <1>2 DEF Held
<1>6. /\ mem'.ready = mem.ready /\ mem'.used = mem.used
      /\ \A a \in Headers(mem) \ (F \cup {b}) :
           a \in Headers(mem') /\ mem'.size[a] = mem.size[a]
      /\ Sound(mem', Headers(mem') \ (Headers(mem) \ (F \cup {b})))
  <2>1. PICK m, M : m = mem /\ M = mem'
    OBVIOUS
  <2>2. /\ Sound(m, F) /\ b \in Headers(m) \ F
        /\ c = [m EXCEPT !.bytes = m.bytes + m.size[b]]
        /\ M = os_insertBlockIntoFreeList(c, b)
    BY <2>1, <1>1, <1>2, <1>3, <1>4
  <2>3. /\ M.ready = m.ready /\ M.used = m.used
        /\ \A a \in Headers(m) \ (F \cup {b}) :
             a \in Headers(M) /\ M.size[a] = m.size[a]
        /\ Sound(M, Headers(M) \ (Headers(m) \ (F \cup {b})))
    BY ONLY <2>2, ReleaseOK
  <2> QED BY <2>1, <2>3
<1>7. Headers(mem) \ (F \cup {b}) = Held \ {b}
  BY <1>3, <1>4
<1> QED BY <1>1, <1>3, <1>4, <1>5, <1>6, <1>7

(* What the start of os_free does to a block that os_malloc has granted.    *)
LEMMA UnmarkIs ==
  ASSUME HeapInv, NEW t \in Task, Unmark(t)
  PROVE  /\ mem.ready /\ Held' = Held
         /\ mem'.size = mem.size /\ mem'.nxt = mem.nxt
         /\ mem'.ready = mem.ready /\ mem'.bytes = mem.bytes
         /\ TypeOK' /\ HeldOnce'
<1>1. PICK a \in owned :
        /\ Idle(t) /\ owned' = owned \ {a}
        /\ IF mem.used[a] /\ mem.nxt[a] = NULL
             THEN /\ mem' = [mem EXCEPT !.used[a] = FALSE]
                  /\ frees' = [frees EXCEPT ![t] = a]
             ELSE UNCHANGED <<mem, frees>>
        /\ UNCHANGED <<asks, lost>>
  BY DEF Unmark
<1>2. /\ a \in Held /\ a \in Headers(mem) /\ a \in Addr /\ mem.ready /\ a \notin Free
      /\ mem \in Mem
  BY <1>1 DEF Held, HeapInv, TypeOK, Free
<1>3. mem.used[a] /\ mem.nxt[a] = NULL
  BY <1>1, <1>2 DEF HeapInv, HeldOnce, ListOK, Clean
<1>4. mem' = [mem EXCEPT !.used[a] = FALSE] /\ frees' = [frees EXCEPT ![t] = a]
  BY <1>1, <1>3
<1>5. /\ mem'.size = mem.size /\ mem'.nxt = mem.nxt
      /\ mem'.ready = mem.ready /\ mem'.bytes = mem.bytes
      /\ mem'.used = [mem.used EXCEPT ![a] = FALSE]
  BY <1>2, <1>4 DEF Mem
<1>6. mem' \in Mem
  <2>1. mem'.used \in [Addr -> BOOLEAN]
    BY <1>2, <1>5 DEF Mem
  <2> QED BY <2>1, <1>2, <1>4, <1>5 DEF Mem
<1>7. /\ frees \in [Task -> Addr \cup {NULL}] /\ frees[t] = NULL
      /\ owned \subseteq Addr /\ lost \subseteq Addr /\ lost' = lost /\ asks' = asks
      /\ a \in owned /\ a # NULL /\ owned' = owned \ {a}
      /\ owned \cap lost = {}
      /\ \A u \in Task : frees[u] \notin owned \cup lost
      /\ \A u, v \in Task : frees[u] = frees[v] /\ frees[u] # NULL => u = v
      /\ \A x \in owned : mem.used[x]
  <2>1. a # NULL
    BY <1>2, EndIs DEF Addr, NULL
  <2> QED BY <2>1, <1>1 DEF HeapInv, TypeOK, HeldOnce, Idle
<1>8. TypeOK'
  BY <1>2, <1>4, <1>6, <1>7 DEF HeapInv, TypeOK
<1>9. \A u \in Task : frees'[u] = IF u = t THEN a ELSE frees[u]
  BY <1>4, <1>7
<1>10. Held' = Held
  <2>1. \A x : (x \in {frees'[u] : u \in Task} /\ x # NULL)
                 <=> ((x \in {frees[u] : u \in Task} /\ x # NULL) \/ x = a)
    BY <1>7, <1>9
  <2> QED BY <2>1, <1>7 DEF Held
<1>11. HeldOnce'
  <2>1. \A x \in owned' : mem'.used[x]
    <3> SUFFICES ASSUME NEW x \in owned' PROVE mem'.used[x]
      OBVIOUS
    <3>1. x # a /\ x \in owned /\ x \in Addr
      BY <1>7
    <3>2. mem'.used[x] = mem.used[x]
      BY <3>1, <1>2, <1>5 DEF Mem
    <3> QED BY <3>1, <3>2, <1>7
  <2>2. \A u \in Task : frees'[u] \notin owned' \cup lost'
    BY <1>7, <1>9
  <2>3. \A u, v \in Task : frees'[u] = frees'[v] /\ frees'[u] # NULL => u = v
    BY <1>7, <1>9
  <2>4. owned' \cap lost' = {}
    BY <1>7
  <2> QED BY <2>1, <2>2, <2>3, <2>4 DEF HeldOnce
<1> QED BY <1>2, <1>5, <1>8, <1>10, <1>11

(* A deleted caller leaves its block to nobody.                             *)
LEMMA KilledIs ==
  ASSUME HeapInv, NEW t \in Task, Killed(t)
  PROVE  Held' = Held /\ mem' = mem /\ TypeOK' /\ HeldOnce'
<1>1. /\ frees \in [Task -> Addr \cup {NULL}] /\ lost \subseteq Addr
      /\ mem' = mem /\ owned' = owned
      /\ asks' = [asks EXCEPT ![t] = NULL]
      /\ frees' = [frees EXCEPT ![t] = NULL]
      /\ lost' = lost \cup ({frees[t]} \ {NULL})
      /\ owned \cap lost = {}
      /\ \A u \in Task : frees[u] \notin owned \cup lost
      /\ \A u, v \in Task : frees[u] = frees[v] /\ frees[u] # NULL => u = v
      /\ \A x \in owned : mem.used[x]
  BY DEF HeapInv, TypeOK, HeldOnce, Killed
<1>2. \A u \in Task : frees'[u] = IF u = t THEN NULL ELSE frees[u]
  BY <1>1
<1>3. NULL \notin owned
  BY EndIs DEF HeapInv, TypeOK, Addr, NULL
<1>4. NULL \notin lost
  BY EndIs DEF HeapInv, TypeOK, Addr, NULL
<1>5. TypeOK'
  BY <1>1 DEF HeapInv, TypeOK
<1>6. Held' = Held
  <2>1. \A x : (x \in {frees'[u] : u \in Task} /\ x # NULL)
                 <=> (x \in {frees[u] : u \in Task} /\ x # NULL /\ x # frees[t])
    BY <1>1, <1>2
  <2> QED BY <2>1, <1>1 DEF Held
<1>7. HeldOnce'
  <2>1. \A u \in Task : frees'[u] \notin owned' \cup lost'
    BY <1>1, <1>2, <1>3, <1>4
  <2>2. \A u, v \in Task : frees'[u] = frees'[v] /\ frees'[u] # NULL => u = v
    BY <1>1, <1>2
  <2> QED BY <2>1, <2>2, <1>1 DEF HeldOnce
<1> QED BY <1>1, <1>5, <1>6, <1>7

(* Each action keeps the inductive invariant.                               *)
LEMMA StepHolds == HeapInv /\ [Next]_vars => HeapInv'
<1> SUFFICES ASSUME HeapInv, [Next]_vars PROVE HeapInv'
  OBVIOUS
  (* A heap that is in use is sound. *)
<1>1. ASSUME TypeOK', HeldOnce', (Held \subseteq Headers(mem))', mem'.ready,
             Sound(mem', Headers(mem') \ Held')
      PROVE  HeapInv'
  BY <1>1 DEF HeapInv, Sound, Free, BytesExact, Aligned
<1>2. ASSUME NEW t \in Task, Ask(t)
      PROVE  HeapInv'
  <2>1. /\ mem' = mem /\ frees' = frees /\ owned' = owned /\ lost' = lost
        /\ asks' \in [Task -> Requests \cup {NULL, REFUSED}]
    BY <1>2 DEF Ask, HeapInv, TypeOK
  <2>2. Held' = Held /\ Free' = Free
    BY <2>1 DEF Held, Free
  <2> QED BY <2>1, <2>2 DEF HeapInv, TypeOK, HeldOnce, BytesExact, Aligned
<1>3. ASSUME NEW t \in Task, Grant(t)
      PROVE  HeapInv'
  <2>1. PICK y \in Addr \ Held :
           /\ y \in Headers(mem')
           /\ mem'.ready
           /\ mem'.used[y] /\ \A a \in owned : mem'.used[a]
           /\ \A a \in Held : a \in Headers(mem') /\ mem'.size[a] = mem.size[a]
           /\ Sound(mem', Headers(mem') \ (Held \cup {y}))
           /\ owned' = owned \cup {y}
    BY <1>3, GrantIs
  <2>2. frees' = frees /\ lost' = lost /\ asks' = [asks EXCEPT ![t] = NULL]
    BY <1>3 DEF Grant
  <2>3. Held' = Held \cup {y}
    BY <2>1, <2>2 DEF Held
  <2>4. TypeOK'
    BY <2>1, <2>2 DEF HeapInv, TypeOK, Sound
  <2>5. HeldOnce'
    <3>1. y # NULL
      BY EndIs DEF Addr, NULL
    <3>2. y \notin lost /\ \A u \in Task : frees[u] # y
      BY <2>1, <3>1 DEF Held
    <3> QED BY <2>1, <2>2, <3>2 DEF HeapInv, HeldOnce
  <2>6. Sound(mem', Headers(mem') \ Held') /\ (Held \subseteq Headers(mem))'
    BY <2>1, <2>3
  <2> QED BY <1>1, <2>1, <2>4, <2>5, <2>6
<1>4. ASSUME NEW t \in Task, Refuse(t)
      PROVE  HeapInv'
  <2>1. /\ mem' = Prepared /\ frees' = frees /\ owned' = owned /\ lost' = lost
        /\ asks' = [asks EXCEPT ![t] = REFUSED]
    BY <1>4 DEF Refuse
  <2>2. Held' = Held
    BY <2>1 DEF Held
  <2>3. /\ mem'.ready /\ Held \subseteq Headers(mem')
        /\ Sound(mem', Headers(mem') \ Held)
        /\ \A a \in owned : mem'.used[a]
    BY <2>1, PreparedIs
  <2>4. TypeOK' /\ HeldOnce'
    BY <2>1, <2>3 DEF HeapInv, TypeOK, HeldOnce, Sound
  <2> QED BY <1>1, <2>2, <2>3, <2>4
<1>5. ASSUME NEW t \in Task, Unmark(t)
      PROVE  HeapInv'
  <2>1. /\ mem.ready /\ Held' = Held
        /\ mem'.size = mem.size /\ mem'.nxt = mem.nxt
        /\ mem'.ready = mem.ready /\ mem'.bytes = mem.bytes
        /\ TypeOK' /\ HeldOnce'
    BY <1>5, UnmarkIs
  <2>2. /\ Headers(mem') = Headers(mem)
        /\ ListOK(mem, Free) => ListOK(mem', Free)
        /\ Apart(mem, Free) => Apart(mem', Free)
        /\ BytesIn(mem', Free) = BytesIn(mem, Free)
        /\ AlignedIn(mem) => AlignedIn(mem')
    BY <2>1, SameList
  <2>3. Free' = Free
    BY <2>1, <2>2 DEF Free
  <2> QED BY <2>1, <2>2, <2>3 DEF HeapInv, BytesExact, Aligned
<1>6. ASSUME NEW t \in Task, Insert(t)
      PROVE  HeapInv'
  <2>1. /\ frees[t] \in Held
        /\ Held' = Held \ {frees[t]}
        /\ mem'.ready /\ mem'.used = mem.used
        /\ \A a \in Held \ {frees[t]} :
             a \in Headers(mem') /\ mem'.size[a] = mem.size[a]
        /\ Sound(mem', Headers(mem') \ (Held \ {frees[t]}))
    BY <1>6, InsertStepIs
  <2>2. /\ asks' = asks /\ owned' = owned /\ lost' = lost
        /\ frees' = [frees EXCEPT ![t] = NULL]
    BY <1>6 DEF Insert
  <2>3. TypeOK'
    BY <2>1, <2>2 DEF HeapInv, TypeOK, Sound
  <2>4. HeldOnce'
    <3>1. \A u \in Task : frees'[u] = IF u = t THEN NULL ELSE frees[u]
      BY <2>2 DEF HeapInv, TypeOK
    <3>2. NULL \notin owned \cup lost
      BY EndIs DEF HeapInv, TypeOK, Addr, NULL
    <3> QED BY <2>1, <2>2, <3>1, <3>2 DEF HeapInv, HeldOnce
  <2>5. Sound(mem', Headers(mem') \ Held') /\ (Held \subseteq Headers(mem))'
    BY <2>1
  <2> QED BY <1>1, <2>1, <2>3, <2>4, <2>5
<1>7. ASSUME NEW t \in Task, Killed(t)
      PROVE  HeapInv'
  <2>1. Held' = Held /\ mem' = mem /\ TypeOK' /\ HeldOnce'
    BY <1>7, KilledIs
  <2>2. Free' = Free
    BY <2>1 DEF Free
  <2> QED BY <2>1, <2>2 DEF HeapInv, BytesExact, Aligned
<1>8. ASSUME UNCHANGED vars
      PROVE  HeapInv'
  <2>1. /\ mem' = mem /\ frees' = frees /\ owned' = owned /\ lost' = lost
        /\ asks' = asks
    BY <1>8 DEF vars
  <2>2. Held' = Held /\ Free' = Free
    BY <2>1 DEF Held, Free
  <2> QED BY <2>1, <2>2 DEF HeapInv, TypeOK, HeldOnce, BytesExact, Aligned
<1> QED BY <1>2, <1>3, <1>4, <1>5, <1>6, <1>7, <1>8 DEF Next

(***************************************************************************)
(* The inductive invariant holds in every state (mem.c:34-241): whatever     *)
(* the tasks allocate and release, in any order and interrupted anywhere.   *)
(***************************************************************************)
THEOREM HeapAlwaysSound == Spec => []HeapInv
<1>1. Init => HeapInv
  BY InitHolds
<1>2. HeapInv /\ [Next]_vars => HeapInv'
  BY StepHolds
<1> QED BY <1>1, <1>2, PTL DEF Spec

(* Every variable keeps its type, block sizes and addresses in particular   *)
(* stay within os_mem (mem.c:20-29).                                        *)
THEOREM HeapTypeCorrect == Spec => []TypeOK
<1>1. HeapInv => TypeOK
  BY DEF HeapInv
<1> QED BY <1>1, HeapAlwaysSound, PTL

(* The blocks tile the heap: none is lost, none lies in another             *)
(* (mem.c:84-96, 205-229).                                                  *)
THEOREM AlwaysTiled == Spec => []BlocksTile
<1>1. HeapInv => BlocksTile
  BY DEF HeapInv, BlocksTile, ListOK
<1> QED BY <1>1, HeapAlwaysSound, PTL

(* The free list links exactly the blocks nobody holds, by address          *)
(* (mem.c:66-82, 200-239).                                                  *)
THEOREM FreeListAlwaysExact == Spec => []FreeListExact
<1>1. HeapInv => FreeListExact
  BY DEF HeapInv, FreeListExact, ListOK
<1> QED BY <1>1, HeapAlwaysSound, PTL

(* No two free blocks touch, so that a hole is one block (mem.c:205-229).    *)
THEOREM AlwaysCoalesced == Spec => []Coalesced
<1>1. HeapInv => Coalesced
  BY DEF HeapInv, Coalesced
<1> QED BY <1>1, HeapAlwaysSound, PTL

(* b_FreeBytesRemaining is the number of bytes in free blocks               *)
(* (mem.c:62, 99, 140).                                                     *)
THEOREM BytesAlwaysExact == Spec => []BytesExact
<1>1. HeapInv => BytesExact
  BY DEF HeapInv
<1> QED BY <1>1, HeapAlwaysSound, PTL

(* Blocks begin at multiples of configALIGNMENT (mem.c:55-59, 160-176).     *)
THEOREM AlwaysAligned == Spec => []Aligned
<1>1. HeapInv => Aligned
  BY DEF HeapInv
<1> QED BY <1>1, HeapAlwaysSound, PTL

-----------------------------------------------------------------------------
(* Every byte of a tiled heap lies in a block.                              *)
LEMMA Covered ==
  ASSUME NEW m \in Mem, Tiles(m), NEW x \in Addr
  PROVE  \E h \in Headers(m) : h <= x /\ x < h + m.size[h]
<1> DEFINE V == {h \in Headers(m) : h <= x}
           f == [h \in V |-> h + m.size[h]]
<1> SUFFICES ASSUME \A h \in Headers(m) : ~(h <= x /\ x < h + m.size[h])
             PROVE  FALSE
  OBVIOUS
<1>1. /\ End \in Nat /\ Addr = 0 .. End - 1 /\ Headers(m) \subseteq Addr
      /\ \A a \in Headers(m) : m.size[a] \in 1 .. End
      /\ 0 \in Headers(m)
      /\ \A a \in Headers(m) : a + m.size[a] \in Headers(m) \cup {End}
      /\ \A a, b \in Headers(m) : a < b => a + m.size[a] <= b
  BY EndIs DEF Headers, Addr, Mem, Tiles
<1>2. \A h \in V : h + m.size[h] \in V \ {0}
  <2> SUFFICES ASSUME NEW h \in V PROVE h + m.size[h] \in V \ {0}
    OBVIOUS
  <2>1. h \in Int /\ h >= 0 /\ m.size[h] \in 1 .. End /\ x \in Int /\ x < End
    BY <1>1
  <2>2. h + m.size[h] <= x
    BY <2>1
  <2>3. h + m.size[h] \in Headers(m)
    BY <2>1, <2>2, <1>1
  <2> QED BY <2>1, <2>2, <2>3
<1>3. f \in [V -> V \ {0}]
  BY <1>2
<1>4. IsFiniteSet(V) /\ 0 \in V
  <2>1. 0 \in Int /\ End - 1 \in Int
    BY <1>1
  <2>2. IsFiniteSet(Addr)
    BY ONLY <2>1, FS_Interval DEF Addr
  <2>3. V \subseteq Addr
    BY <1>1
  <2> QED BY <2>2, <2>3, FS_Subset, <1>1
<1> HIDE DEF V, f
<1>5. /\ IsFiniteSet(V \ {0}) /\ Cardinality(V \ {0}) = Cardinality(V) - 1
      /\ Cardinality(V) \in Nat
  BY <1>4, FS_RemoveElement, FS_CardinalityType
<1>6. Cardinality(V \ {0}) < Cardinality(V)
  BY <1>5
<1>7. PICK g, h \in V : g # h /\ f[g] = f[h]
  BY <1>3, <1>4, <1>5, <1>6, FS_PigeonHole
<1>8. g \in Headers(m) /\ h \in Headers(m) /\ g + m.size[g] = h + m.size[h]
  BY <1>7 DEF V, f
<1>9. g \in Int /\ h \in Int /\ m.size[g] \in 1 .. End /\ m.size[h] \in 1 .. End
  BY <1>1, <1>8
<1> QED BY <1>1, <1>7, <1>8, <1>9

(* Room that overlaps no held block lies in one free block, and first fit   *)
(* finds a block at least as good.                                          *)
LEMMA RoomIsFound ==
  ASSUME NEW m, NEW F, Sound(m, F),
         NEW n \in Requests, n > 0,
         NEW x \in Int, 0 <= x, NEW len \in Int, x + len <= End,
         n + NodeSize <= len,
         \A a \in Headers(m) \ F : x + len <= a \/ a + m.size[a] <= x
  PROVE  HasRoom(m, WantedSize(n))
<1>1. /\ End \in Nat /\ Addr = 0 .. End - 1 /\ Headers(m) \subseteq Addr
      /\ m \in Mem /\ ListOK(m, F) /\ Tiles(m) /\ F \subseteq Headers(m)
      /\ \A a \in Headers(m) : m.size[a] \in 1 .. End
      /\ m.bytes = Cardinality(BytesIn(m, F))
      /\ \A f \in F : f + m.size[f] \notin F
      /\ \A a \in Headers(m) : m.size[a] % Align = 0
  BY EndIs DEF Headers, Addr, Mem, Sound, ListOK, Apart, AlignedIn
<1>2. NodeSize \in Nat /\ AllocatedBit \in Nat /\ End < AllocatedBit /\ n \in Int
      /\ len > 0
  <2>1. /\ NodeSize \in Nat /\ AllocatedBit \in Nat /\ HeapBytes \in Nat
        /\ Align \in Nat \ {0} /\ HeapBytes + Align <= AllocatedBit
        /\ Requests \subseteq 0 .. 2 * AllocatedBit - 1
    BY HeapAssumption
  <2>2. n \in 0 .. 2 * AllocatedBit - 1
    BY <2>1
  <2>3. n \in Int
    BY <2>1, <2>2
  <2> QED BY <2>1, <2>3, EndIs
<1>3. x \in Addr
  BY <1>1, <1>2
<1>4. PICK h \in Headers(m) : h <= x /\ x < h + m.size[h]
  BY <1>1, <1>3, Covered
<1>5. h \in Int /\ m.size[h] \in 1 .. End
  BY <1>1
<1>6. h \in F
  BY <1>2, <1>4, <1>5
<1>7. x + len <= h + m.size[h]
  <2> SUFFICES ASSUME h + m.size[h] < x + len PROVE FALSE
    BY <1>5
  <2> DEFINE e == h + m.size[h]
  <2>1. e \in Headers(m) \cup {End}
    BY <1>1 DEF Tiles
  <2>2. e \in Int /\ e < End /\ x < e
    BY <1>1, <1>4, <1>5
  <2>3. e \in Headers(m) /\ e \notin F
    BY <2>1, <2>2, <1>1, <1>6
  <2>4. x + len <= e \/ e + m.size[e] <= x
    BY <2>3
  <2>5. m.size[e] \in 1 .. End
    BY <2>3, <1>1
  <2> HIDE DEF e
  <2>6. e < x + len
    BY DEF e
  <2> QED BY <2>2, <2>4, <2>5, <2>6
<1>8. PICK s : s = m.size[h]
  OBVIOUS
<1>9. s \in Nat /\ n + NodeSize <= s /\ s < AllocatedBit /\ s % Align = 0
  <2>1. s \in Nat /\ s <= End /\ s % Align = 0
    BY <1>1, <1>5, <1>8
  <2>2. len <= s
    BY <1>4, <1>5, <1>7, <1>8
  <2> QED BY <2>1, <2>2, <1>1, <1>2
<1>10. PICK w : w = WantedSize(n)
  OBVIOUS
<1>11. w \in Nat /\ w > 0 /\ w <= s
  BY <1>9, <1>10, WantedIs
<1>12. s <= m.bytes
  <2>1. BytesIn(m, {h}) \subseteq BytesIn(m, F)
    BY <1>6 DEF BytesIn
  <2>2. IsFiniteSet(BytesIn(m, F)) /\ Cardinality(BytesIn(m, {h})) = s
    BY <1>1, <1>8, BytesFinite, BlockBytes
  <2> QED BY <2>1, <2>2, <1>1, FS_Subset
<1>13. m.nxt[Previous(m, w)] # End
  <2> SUFFICES ASSUME m.nxt[Previous(m, w)] = End PROVE FALSE
    OBVIOUS
  <2>1. PICK p, y : p = Previous(m, w) /\ y = m.nxt[p]
    OBVIOUS
  <2>2. Sound(m, F) /\ w \in Nat /\ p = Previous(m, w) /\ y = m.nxt[p] /\ y = End
    BY <2>1, <1>11
  <2>3. \A f \in F : m.size[f] < w
    BY ONLY <2>2, PreviousIs
  <2> QED BY <2>3, <1>6, <1>8, <1>9, <1>11
<1>14. m.bytes \in Int
  BY <1>1 DEF Mem
<1> QED BY <1>9, <1>10, <1>11, <1>12, <1>13, <1>14 DEF HasRoom

(* The regions that are given out, as the abstract specification has them.  *)
Given == {[at |-> a, len |-> mem.size[a]] : a \in Held}

(* Blocks that are given out are regions of the heap, apart from each other. *)
LEMMA Regions ==
  ASSUME NEW m \in Mem, Tiles(m), NEW a \in Headers(m)
  PROVE  /\ [at |-> a, len |-> m.size[a]] \in Promise!Region
         /\ a \in Int /\ m.size[a] \in Int /\ a + m.size[a] <= End
         /\ \A b \in Headers(m) \ {a} :
              a + m.size[a] <= b \/ b + m.size[b] <= a
<1>1. /\ End \in Nat /\ Addr = 0 .. End - 1 /\ Headers(m) \subseteq Addr
      /\ \A b \in Headers(m) : m.size[b] \in 1 .. End
      /\ \A b \in Headers(m) : b + m.size[b] \in Headers(m) \cup {End}
      /\ \A b, c \in Headers(m) : b < c => b + m.size[b] <= c
  BY EndIs DEF Headers, Addr, Mem, Tiles
<1>2. a \in 0 .. End /\ m.size[a] \in 0 .. End
  BY <1>1
<1>3. a + m.size[a] <= End
  <2>1. a + m.size[a] \in Headers(m) \cup {End}
    BY <1>1
  <2> QED BY <2>1, <1>1
<1>4. \A b \in Headers(m) \ {a} : a + m.size[a] <= b \/ b + m.size[b] <= a
  BY <1>1
<1>5. [at |-> a, len |-> m.size[a]] \in Promise!Region
  BY <1>2 DEF Promise!Region
<1> QED BY <1>1, <1>2, <1>3, <1>4, <1>5

(* Nothing is given out at first.                                          *)
LEMMA InitRefines == Init => Promise!Init
BY DEF Init, Promise!Init, Held

(* A granted block is room that nobody holds.                              *)
LEMMA GrantRefines ==
  ASSUME HeapInv, NEW t \in Task, Grant(t)
  PROVE  Promise!Grant(t)
<1>1. PICK y \in Addr \ Held :
           /\ y \in Headers(mem')
           /\ asks[t] \in Requests /\ asks[t] > 0
           /\ asks[t] + NodeSize <= mem'.size[y]
           /\ \A a \in Held : a \in Headers(mem') /\ mem'.size[a] = mem.size[a]
           /\ Sound(mem', Headers(mem') \ (Held \cup {y}))
           /\ owned' = owned \cup {y}
  BY GrantIs
<1>2. /\ asks[t] \notin {NULL, REFUSED}
      /\ asks' = [asks EXCEPT ![t] = NULL]
      /\ frees' = frees /\ lost' = lost
  BY DEF Grant
<1>3. Held' = Held \cup {y}
  BY <1>1, <1>2 DEF Held
<1> DEFINE r == [at |-> y, len |-> mem'.size[y]]
<1>4. mem' \in Mem /\ Tiles(mem')
  BY <1>1 DEF Sound, ListOK
<1>5. /\ r \in Promise!Region
      /\ y \in Int /\ mem'.size[y] \in Int /\ y + mem'.size[y] <= End
      /\ \A b \in Headers(mem') \ {y} :
           y + mem'.size[y] <= b \/ b + mem'.size[b] <= y
  BY <1>1, <1>4, Regions
<1>6. Given' = Given \cup {r}
  <2>1. \A a \in Held : mem'.size[a] = mem.size[a]
    BY <1>1
  <2> QED BY <2>1, <1>3 DEF Given
<1>7. \A s \in Given : Promise!Apart(r, s)
  <2> SUFFICES ASSUME NEW a \in Held
               PROVE  y + mem'.size[y] <= a \/ a + mem.size[a] <= y
    BY DEF Given, Promise!Apart
  <2>1. a # y /\ a \in Headers(mem') /\ mem'.size[a] = mem.size[a]
    BY <1>1
  <2> QED BY <2>1, <1>5
<1>8. Promise!Vacant(r)
  BY <1>5, <1>7 DEF Promise!Vacant, Given
<1>9. r.len >= asks[t] + NodeSize /\ asks[t] # 0
  <2>1. asks[t] \in Int /\ NodeSize \in Int
    <3>1. Requests \subseteq 0 .. 2 * AllocatedBit - 1 /\ AllocatedBit \in Nat
          /\ NodeSize \in Nat
      BY HeapAssumption
    <3>2. \A n \in 0 .. 2 * AllocatedBit - 1 : n \in Int
      BY <3>1
    <3>3. asks[t] \in 0 .. 2 * AllocatedBit - 1
      BY <3>1, <1>1, Zenon
    <3> QED BY <3>1, <3>2, <3>3
  <2> QED BY <2>1, <1>1, <1>5
<1> HIDE DEF r
<1> QED BY <1>2, <1>5, <1>6, <1>8, <1>9 DEF Promise!Grant, Given

(* A request is refused only if there is no room for it.                   *)
LEMMA RefuseRefines ==
  ASSUME HeapInv, NEW t \in Task, Refuse(t)
  PROVE  Promise!Refuse(t)
<1>1. PICK m, n : m = Prepared /\ n = asks[t]
  OBVIOUS
<1>2. /\ m.ready /\ Held \subseteq Headers(m) /\ Sound(m, Headers(m) \ Held)
      /\ Held # {} => m = mem
  BY <1>1, PreparedIs
<1>3. /\ n \notin {NULL, REFUSED} /\ n \in Requests
      /\ ~HasRoom(m, WantedSize(n))
      /\ mem' = m /\ asks' = [asks EXCEPT ![t] = REFUSED]
      /\ frees' = frees /\ owned' = owned /\ lost' = lost
  BY <1>1 DEF Refuse, HeapInv, TypeOK
<1>4. Held' = Held
  BY <1>3 DEF Held
<1>5. Given' = Given
  BY <1>2, <1>3, <1>4 DEF Given
<1>6. ASSUME n # 0, NEW r \in Promise!Region, r.len >= n + NodeSize, Promise!Vacant(r)
      PROVE  FALSE
  <2>1. PICK x, len : x = r.at /\ len = r.len
    OBVIOUS
  <2>2. x \in Int /\ 0 <= x /\ len \in Int /\ n + NodeSize <= len /\ n > 0
    <3>1. Requests \subseteq 0 .. 2 * AllocatedBit - 1 /\ AllocatedBit \in Nat
          /\ NodeSize \in Nat
      BY HeapAssumption
    <3>2. \A k \in 0 .. 2 * AllocatedBit - 1 : k \in Nat
      BY <3>1
    <3>3. n \in Nat
      BY <3>1, <3>2, <1>3
    <3>4. x \in 0 .. End /\ len \in 0 .. End
      BY <1>6, <2>1 DEF Promise!Region
    <3> QED BY <3>1, <3>3, <3>4, <2>1, <1>6, EndIs
  <2>3. x + len <= End /\ \A s \in Given : Promise!Apart(r, s)
    BY <2>1, <1>6 DEF Promise!Vacant, Given
  <2>4. \A a \in Held : x + len <= a \/ a + m.size[a] <= x
    <3> SUFFICES ASSUME NEW a \in Held
                 PROVE  x + len <= a \/ a + m.size[a] <= x
      OBVIOUS
    <3>1. m = mem /\ [at |-> a, len |-> mem.size[a]] \in Given
      BY <1>2 DEF Given
    <3>2. Promise!Apart(r, [at |-> a, len |-> mem.size[a]])
      BY <3>1, <2>3
    <3> QED BY <3>1, <3>2, <2>1 DEF Promise!Apart
  <2>5. PICK F : F = Headers(m) \ Held
    OBVIOUS
  <2>6. Headers(m) \ F = Held
    BY <2>5, <1>2
  <2>7. /\ Sound(m, F) /\ n \in Requests /\ n > 0
        /\ x \in Int /\ 0 <= x /\ len \in Int /\ x + len <= End
        /\ n + NodeSize <= len
        /\ \A a \in Headers(m) \ F : x + len <= a \/ a + m.size[a] <= x
    BY <2>2, <2>3, <2>4, <2>5, <2>6, <1>2, <1>3
  <2>8. HasRoom(m, WantedSize(n))
    BY ONLY <2>7, RoomIsFound
  <2> QED BY <2>8, <1>3
<1> QED BY <1>1, <1>3, <1>5, <1>6 DEF Promise!Refuse, Given

(* A block that is back on the list is given back.                         *)
LEMMA InsertRefines ==
  ASSUME HeapInv, NEW t \in Task, Insert(t)
  PROVE  Promise!Release
<1>1. /\ frees[t] \in Held
      /\ Held' = Held \ {frees[t]}
      /\ \A a \in Held \ {frees[t]} : mem'.size[a] = mem.size[a]
  BY InsertStepIs
<1>2. asks' = asks
  BY DEF Insert
<1> DEFINE r == [at |-> frees[t], len |-> mem.size[frees[t]]]
<1>3. r \in Given
  BY <1>1 DEF Given
<1>4. Given' = Given \ {r}
  <2>1. \A a \in Held : [at |-> a, len |-> mem.size[a]] = r <=> a = frees[t]
    OBVIOUS
  <2> HIDE DEF r
  <2> QED BY <2>1, <1>1 DEF Given
<1> HIDE DEF r
<1> QED BY <1>2, <1>3, <1>4 DEF Promise!Release, Given

(* Every step is a step of the abstract allocator or leaves it alone.       *)
LEMMA StepRefines == HeapInv /\ [Next]_vars => [Promise!Next]_(Promise!vars)
<1> SUFFICES ASSUME HeapInv, [Next]_vars PROVE [Promise!Next]_(Promise!vars)
  OBVIOUS
<1>1. ASSUME NEW t \in Task, Ask(t)
      PROVE  Promise!Ask(t)
  <2>1. Given' = Given
    <3>1. mem' = mem /\ frees' = frees /\ owned' = owned /\ lost' = lost
      BY <1>1 DEF Ask
    <3>2. Held' = Held
      BY <3>1 DEF Held
    <3> QED BY <3>1, <3>2 DEF Given
  <2> QED BY <2>1, <1>1 DEF Ask, Idle, Promise!Ask, Given
<1>2. ASSUME NEW t \in Task, Unmark(t)
      PROVE  UNCHANGED Promise!vars
  <2>1. Held' = Held /\ mem'.size = mem.size /\ asks' = asks
    BY <1>2, UnmarkIs DEF Unmark
  <2>2. Given' = Given
    BY <2>1 DEF Given
  <2> QED BY <2>1, <2>2 DEF Promise!vars, Given
<1>3. ASSUME NEW t \in Task, Killed(t)
      PROVE  Promise!Withdraw(t)
  <2>1. Held' = Held /\ mem' = mem /\ asks' = [asks EXCEPT ![t] = NULL]
    BY <1>3, KilledIs DEF Killed
  <2>2. Given' = Given
    BY <2>1 DEF Given
  <2> QED BY <2>1, <2>2 DEF Promise!Withdraw, Given
<1>4. ASSUME UNCHANGED vars
      PROVE  UNCHANGED Promise!vars
  <2>1. mem' = mem /\ frees' = frees /\ owned' = owned /\ lost' = lost /\ asks' = asks
    BY <1>4 DEF vars
  <2>2. Held' = Held
    BY <2>1 DEF Held
  <2>3. Given' = Given
    BY <2>1, <2>2 DEF Given
  <2> QED BY <2>1, <2>3 DEF Promise!vars, Given
<1>5. ASSUME NEW t \in Task,
             Ask(t) \/ Grant(t) \/ Refuse(t) \/ Unmark(t) \/ Insert(t) \/ Killed(t)
      PROVE  Promise!Next \/ UNCHANGED Promise!vars
  <2>1. CASE Ask(t)
    BY <2>1, <1>1 DEF Promise!Next
  <2>2. CASE Grant(t)
    BY <2>2, GrantRefines DEF Promise!Next
  <2>3. CASE Refuse(t)
    BY <2>3, RefuseRefines DEF Promise!Next
  <2>4. CASE Unmark(t)
    BY <2>4, <1>2
  <2>5. CASE Insert(t)
    BY <2>5, InsertRefines DEF Promise!Next
  <2>6. CASE Killed(t)
    BY <2>6, <1>3 DEF Promise!Next
  <2> QED BY <2>1, <2>2, <2>3, <2>4, <2>5, <2>6, <1>5
<1> QED BY <1>4, <1>5 DEF Next

(***************************************************************************)
(* os_malloc and os_free implement Allocator (mem.c:34-147): what they give *)
(* out is large enough and disjoint, and they refuse a request only if no   *)
(* place in the heap is left for it.                                        *)
(***************************************************************************)
THEOREM HeapAllocates == Spec => Allocates
<1>1. Init => Promise!Init
  BY InitRefines
<1>2. HeapInv /\ [Next]_vars => [Promise!Next]_(Promise!vars)
  BY StepRefines
<1> QED BY <1>1, <1>2, HeapAlwaysSound, PTL DEF Spec, Allocates, Promise!Spec
=============================================================================
