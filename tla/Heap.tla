--------------------------------- MODULE Heap ---------------------------------
(***************************************************************************)
(* The heap of the kernel (mem.c): a list of free blocks in the order of    *)
(* their addresses, first fit, splitting and coalescing.                    *)
(*                                                                         *)
(* os_malloc and the end of os_free run with the scheduler suspended        *)
(* (Scheduler has these sections), so each is one step here.  os_free        *)
(* clears the mark of the block before it suspends the scheduler: between   *)
(* the two another task may allocate, release, or delete the caller.        *)
(*                                                                         *)
(* Addresses count from the first aligned byte of os_mem.  Every block       *)
(* begins with a header; a header that a neighbour has swallowed is plain   *)
(* memory, which nothing reads as a header again, and is reset here.        *)
(* b_MinimumEverFreeBytesRemaining is written and never read: left out.     *)
(***************************************************************************)
EXTENDS Integers, FiniteSets

CONSTANTS
  Task,          (* the tasks that allocate and release                      *)
  Align,         (* configALIGNMENT: 8 in the code                           *)
  NodeSize,      (* block_node_size: 8 in the code                           *)
  HeapBytes,     (* configTOTAL_HEAP_SIZE, less what aligns os_mem           *)
  AllocatedBit,  (* b_BlockAllocatedBit: 2^31, the top bit of size_t         *)
  Requests       (* bound: the arguments tasks pass to os_malloc             *)

(* b_end: where the list of the free blocks ends. *)
End == ((HeapBytes - NodeSize) \div Align) * Align

ASSUME HeapAssumption ==
  /\ IsFiniteSet(Task)
  /\ Align \in Nat \ {0}
  /\ NodeSize \in Nat \ {0}
  /\ NodeSize % Align = 0
  /\ HeapBytes \in Nat
  /\ NodeSize + Align <= HeapBytes
  /\ AllocatedBit \in Nat
  /\ HeapBytes + Align <= AllocatedBit
  /\ Requests \subseteq 0 .. 2 * AllocatedBit - 1

b_start == -1      (* the header that is not in os_mem *)
NULL    == -2
REFUSED == -3      (* os_malloc has returned NULL *)

Addr == 0 .. End - 1

Mem ==
  [ ready : BOOLEAN,                                   (* b_end # NULL       *)
    nxt   : [Addr \cup {b_start} -> Addr \cup {End, NULL}],
    size  : [Addr -> 0 .. End],                        (* 0: no header here  *)
    used  : [Addr -> BOOLEAN],                         (* the allocated bit  *)
    bytes : Int ]                                      (* b_FreeBytesRemaining *)

VARIABLES
  mem,
  asks,    (* per task: the argument of the os_malloc it is in               *)
  frees,   (* per task: the block the os_free it is in has unmarked          *)
  owned,   (* the blocks the application has and will release               *)
  lost     (* the blocks whose release a deletion has cut off                *)

vars == <<mem, asks, frees, owned, lost>>

Headers(m) == {a \in Addr : m.size[a] > 0}

TypeOK ==
  /\ mem \in Mem
  /\ asks \in [Task -> Requests \cup {NULL, REFUSED}]
  /\ frees \in [Task -> Addr \cup {NULL}]
  /\ owned \subseteq Addr
  /\ lost \subseteq Addr

-----------------------------------------------------------------------------
(***************************************************************************)
(* A traversal from b_start that goes on as long as the next block is in S: *)
(* the nodes it reaches, the least set closed under that step, and the one  *)
(* at which it stops.                                                       *)
(***************************************************************************)
Reached(m, S) ==
  {n \in S \cup {b_start} :
     \A R \in SUBSET (S \cup {b_start}) :
       /\ b_start \in R
       /\ \A u \in R : m.nxt[u] \in S => m.nxt[u] \in R
       => n \in R}

Before(m, S) == CHOOSE u \in Reached(m, S) : m.nxt[u] \notin S

os_memInit ==
  [ ready |-> TRUE,
    nxt   |-> [a \in Addr \cup {b_start} |->
                 IF a = b_start THEN 0 ELSE IF a = 0 THEN End ELSE NULL],
    size  |-> [a \in Addr |-> IF a = 0 THEN End ELSE 0],
    used  |-> [a \in Addr |-> FALSE],
    bytes |-> End ]

(***************************************************************************)
(* os_insertBlockIntoFreeList(b): behind the last free block below b, and   *)
(* one with the neighbours it touches.  The code tests for both neighbours  *)
(* before it links; the memory it leaves is this one.                       *)
(***************************************************************************)
AtFront(m, b) == {}                \* mutant: not in the order of addresses
Below(m, b) == {n \in Headers(m) : n < b}

NeverJoins(m, it, b) == FALSE      \* mutant: no coalescing with the block before
JoinsPrevious(m, it, b) == it # b_start /\ it + m.size[it] = b
JoinsNext(m, b, after) == b + m.size[b] = after /\ after # End

Link(m, it, b) ==                  \* b becomes the successor of it
  [m EXCEPT !.nxt = [m.nxt EXCEPT ![b] = m.nxt[it], ![it] = b]]

Merge(m, a, b) ==                  \* a takes in its successor b
  [m EXCEPT !.nxt  = [m.nxt EXCEPT ![a] = m.nxt[b], ![b] = NULL],
            !.size = [m.size EXCEPT ![a] = m.size[a] + m.size[b], ![b] = 0]]

os_insertBlockIntoFreeList(m, b) ==
  LET it     == Before(m, Below(m, b))
      after  == m.nxt[it]
      linked == Link(m, it, b)
      m1     == IF JoinsNext(m, b, after) THEN Merge(linked, b, after) ELSE linked
  IN  IF JoinsPrevious(m, it, b) THEN Merge(m1, it, b) ELSE m1

-----------------------------------------------------------------------------
(* The size of the block for a request, as a size_t; 0 is no request. *)
NotRounded(s) == s                 \* mutant: the size is used as it is
RoundUp(s) == IF s % Align = 0 THEN s ELSE s + (Align - (s % Align))

Unchecked(n) ==                    \* mutant: the top bit is not tested
  IF n = 0 THEN 0 ELSE RoundUp(n + NodeSize) % (2 * AllocatedBit)

WantedSize(n) ==
  IF n >= AllocatedBit \/ n = 0 THEN 0
                                ELSE RoundUp(n + NodeSize) % (2 * AllocatedBit)

(* First fit: the node before the first block of w bytes or more. *)
TooSmall(m, w) == {n \in Headers(m) : m.size[n] < w}
Previous(m, w) == Before(m, TooSmall(m, w))

HasRoom(m, w) == w > 0 /\ w <= m.bytes /\ m.nxt[Previous(m, w)] # End

(* The block is taken off the list, and what it has beyond w bytes goes      *)
(* back if that is more than MINIMUM_BLOCK_SIZE.                             *)
Unlink(m, p) ==                    \* p loses its successor
  LET b == m.nxt[p]
  IN  [m EXCEPT !.nxt = [m.nxt EXCEPT ![p] = m.nxt[b], ![b] = NULL]]

KeepsAll(m, b, w) ==               \* mutant: block_size is not reduced
  [m EXCEPT !.size[b + w] = m.size[b] - w]

Cut(m, b, w) ==                    \* a second header, w bytes behind the first
  [m EXCEPT !.size = [m.size EXCEPT ![b] = w, ![b + w] = m.size[b] - w]]

ChargedAsked(m, b, w) == w         \* mutant: the unsplit rest is not counted
Charged(m, b, w) == m.size[b]

Take(m, w) ==
  LET previous == Previous(m, w)
      block    == m.nxt[previous]
      m1       == Unlink(m, previous)
      m2       == IF m.size[block] - w > 2 * NodeSize
                    THEN os_insertBlockIntoFreeList(Cut(m1, block, w), block + w)
                    ELSE m1
  IN  [m2 EXCEPT !.bytes = m2.bytes - Charged(m2, block, w),
                 !.used[block] = TRUE]

-----------------------------------------------------------------------------
Idle(t) == asks[t] \in {NULL, REFUSED} /\ frees[t] = NULL

(* The heap as the suspended section of os_malloc finds it. *)
Prepared == IF mem.ready THEN mem ELSE os_memInit

Ask(t) ==
  \E n \in Requests :
    /\ Idle(t)
    /\ asks' = [asks EXCEPT ![t] = n]
    /\ UNCHANGED <<mem, frees, owned, lost>>

Grant(t) ==
  LET w == WantedSize(asks[t])
  IN  /\ asks[t] \notin {NULL, REFUSED}
      /\ HasRoom(Prepared, w)
      /\ mem' = Take(Prepared, w)
      /\ owned' = owned \cup {Prepared.nxt[Previous(Prepared, w)]}
      /\ asks' = [asks EXCEPT ![t] = NULL]
      /\ UNCHANGED <<frees, lost>>

Refuse(t) ==
  /\ asks[t] \notin {NULL, REFUSED}
  /\ ~HasRoom(Prepared, WantedSize(asks[t]))
  /\ mem' = Prepared
  /\ asks' = [asks EXCEPT ![t] = REFUSED]
  /\ UNCHANGED <<frees, owned, lost>>

(* os_free up to its suspended section.  A block that is not marked as      *)
(* allocated, or has a successor, is left alone.                            *)
Unmark(t) ==
  \E a \in owned :
    /\ Idle(t)
    /\ owned' = owned \ {a}
    /\ IF mem.used[a] /\ mem.nxt[a] = NULL
         THEN /\ mem' = [mem EXCEPT !.used[a] = FALSE]
              /\ frees' = [frees EXCEPT ![t] = a]
         ELSE UNCHANGED <<mem, frees>>
    /\ UNCHANGED <<asks, lost>>

Insert(t) ==
  LET a == frees[t]
  IN  /\ a # NULL
      /\ mem' = os_insertBlockIntoFreeList(
                  [mem EXCEPT !.bytes = mem.bytes + mem.size[a]], a)
      /\ frees' = [frees EXCEPT ![t] = NULL]
      /\ UNCHANGED <<asks, owned, lost>>

(* os_taskDelete(t) by another task, before t suspends the scheduler. *)
Killed(t) ==
  /\ ~Idle(t)
  /\ asks' = [asks EXCEPT ![t] = NULL]
  /\ frees' = [frees EXCEPT ![t] = NULL]
  /\ lost' = lost \cup ({frees[t]} \ {NULL})
  /\ UNCHANGED <<mem, owned>>

Init ==
  /\ mem = [ ready |-> FALSE,
             nxt   |-> [a \in Addr \cup {b_start} |-> NULL],
             size  |-> [a \in Addr |-> 0],
             used  |-> [a \in Addr |-> FALSE],
             bytes |-> 0 ]
  /\ asks = [t \in Task |-> NULL]
  /\ frees = [t \in Task |-> NULL]
  /\ owned = {}
  /\ lost = {}

Next ==
  \E t \in Task :
    Ask(t) \/ Grant(t) \/ Refuse(t) \/ Unmark(t) \/ Insert(t) \/ Killed(t)

Spec == Init /\ [][Next]_vars
-----------------------------------------------------------------------------
(***************************************************************************)
(* Safety.                                                                  *)
(***************************************************************************)
Held == owned \cup lost \cup ({frees[t] : t \in Task} \ {NULL})
Free == Headers(mem) \ Held

(***************************************************************************)
(* The blocks tile the heap: each ends where the next one begins or at the  *)
(* end, and none lies in another, so that no byte is lost and none is given *)
(* out twice (mem.c:84-96, 205-229).                                        *)
(***************************************************************************)
Tiles(m) ==
  /\ 0 \in Headers(m)
  /\ \A a \in Headers(m) :
       /\ a + m.size[a] \in Headers(m) \cup {End}
       /\ \A b \in Headers(m) : a < b => a + m.size[a] <= b

BlocksTile == mem.ready => Tiles(mem)

(***************************************************************************)
(* The free list links exactly the blocks nobody holds or is releasing, in  *)
(* the order of their addresses up to b_end: a block that is passed over is *)
(* lost, a held one on the list is given out twice (mem.c:66-82, 200-239).  *)
(***************************************************************************)
Ascending(m, F) ==
  \A n \in F \cup {b_start} :
    /\ m.nxt[n] \in F \cup {End}
    /\ n < m.nxt[n]
    /\ \A f \in F : f <= n \/ m.nxt[n] <= f

FreeListExact ==
  /\ Held \subseteq Headers(mem)
  /\ mem.ready => Ascending(mem, Free)

(***************************************************************************)
(* No two free blocks touch: whatever the order of releases, a hole is one  *)
(* block, which first fit can find (mem.c:205-229).                         *)
(***************************************************************************)
Apart(m, F) == \A f \in F : f + m.size[f] \notin F

Coalesced == Apart(mem, Free)

(***************************************************************************)
(* b_FreeBytesRemaining, which os_malloc consults before it searches        *)
(* (mem.c:62, 99, 140), is the number of bytes in free blocks.              *)
(***************************************************************************)
BytesIn(m, F) == {x \in Addr : \E f \in F : f <= x /\ x < f + m.size[f]}

BytesExact == mem.bytes = Cardinality(BytesIn(mem, Free))

(***************************************************************************)
(* Every block begins at a multiple of configALIGNMENT, and so does what    *)
(* os_malloc returns, one header behind it (mem.c:55-59, 79, 160-176).      *)
(***************************************************************************)
AlignedIn(m) == \A a \in Headers(m) : a % Align = 0 /\ m.size[a] % Align = 0

Aligned == AlignedIn(mem)

(***************************************************************************)
(* The inductive invariant that Heap_proofs uses.                           *)
(***************************************************************************)

(* What is no header, or not in the list, links to nothing.                 *)
Clean(m, F) == \A a \in Addr \ F : m.nxt[a] = NULL

ListOK(m, F) ==
  /\ F \subseteq Headers(m)
  /\ Tiles(m)
  /\ Ascending(m, F)
  /\ Clean(m, F)

(* A block is held for one reason and by one task.                          *)
HeldOnce ==
  /\ owned \cap lost = {}
  /\ \A t \in Task : frees[t] \notin owned \cup lost
  /\ \A t, u \in Task : frees[t] = frees[u] /\ frees[t] # NULL => t = u
  /\ \A a \in owned : mem.used[a]

HeapInv ==
  /\ TypeOK
  /\ HeldOnce
  /\ Held \subseteq Headers(mem)
  /\ ~mem.ready => Headers(mem) = {} /\ mem.bytes = 0
  /\ mem.ready => ListOK(mem, Free)
  /\ Apart(mem, Free)
  /\ BytesExact
  /\ Aligned

(***************************************************************************)
(* What the callers are promised: Allocator.  A block is held from the      *)
(* moment it is granted until it is back on the list.                       *)
(***************************************************************************)
Promise ==
  INSTANCE Allocator WITH
    Room <- End,
    NONE <- NULL,
    held <- {[at |-> a, len |-> mem.size[a]] : a \in Held}

Allocates == Promise!Spec
=============================================================================
