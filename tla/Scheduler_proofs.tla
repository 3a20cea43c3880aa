--------------------------- MODULE Scheduler_proofs ---------------------------
(***************************************************************************)
(* What the list operations of task.c do to the links, for every set of     *)
(* tasks, and then: Inv is an inductive invariant of the scheduler, for any *)
(* finite set of tasks, any number of priorities and any width of clock_t.  *)
(* There is one lemma for each operation and one for each action. The       *)
(* properties that follow from Inv alone are at the end.                    *)
(*                                                                         *)
(* On lists that are linked, removal, appending and the sorted insertion    *)
(* always return, and leave lists that are linked and, where they were,     *)
(* sorted. No recursive definition is used: a list without cycles is one in *)
(* which every set of tasks has a member whose link leaves the set.         *)
(***************************************************************************)
EXTENDS Scheduler, FiniteSetTheorems, TLAPS

(* Unlinking a node leaves no cycle behind.                                 *)
LEMMA NoCycleUnlink ==
  ASSUME NEW S, NEW t \in S, NEW link, NEW link2, NoCycle(link, S),
         \A u \in S \ {t} : link2[u] = IF link[u] = t THEN link[t] ELSE link[u]
  PROVE  NoCycle(link2, S \ {t})
<1> SUFFICES ASSUME NEW R \in SUBSET (S \ {t}), R # {}
             PROVE  \E u \in R : link2[u] \notin R
  BY DEF NoCycle
<1>1. CASE \E u \in R : link[u] = t
  <2>1. PICK u \in R \cup {t} : link[u] \notin R \cup {t}
    BY DEF NoCycle
  <2> QED BY <1>1, <2>1
<1>2. CASE \A u \in R : link[u] # t
  BY <1>2 DEF NoCycle
<1> QED BY <1>1, <1>2

(* Linking a new node into a chain closes no cycle.                         *)
LEMMA NoCycleLink ==
  ASSUME NEW S, NEW t, t \notin S, NEW link, NEW link2, NoCycle(link, S),
         \A u \in S : link[u] # t,
         \A u \in S : link2[u] = link[u] \/ (link2[u] = t /\ link2[t] = link[u]),
         link2[t] # t
  PROVE  NoCycle(link2, S \cup {t})
<1> SUFFICES ASSUME NEW R \in SUBSET (S \cup {t}), R # {}
             PROVE  \E u \in R : link2[u] \notin R
  BY DEF NoCycle
<1>1. CASE R \ {t} = {}
  BY <1>1
<1>2. CASE R \ {t} # {}
  <2>1. PICK u \in R \ {t} : link[u] \notin R \ {t}
    BY <1>2 DEF NoCycle
  <2> QED BY <2>1
<1> QED BY <1>1, <1>2
-----------------------------------------------------------------------------
RemoveResult(m, t, r) ==
  /\ r \in ListMem
  /\ r.taskListHead = m.taskListHead
  /\ r.stuck = m.stuck
  /\ \A u \in Task :
       /\ r.next[u] = IF u = m.last[t] THEN m.next[t] ELSE m.next[u]
       /\ r.last[u] = IF u = m.next[t] THEN m.last[t] ELSE m.last[u]
  /\ \A L \in ListId :
       r.head[L] = IF m.last[t] = NULL /\ L = m.taskListHead[t]
                     THEN m.next[t] ELSE m.head[L]

(* os_taskListRemove (task.c:261-305) changes the two neighbours' links, or *)
(* the head of the list that taskListHead names, and nothing else.          *)
LEMMA RemoveEffect ==
  ASSUME NEW m \in ListMem, NEW t \in Task,
         m.last[t] = NULL => m.taskListHead[t] \in ListId
  PROVE  RemoveResult(m, t, os_taskListRemove(m, t))
BY ListsAssumption DEF RemoveResult, ListMem, os_taskListRemove, Ptr

(* os_taskListRemove leaves the lists of the other tasks linked.            *)
LEMMA RemoveLinked ==
  ASSUME NEW m \in ListMem, NEW S \in SUBSET Task, NEW t \in S, Linked(m, S),
         NEW r, RemoveResult(m, t, r)
  PROVE  Linked(r, S \ {t})
<1>1. LinksAgree(r, S \ {t})
  BY ListsAssumption
     DEF RemoveResult, Linked, LinksAgree, HeadsAgree, ListMem, Ptr
<1>2. HeadsAgree(r, S \ {t})
  BY ListsAssumption
     DEF RemoveResult, Linked, LinksAgree, HeadsAgree, ListMem, Ptr
<1>3. \A u \in S : /\ u = m.last[t] <=> m.next[u] = t
                   /\ u = m.next[t] <=> m.last[u] = t
  BY ListsAssumption DEF Linked, LinksAgree
<1>4. NoCycle(r.next, S \ {t})
  BY <1>3, NoCycleUnlink DEF RemoveResult, Linked
<1>5. NoCycle(r.last, S \ {t})
  BY <1>3, NoCycleUnlink DEF RemoveResult, Linked
<1> QED BY <1>1, <1>2, <1>4, <1>5 DEF Linked
-----------------------------------------------------------------------------
(* The nodes a traversal visits are closed under next, and include its      *)
(* first one.                                                               *)
LEMMA VisitedClosed ==
  ASSUME NEW m, NEW S, NEW h
  PROVE  /\ h \in S => h \in Visited(m, h, S)
         /\ \A u \in Visited(m, h, S) :
              u \in S /\ (m.next[u] \in S => m.next[u] \in Visited(m, h, S))
         /\ \A R \in SUBSET S :
              (h \in S => h \in R) /\ (\A u \in R : m.next[u] \in S => m.next[u] \in R)
              => Visited(m, h, S) \subseteq R
BY DEF Visited

(* On linked lists a traversal stops, at a node of the list it walks (the   *)
(* while loops of task.c:245-248, 364-370).                                 *)
LEMMA ListEnds ==
  ASSUME NEW m \in ListMem, NEW T \in SUBSET Task, Linked(m, T),
         NEW S \in SUBSET Task, NEW L \in ListId
  PROVE  /\ ~Endless(m, m.head[L], S)
         /\ \A u \in Visited(m, m.head[L], S) : u \in T /\ m.taskListHead[u] = L
         /\ m.head[L] \in S => Stops(m, m.head[L], S) # {}
<1> DEFINE h == m.head[L]
           R == {u \in T \cap S : m.taskListHead[u] = L}
<1>1. /\ R \in SUBSET S
      /\ h \in S => h \in R
      /\ \A u \in R : m.next[u] \in S => m.next[u] \in R
  BY ListsAssumption DEF Linked, LinksAgree, HeadsAgree
<1>2. Visited(m, h, S) \subseteq R
  <2> HIDE DEF R, h
  <2> QED BY <1>1, VisitedClosed
<1> HIDE DEF h
<1>3. ASSUME Endless(m, h, S) PROVE FALSE
  <2>1. \A u \in Visited(m, h, S) : m.next[u] \in S
    BY <1>3 DEF Endless, Stops
  <2>2. \A u \in Visited(m, h, S) : m.next[u] \in Visited(m, h, S)
    BY <2>1, VisitedClosed
  <2>3. Visited(m, h, S) # {} /\ Visited(m, h, S) \subseteq T
    BY <1>2, <1>3 DEF Endless
  <2> QED BY <2>2, <2>3 DEF Linked, NoCycle
<1>4. h \in S => Stops(m, h, S) # {}
  BY <1>3, VisitedClosed DEF Endless
<1> QED BY <1>2, <1>3, <1>4 DEF h
-----------------------------------------------------------------------------
AppendResult(m, S, t, p, r) ==
  /\ r \in ListMem
  /\ r.stuck = m.stuck
  /\ r.taskListHead = [m.taskListHead EXCEPT ![t] = p]
  /\ \/ /\ m.head[p] = NULL
        /\ r.head = [m.head EXCEPT ![p] = t]
        /\ r.next = [m.next EXCEPT ![t] = NULL]
        /\ r.last = [m.last EXCEPT ![t] = NULL]
     \/ \E tail \in S :
          /\ m.head[p] # NULL
          /\ m.next[tail] = NULL
          /\ m.taskListHead[tail] = p
          /\ r.head = m.head
          /\ r.next = [m.next EXCEPT ![tail] = t, ![t] = NULL]
          /\ r.last = [m.last EXCEPT ![t] = tail]

(* os_addTaskToReadyList (task.c:214-254) makes the task the head of an     *)
(* empty list, or hangs it behind the last node.                            *)
LEMMA AppendEffect ==
  ASSUME NEW m \in ListMem, NEW S \in SUBSET Task, Linked(m, S),
         NEW t \in Task \ S, NEW p \in Prio
  PROVE  AppendResult(m, S, t, p, AppendReady(m, t, p))
<1> DEFINE r == AppendReady(m, t, p)
           tail == CHOOSE u \in Stops(m, m.head[p], Task) : TRUE
<1>1. CASE m.head[p] = NULL
  BY <1>1, ListsAssumption DEF AppendReady, AppendResult, ListMem, Ptr, ListId
<1>2. CASE m.head[p] # NULL
  <2>1. p \in ListId /\ m.head[p] \in Task
    BY <1>2 DEF ListId, ListMem, Ptr
  <2>2. ~Endless(m, m.head[p], Task) /\ Stops(m, m.head[p], Task) # {}
    BY <2>1, ListEnds
  <2>4. tail \in Stops(m, m.head[p], Task)
    BY <2>2
  <2>5. tail \in Visited(m, m.head[p], Task) /\ m.next[tail] \notin Task
    BY <2>4 DEF Stops
  <2>6. tail \in S /\ m.taskListHead[tail] = p
    <3> HIDE DEF tail
    <3> QED BY <2>1, <2>5, ListEnds
  <2>7. m.next[tail] = NULL
    BY <2>5, <2>6 DEF ListMem, Ptr
  <2>8. r = [m EXCEPT !.taskListHead[t] = p,
                      !.next = [m.next EXCEPT ![tail] = t, ![t] = NULL],
                      !.last[t] = tail]
    BY <1>2, <2>2 DEF AppendReady
  <2> HIDE DEF r, tail
  <2>9. AppendResult(m, S, t, p, r)
    BY <1>2, <2>1, <2>6, <2>7, <2>8 DEF AppendResult, ListMem, Ptr
  <2> QED BY <2>9 DEF r
<1> QED BY <1>1, <1>2 DEF ListMem, Ptr

(* Appending leaves the links of the tasks outside the list alone.          *)
LEMMA AppendAside ==
  ASSUME NEW m \in ListMem, NEW S \in SUBSET Task, NEW t \in Task, NEW p,
         NEW r, AppendResult(m, S, t, p, r), NEW u \in Task \ (S \cup {t})
  PROVE  /\ r.next[u] = m.next[u]
         /\ r.last[u] = m.last[u]
         /\ r.taskListHead[u] = m.taskListHead[u]
<1>1. u # t /\ u \notin S
  OBVIOUS
<1>2. r.taskListHead[u] = m.taskListHead[u]
  BY <1>1 DEF AppendResult, ListMem
<1>3. CASE r.next = [m.next EXCEPT ![t] = NULL] /\ r.last = [m.last EXCEPT ![t] = NULL]
  BY <1>1, <1>2, <1>3 DEF ListMem
<1>4. ASSUME NEW tail \in S,
             r.next = [m.next EXCEPT ![tail] = t, ![t] = NULL],
             r.last = [m.last EXCEPT ![t] = tail]
      PROVE  r.next[u] = m.next[u] /\ r.last[u] = m.last[u]
  BY <1>1, <1>4 DEF ListMem
<1> QED BY <1>2, <1>3, <1>4 DEF AppendResult

(* Appending a task leaves the lists linked, with the task on them.         *)
LEMMA AppendLinked ==
  ASSUME NEW m \in ListMem, NEW S \in SUBSET Task, Linked(m, S),
         NEW t \in Task \ S, NEW p \in Prio,
         NEW r, AppendResult(m, S, t, p, r)
  PROVE  Linked(r, S \cup {t})
<1>2. p \in ListId
  BY DEF ListId
<1>3. LinksAgree(r, S \cup {t})
  BY <1>2, ListsAssumption DEF AppendResult, Linked, LinksAgree, HeadsAgree, ListMem, Ptr
<1>4. HeadsAgree(r, S \cup {t})
  BY <1>2, ListsAssumption DEF AppendResult, Linked, LinksAgree, HeadsAgree, ListMem, Ptr
<1>5. \A u \in S : m.next[u] # t /\ m.last[u] # t
  BY ListsAssumption DEF Linked, LinksAgree
<1>6. NoCycle(r.next, S \cup {t})
  <2>1. /\ \A u \in S : \/ r.next[u] = m.next[u]
                        \/ r.next[u] = t /\ r.next[t] = m.next[u]
        /\ r.next[t] # t
    BY ListsAssumption DEF AppendResult, ListMem
  <2> QED BY <1>5, <2>1, NoCycleLink DEF Linked
<1>7. NoCycle(r.last, S \cup {t})
  <2>1. (\A u \in S : r.last[u] = m.last[u]) /\ r.last[t] # t
    BY ListsAssumption DEF AppendResult, ListMem
  <2> QED BY <1>5, <2>1, NoCycleLink DEF Linked
<1> QED BY <1>3, <1>4, <1>6, <1>7 DEF Linked
-----------------------------------------------------------------------------
InsertResult(m, S, t, L, wake, r) ==
  /\ r \in ListMem
  /\ r.stuck = m.stuck
  /\ r.taskListHead = [m.taskListHead EXCEPT ![t] = L]
  /\ \/ /\ m.head[L] = NULL
        /\ r.head = [m.head EXCEPT ![L] = t]
        /\ r.next = [m.next EXCEPT ![t] = NULL]
        /\ r.last = [m.last EXCEPT ![t] = NULL]
     \/ \E first \in S :
          /\ first = m.head[L]
          /\ ~(wake[first] <= wake[t])
          /\ r.head = [m.head EXCEPT ![L] = t]
          /\ r.next = [m.next EXCEPT ![t] = first]
          /\ r.last = [m.last EXCEPT ![first] = t, ![t] = NULL]
     \/ \E prev \in S :
          /\ m.head[L] # NULL
          /\ m.taskListHead[prev] = L
          /\ wake[prev] <= wake[t]
          /\ r.head = m.head
          /\ r.next = [m.next EXCEPT ![t] = m.next[prev], ![prev] = t]
          /\ \/ /\ m.next[prev] = NULL
                /\ r.last = [m.last EXCEPT ![t] = prev]
             \/ \E temp \in S :
                  /\ temp = m.next[prev]
                  /\ ~(wake[temp] <= wake[t])
                  /\ r.last = [m.last EXCEPT ![t] = prev, ![temp] = t]

(* os_listInsertByDelay (task.c:344-387) makes the task the head of the     *)
(* list, or puts it between two neighbours of which the first is due no     *)
(* later and the second is due later.                                       *)
LEMMA InsertEffect ==
  ASSUME NEW m \in ListMem, NEW S \in SUBSET Task, Linked(m, S),
         NEW t \in Task \ S, NEW L \in DelayList, NEW wake
  PROVE  InsertResult(m, S, t, L, wake, os_listInsertByDelay(m, t, L, wake))
<1> DEFINE r == os_listInsertByDelay(m, t, L, wake)
           first == m.head[L]
           Earlier == {u \in Task : wake[u] <= wake[t]}
           prev == CHOOSE u \in Stops(m, first, Earlier) : TRUE
           temp == m.next[prev]
<1>0. L \in ListId
  BY DEF ListId
<1>1. CASE first = NULL
  BY <1>0, <1>1, ListsAssumption DEF os_listInsertByDelay, InsertResult, ListMem, Ptr
<1>2. CASE first # NULL /\ first \notin Earlier
  <2>1. first \in S /\ ~(wake[first] <= wake[t])
    BY <1>0, <1>2 DEF Linked, HeadsAgree
  <2>2. r = [m EXCEPT !.taskListHead[t] = L, !.head[L] = t, !.next[t] = first,
                      !.last = [m.last EXCEPT ![first] = t, ![t] = NULL]]
    BY <1>2 DEF os_listInsertByDelay
  <2> HIDE DEF r
  <2>3. InsertResult(m, S, t, L, wake, r)
    BY <1>0, <2>1, <2>2, ListsAssumption DEF InsertResult, ListMem, Ptr
  <2> QED BY <2>3 DEF r
<1>3. CASE first # NULL /\ first \in Earlier
  <2>2. ~Endless(m, first, Earlier) /\ Stops(m, first, Earlier) # {}
    <3> HIDE DEF Earlier
    <3>1. Earlier \in SUBSET Task
      BY DEF Earlier
    <3> QED BY <1>0, <1>3, <3>1, ListEnds
  <2>4. prev \in Stops(m, first, Earlier)
    BY <2>2
  <2>5. prev \in Visited(m, first, Earlier) /\ temp \notin Earlier
    BY <2>4 DEF Stops
  <2>6. prev \in S /\ m.taskListHead[prev] = L /\ prev \in Earlier
    <3> HIDE DEF prev, Earlier
    <3>1. Earlier \in SUBSET Task
      BY DEF Earlier
    <3> QED BY <1>0, <2>5, <3>1, ListEnds, VisitedClosed
  <2>7. temp # NULL => temp \in S /\ ~(wake[temp] <= wake[t])
    BY <2>5, <2>6 DEF Linked, LinksAgree
  <2>8. r = LET m1 == [m EXCEPT !.taskListHead[t] = L,
                           !.next = [m.next EXCEPT ![t] = temp, ![prev] = t],
                           !.last[t] = prev]
            IN  IF temp = NULL THEN m1 ELSE [m1 EXCEPT !.last[temp] = t]
    BY <1>3, <2>2 DEF os_listInsertByDelay
  <2>9. wake[prev] <= wake[t]
    BY <2>6
  <2> HIDE DEF r, prev, Earlier
  <2>10. InsertResult(m, S, t, L, wake, r)
    BY <1>0, <1>3, <2>6, <2>7, <2>8, <2>9, ListsAssumption DEF InsertResult, ListMem, Ptr
  <2> QED BY <2>10 DEF r
<1> QED BY <1>1, <1>2, <1>3 DEF ListMem, Ptr

(* The sorted insertion leaves the lists linked, with the task on them.     *)
LEMMA InsertLinked ==
  ASSUME NEW m \in ListMem, NEW S \in SUBSET Task, Linked(m, S),
         NEW t \in Task \ S, NEW L \in DelayList, NEW wake,
         NEW r, InsertResult(m, S, t, L, wake, r)
  PROVE  Linked(r, S \cup {t})
<1>2. L \in ListId
  BY DEF ListId
<1>3. LinksAgree(r, S \cup {t})
  BY <1>2, ListsAssumption DEF InsertResult, Linked, LinksAgree, HeadsAgree, ListMem, Ptr
<1>4. HeadsAgree(r, S \cup {t})
  BY <1>2, ListsAssumption DEF InsertResult, Linked, LinksAgree, HeadsAgree, ListMem, Ptr
<1>5. \A u \in S : m.next[u] # t /\ m.last[u] # t
  BY ListsAssumption DEF Linked, LinksAgree
<1>6. NoCycle(r.next, S \cup {t})
  <2>1. /\ \A u \in S : \/ r.next[u] = m.next[u]
                        \/ r.next[u] = t /\ r.next[t] = m.next[u]
        /\ r.next[t] # t
    BY <1>5, ListsAssumption DEF InsertResult, ListMem
  <2> QED BY <1>5, <2>1, NoCycleLink DEF Linked
<1>7. NoCycle(r.last, S \cup {t})
  <2>1. /\ \A u \in S : \/ r.last[u] = m.last[u]
                        \/ r.last[u] = t /\ r.last[t] = m.last[u]
        /\ r.last[t] # t
    BY <1>2, <1>5, ListsAssumption DEF InsertResult, ListMem, Linked, LinksAgree, HeadsAgree
  <2> QED BY <1>5, <2>1, NoCycleLink DEF Linked
<1> QED BY <1>3, <1>4, <1>6, <1>7 DEF Linked
-----------------------------------------------------------------------------
(* On linked lists each task is reached from the head of its list.          *)
LEMMA LinkedMembers ==
  ASSUME NEW m \in ListMem, NEW S \in SUBSET Task, Linked(m, S), NEW t \in S
  PROVE  /\ t \in Members(m, m.taskListHead[t])
         /\ m.head[m.taskListHead[t]] # NULL
<1> DEFINE L == m.taskListHead[t]
           V == Members(m, L)
           Q == {u \in S : m.taskListHead[u] = L /\ u \notin V}
<1>1. L \in ListId
  BY DEF Linked, LinksAgree
<1>2. /\ m.head[L] \in Task => m.head[L] \in V
      /\ \A u \in V : m.next[u] \in Task => m.next[u] \in V
  BY VisitedClosed DEF Members
<1>3. ASSUME NEW u \in Q PROVE m.last[u] \in Q
  <2>1. m.last[u] # NULL
    BY <1>2 DEF Linked, LinksAgree
  <2> HIDE DEF V
  <2> QED BY <1>2, <2>1 DEF Linked, LinksAgree
<1>4. Q = {}
  <2> HIDE DEF V
  <2>1. Q \in SUBSET S
    OBVIOUS
  <2> HIDE DEF Q
  <2> QED BY <1>3, <2>1 DEF Linked, NoCycle
<1>5. t \in V
  BY <1>4
<1>6. m.head[L] # NULL
  <2> DEFINE OnL == {u \in S : m.taskListHead[u] = L}
  <2>1. PICK u \in OnL : m.last[u] \notin OnL
    <3>1. OnL \in SUBSET S /\ OnL # {}
      OBVIOUS
    <3> QED BY <3>1 DEF Linked, NoCycle
  <2> QED BY <2>1, ListsAssumption DEF Linked, LinksAgree
<1> QED BY <1>5, <1>6

(* What is reached from a head is a task that knows it is on that list.     *)
LEMMA ListMembers ==
  ASSUME NEW m \in ListMem, NEW S \in SUBSET Task, Linked(m, S), NEW L \in ListId
  PROVE  /\ ~Endless(m, m.head[L], Task)
         /\ \A t \in Members(m, L) : t \in S /\ m.taskListHead[t] = L
<1>1. Task \in SUBSET Task
  OBVIOUS
<1> QED BY <1>1, ListEnds DEF Members
-----------------------------------------------------------------------------
Sorted(m, S, wake) ==
  \A t \in S : m.taskListHead[t] \in DelayList /\ m.next[t] # NULL
                 => wake[t] <= wake[m.next[t]]

(* The head of a sorted delay list is due no later than any task on it:     *)
(* what lets the tick handler look at heads only (task.c:529-548).          *)
LEMMA HeadEarliest ==
  ASSUME NEW m \in ListMem, NEW S \in SUBSET Task, Linked(m, S),
         NEW wake \in [Task -> Nat], Sorted(m, S, wake),
         NEW t \in S, m.taskListHead[t] \in DelayList
  PROVE  LET h == m.head[m.taskListHead[t]]
         IN  h \in S /\ wake[h] <= wake[t]
<1> DEFINE L == m.taskListHead[t]
           h == m.head[L]
           Q == {u \in S : m.taskListHead[u] = L /\ wake[u] < wake[h]}
<1>1. L \in ListId /\ h \in S
  BY LinkedMembers DEF ListId, Linked, HeadsAgree
<1>2. ASSUME NEW u \in Q PROVE m.last[u] \in Q
  <2>1. u \in S /\ m.taskListHead[u] = L /\ wake[u] < wake[h]
    OBVIOUS
  <2>2. m.last[u] # NULL
    BY <1>1, <2>1 DEF Linked, LinksAgree
  <2>3. m.last[u] \in S /\ m.next[m.last[u]] = u /\ m.taskListHead[m.last[u]] = L
    BY <2>1, <2>2 DEF Linked, LinksAgree
  <2>4. wake[m.last[u]] <= wake[u]
    BY <2>1, <2>3, ListsAssumption DEF Sorted
  <2> QED BY <1>1, <2>1, <2>3, <2>4
<1>3. Q = {}
  <2>1. Q \in SUBSET S
    OBVIOUS
  <2> HIDE DEF Q
  <2> QED BY <1>2, <2>1 DEF Linked, NoCycle
<1>4. ~(wake[t] < wake[h])
  BY <1>3
<1> QED BY <1>1, <1>4

(* Removal keeps the lists sorted.                                          *)
LEMMA RemoveSorted ==
  ASSUME NEW m \in ListMem, NEW S \in SUBSET Task, Linked(m, S), NEW t \in S,
         NEW wake \in [Task -> Nat], Sorted(m, S, wake),
         NEW r, RemoveResult(m, t, r)
  PROVE  Sorted(r, S \ {t}, wake)
BY ListsAssumption DEF Sorted, RemoveResult, Linked, LinksAgree

(* Appending to a ready list keeps the delay lists sorted.                  *)
LEMMA AppendSorted ==
  ASSUME NEW m \in ListMem, NEW S \in SUBSET Task, Linked(m, S),
         NEW t \in Task \ S, NEW p \in Prio,
         NEW wake \in [Task -> Nat], Sorted(m, S, wake),
         NEW r, AppendResult(m, S, t, p, r)
  PROVE  Sorted(r, S \cup {t}, wake)
BY ListsAssumption DEF Sorted, AppendResult, Linked, LinksAgree, ListMem, DelayList, DELAY1, DELAY2, Prio

(* The sorted insertion keeps the lists sorted.                             *)
LEMMA InsertSorted ==
  ASSUME NEW m \in ListMem, NEW S \in SUBSET Task, Linked(m, S),
         NEW t \in Task \ S, NEW L \in DelayList,
         NEW wake \in [Task -> Nat], Sorted(m, S, wake),
         NEW r, InsertResult(m, S, t, L, wake, r)
  PROVE  Sorted(r, S \cup {t}, wake)
BY ListsAssumption DEF Sorted, InsertResult, Linked, LinksAgree, ListMem
-----------------------------------------------------------------------------
USE ListsAssumption, SchedulerAssumption

(* Nothing is on a list before main() creates the first task.               *)
LEMMA InitInv == Init => Inv
<1> SUFFICES ASSUME Init PROVE Inv
  OBVIOUS
<1>1. Live = {}
  BY DEF Init, Live
<1>2. TypeOK
  <2>1. EmptyLists \in ListMem
    <3>1. /\ [L \in ListId |-> NULL] \in [ListId -> Ptr]
          /\ [t \in Task |-> NULL] \in [Task -> Ptr]
          /\ [t \in Task |-> NoList] \in [Task -> ListId \cup {NoList}]
      BY DEF Ptr
    <3> QED BY <3>1, Zenon DEF EmptyLists, ListMem
  <2>2. 0 \in Prio /\ 0 \in 0 .. MaxTick /\ NULL \in Ptr /\ DELAY1 \in DelayList
    BY DEF Prio, Ptr, DelayList
  <2>3. /\ task_prior \in [Task -> Prio]
        /\ ticksToDelay \in [Task -> 0 .. MaxTick]
        /\ wait \in [Task -> 0 .. MaxTick]
        /\ other \in [Task -> Ptr]
    BY <2>2 DEF Init
  <2>4. /\ status \in [Task -> Status]
        /\ pc \in [Task -> Label]
        /\ heapCalls \in [Task -> 0 .. 3]
    BY DEF Init, Status, Label
  <2>5. mode \in Mode /\ bitmap \subseteq Prio /\ lists \in ListMem
    BY <2>1 DEF Init, Mode
  <2>6. /\ numberOfTasks \in Int /\ suspended \in Int
        /\ pendedTicks \in Nat /\ pendedLeft \in Nat
    BY DEF Init
  <2> QED BY <2>2, <2>3, <2>4, <2>5, <2>6 DEF Init, TypeOK
<1>3. ListsInv
  BY <1>1 DEF Init, ListsInv, Linked, LinksAgree, HeadsAgree, NoCycle, EmptyLists
<1>4. BitmapInv /\ RunInv /\ SuspensionInv /\ CallsInv
  BY <1>1 DEF Init, BitmapInv, RunInv, SuspensionInv, CallsInv, EmptyLists, ListId,
              Prio, Suspending, Working
<1>5. TaskCount
  BY <1>1, FS_EmptySet DEF Init, TaskCount, Live
<1> QED BY <1>2, <1>3, <1>4, <1>5 DEF Inv

(* The parts of Inv about lists read only these variables.                  *)
LEMMA ListsFrame ==
  ASSUME Inv, UNCHANGED <<lists, status, task_prior, bitmap, numberOfTasks>>
  PROVE  ListsInv' /\ BitmapInv' /\ TaskCount' /\ Live' = Live
BY DEF Inv, ListsInv, Linked, LinksAgree, HeadsAgree, NoCycle, BitmapInv, TaskCount, Live

(* os_delay(0) only requests a switch (task.c:762-765).                     *)
LEMMA DelayZeroInv == ASSUME Inv, NEW t \in Task, DelayZero(t) PROVE Inv'
<1> USE DEF DelayZero, At, listVars, lifeVars, tickVars, loopVars, callVars
<1>1. ListsInv' /\ BitmapInv' /\ TaskCount' /\ Live' = Live
  BY ListsFrame
<1>2. TypeOK'
  BY DEF Inv, TypeOK
<1>3. RunInv' /\ SuspensionInv' /\ CallsInv'
  BY <1>1 DEF Inv, RunInv, SuspensionInv, CallsInv, Working
<1> QED BY <1>1, <1>2, <1>3 DEF Inv

(* os_delay suspends the scheduler (task.c:754).                            *)
LEMMA DelayCallInv == ASSUME Inv, NEW t \in Task, DelayCall(t) PROVE Inv'
<1> USE DEF DelayCall, At, Goto, listVars, lifeVars, tickVars, loopVars, callVars
<1>1. ListsInv' /\ BitmapInv' /\ TaskCount' /\ Live' = Live
  BY ListsFrame
<1>2. TypeOK'
  BY DEF Inv, TypeOK, Label
<1>3. RunInv' /\ SuspensionInv' /\ CallsInv'
  BY <1>1 DEF Inv, TypeOK, RunInv, SuspensionInv, CallsInv, Working, Suspending
<1> QED BY <1>1, <1>2, <1>3 DEF Inv

(* os_delay requests the switch that the resume has not requested.          *)
LEMMA DelayTriggerInv == ASSUME Inv, NEW t \in Task, DelayTrigger(t) PROVE Inv'
<1> USE DEF DelayTrigger, At, Goto, listVars, lifeVars, tickVars, loopVars, callVars
<1>1. ListsInv' /\ BitmapInv' /\ TaskCount' /\ Live' = Live
  BY ListsFrame
<1>2. TypeOK'
  BY DEF Inv, TypeOK, Label
<1>3. RunInv' /\ SuspensionInv' /\ CallsInv'
  BY <1>1 DEF Inv, TypeOK, RunInv, SuspensionInv, CallsInv, Working, Suspending
<1> QED BY <1>1, <1>2, <1>3 DEF Inv

(* os_resumeAllTask gives the suspension up and starts its replay.          *)
LEMMA ResumeEnterInv == ASSUME Inv, NEW t \in Task, ResumeEnter(t) PROVE Inv'
<1> USE DEF ResumeEnter, At, Goto, listVars, lifeVars, tickVars, loopVars, callVars
<1>1. ListsInv' /\ BitmapInv' /\ TaskCount' /\ Live' = Live
  BY ListsFrame
<1>2. TypeOK'
  BY DEF Inv, TypeOK, Mode
<1>3. RunInv' /\ SuspensionInv' /\ CallsInv'
  BY <1>1 DEF Inv, TypeOK, RunInv, SuspensionInv, CallsInv, Working, Suspending
<1> QED BY <1>1, <1>2, <1>3 DEF Inv

(* os_resumeAllTask returns to the call it was made from.                   *)
LEMMA ResumeExitInv == ASSUME Inv, NEW t \in Task, ResumeExit(t) PROVE Inv'
<1> USE DEF ResumeExit, Outermost, AfterResume, Goto, listVars, lifeVars, tickVars, loopVars, callVars
<1>1. ListsInv' /\ BitmapInv' /\ TaskCount' /\ Live' = Live
  BY ListsFrame
<1>2. TypeOK'
  BY DEF Inv, TypeOK, Mode, Label
<1>3. RunInv' /\ SuspensionInv' /\ CallsInv'
  BY <1>1 DEF Inv, TypeOK, RunInv, SuspensionInv, CallsInv, Working, Suspending
<1> QED BY <1>1, <1>2, <1>3 DEF Inv

(* os_malloc and os_free suspend the scheduler.                             *)
LEMMA HeapCallInv == ASSUME Inv, NEW t \in Task, HeapCall(t) PROVE Inv'
<1> USE DEF HeapCall, At, Goto, listVars, lifeVars, tickVars, loopVars, callVars
<1>1. ListsInv' /\ BitmapInv' /\ TaskCount' /\ Live' = Live
  BY ListsFrame
<1>2. TypeOK'
  BY DEF Inv, TypeOK, Label
<1>3. RunInv' /\ SuspensionInv' /\ CallsInv'
  BY <1>1 DEF Inv, TypeOK, RunInv, SuspensionInv, CallsInv, Working, Suspending
<1> QED BY <1>1, <1>2, <1>3 DEF Inv

(* os_addNewTaskToReadyList yields to a more urgent task (task.c:425-431).  *)
LEMMA CreateYieldInv == ASSUME Inv, NEW t \in Task, CreateYield(t) PROVE Inv'
<1> USE DEF CreateYield, At, Goto, listVars, lifeVars, tickVars, loopVars, callVars
<1>1. ListsInv' /\ BitmapInv' /\ TaskCount' /\ Live' = Live
  BY ListsFrame
<1>2. TypeOK'
  <2>1. current \in Task /\ other[t] \in Task
    BY DEF Inv, TypeOK, RunInv, CallsInv, Ptr
  <2> QED BY <2>1 DEF Inv, TypeOK, Label, Ptr, Prio
<1>3. RunInv' /\ SuspensionInv' /\ CallsInv'
  BY <1>1 DEF Inv, TypeOK, RunInv, SuspensionInv, CallsInv, Working, Suspending
<1> QED BY <1>1, <1>2, <1>3 DEF Inv

(* The allocator's work, which may release a TCB for good.                  *)
LEMMA HeapDoneInv == ASSUME Inv, NEW t \in Task, HeapDone(t) PROVE Inv'
<1> USE DEF HeapDone, At, Goto, listVars, lifeVars, tickVars, swapVars, loopVars, callVars
<1>1. Live' = Live
  BY DEF Inv, TypeOK, Live
<1>2. ListsInv' /\ BitmapInv' /\ TaskCount'
  BY <1>1 DEF Inv, ListsInv, Linked, LinksAgree, HeadsAgree, NoCycle, BitmapInv, TaskCount, Live
<1>3. TypeOK'
  BY DEF Inv, TypeOK, CallsInv, Label, Status, Ptr
<1>4. RunInv' /\ SuspensionInv' /\ CallsInv'
  BY <1>1 DEF Inv, TypeOK, RunInv, SuspensionInv, CallsInv, Working, Suspending, Ptr
<1> QED BY <1>1, <1>2, <1>3, <1>4 DEF Inv

(* os_create_task takes a free TCB, or fails (task.c:94-141).               *)
LEMMA CreateCallInv == ASSUME Inv, NEW t \in Task, CreateCall(t) PROVE Inv'
<1> USE DEF CreateCall, At, Goto, listVars, lifeVars, tickVars, swapVars, loopVars, callVars
<1>1. Live' = Live
  BY DEF Inv, TypeOK, Live
<1>2. ListsInv' /\ BitmapInv' /\ TaskCount'
  BY <1>1 DEF Inv, ListsInv, Linked, LinksAgree, HeadsAgree, NoCycle, BitmapInv, TaskCount, Live
<1>3. TypeOK'
  BY DEF Inv, TypeOK, CallsInv, Label, Status, Ptr
<1>4. RunInv' /\ SuspensionInv' /\ CallsInv'
  BY <1>1 DEF Inv, TypeOK, RunInv, SuspensionInv, CallsInv, Working, Suspending, Ptr
<1> QED BY <1>1, <1>2, <1>3, <1>4 DEF Inv

(* A tick during a suspension is counted (task.c:574-577).                  *)
LEMMA SysTickPendedInv == ASSUME Inv, SysTickPended PROVE Inv'
<1> USE DEF SysTickPended, SysTickEnabled, listVars, lifeVars, tickVars, loopVars, callVars
<1>1. ListsInv' /\ BitmapInv' /\ TaskCount' /\ Live' = Live
  BY ListsFrame
<1>2. TypeOK'
  BY DEF Inv, TypeOK
<1>3. RunInv' /\ SuspensionInv' /\ CallsInv'
  BY <1>1 DEF Inv, TypeOK, RunInv, SuspensionInv, CallsInv, Working, Suspending
<1> QED BY <1>1, <1>2, <1>3 DEF Inv

-----------------------------------------------------------------------------
(***************************************************************************)
(* What the list work of an action needs and keeps, in every composition of *)
(* the scheduler: the live tasks are on the lists, and nothing else is.     *)
(***************************************************************************)
LinksOK ==
  /\ lists \in ListMem
  /\ status \in [Task -> Status]
  /\ task_prior \in [Task -> Prio]
  /\ bitmap \subseteq Prio
  /\ ListsInv
  /\ BitmapInv

(* A step that works on the lists of the tasks of S leaves other TCBs alone. *)
Elsewhere(S) ==
  \A u \in Task \ S : /\ lists'.next[u] = lists.next[u]
                      /\ lists'.last[u] = lists.last[u]
                      /\ lists'.taskListHead[u] = lists.taskListHead[u]

(* The links are part of the scheduler's invariant.                         *)
LEMMA LinksFromInv == Inv => LinksOK
BY DEF Inv, TypeOK, LinksOK

(* os_addTaskToReadyList of a task that is on no list (task.c:397-423).     *)
LEMMA AddTaskLinks ==
  ASSUME LinksOK, NEW t \in Task \ Live, NEW p \in Prio,
         lists' = AppendReady(lists, t, p),
         bitmap' = bitmap \cup {p},
         task_prior' = [task_prior EXCEPT ![t] = p],
         status' = [status EXCEPT ![t] = "live"]
  PROVE  /\ LinksOK'
         /\ Live' = Live \cup {t}
         /\ lists'.taskListHead = [lists.taskListHead EXCEPT ![t] = p]
         /\ Elsewhere(Live \cup {t})
<1>1. lists \in ListMem /\ Live \in SUBSET Task /\ Linked(lists, Live)
  BY DEF LinksOK, ListsInv, Live
<1>2. Live' = Live \cup {t}
  BY DEF LinksOK, Live
<1>3. AppendResult(lists, Live, t, p, lists')
  BY <1>1, AppendEffect
<1>4. Linked(lists', Live')
  BY <1>1, <1>2, <1>3, AppendLinked
<1>5. ListsInv'
  BY <1>1, <1>2, <1>3, <1>4 DEF LinksOK, ListsInv, AppendResult, ListMem
<1>6. BitmapInv'
  BY <1>1, <1>3 DEF LinksOK, BitmapInv, AppendResult, ListMem, ListId
<1>7. lists' \in ListMem /\ status' \in [Task -> Status]
      /\ task_prior' \in [Task -> Prio] /\ bitmap' \subseteq Prio
  BY <1>3 DEF AppendResult, LinksOK, Status
<1>8. Elsewhere(Live \cup {t})
  BY <1>1, <1>3 DEF Elsewhere, AppendResult, ListMem
<1> QED BY <1>2, <1>3, <1>5, <1>6, <1>7, <1>8 DEF LinksOK, AppendResult

(* Unlinking a live task and clearing its bit if its ready list is empty    *)
(* keeps lists and bitmap in step (task.c:704-708, 1032-1036).              *)
LEMMA RemoveLinks ==
  ASSUME LinksOK, NEW t \in Live, NEW removed, removed = os_taskListRemove(lists, t)
  PROVE  /\ removed \in ListMem
         /\ removed.stuck = lists.stuck
         /\ removed.taskListHead = lists.taskListHead
         /\ Linked(removed, Live \ {t})
         /\ \A u \in Task \ Live : /\ removed.next[u] = lists.next[u]
                                  /\ removed.last[u] = lists.last[u]
         /\ \A p \in Prio : p \in ClearIfEmpty(removed, task_prior[t])
                              <=> removed.head[p] # NULL
<1>1. lists \in ListMem /\ Linked(lists, Live) /\ Live \in SUBSET Task
  BY DEF LinksOK, ListsInv, Live
<1>2. lists.taskListHead[t] \in ListId
  BY <1>1 DEF Linked, LinksAgree
<1>3. RemoveResult(lists, t, removed)
  BY <1>1, <1>2, RemoveEffect
<1>4. Linked(removed, Live \ {t})
  BY <1>1, <1>3, RemoveLinked
<1>5. \A p \in Prio : p # task_prior[t] => removed.head[p] = lists.head[p]
  BY <1>3 DEF RemoveResult, ListId, LinksOK, ListsInv
<1>6. \A p \in Prio : removed.head[p] # NULL => lists.head[p] # NULL
  BY <1>1, <1>3 DEF RemoveResult, ListId, Linked, LinksAgree
<1>7. \A p \in Prio : p \in ClearIfEmpty(removed, task_prior[t])
                        <=> removed.head[p] # NULL
  BY <1>5, <1>6 DEF ClearIfEmpty, LinksOK, BitmapInv
<1>8. \A u \in Task \ Live : /\ removed.next[u] = lists.next[u]
                           /\ removed.last[u] = lists.last[u]
  <2>1. t \in Task /\ lists.last[t] \in Live \cup {NULL} /\ lists.next[t] \in Live \cup {NULL}
    BY <1>1 DEF Linked, LinksAgree
  <2>2. \A u \in Task \ Live : u # lists.last[t] /\ u # lists.next[t]
    BY <2>1, ListsAssumption
  <2> QED BY <1>3, <2>2 DEF RemoveResult
<1> QED BY <1>3, <1>4, <1>7, <1>8 DEF RemoveResult

(* A due task moves from a delay list to its ready list (task.c:529-565).   *)
LEMMA WakeLinks ==
  ASSUME LinksOK, NEW t \in Live, lists.taskListHead[t] \in DelayList,
         lists' = AppendReady(os_taskListRemove(lists, t), t, task_prior[t]),
         bitmap' = bitmap \cup {task_prior[t]},
         UNCHANGED <<status, task_prior>>
  PROVE  /\ LinksOK'
         /\ Live' = Live
         /\ lists'.taskListHead = [lists.taskListHead EXCEPT ![t] = task_prior[t]]
         /\ Elsewhere(Live)
<1> DEFINE p == task_prior[t]
           removed == os_taskListRemove(lists, t)
<1>1. lists \in ListMem /\ Linked(lists, Live) /\ Live \in SUBSET Task
  BY DEF LinksOK, ListsInv, Live
<1>2. /\ lists.taskListHead[t] \in ListId \ Prio
      /\ p \in Prio /\ p \in ListId
  BY <1>1 DEF LinksOK, ListId, DelayList, DELAY1, DELAY2, Prio
<1>3. RemoveResult(lists, t, removed)
  BY <1>1, <1>2, RemoveEffect
<1>4. Linked(removed, Live \ {t}) /\ removed \in ListMem
  BY <1>1, <1>3, RemoveLinked DEF RemoveResult
<1>5. /\ removed.taskListHead = lists.taskListHead
      /\ removed.stuck = lists.stuck
      /\ \A u \in Task \ Live : /\ removed.next[u] = lists.next[u]
                               /\ removed.last[u] = lists.last[u]
  BY RemoveLinks
<1>6. \A r \in Prio : removed.head[r] = lists.head[r]
  BY <1>2, <1>3 DEF RemoveResult, ListId
<1>7. lists' = AppendReady(removed, t, p)
  OBVIOUS
<1> HIDE DEF removed
<1>8. AppendResult(removed, Live \ {t}, t, p, lists')
  BY <1>1, <1>2, <1>4, <1>7, AppendEffect
<1>9. Linked(lists', Live)
  <2>1. Linked(lists', (Live \ {t}) \cup {t})
    BY <1>1, <1>2, <1>4, <1>8, AppendLinked
  <2>2. (Live \ {t}) \cup {t} = Live
    OBVIOUS
  <2> QED BY <2>1, <2>2
<1>10. Live' = Live
  BY DEF Live
<1>11. /\ lists' \in ListMem
       /\ lists'.taskListHead = [lists.taskListHead EXCEPT ![t] = p]
       /\ lists'.stuck = lists.stuck
  BY <1>5, <1>8 DEF AppendResult
<1>12. ListsInv'
  BY <1>1, <1>2, <1>9, <1>10, <1>11 DEF LinksOK, ListsInv, ListMem
<1>13. BitmapInv'
  <2>1. \A r \in Prio \ {p} : lists'.head[r] = removed.head[r]
    BY <1>2, <1>4, <1>8 DEF AppendResult, ListMem, ListId
  <2>2. t # NULL /\ p \in DOMAIN removed.head
    BY <1>1, <1>2, <1>4, ListsAssumption DEF ListMem
  <2>3. lists'.head[p] # NULL
    BY <2>2, <1>8 DEF AppendResult
  <2> QED BY <1>2, <1>6, <2>1, <2>3 DEF LinksOK, BitmapInv
<1>14. Elsewhere(Live)
  <2>1. \A u \in Task \ Live : /\ lists'.next[u] = removed.next[u]
                             /\ lists'.last[u] = removed.last[u]
                             /\ lists'.taskListHead[u] = removed.taskListHead[u]
    <3>1. \A u \in Task \ Live : u \in Task \ ((Live \ {t}) \cup {t})
      OBVIOUS
    <3>2. Live \ {t} \in SUBSET Task
      BY <1>1
    <3> QED BY <1>1, <1>4, <1>8, <3>1, <3>2, AppendAside
  <2> QED BY <1>5, <2>1 DEF Elsewhere
<1> QED BY <1>2, <1>10, <1>11, <1>12, <1>13, <1>14 DEF LinksOK

(* The running task moves to a delay list (task.c:696-740).                 *)
LEMMA SleepLinks ==
  ASSUME LinksOK, NEW t \in Live, NEW L \in DelayList, NEW wake, NEW removed,
         removed = os_taskListRemove(lists, t),
         lists' = os_listInsertByDelay(removed, t, L, wake),
         bitmap' = ClearIfEmpty(removed, task_prior[t]),
         UNCHANGED <<status, task_prior>>
  PROVE  /\ LinksOK'
         /\ Live' = Live
         /\ lists'.taskListHead = [lists.taskListHead EXCEPT ![t] = L]
         /\ Elsewhere(Live)
<1>1. Live \in SUBSET Task /\ Live' = Live
  BY DEF Live
<1>2. L \in ListId \ Prio
  BY DEF ListId, DelayList, DELAY1, DELAY2, Prio
<1>3. /\ removed \in ListMem
      /\ removed.stuck = lists.stuck
      /\ removed.taskListHead = lists.taskListHead
      /\ Linked(removed, Live \ {t})
      /\ \A u \in Task \ Live : /\ removed.next[u] = lists.next[u]
                               /\ removed.last[u] = lists.last[u]
      /\ \A p \in Prio : p \in bitmap' <=> removed.head[p] # NULL
  BY RemoveLinks
<1>4. InsertResult(removed, Live \ {t}, t, L, wake, lists')
  BY <1>1, <1>3, InsertEffect
<1>5. Linked(lists', Live)
  <2>1. Linked(lists', (Live \ {t}) \cup {t})
    BY <1>1, <1>3, <1>4, InsertLinked
  <2>2. (Live \ {t}) \cup {t} = Live
    OBVIOUS
  <2> QED BY <2>1, <2>2
<1>6. /\ lists' \in ListMem
      /\ lists'.stuck = lists.stuck
      /\ lists'.taskListHead = [lists.taskListHead EXCEPT ![t] = L]
  BY <1>3, <1>4 DEF InsertResult
<1>7. ListsInv'
  BY <1>1, <1>2, <1>5, <1>6 DEF LinksOK, ListsInv, ListMem
<1>8. BitmapInv'
  <2>1. \A r \in Prio : lists'.head[r] = removed.head[r]
    BY <1>2, <1>3, <1>4 DEF InsertResult, ListMem, ListId
  <2> QED BY <1>3, <2>1 DEF BitmapInv
<1>9. bitmap' \subseteq Prio
  BY DEF ClearIfEmpty, LinksOK
<1>10. Elsewhere(Live)
  BY <1>1, <1>3, <1>4 DEF Elsewhere, InsertResult, ListMem, Linked, LinksAgree
<1> QED BY <1>1, <1>6, <1>7, <1>8, <1>9, <1>10 DEF LinksOK

(* A new task joins the lists, the bitmap and the count together            *)
(* (task.c:397-423).                                                        *)
LEMMA AddNewTaskInv ==
  ASSUME Inv, NEW t \in Task \ Live, NEW p \in Prio, AddNewTask(t, p)
  PROVE  /\ ListsInv' /\ BitmapInv' /\ TaskCount'
         /\ Live' = Live \cup {t}
         /\ lists' \in ListMem
         /\ lists'.taskListHead = [lists.taskListHead EXCEPT ![t] = p]
<1> USE DEF AddNewTask
<1>1. /\ LinksOK'
      /\ Live' = Live \cup {t}
      /\ lists'.taskListHead = [lists.taskListHead EXCEPT ![t] = p]
  BY LinksFromInv, AddTaskLinks
<1>2. TaskCount'
  <2>1. IsFiniteSet(Live)
    BY FS_Subset DEF Live
  <2>2. Cardinality(Live \cup {t}) = Cardinality(Live) + 1
    BY <2>1, FS_AddElement
  <2> QED BY <1>1, <2>2 DEF Inv, TaskCount, Live
<1> QED BY <1>1, <1>2 DEF LinksOK

(* os_initiNewTask brings every priority into range (task.c:191-196).       *)
LEMMA ClampPrio == \A arg \in Nat : Clamp(arg) \in Prio
BY DEF Clamp, Prio

(* main() creates a task before the scheduler runs.                         *)
LEMMA BootCreateInv == ASSUME Inv, NEW t \in Task, BootCreate(t) PROVE Inv'
<1> USE DEF BootCreate, tickVars, loopVars, callVars
<1>1. PICK arg \in PrioArgs : AddNewTask(t, Clamp(arg)) /\ BecomesCurrent(t, Clamp(arg))
  OBVIOUS
<1>2. Clamp(arg) \in Prio
  BY ClampPrio
<1>3. t \notin Live
  BY DEF Live
<1>4. /\ ListsInv' /\ BitmapInv' /\ TaskCount'
      /\ Live' = Live \cup {t}
      /\ lists' \in ListMem
      /\ lists'.taskListHead = [lists.taskListHead EXCEPT ![t] = Clamp(arg)]
  BY <1>1, <1>2, <1>3, AddNewTaskInv
<1>5. TypeOK'
  BY <1>1, <1>2, <1>4 DEF Inv, TypeOK, AddNewTask, BecomesCurrent, Ptr, Status
<1>6. RunInv' /\ SuspensionInv' /\ CallsInv'
  BY <1>1, <1>4 DEF Inv, TypeOK, BecomesCurrent, RunInv, SuspensionInv, CallsInv, Working, Suspending
<1> QED BY <1>4, <1>5, <1>6 DEF Inv

(* os_taskStartScheduler creates IDLE and starts (task.c:482-503).          *)
LEMMA StartInv == ASSUME Inv, Start PROVE Inv'
<1> USE DEF Start, tickVars, loopVars, callVars
<1>2. 0 \in Prio
  BY DEF Prio
<1>3. Idle \in Task \ Live
  BY DEF Inv, RunInv
<1>4. /\ ListsInv' /\ BitmapInv' /\ TaskCount'
      /\ Live' = Live \cup {Idle}
      /\ lists' \in ListMem
      /\ lists'.taskListHead = [lists.taskListHead EXCEPT ![Idle] = 0]
  BY <1>2, <1>3, AddNewTaskInv
<1>5. TypeOK'
  BY <1>2, <1>4 DEF Inv, TypeOK, AddNewTask, BecomesCurrent, Ptr, Status
<1>6. RunInv'
  BY <1>4 DEF Inv, TypeOK, ListMem, BecomesCurrent, RunInv
<1>7. SuspensionInv'
  <2>1. current' \in Task
    BY DEF Inv, RunInv, BecomesCurrent, Live
  <2> QED BY <2>1 DEF Inv, RunInv, SuspensionInv, Suspending
<1>8. CallsInv'
  BY DEF Inv, TypeOK, RunInv, CallsInv, Working
<1> QED BY <1>4, <1>5, <1>6, <1>7, <1>8 DEF Inv

(* A running task links the TCB it allocated.                               *)
LEMMA CreateLinkInv == ASSUME Inv, NEW t \in Task, CreateLink(t) PROVE Inv'
<1> USE DEF CreateLink, At, tickVars, swapVars, loopVars
<1>1. PICK arg \in PrioArgs : AddNewTask(other[t], Clamp(arg))
  OBVIOUS
<1>2. Clamp(arg) \in Prio
  BY ClampPrio
<1>3. other[t] \in Task \ Live /\ status[other[t]] = "new" /\ t \in Live
  BY DEF Inv, TypeOK, CallsInv, RunInv, Live, Ptr, Working
<1>4. /\ ListsInv' /\ BitmapInv' /\ TaskCount'
      /\ Live' = Live \cup {other[t]}
      /\ lists' \in ListMem
      /\ lists'.taskListHead = [lists.taskListHead EXCEPT ![other[t]] = Clamp(arg)]
  BY <1>1, <1>2, <1>3, AddNewTaskInv
<1>5. TypeOK'
  <2>1. pc' \in [Task -> Label]
    BY DEF Inv, TypeOK, Label
  <2> QED BY <1>1, <1>2, <1>4, <2>1 DEF Inv, TypeOK, AddNewTask, Ptr, Status
<1>6. RunInv' /\ SuspensionInv'
  BY <1>3, <1>4 DEF Inv, TypeOK, ListMem, RunInv, SuspensionInv, Suspending
<1>7. CallsInv'
  <2>1. \A u \in Task : Working(u)' => Working(u) /\ u # t /\ other[u] # other[t]
    BY <1>3 DEF Inv, TypeOK, RunInv, CallsInv, Working
  <2>2. \A u \in Task : Working(u)' => status'[other[u]] = status[other[u]]
    BY <1>1, <2>1 DEF Inv, TypeOK, AddNewTask
  <2>3. \A u \in Task \ {t} : pc'[u] = pc[u]
    BY <1>3 DEF Inv, TypeOK, RunInv
  <2> QED BY <1>3, <2>1, <2>2, <2>3 DEF Inv, TypeOK, RunInv, CallsInv, Working
<1> QED BY <1>4, <1>5, <1>6, <1>7 DEF Inv
-----------------------------------------------------------------------------
(* The counter stays within clock_t.                                        *)
LEMMA SumMod == ASSUME NEW a \in Int PROVE a % (MaxTick + 1) \in 0 .. MaxTick
OBVIOUS

(* The next due time stays within clock_t (task.c:440-453).                 *)
LEMMA ResetUnblockType ==
  ASSUME Inv, NEW m \in ListMem, NEW L \in ListId
  PROVE  ResetUnblock(m, L) \in 0 .. MaxTick
BY DEF Inv, TypeOK, ResetUnblock, ListMem, Ptr

(* The counter moves, and swaps the delay lists when it wraps               *)
(* (task.c:516-526).                                                        *)
LEMMA TickBeginInv ==
  ASSUME Inv, NEW m \in {"isr", "retick"}, TickBegin(m), running,
         m = "isr" => mode = "run" /\ suspended = 0,
         m = "retick" => mode = "resume" /\ pendedLeft > 0
  PROVE  Inv'
<1> USE DEF TickBegin, lifeVars, swapVars, callVars
<1>1. ListsInv' /\ BitmapInv' /\ TaskCount' /\ Live' = Live
  BY ListsFrame
<1>2. TypeOK'
  <2>1. Overflow \in DelayList /\ Overflow \in ListId
    BY DEF Overflow, DelayList, ListId
  <2>2. tickCount' \in 0 .. MaxTick
    BY SumMod DEF Inv, TypeOK
  <2>3. ResetUnblock(lists, Overflow) \in 0 .. MaxTick
    BY <2>1, ResetUnblockType DEF Inv, TypeOK
  <2> QED BY <2>1, <2>2, <2>3 DEF Inv, TypeOK, Mode
<1>3. RunInv' /\ SuspensionInv' /\ CallsInv'
  BY <1>1 DEF Inv, TypeOK, RunInv, SuspensionInv, CallsInv, Working, Suspending
<1> QED BY <1>1, <1>2, <1>3 DEF Inv

(* The tick interrupt, scheduler not suspended.                             *)
LEMMA SysTickInv == ASSUME Inv, SysTick PROVE Inv'
BY TickBeginInv DEF SysTick, SysTickEnabled

(* A pended tick is replayed (task.c:657-674).                              *)
LEMMA ResumeTickInv == ASSUME Inv, ResumeTick PROVE Inv'
<1>1. running
  BY DEF Inv, RunInv, ResumeTick
<1> QED BY <1>1, TickBeginInv DEF ResumeTick

(* What a tick leaves in os_nextTaskUnblockTime is a tick.                  *)
LEMMA TickEndType ==
  ASSUME Inv, NEW m, TickEnd(m)
  PROVE  nextUnblock' \in 0 .. MaxTick /\ switchReq' \in BOOLEAN
<1>1. ResetUnblock(lists, ptrDelay) \in 0 .. MaxTick
  BY ResetUnblockType DEF Inv, TypeOK, ListId
<1> QED BY <1>1 DEF TickEnd, Inv, TypeOK

(* What a tick returns is a truth value.                                    *)
LEMMA SwitchRequiredType == Inv => SwitchRequired \in BOOLEAN
BY DEF Inv, TypeOK, SwitchRequired

(* The tick interrupt returns.                                              *)
LEMMA SysTickEndInv == ASSUME Inv, SysTickEnd PROVE Inv'
<1> USE DEF SysTickEnd, listVars, lifeVars, callVars
<1>1. ListsInv' /\ BitmapInv' /\ TaskCount' /\ Live' = Live
  BY ListsFrame
<1>2. TypeOK'
  BY TickEndType, SwitchRequiredType DEF Inv, TypeOK, Mode
<1>3. RunInv' /\ SuspensionInv' /\ CallsInv'
  BY <1>1 DEF Inv, TypeOK, TickEnd, RunInv, SuspensionInv, CallsInv, Working, Suspending
<1> QED BY <1>1, <1>2, <1>3 DEF Inv

(* The replay of one tick ends.                                             *)
LEMMA ResumeTickEndInv == ASSUME Inv, ResumeTickEnd PROVE Inv'
<1> USE DEF ResumeTickEnd, listVars, lifeVars, callVars
<1>1. ListsInv' /\ BitmapInv' /\ TaskCount' /\ Live' = Live
  BY ListsFrame
<1>2. TypeOK'
  <2>1. nextUnblock' \in 0 .. MaxTick /\ switchReq' \in BOOLEAN
    BY TickEndType
  <2>2. yieldPending' \in BOOLEAN
    BY SwitchRequiredType
  <2>3. pendedLeft' \in Nat
    BY DEF TickEnd, Inv, TypeOK, SuspensionInv
  <2> QED BY <2>1, <2>2, <2>3 DEF Inv, TypeOK, Mode
<1>3. RunInv' /\ SuspensionInv' /\ CallsInv'
  BY <1>1 DEF Inv, TypeOK, TickEnd, RunInv, SuspensionInv, CallsInv, Working, Suspending
<1> QED BY <1>1, <1>2, <1>3 DEF Inv

(* Waking the head of the delay list keeps the invariant (task.c:529-565).   *)
LEMMA TickWakeInv == ASSUME Inv, TickWake PROVE Inv'
<1> DEFINE t == lists.head[ptrDelay]
           p == task_prior[t]
<1> USE DEF TickWake, lifeVars, tickVars, swapVars, callVars
<1>1. lists \in ListMem /\ Linked(lists, Live) /\ Live \in SUBSET Task
  BY DEF Inv, TypeOK, ListsInv, Live
<1>2. ptrDelay \in ListId /\ ptrDelay \notin Prio /\ ptrDelay \in DelayList
  BY DEF Inv, TypeOK, ListId, DelayList, DELAY1, DELAY2, Prio
<1>3. t \in Live /\ lists.taskListHead[t] = ptrDelay
  BY <1>1, <1>2 DEF Due, Linked, HeadsAgree
<1>4. p \in Prio
  BY <1>1, <1>3 DEF Inv, TypeOK
<1>5. /\ LinksOK'
      /\ Live' = Live
      /\ lists'.taskListHead = [lists.taskListHead EXCEPT ![t] = p]
  BY <1>2, <1>3, LinksFromInv, WakeLinks
<1>6. TaskCount'
  <2>1. status' = status /\ numberOfTasks' = numberOfTasks
    OBVIOUS
  <2> HIDE DEF TickWake
  <2> QED BY <2>1 DEF Inv, TaskCount
<1>7. TypeOK'
  <2>1. switchReq' \in BOOLEAN
    BY <1>3, <1>4 DEF Inv, TypeOK
  <2> QED BY <1>5, <2>1 DEF Inv, TypeOK, LinksOK
<1>8. RunInv' /\ SuspensionInv' /\ CallsInv'
  BY <1>1, <1>2, <1>3, <1>5 DEF Inv, TypeOK, RunInv, SuspensionInv, CallsInv, Working, Suspending, ListMem, Prio
<1> QED BY <1>5, <1>6, <1>7, <1>8 DEF Inv, LinksOK
-----------------------------------------------------------------------------
(* A set of natural numbers that is not empty has a least one.              *)
LEMMA NatMin ==
  ASSUME NEW S \in SUBSET Nat, S # {}
  PROVE  \E x \in S : \A y \in S : x <= y
<1>1. PICK n \in S : TRUE
  OBVIOUS
<1> DEFINE Below(x) == {y \in S : y <= x}
           Family == {Below(x) : x \in Below(n)}
<1>2. IsFiniteSet(0 .. n)
  BY FS_Interval
<1>3. ASSUME NEW x \in Below(n) PROVE Below(x) \subseteq 0 .. n
  <2> SUFFICES ASSUME NEW y \in Below(x) PROVE y \in 0 .. n
    OBVIOUS
  <2>1. x \in Nat /\ n \in Nat /\ x <= n /\ y \in Nat /\ y <= x
    OBVIOUS
  <2> QED BY <2>1
<1>4. Family \subseteq SUBSET (0 .. n) /\ Family # {}
  <2>1. n \in Below(n)
    OBVIOUS
  <2> HIDE DEF Below
  <2> QED BY <1>3, <2>1
<1>5. IsWellFoundedOn(StrictSubsetOrdering(0 .. n), SUBSET (0 .. n))
  BY <1>2, FS_StrictSubsetOrderingWellFounded, FS_FiniteSubsetsOfFinite, Zenon
<1>6. PICK B \in Family : \A C \in Family : <<C, B>> \notin StrictSubsetOrdering(0 .. n)
  <2> HIDE DEF Family
  <2> QED BY <1>4, <1>5, WFMin
<1>7. PICK x \in Below(n) : B = Below(x)
  BY <1>6
<1>8. ASSUME NEW y \in S, y < x PROVE FALSE
  <2>1. x \in Nat /\ y \in Nat /\ n \in Nat /\ x <= n /\ x \in S
    OBVIOUS
  <2>2. y \in Below(n) /\ x \in Below(x) /\ x \notin Below(y)
    BY <2>1, <1>8
  <2>3. ASSUME NEW z \in Below(y) PROVE z \in Below(x)
    <3>1. z \in S /\ z \in Nat /\ z <= y
      OBVIOUS
    <3> QED BY <3>1, <2>1, <1>8
  <2> HIDE DEF Below
  <2>4. Below(y) \in Family
    BY <2>2
  <2>5. <<Below(y), B>> \in StrictSubsetOrdering(0 .. n)
    BY <1>4, <1>6, <1>7, <2>2, <2>3, <2>4 DEF StrictSubsetOrdering
  <2> QED BY <1>6, <2>4, <2>5
<1> QED BY <1>7, <1>8

(* A bitmap that is not zero has a highest bit (GET_HIGHEST_PRIORITY).      *)
LEMMA HighestBit ==
  ASSUME NEW B \in SUBSET Prio, B # {}
  PROVE  \E p \in B : \A q \in B : q <= p
<1> DEFINE Gaps == {MaxPrio - p : p \in B}
<1>1. \A p \in B : p \in Int /\ 0 <= p /\ p < MaxPrio
  BY DEF Prio
<1>2. Gaps \in SUBSET Nat /\ Gaps # {}
  BY <1>1
<1>3. PICK g \in Gaps : \A h \in Gaps : g <= h
  <2> HIDE DEF Gaps
  <2> QED BY <1>2, NatMin
<1>4. PICK p \in B : g = MaxPrio - p
  BY <1>3
<1>5. ASSUME NEW q \in B PROVE q <= p
  <2>1. MaxPrio - p <= MaxPrio - q
    BY <1>3, <1>4
  <2> QED BY <1>1, <2>1
<1> QED BY <1>5

(* GET_HIGHEST_PRIORITY names a ready list with a head, which is live, as   *)
(* long as IDLE keeps bit 0 set.                                            *)
LEMMA TopReady ==
  ASSUME LinksOK, Idle \in Live, lists.taskListHead[Idle] = 0
  PROVE  /\ HighestReady \in Live
         /\ lists.taskListHead[HighestReady] \in bitmap
         /\ \A p \in bitmap : p <= lists.taskListHead[HighestReady]
<1> DEFINE top == CHOOSE p \in bitmap : \A r \in bitmap : r <= p
<1>1. lists \in ListMem /\ Linked(lists, Live) /\ Live \in SUBSET Task
  BY DEF LinksOK, ListsInv, Live
<1>2. lists.head[0] # NULL
  BY <1>1, LinkedMembers
<1>3. 0 \in bitmap
  BY <1>2 DEF LinksOK, BitmapInv, Prio
<1>4. \E p \in bitmap : \A r \in bitmap : r <= p
  BY <1>3, HighestBit DEF LinksOK
<1>5. top \in bitmap /\ \A r \in bitmap : r <= top
  BY <1>4
<1> HIDE DEF top
<1>6. top \in ListId /\ lists.head[top] # NULL
  BY <1>5 DEF LinksOK, BitmapInv, ListId
<1>7. HighestReady = lists.head[top]
  BY DEF HighestReady, top
<1> QED BY <1>1, <1>5, <1>6, <1>7 DEF Linked, HeadsAgree

(* The context switch finds a live task, of the highest priority in the     *)
(* bitmap (task.c:55-63, 592-605).                                          *)
LEMMA HighestReadyLive ==
  ASSUME Inv, running
  PROVE  /\ HighestReady \in Live
         /\ lists.taskListHead[HighestReady] \in bitmap
         /\ \A p \in bitmap : p <= lists.taskListHead[HighestReady]
BY LinksFromInv, TopReady DEF Inv, RunInv

(* The context switch, or its postponement while suspended.                 *)
LEMMA PendSVInv == ASSUME Inv, PendSV PROVE Inv'
<1> USE DEF PendSV, listVars, lifeVars, tickVars, loopVars, callVars
<1>1. ListsInv' /\ BitmapInv' /\ TaskCount' /\ Live' = Live
  BY ListsFrame
<1>2. suspended = 0 => current' \in Live
  BY HighestReadyLive
<1>3. current' \in Live /\ current' \in Task
  BY <1>2 DEF Inv, RunInv, Live
<1>4. TypeOK'
  BY <1>3 DEF Inv, TypeOK, Ptr
<1>5. RunInv' /\ CallsInv'
  BY <1>1, <1>3 DEF Inv, RunInv, CallsInv, Working
<1>6. SuspensionInv'
  BY <1>3 DEF Inv, RunInv, SuspensionInv
<1> QED BY <1>1, <1>4, <1>5, <1>6 DEF Inv
-----------------------------------------------------------------------------
(* The same of the whole invariant.                                         *)
LEMMA RemoveLive ==
  ASSUME Inv, NEW t \in Live, NEW removed, removed = os_taskListRemove(lists, t)
  PROVE  /\ removed \in ListMem
         /\ removed.stuck = lists.stuck
         /\ removed.taskListHead = lists.taskListHead
         /\ Linked(removed, Live \ {t})
         /\ \A p \in Prio : p \in ClearIfEmpty(removed, task_prior[t])
                              <=> removed.head[p] # NULL
BY LinksFromInv, RemoveLinks

(* os_addCurrentTaskToDelayedList moves the running task to a delay list    *)
(* (task.c:696-740).                                                        *)
LEMMA DelayAddInv == ASSUME Inv, NEW t \in Task, DelayAdd(t) PROVE Inv'
<1> DEFINE removed == os_taskListRemove(lists, t)
           time == TimeToWake(t)
           L == IF Wraps(time) THEN Overflow ELSE ptrDelay
           wake == [ticksToDelay EXCEPT ![t] = time]
<1>1. /\ running /\ mode = "run" /\ current = t /\ pc[t] = "delay"
      /\ bitmap' = ClearIfEmpty(removed, task_prior[t])
      /\ ticksToDelay' = wake
      /\ lists' = os_listInsertByDelay(removed, t, L, wake)
      /\ nextUnblock' = SoonerUnblock(time)
      /\ wait' = [wait EXCEPT ![t] = 0]
      /\ pc' = [pc EXCEPT ![t] = "resumeDelay"]
      /\ UNCHANGED <<task_prior, ptrDelay, status, numberOfTasks, running,
                     tickCount, pendedTicks, current, suspended, yieldPending,
                     pendSV, mode, pendedLeft, switchReq, heapCalls, other>>
  BY DEF DelayAdd, At, Goto, lifeVars, swapVars, loopVars
<1>2. t \in Live /\ t # Idle /\ Live \in SUBSET Task
  BY <1>1 DEF Inv, RunInv, Live
<1>3. time \in 0 .. MaxTick /\ nextUnblock' \in 0 .. MaxTick
  <2>1. tickCount + wait[t] \in Int
    BY DEF Inv, TypeOK
  <2>2. time \in 0 .. MaxTick
    BY <2>1, SumMod DEF TimeToWake
  <2> QED BY <1>1, <2>2 DEF Inv, TypeOK, SoonerUnblock
<1>4. L \in DelayList /\ L \notin Prio
  BY DEF Inv, TypeOK, Overflow, DelayList, DELAY1, DELAY2, Prio
<1> HIDE DEF removed, L, time
<1>5. /\ LinksOK'
      /\ Live' = Live
      /\ lists'.taskListHead = [lists.taskListHead EXCEPT ![t] = L]
  BY <1>1, <1>2, <1>4, LinksFromInv, SleepLinks DEF removed
<1>11. TaskCount'
  BY <1>1 DEF Inv, TaskCount
<1>12. TypeOK'
  <2>1. ticksToDelay' \in [Task -> 0 .. MaxTick] /\ wait' \in [Task -> 0 .. MaxTick]
    BY <1>1, <1>3 DEF Inv, TypeOK
  <2>2. pc' \in [Task -> Label]
    BY <1>1 DEF Inv, TypeOK, Label
  <2> QED BY <1>1, <1>3, <1>5, <2>1, <2>2 DEF Inv, TypeOK, LinksOK
<1>13. RunInv'
  BY <1>1, <1>2, <1>5 DEF Inv, TypeOK, RunInv, ListMem
<1>14. SuspensionInv' /\ CallsInv'
  BY <1>1, <1>2 DEF Inv, TypeOK, SuspensionInv, CallsInv, Working, Suspending
<1> QED BY <1>5, <1>11, <1>12, <1>13, <1>14 DEF Inv, LinksOK

(* os_taskDelete takes another task off its list (task.c:1023-1060).        *)
LEMMA DeleteInv == ASSUME Inv, NEW t \in Task, Delete(t) PROVE Inv'
<1>1. PICK victim \in Task \ {t, Idle} :
        /\ running /\ mode = "run" /\ current = t /\ pc[t] = "user"
        /\ status[victim] = "live"
        /\ lists' = os_taskListRemove(lists, victim)
        /\ bitmap' = ClearIfEmpty(lists', task_prior[victim])
        /\ numberOfTasks' = numberOfTasks - 1
        /\ nextUnblock' = ResetUnblock(lists', ptrDelay)
        /\ status' = [status EXCEPT ![victim] = "dead"]
        /\ heapCalls' = [heapCalls EXCEPT ![t] = 2, ![victim] = 0]
        /\ other' = [other EXCEPT ![t] = victim, ![victim] = NULL]
        /\ pc' = [pc EXCEPT ![t] = "heap", ![victim] = "user"]
        /\ t # Idle
        /\ UNCHANGED <<task_prior, ticksToDelay, ptrDelay, running, tickCount,
                       pendedTicks, current, suspended, yieldPending, pendSV,
                       mode, pendedLeft, switchReq, wait>>
  BY DEF Delete, At, swapVars, loopVars
<1>2. victim \in Live /\ t \in Live /\ Live \in SUBSET Task
  BY <1>1 DEF Inv, RunInv, Live
<1>3. Live' = Live \ {victim}
  BY <1>1 DEF Live, Inv, TypeOK
<1>4. /\ lists' \in ListMem
      /\ lists'.stuck = lists.stuck
      /\ lists'.taskListHead = lists.taskListHead
      /\ Linked(lists', Live')
      /\ \A p \in Prio : p \in bitmap' <=> lists'.head[p] # NULL
  BY <1>1, <1>2, <1>3, RemoveLive
<1>5. ListsInv' /\ BitmapInv'
  BY <1>1, <1>3, <1>4 DEF Inv, ListsInv, BitmapInv
<1>6. TaskCount'
  <2>1. IsFiniteSet(Live)
    BY FS_Subset DEF Live
  <2>2. Cardinality(Live \ {victim}) = Cardinality(Live) - 1
    BY <1>2, <2>1, FS_RemoveElement
  <2> QED BY <1>1, <1>3, <2>2 DEF Inv, TaskCount, Live
<1>7. TypeOK'
  <2>1. bitmap' \subseteq Prio
    BY <1>1 DEF ClearIfEmpty, Inv, TypeOK
  <2>2. nextUnblock' \in 0 .. MaxTick
    BY <1>1, <1>4, ResetUnblockType DEF Inv, TypeOK, ListId
  <2>3. /\ status' \in [Task -> Status]
        /\ heapCalls' \in [Task -> 0 .. 3]
        /\ other' \in [Task -> Ptr]
        /\ pc' \in [Task -> Label]
    BY <1>1 DEF Inv, TypeOK, Status, Ptr, Label
  <2> QED BY <1>1, <1>4, <2>1, <2>2, <2>3 DEF Inv, TypeOK
<1>8. RunInv' /\ SuspensionInv'
  BY <1>1, <1>2, <1>3, <1>4 DEF Inv, TypeOK, RunInv, SuspensionInv, Suspending
<1>9. CallsInv'
  BY <1>1, <1>2 DEF Inv, TypeOK, CallsInv, Working, Status
<1> QED BY <1>5, <1>6, <1>7, <1>8, <1>9 DEF Inv
-----------------------------------------------------------------------------
(* The part of the inductive invariant that is inductive on its own: types, *)
(* links, bitmap, the running task, the suspension count and the TCBs under *)
(* creation or deletion. Every action of the kernel preserves it.           *)
THEOREM InvHolds == Spec => []Inv
<1>1. Init => Inv
  BY InitInv
<1>2. Inv /\ [Next]_vars => Inv'
  <2> SUFFICES ASSUME Inv, [Next]_vars PROVE Inv'
    OBVIOUS
  <2>1. CASE Boot
    BY <2>1, BootCreateInv, StartInv DEF Boot
  <2>2. CASE \E t \in Task : Call(t)
    BY <2>2, DelayZeroInv, DelayCallInv, CreateCallInv, DeleteInv DEF Call
  <2>3. CASE \E t \in Task : Kernel(t)
    BY <2>3, DelayAddInv, DelayTriggerInv, ResumeEnterInv, ResumeExitInv, HeapCallInv,
       HeapDoneInv, CreateLinkInv, CreateYieldInv DEF Kernel
  <2>4. CASE Tick \/ InTick \/ PendSV
    BY <2>4, SysTickInv, SysTickPendedInv, TickWakeInv, SysTickEndInv,
       ResumeTickInv, ResumeTickEndInv, PendSVInv DEF Tick, InTick
  <2>5. CASE UNCHANGED vars
    <3> USE <2>5 DEF vars, listVars, lifeVars, tickVars, swapVars, loopVars, callVars
    <3>1. ListsInv' /\ BitmapInv' /\ TaskCount' /\ Live' = Live
      BY ListsFrame
    <3>2. TypeOK'
      BY DEF Inv, TypeOK
    <3>3. RunInv' /\ SuspensionInv' /\ CallsInv'
      BY <3>1 DEF Inv, RunInv, SuspensionInv, CallsInv, Working
    <3> QED BY <3>1, <3>2, <3>3 DEF Inv
  <2> QED BY <2>1, <2>2, <2>3, <2>4, <2>5 DEF Next
<1> QED BY <1>1, <1>2, PTL DEF Spec

(* Every variable keeps its type; in particular os_tickCount and the due    *)
(* times stay within clock_t, and os_currentTCB is never more than a TCB or *)
(* null.                                                                    *)
THEOREM TypeCorrect == Spec => []TypeOK
BY InvHolds, PTL DEF Inv

(* Links that agree and have no cycle are intact lists.                     *)
LEMMA IntactFromLinks == LinksOK => ListsIntact
<1> SUFFICES ASSUME LinksOK PROVE ListsIntact
  OBVIOUS
<1>1. lists \in ListMem /\ Linked(lists, Live) /\ Live \in SUBSET Task
  BY DEF LinksOK, ListsInv, Live
<1>2. ASSUME NEW L \in ListId
      PROVE  /\ ~Endless(lists, lists.head[L], Task)
             /\ lists.head[L] # NULL => lists.last[lists.head[L]] = NULL
             /\ \A t \in Members(lists, L) :
                  /\ status[t] = "live"
                  /\ lists.taskListHead[t] = L
                  /\ lists.next[t] # NULL => lists.last[lists.next[t]] = t
  <2>1. /\ ~Endless(lists, lists.head[L], Task)
        /\ \A t \in Members(lists, L) : t \in Live /\ lists.taskListHead[t] = L
    BY <1>1, ListMembers
  <2> QED BY <1>1, <2>1 DEF Live, Linked, LinksAgree, HeadsAgree
<1>3. \A t \in Task : status[t] = "live" => OnList(t, lists.taskListHead[t])
  BY <1>1, LinkedMembers DEF OnList, Live
<1> QED BY <1>2, <1>3 DEF ListsIntact, LinksOK, ListsInv

(* The task lists are never corrupted: every live task is on exactly the    *)
(* list its taskListHead names, forward and backward links agree, no list   *)
(* is circular, and no traversal of task.c:214-387 fails to end.            *)
THEOREM ListsAlwaysIntact == Spec => []ListsIntact
BY InvHolds, LinksFromInv, IntactFromLinks, PTL

(* The bitmap is exact and a ready list holds tasks of its priority.        *)
LEMMA BitmapFromLinks == LinksOK => BitmapExact
<1> SUFFICES ASSUME LinksOK, NEW p \in Prio
             PROVE  /\ p \in bitmap <=> lists.head[p] # NULL
                    /\ \A t \in Members(lists, p) : task_prior[t] = p
  BY DEF BitmapExact
<1>1. lists \in ListMem /\ Linked(lists, Live) /\ Live \in SUBSET Task /\ p \in ListId
  BY DEF LinksOK, ListsInv, Live, ListId
<1>2. \A t \in Members(lists, p) : t \in Live /\ lists.taskListHead[t] = p
  BY <1>1, ListMembers
<1> QED BY <1>2 DEF LinksOK, BitmapInv, ListsInv

(* os_priorityBitmap has a bit set exactly for the ready lists that hold a  *)
(* task, so that the context switch (task.c:55-63) finds a task to run.     *)
THEOREM BitmapAlwaysExact == Spec => []BitmapExact
BY InvHolds, LinksFromInv, BitmapFromLinks, PTL

(* os_currentNumberOfTasks is the number of live tasks.                     *)
THEOREM TasksCounted == Spec => []TaskCount
BY InvHolds, PTL DEF Inv

(* The suspension count says where the running task is.                     *)
LEMMA BalancedFromInv == Inv => SuspensionBalanced
BY DEF Inv, SuspensionInv, SuspensionBalanced

(* os_schedulerSuspended is 1 exactly while the running task is between the *)
(* two ends of a suspended section, and 0 in handlers and for everyone      *)
(* else.                                                                    *)
THEOREM AlwaysBalanced == Spec => []SuspensionBalanced
BY InvHolds, BalancedFromInv, PTL
=============================================================================
