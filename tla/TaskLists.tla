------------------------------ MODULE TaskLists ------------------------------
(***************************************************************************)
(* The task lists of the kernel (task.c:211-387, task.h:10-25): doubly      *)
(* linked lists threaded through the task control blocks.  A TCB has one    *)
(* pair of task links (next, last), so it can be on one of these lists at   *)
(* a time, and a pointer taskListHead to the variable that holds the head   *)
(* of the list it was put on.                                               *)
(*                                                                         *)
(* The memory those pointers live in is one record, and each function of    *)
(* the source is an operator from such a record to the record it leaves,    *)
(* so that an action composes the calls of a handler in the order of the    *)
(* source.  A link is followed exactly as the code follows it: what is      *)
(* reachable from a head, and not an idealised sequence, is the list.       *)
(***************************************************************************)
EXTENDS Integers

CONSTANTS
  Task,      (* the task control blocks                                      *)
  NULL,      (* the null pointer                                             *)
  MaxPrio    (* configMAX_PRIORITIES                                         *)

ASSUME ListsAssumption ==
  /\ NULL \notin Task
  /\ MaxPrio \in Nat \ {0}

Prio == 0 .. MaxPrio - 1

(***************************************************************************)
(* The list heads, by the address of the variable that holds them: the      *)
(* ready list of priority p is os_readyTasksLists[p] and has address p.     *)
(***************************************************************************)
DELAY1 == -1         (* &os_delayTaskList1 *)
DELAY2 == -2         (* &os_delayTaskList2 *)
NoList == -3         (* a null taskListHead *)

DelayList == {DELAY1, DELAY2}
ListId == Prio \cup DelayList
Ptr == Task \cup {NULL}

ListMem ==
  [ head         : [ListId -> Ptr],
    next         : [Task -> Ptr],
    last         : [Task -> Ptr],
    taskListHead : [Task -> ListId \cup {NoList}],
    stuck        : BOOLEAN ]    (* a traversal entered a cycle and never returns *)

EmptyLists ==
  [ head         |-> [L \in ListId |-> NULL],
    next         |-> [t \in Task |-> NULL],
    last         |-> [t \in Task |-> NULL],
    taskListHead |-> [t \in Task |-> NoList],
    stuck        |-> FALSE ]

-----------------------------------------------------------------------------
(***************************************************************************)
(* The nodes a traversal from h visits when it advances only while the      *)
(* node under the cursor is in S: the least set that holds h and is closed  *)
(* under next within S.                                                     *)
(***************************************************************************)
Visited(m, h, S) ==
  {t \in S : \A R \in SUBSET S :
               /\ h \in S => h \in R
               /\ \A u \in R : m.next[u] \in S => m.next[u] \in R
               => t \in R}

(* The node after which the traversal stops: none if the list is circular. *)
Stops(m, h, S) == {u \in Visited(m, h, S) : m.next[u] \notin S}

(* `while (temp->next != NULL)` or its sorted variant never ends. *)
Endless(m, h, S) == Visited(m, h, S) # {} /\ Stops(m, h, S) = {}

Members(m, L) == Visited(m, m.head[L], Task)

-----------------------------------------------------------------------------
(***************************************************************************)
(* os_taskListRemove(t, eTASK): unlink t.  Without a predecessor it is the  *)
(* head of *taskListHead that is overwritten, whatever list t is on.        *)
(***************************************************************************)
BackLinkKept(m, t) ==                         \* mutant: next->last not updated
  IF m.last[t] # NULL
    THEN [m EXCEPT !.next[m.last[t]] = m.next[t]]
    ELSE [m EXCEPT !.head[m.taskListHead[t]] = m.next[t]]

os_taskListRemove(m, t) ==
  LET n == m.next[t]
      l == m.last[t]
      m1 == IF l # NULL
              THEN [m EXCEPT !.next[l] = n]
              ELSE [m EXCEPT !.head[m.taskListHead[t]] = n]
  IN  IF n # NULL THEN [m1 EXCEPT !.last[n] = l] ELSE m1

(***************************************************************************)
(* os_addTaskToReadyList(t), its list part: append t to the ready list of   *)
(* priority p.                                                              *)
(***************************************************************************)
AppendReady(m, t, p) ==
  LET m0   == [m EXCEPT !.taskListHead[t] = p]
      tail == CHOOSE u \in Stops(m, m.head[p], Task) : TRUE
  IN  IF m.head[p] = NULL
        THEN [m0 EXCEPT !.head[p] = t, !.next[t] = NULL, !.last[t] = NULL]
        ELSE IF Endless(m, m.head[p], Task)
          THEN [m0 EXCEPT !.stuck = TRUE]
          ELSE [m0 EXCEPT !.next = [m.next EXCEPT ![tail] = t, ![t] = NULL],
                          !.last[t] = tail]

(***************************************************************************)
(* os_listInsertByDelay(t, L): insert t before the first node whose         *)
(* ticksToDelay (wake) is greater, hence behind the nodes of equal time.    *)
(***************************************************************************)
InsertAtHead(m, t, L, wake) ==                (* mutant: due times not compared *)
  LET first == m.head[L]
      m1 == [m EXCEPT !.taskListHead[t] = L, !.head[L] = t,
                      !.next[t] = first, !.last[t] = NULL]
  IN  IF first = NULL THEN m1 ELSE [m1 EXCEPT !.last[first] = t]

os_listInsertByDelay(m, t, L, wake) ==
  LET m0      == [m EXCEPT !.taskListHead[t] = L]
      first   == m.head[L]
      Earlier == {u \in Task : wake[u] <= wake[t]}
      prev    == CHOOSE u \in Stops(m, first, Earlier) : TRUE
      temp    == m.next[prev]
      m1      == [m0 EXCEPT !.next = [m.next EXCEPT ![t] = temp, ![prev] = t],
                            !.last[t] = prev]
  IN  IF first = NULL
        THEN [m0 EXCEPT !.head[L] = t, !.next[t] = NULL, !.last[t] = NULL]
        ELSE IF first \notin Earlier
          THEN [m0 EXCEPT !.head[L] = t, !.next[t] = first,
                          !.last = [m.last EXCEPT ![first] = t, ![t] = NULL]]
          ELSE IF Endless(m, first, Earlier)
            THEN [m0 EXCEPT !.stuck = TRUE]
            ELSE IF temp = NULL THEN m1 ELSE [m1 EXCEPT !.last[temp] = t]

-----------------------------------------------------------------------------
(***************************************************************************)
(* The tasks of S, and no others, are on the lists: each knows its list,    *)
(* the links in both directions agree, and no part of a list is a cycle.    *)
(***************************************************************************)
LinksAgree(m, S) ==
  \A t \in S :
    /\ m.taskListHead[t] \in ListId
    /\ m.next[t] # NULL =>
         /\ m.next[t] \in S
         /\ m.last[m.next[t]] = t
         /\ m.taskListHead[m.next[t]] = m.taskListHead[t]
    /\ m.last[t] # NULL =>
         /\ m.last[t] \in S
         /\ m.next[m.last[t]] = t
         /\ m.taskListHead[m.last[t]] = m.taskListHead[t]
    /\ m.last[t] = NULL => m.head[m.taskListHead[t]] = t

HeadsAgree(m, S) ==
  \A L \in ListId : m.head[L] # NULL =>
    /\ m.head[L] \in S
    /\ m.last[m.head[L]] = NULL
    /\ m.taskListHead[m.head[L]] = L

NoCycle(link, S) == \A R \in SUBSET S : R # {} => \E u \in R : link[u] \notin R

Linked(m, S) ==
  /\ LinksAgree(m, S)
  /\ HeadsAgree(m, S)
  /\ NoCycle(m.next, S)
  /\ NoCycle(m.last, S)
=============================================================================
