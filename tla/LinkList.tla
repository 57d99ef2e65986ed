------------------------------ MODULE LinkList ------------------------------
(***************************************************************************)
(* linklist/linklist.c.  The program keeps pointers to nodes and passes    *)
(* only those that are in the list.  `order' is what linklist.h says of    *)
(* the list; the pointers are what linklist.c does.  linklist_free goes    *)
(* from node to node and counts; afterwards the program makes a new list.  *)
(***************************************************************************)
EXTENDS Integers, Sequences, SequencesExt, Pointers

CONSTANT ListNode  \* the addresses malloc can return for a struct list_node

ASSUME ListNodeAssumption ==
  NULL \notin ListNode /\ WILD \notin ListNode /\ NULL # WILD

VARIABLES
  order,    \* the nodes in the order that the calls ask for
  head,     \* list->head
  tail,     \* list->tail
  prev,     \* the prev pointer of every node
  next,     \* its next pointer
  len,      \* list->len
  freeing,  \* whether linklist_free is running
  current,  \* its current node
  left      \* its counter

pointerVars == <<head, tail, prev, next>>
freeVars == <<freeing, current, left>>
linkVars == <<order, pointerVars, len, freeVars>>

linklist_new == head = NULL /\ tail = NULL /\ len = 0

ListInit ==
  /\ linklist_new
  /\ order = <<>>
  /\ prev = [n \in ListNode |-> WILD]
  /\ next = [n \in ListNode |-> WILD]
  /\ freeing = FALSE /\ current = NULL /\ left = 0

Allocated == {n \in ListNode : prev[n] # WILD}

\* What malloc returns; where it fails the functions return NULL.
Fresh(n) == ~freeing /\ n \notin Allocated
-----------------------------------------------------------------------------
linklist_add_head(n) ==
  /\ Fresh(n)
  /\ order' = <<n>> \o order
  /\ head' = n
  /\ IF len = 0
       THEN /\ tail' = n
            /\ prev' = [prev EXCEPT ![n] = NULL]
            /\ next' = [next EXCEPT ![n] = NULL]
       ELSE /\ prev' = [prev EXCEPT ![n] = NULL, ![head] = n]
            /\ next' = [next EXCEPT ![n] = head]
            /\ UNCHANGED tail
  /\ len' = len + 1
  /\ UNCHANGED freeVars

linklist_add_tail(n) ==
  /\ Fresh(n)
  /\ order' = Append(order, n)
  /\ tail' = n
  /\ IF len = 0
       THEN /\ head' = n
            /\ prev' = [prev EXCEPT ![n] = NULL]
            /\ next' = [next EXCEPT ![n] = NULL]
       ELSE /\ prev' = [prev EXCEPT ![n] = tail]
            /\ next' = [next EXCEPT ![n] = NULL, ![tail] = n]
            /\ UNCHANGED head
  /\ len' = len + 1
  /\ UNCHANGED freeVars

\* The place of a node, the list without the node, and the list that has n
\* next to the node.
Place(s, node) == CHOOSE j \in DOMAIN s : s[j] = node
Without(s, node) == RemoveAt(s, Place(s, node))
Beside(s, n, node, after) ==
  InsertAt(s, IF after THEN Place(s, node) + 1 ELSE Place(s, node), n)

\* The function f with the value v for n, unless n is NULL.
SetUnlessNull(f, n, v) == IF n = NULL THEN f ELSE [f EXCEPT ![n] = v]

\* Mutant: list->tail is not looked at.
InsertKeepsTail(n, node, after) ==
  LET p == IF after THEN node ELSE prev[node]
      q == IF after THEN next[node] ELSE node
  IN  /\ tail' = tail
      /\ head' = IF ~after /\ head = node THEN n ELSE head
      /\ prev' = SetUnlessNull([prev EXCEPT ![n] = p], q, n)
      /\ next' = SetUnlessNull([next EXCEPT ![n] = q], p, n)

\* The pointers that linklist_insert_node sets.
InsertLinks(n, node, after) ==
  LET p == IF after THEN node ELSE prev[node]
      q == IF after THEN next[node] ELSE node
  IN  /\ tail' = IF after /\ tail = node THEN n ELSE tail
      /\ head' = IF ~after /\ head = node THEN n ELSE head
      /\ prev' = SetUnlessNull([prev EXCEPT ![n] = p], q, n)
      /\ next' = SetUnlessNull([next EXCEPT ![n] = q], p, n)

linklist_insert_node(n, node, after) ==
  /\ Fresh(n)
  /\ node \in Allocated
  /\ order' = Beside(order, n, node, after)
  /\ InsertLinks(n, node, after)
  /\ len' = len + 1
  /\ UNCHANGED freeVars

\* How linklist_move_node and linklist_delete_node take a node out.
HeadWithout(n) == IF prev[n] # NULL THEN head ELSE next[n]
TailWithout(n) == IF next[n] # NULL THEN tail ELSE prev[n]
PrevWithout(n) == SetUnlessNull(prev, next[n], prev[n])
NextWithout(n) == SetUnlessNull(next, prev[n], next[n])

linklist_delete_node(n) ==
  /\ ~freeing
  /\ n \in Allocated
  /\ order' = Without(order, n)
  /\ head' = HeadWithout(n)
  /\ tail' = TailWithout(n)
  /\ prev' = [PrevWithout(n) EXCEPT ![n] = WILD]
  /\ next' = [NextWithout(n) EXCEPT ![n] = WILD]
  /\ len' = len - 1
  /\ UNCHANGED freeVars

\* src is taken out, and its own pointers lead to its new neighbours.
linklist_move_node(src, dst, after) ==
  /\ ~freeing
  /\ {src, dst} \subseteq Allocated
  /\ src # dst
  /\ order' = Beside(Without(order, src), src, dst, after)
  /\ tail' = IF after /\ TailWithout(src) = dst THEN src ELSE TailWithout(src)
  /\ head' = IF ~after /\ HeadWithout(src) = dst THEN src ELSE HeadWithout(src)
  /\ prev' = [PrevWithout(src) EXCEPT
                ![src] = IF after THEN dst ELSE PrevWithout(src)[dst]]
  /\ next' = [NextWithout(src) EXCEPT
                ![src] = IF after THEN NextWithout(src)[dst] ELSE dst]
  /\ UNCHANGED <<len, freeVars>>

linklist_free ==
  /\ ~freeing
  /\ freeing' = TRUE
  /\ current' = head
  /\ left' = len
  /\ UNCHANGED <<order, pointerVars, len>>

\* while(len--) frees the current node,
ListFreeNode ==
  /\ freeing
  /\ left > 0
  /\ order' = Tail(order)
  /\ current' = next[current]
  /\ prev' = [prev EXCEPT ![current] = WILD]
  /\ next' = [next EXCEPT ![current] = WILD]
  /\ left' = left - 1
  /\ UNCHANGED <<head, tail, len, freeing>>

\* and ends; the program makes a new list.
ListFreeReturns ==
  /\ freeing
  /\ left = 0
  /\ freeing' = FALSE
  /\ current' = NULL
  /\ head' = NULL /\ tail' = NULL /\ len' = 0
  /\ UNCHANGED <<order, prev, next, left>>

ListNext ==
  \/ \E n \in ListNode :
       \/ linklist_add_head(n)
       \/ linklist_add_tail(n)
       \/ linklist_delete_node(n)
       \/ \E node \in ListNode, after \in BOOLEAN :
            linklist_insert_node(n, node, after)
  \/ linklist_free
  \/ ListFreeNode
  \/ ListFreeReturns

\* Programs that move no node.
ListSpec == ListInit /\ [][ListNext]_linkVars

\* Programs that move nodes as well.
MoveNext ==
  ListNext \/ \E src, dst \in ListNode, after \in BOOLEAN :
                linklist_move_node(src, dst, after)
ListMoveSpec == ListInit /\ [][MoveNext]_linkVars
-----------------------------------------------------------------------------
(* Properties.                                                             *)

At(j) == IF j \in DOMAIN order THEN order[j] ELSE NULL

\* The pointers say what linklist.h says: in both directions they lead
\* through the nodes in the order the calls ask for, from list->head to
\* list->tail and to NULL, list->len counts the nodes, and linklist_free, which
\* trusts the counter, frees every node, each one once, and nothing else.
ListLinked ==
  /\ \A j \in DOMAIN order :
       next[order[j]] = At(j + 1) /\ (freeing \/ prev[order[j]] = At(j - 1))
  /\ Allocated = Range(order)
  /\ IF freeing
       THEN left = Len(order) /\ current = At(1)
       ELSE len = Len(order) /\ head = At(1) /\ tail = At(Len(order))
-----------------------------------------------------------------------------
\* The inductive invariant behind the theorem about ListLinked: what it says,
\* the types, and that no node is twice in the list.
LinkInv ==
  /\ ListLinked
  /\ order \in Seq(ListNode)
  /\ \A i, j \in DOMAIN order : order[i] = order[j] => i = j
  /\ prev \in [ListNode -> ListNode \union {NULL, WILD}]
  /\ next \in [ListNode -> ListNode \union {NULL, WILD}]
  /\ freeing \in BOOLEAN
=============================================================================
