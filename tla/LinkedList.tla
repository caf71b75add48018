----------------------------- MODULE LinkedList -----------------------------
(***************************************************************************)
(* linked_list_advanced/include/ll.h: an intrusive circular doubly linked  *)
(* list.  next and prev are the two pointers of every struct list_item;    *)
(* order is what a caller who believes the function names thinks the list  *)
(* holds.  A caller adds an item that is not in the list next to one that  *)
(* is (or next to the head), and deletes an item that is.                  *)
(***************************************************************************)
EXTENDS Integers, SequencesExt

CONSTANTS Item,   \* the list_item structs a caller may insert
          head,   \* the standalone list_item of the list itself
          NULL

ASSUME ListAssumption == head \notin Item /\ NULL \notin Item /\ head # NULL

VARIABLES next, prev,  \* the links
          order,       \* the items in the caller's mind, first to last
          deleted,     \* ll_del has been called
          misled       \* a call has followed a prev link left wrong by ll_del

vars == <<next, prev, order, deleted, misled>>

Node == Item \cup {head}

\* The i-th node of the ring that starts and ends at the head.
At(s, i) == IF i \in 1 .. Len(s) THEN s[i] ELSE head

\* ll_init_list(head); the links of an item that was never inserted are zero.
Init == /\ next = [n \in Node |-> IF n = head THEN head ELSE NULL]
        /\ prev = [n \in Node |-> IF n = head THEN head ELSE NULL]
        /\ order = <<>>
        /\ deleted = FALSE
        /\ misled = FALSE
-----------------------------------------------------------------------------
(* The operations, with the assignments of the C code in their order. *)

\* Mutant: the new item's own links are set after its neighbours' links, from
\* the neighbour that has just been changed.
__ll_add_LateNext(new_item, p, n) ==
  /\ next' = [next EXCEPT ![new_item] = new_item, ![p] = new_item]
  /\ prev' = [prev EXCEPT ![new_item] = p, ![n] = new_item]

__ll_add(new_item, p, n) ==
  /\ next' = [next EXCEPT ![new_item] = n, ![p] = new_item]
  /\ prev' = [prev EXCEPT ![new_item] = p, ![n] = new_item]

\* Insert x as the i-th item.
ll_add(x, i) == /\ x \in Item \ ToSet(order)
                /\ __ll_add(x, At(order, i - 1), next[At(order, i - 1)])
                /\ order' = InsertAt(order, i, x)
                /\ UNCHANGED <<deleted, misled>>

\* The prev link of the i-th node is not its predecessor.
Spoilt(i) == prev[At(order, i)] # At(order, i - 1)

ll_add_tail(x, i) == /\ x \in Item \ ToSet(order)
                     /\ __ll_add(x, prev[At(order, i)], At(order, i))
                     /\ order' = InsertAt(order, i, x)
                     /\ misled' = (misled \/ Spoilt(i))
                     /\ UNCHANGED deleted

\* Mutant: the following node is linked back to the deleted one.
__ll_del_BackToDeleted(p, n, d) ==
  /\ next' = [next EXCEPT ![p] = n, ![d] = NULL]
  /\ prev' = [prev EXCEPT ![n] = d, ![d] = NULL]

\* __ll_del and the two assignments of NULL that follow it in ll_del.  The
\* following node is made to point back at itself.
__ll_del(p, n, d) == /\ next' = [next EXCEPT ![p] = n, ![d] = NULL]
                     /\ prev' = [prev EXCEPT ![n] = n, ![d] = NULL]

ll_del(i) == /\ __ll_del(prev[order[i]], next[order[i]], order[i])
             /\ order' = RemoveAt(order, i)
             /\ deleted' = TRUE
             /\ misled' = (misled \/ Spoilt(i))

ll_is_empty == next[head] = head

Next == \/ \E x \in Item, i \in 1 .. Len(order) + 1 : ll_add(x, i) \/ ll_add_tail(x, i)
        \/ \E i \in 1 .. Len(order) : ll_del(i)

Spec == Init /\ [][Next]_vars
-----------------------------------------------------------------------------
(* Properties. *)

\* Types; a node of the list never has a NULL link, so no operation of the
\* header dereferences NULL.
TypeOK == /\ next \in [Node -> Node \cup {NULL}]
          /\ prev \in [Node -> Node \cup {NULL}]
          /\ order \in Seq(Item)
          /\ deleted \in BOOLEAN
          /\ misled \in BOOLEAN
          /\ \A i \in 0 .. Len(order) : /\ next[At(order, i)] # NULL
                                        /\ prev[At(order, i)] # NULL

Distinct(s) == \A i, j \in 1 .. Len(s) : s[i] = s[j] => i = j

InOrder(nx, s) == \A i \in 0 .. Len(s) : nx[At(s, i)] = At(s, i + 1)

\* Following next from the head visits the items in the order of the calls,
\* and ll_is_empty is right, until a call reads a prev link that ll_del spoilt.
ForwardOrder == ~misled => /\ InOrder(next, order)
                           /\ Distinct(order)
                           /\ ll_is_empty <=> order = <<>>

\* Before the first ll_del the list can be walked backwards as well.
BackwardOrder ==
  ~deleted => \A i \in 1 .. Len(order) + 1 : prev[At(order, i)] = At(order, i - 1)

\* What ll_del spoils: a prev link is right or points at its own node, never
\* at a node that has left the list.
SelfOrPredecessor ==
  ~misled => \A i \in 1 .. Len(order) + 1 :
                prev[At(order, i)] \in {At(order, i - 1), At(order, i)}

\* Where ll_add_tail puts an item (ll.h:37, "Add new_item before next"): before
\* next, behind the node that preceded it, when next's prev link is right; but
\* when ll_del has left next pointing at itself, the item and next point at each
\* other, and a walk that comes to next never gets back to the head.
AddTailPlace ==
  [][~misled => \A x \in Item, i \in 1 .. Len(order) + 1 :
        ll_add_tail(x, i) =>
          /\ next'[x] = At(order, i)
          /\ next'[IF Spoilt(i) THEN At(order, i) ELSE At(order, i - 1)] = x]_vars
=============================================================================
