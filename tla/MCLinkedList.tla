---------------------------- MODULE MCLinkedList ----------------------------
(* Three interchangeable items: an item in the middle has two neighbours   *)
(* that differ from each other and from the head.                          *)
EXTENDS LinkedList

Symmetric == Permutations(Item)
=============================================================================
