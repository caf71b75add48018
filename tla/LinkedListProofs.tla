-------------------------- MODULE LinkedListProofs --------------------------
(***************************************************************************)
(* The links of linked_list_advanced/include/ll.h for every set of items.  *)
(* The inductive invariant follows the ring index by index: next leads     *)
(* from every node to the one after it, prev leads back or, after ll_del,  *)
(* to the node itself.                                                     *)
(***************************************************************************)
EXTENDS LinkedList, SequenceTheorems, TLAPS

-----------------------------------------------------------------------------
(* Inserting into and removing from a sequence, position by position. *)

LEMMA InsertProps ==
  ASSUME NEW s \in Seq(Item), NEW i \in 1 .. Len(s) + 1, NEW x \in Item
  PROVE  /\ InsertAt(s, i, x) \in Seq(Item)
         /\ Len(InsertAt(s, i, x)) = Len(s) + 1
         /\ \A j \in 1 .. Len(s) + 1 :
               InsertAt(s, i, x)[j] = IF j < i THEN s[j] ELSE IF j = i THEN x ELSE s[j - 1]
<1> DEFINE u == SubSeq(s, 1, i - 1)
           v == SubSeq(s, i, Len(s))
<1>1. /\ u \in Seq(Item) /\ Len(u) = i - 1
      /\ \A j \in 1 .. i - 1 : u[j] = s[j]
  BY SubSeqProperties
<1>2. /\ v \in Seq(Item) /\ Len(v) = Len(s) - i + 1
      /\ \A j \in 1 .. Len(s) - i + 1 : v[j] = s[i + j - 1]
  BY SubSeqProperties
<1>3. <<x>> \in Seq(Item) /\ Len(<<x>>) = 1 /\ <<x>>[1] = x
  OBVIOUS
<1> HIDE DEF u, v
<1>4. /\ u \o <<x>> \in Seq(Item) /\ Len(u \o <<x>>) = i
      /\ \A j \in 1 .. i - 1 : (u \o <<x>>)[j] = s[j]
      /\ (u \o <<x>>)[i] = x
  BY <1>1, <1>3, ConcatProperties
<1>5. InsertAt(s, i, x) = (u \o <<x>>) \o v
  BY DEF InsertAt, u, v
<1> QED
  BY <1>2, <1>4, <1>5, ConcatProperties

LEMMA RemoveProps ==
  ASSUME NEW s \in Seq(Item), NEW i \in 1 .. Len(s)
  PROVE  /\ RemoveAt(s, i) \in Seq(Item)
         /\ Len(RemoveAt(s, i)) = Len(s) - 1
         /\ \A j \in 1 .. Len(s) - 1 :
               RemoveAt(s, i)[j] = IF j < i THEN s[j] ELSE s[j + 1]
<1> DEFINE u == SubSeq(s, 1, i - 1)
           v == SubSeq(s, i + 1, Len(s))
<1>1. /\ u \in Seq(Item) /\ Len(u) = i - 1
      /\ \A j \in 1 .. i - 1 : u[j] = s[j]
  BY SubSeqProperties
<1>2. /\ v \in Seq(Item) /\ Len(v) = Len(s) - i
      /\ \A j \in 1 .. Len(s) - i : v[j] = s[i + j]
  BY SubSeqProperties
<1> HIDE DEF u, v
<1>3. RemoveAt(s, i) = u \o v
  BY DEF RemoveAt, u, v
<1>4. /\ u \o v \in Seq(Item)
      /\ Len(u \o v) = Len(u) + Len(v)
      /\ \A j \in 1 .. Len(u) + Len(v) :
            (u \o v)[j] = IF j <= Len(u) THEN u[j] ELSE v[j - Len(u)]
  BY <1>1, <1>2, ConcatProperties
<1>5. Len(u) + Len(v) = Len(s) - 1
  BY <1>1, <1>2
<1>6. ASSUME NEW j \in 1 .. Len(s) - 1
      PROVE  (u \o v)[j] = IF j < i THEN s[j] ELSE s[j + 1]
  <2>1. CASE j < i
    BY <1>1, <1>4, <1>5, <2>1
  <2>2. CASE ~(j < i)
    <3>1. j - Len(u) \in 1 .. Len(s) - i /\ i + (j - Len(u)) = j + 1
      BY <1>1, <2>2
    <3>2. (u \o v)[j] = v[j - Len(u)]
      BY <1>1, <1>4, <1>5, <2>2
    <3>3. v[j - Len(u)] = s[i + (j - Len(u))]
      BY <1>2, <3>1
    <3> QED
      BY <2>2, <3>1, <3>2, <3>3
  <2> QED
    BY <2>1, <2>2
<1> QED
  BY <1>3, <1>4, <1>5, <1>6

\* The ring after an insertion: x at position i, the rest shifted.
LEMMA AtInsert ==
  ASSUME NEW s \in Seq(Item), NEW i \in 1 .. Len(s) + 1, NEW x \in Item
  PROVE  \A j \in 0 .. Len(s) + 2 :
            At(InsertAt(s, i, x), j) = IF j < i THEN At(s, j)
                                       ELSE IF j = i THEN x ELSE At(s, j - 1)
<1> DEFINE t == InsertAt(s, i, x)
<1>1. /\ t \in Seq(Item) /\ Len(t) = Len(s) + 1
      /\ \A j \in 1 .. Len(s) + 1 :
            t[j] = IF j < i THEN s[j] ELSE IF j = i THEN x ELSE s[j - 1]
  BY InsertProps
<1> HIDE DEF t
<1>2. ASSUME NEW j \in 0 .. Len(s) + 2
      PROVE  At(t, j) = IF j < i THEN At(s, j) ELSE IF j = i THEN x ELSE At(s, j - 1)
  BY <1>1 DEF At
<1> QED
  BY <1>2 DEF t

\* The ring after a removal.
LEMMA AtRemove ==
  ASSUME NEW s \in Seq(Item), NEW i \in 1 .. Len(s)
  PROVE  \A j \in 0 .. Len(s) :
            At(RemoveAt(s, i), j) = IF j < i THEN At(s, j) ELSE At(s, j + 1)
BY RemoveProps DEF At

\* No node occurs twice between the head and the last item.
LEMMA AtInjective ==
  ASSUME NEW s \in Seq(Item), Distinct(s),
         NEW j \in 0 .. Len(s), NEW k \in 0 .. Len(s), At(s, j) = At(s, k)
  PROVE  j = k
BY ListAssumption DEF At, Distinct

\* The same between the first item and the head behind the last one.
LEMMA AtInjectiveBack ==
  ASSUME NEW s \in Seq(Item), Distinct(s),
         NEW j \in 1 .. Len(s) + 1, NEW k \in 1 .. Len(s) + 1, At(s, j) = At(s, k)
  PROVE  j = k
BY ListAssumption DEF At, Distinct

LEMMA AtType ==
  ASSUME NEW s \in Seq(Item), NEW j \in Int
  PROVE  /\ At(s, j) \in Node
         /\ At(s, 0) = head /\ At(s, Len(s) + 1) = head
BY DEF At, Node

LEMMA AtNew ==
  ASSUME NEW s \in Seq(Item), NEW x \in Item \ ToSet(s), NEW j \in Int
  PROVE  At(s, j) # x
BY ListAssumption, LenProperties DEF At, ToSet
-----------------------------------------------------------------------------
(* The invariant. *)

BackLinks(pv, s) ==
  \A i \in 1 .. Len(s) + 1 : pv[At(s, i)] \in {At(s, i - 1), At(s, i)}

FullBackLinks(pv, s) == \A i \in 1 .. Len(s) + 1 : pv[At(s, i)] = At(s, i - 1)

Inv == /\ TypeOK
       /\ Distinct(order)
       /\ ~deleted => ~misled
       /\ ~misled => InOrder(next, order) /\ BackLinks(prev, order)
       /\ ~deleted => FullBackLinks(prev, order)

LEMMA InitInv == Init => Inv
<1> SUFFICES ASSUME Init PROVE Inv
  OBVIOUS
<1>1. order = <<>> /\ Len(order) = 0 /\ order \in Seq(Item)
  BY DEF Init
<1>2. \A i \in Int : At(order, i) = head
  BY <1>1 DEF At
<1>3. /\ next \in [Node -> Node \cup {NULL}] /\ next[head] = head
      /\ prev \in [Node -> Node \cup {NULL}] /\ prev[head] = head
      /\ deleted = FALSE /\ misled = FALSE
  BY DEF Init, Node
<1>4. TypeOK
  <2>1. ASSUME NEW i \in 0 .. Len(order)
        PROVE  next[At(order, i)] # NULL /\ prev[At(order, i)] # NULL
    BY <1>2, <1>3, ListAssumption
  <2> QED
    BY <1>1, <1>3, <2>1 DEF TypeOK
<1>5. Distinct(order)
  BY <1>1 DEF Distinct
<1>6. InOrder(next, order) /\ BackLinks(prev, order) /\ FullBackLinks(prev, order)
  BY <1>1, <1>2, <1>3 DEF InOrder, BackLinks, FullBackLinks
<1> QED
  BY <1>3, <1>4, <1>5, <1>6 DEF Inv

\* __ll_add between two neighbours of the ring.
LEMMA AddLinks ==
  ASSUME NEW s \in Seq(Item), Distinct(s), NEW x \in Item \ ToSet(s),
         NEW i \in 1 .. Len(s) + 1,
         NEW nx \in [Node -> Node \cup {NULL}], NEW pv \in [Node -> Node \cup {NULL}],
         InOrder(nx, s), BackLinks(pv, s)
  PROVE  LET nx2 == [nx EXCEPT ![x] = At(s, i), ![At(s, i - 1)] = x]
             pv2 == [pv EXCEPT ![x] = At(s, i - 1), ![At(s, i)] = x]
             t == InsertAt(s, i, x)
         IN  /\ InOrder(nx2, t) /\ BackLinks(pv2, t)
             /\ FullBackLinks(pv, s) => FullBackLinks(pv2, t)
<1> DEFINE nx2 == [nx EXCEPT ![x] = At(s, i), ![At(s, i - 1)] = x]
           pv2 == [pv EXCEPT ![x] = At(s, i - 1), ![At(s, i)] = x]
           t == InsertAt(s, i, x)
<1>1. Len(t) = Len(s) + 1 /\ t \in Seq(Item)
  BY InsertProps
<1>2. \A j \in 0 .. Len(s) + 2 :
         At(t, j) = IF j < i THEN At(s, j) ELSE IF j = i THEN x ELSE At(s, j - 1)
  BY AtInsert
<1>3. x \in Node /\ \A j \in Int : At(s, j) \in Node /\ At(s, j) # x
  BY AtType, AtNew DEF Node
<1>4. \A j, k \in 0 .. Len(s) : At(s, j) = At(s, k) => j = k
  BY AtInjective
<1>5. \A j, k \in 1 .. Len(s) + 1 : At(s, j) = At(s, k) => j = k
  BY AtInjectiveBack
<1> HIDE DEF t
<1>6. InOrder(nx2, t)
  <2> SUFFICES ASSUME NEW j \in 0 .. Len(s) + 1 PROVE nx2[At(t, j)] = At(t, j + 1)
    BY <1>1 DEF InOrder
  <2>1. CASE j < i - 1
    <3>1. At(t, j) = At(s, j) /\ At(t, j + 1) = At(s, j + 1) /\ At(s, j) # At(s, i - 1)
      BY <1>2, <1>4, <2>1
    <3> QED
      BY <1>3, <2>1, <3>1 DEF InOrder
  <2>2. CASE j = i - 1
    BY <1>2, <1>3, <2>2
  <2>3. CASE j = i
    <3>1. At(t, j) = x /\ At(t, j + 1) = At(s, i)
      BY <1>2, <2>3
    <3> QED
      BY <1>3, <3>1
  <2>4. CASE j > i
    <3>1. /\ At(t, j) = At(s, j - 1) /\ At(t, j + 1) = At(s, j)
          /\ At(s, j - 1) # At(s, i - 1)
      BY <1>2, <1>4, <2>4
    <3> QED
      BY <1>3, <2>4, <3>1 DEF InOrder
  <2> QED
    BY <2>1, <2>2, <2>3, <2>4
<1>7. \A j \in 1 .. Len(s) + 2 :
         pv2[At(t, j)] = IF j = i THEN At(t, j - 1) ELSE IF j = i + 1 THEN At(t, j - 1)
                         ELSE pv[At(t, j)]
  <2> SUFFICES ASSUME NEW j \in 1 .. Len(s) + 2
               PROVE  pv2[At(t, j)] = IF j = i THEN At(t, j - 1)
                                      ELSE IF j = i + 1 THEN At(t, j - 1)
                                      ELSE pv[At(t, j)]
    OBVIOUS
  <2>1. CASE j = i
    <3>1. At(t, j) = x /\ At(t, j - 1) = At(s, i - 1) /\ At(s, i) # x
      BY <1>2, <1>3, <2>1
    <3> QED
      BY <1>3, <2>1, <3>1
  <2>2. CASE j = i + 1
    BY <1>2, <1>3, <2>2
  <2>3. CASE j < i
    <3>1. At(t, j) = At(s, j) /\ At(s, j) # At(s, i)
      BY <1>2, <1>5, <2>3
    <3> QED
      BY <1>3, <2>3, <3>1
  <2>4. CASE j > i + 1
    <3>1. At(t, j) = At(s, j - 1) /\ At(s, j - 1) # At(s, i)
      BY <1>2, <1>5, <2>4
    <3> QED
      BY <1>3, <2>4, <3>1
  <2> QED
    BY <2>1, <2>2, <2>3, <2>4
<1> HIDE DEF pv2
<1>8. BackLinks(pv2, t)
  <2> SUFFICES ASSUME NEW j \in 1 .. Len(s) + 2
               PROVE  pv2[At(t, j)] \in {At(t, j - 1), At(t, j)}
    BY <1>1 DEF BackLinks
  <2>1. CASE j = i \/ j = i + 1
    BY <1>7, <2>1
  <2>2. CASE j < i
    <3>1. pv2[At(t, j)] = pv[At(s, j)] /\ At(t, j) = At(s, j) /\ At(t, j - 1) = At(s, j - 1)
      BY <1>2, <1>7, <2>2
    <3> QED
      BY <2>2, <3>1 DEF BackLinks
  <2>3. CASE j > i + 1
    <3>1. /\ pv2[At(t, j)] = pv[At(s, j - 1)]
          /\ At(t, j) = At(s, j - 1) /\ At(t, j - 1) = At(s, (j - 1) - 1)
      BY <1>2, <1>7, <2>3
    <3>2. pv[At(s, j - 1)] \in {At(s, (j - 1) - 1), At(s, j - 1)}
      BY <2>3 DEF BackLinks
    <3> QED
      BY <3>1, <3>2
  <2> QED
    BY <2>1, <2>2, <2>3
<1>9. FullBackLinks(pv, s) => FullBackLinks(pv2, t)
  <2> SUFFICES ASSUME FullBackLinks(pv, s), NEW j \in 1 .. Len(s) + 2
               PROVE  pv2[At(t, j)] = At(t, j - 1)
    BY <1>1 DEF FullBackLinks
  <2>1. CASE j = i \/ j = i + 1
    BY <1>7, <2>1
  <2>2. CASE j < i
    <3>1. pv2[At(t, j)] = pv[At(s, j)] /\ At(t, j - 1) = At(s, j - 1)
      BY <1>2, <1>7, <2>2
    <3> QED
      BY <2>2, <3>1 DEF FullBackLinks
  <2>3. CASE j > i + 1
    <3>1. pv2[At(t, j)] = pv[At(s, j - 1)] /\ At(t, j - 1) = At(s, (j - 1) - 1)
      BY <1>2, <1>7, <2>3
    <3>2. pv[At(s, j - 1)] = At(s, (j - 1) - 1)
      BY <2>3 DEF FullBackLinks
    <3> QED
      BY <3>1, <3>2
  <2> QED
    BY <2>1, <2>2, <2>3
<1> QED
  BY <1>6, <1>8, <1>9 DEF t, pv2

\* __ll_del of the i-th item, when its two links are right.
LEMMA DelLinks ==
  ASSUME NEW s \in Seq(Item), Distinct(s), NEW i \in 1 .. Len(s),
         NEW nx \in [Node -> Node \cup {NULL}], NEW pv \in [Node -> Node \cup {NULL}],
         InOrder(nx, s), BackLinks(pv, s)
  PROVE  LET nx2 == [nx EXCEPT ![At(s, i - 1)] = At(s, i + 1), ![s[i]] = NULL]
             pv2 == [pv EXCEPT ![At(s, i + 1)] = At(s, i + 1), ![s[i]] = NULL]
             t == RemoveAt(s, i)
         IN  InOrder(nx2, t) /\ BackLinks(pv2, t)
<1> DEFINE nx2 == [nx EXCEPT ![At(s, i - 1)] = At(s, i + 1), ![s[i]] = NULL]
           pv2 == [pv EXCEPT ![At(s, i + 1)] = At(s, i + 1), ![s[i]] = NULL]
           t == RemoveAt(s, i)
<1>1. Len(t) = Len(s) - 1 /\ t \in Seq(Item)
  BY RemoveProps
<1>2. \A j \in 0 .. Len(s) : At(t, j) = IF j < i THEN At(s, j) ELSE At(s, j + 1)
  BY AtRemove
<1>3. s[i] = At(s, i) /\ \A j \in Int : At(s, j) \in Node
  BY AtType DEF At
<1>4. \A j, k \in 0 .. Len(s) : At(s, j) = At(s, k) => j = k
  BY AtInjective
<1>5. \A j, k \in 1 .. Len(s) + 1 : At(s, j) = At(s, k) => j = k
  BY AtInjectiveBack
<1> HIDE DEF t
<1>6. InOrder(nx2, t)
  <2> SUFFICES ASSUME NEW j \in 0 .. Len(s) - 1 PROVE nx2[At(t, j)] = At(t, j + 1)
    BY <1>1 DEF InOrder
  <2>1. CASE j < i - 1
    <3>1. /\ At(t, j) = At(s, j) /\ At(t, j + 1) = At(s, j + 1)
          /\ At(s, j) # At(s, i - 1) /\ At(s, j) # At(s, i)
      BY <1>2, <1>4, <2>1
    <3> QED
      BY <1>3, <2>1, <3>1 DEF InOrder
  <2>2. CASE j = i - 1
    <3>1. At(t, j) = At(s, i - 1) /\ At(t, j + 1) = At(s, i + 1) /\ At(s, i - 1) # At(s, i)
      BY <1>2, <1>4, <2>2
    <3> QED
      BY <1>3, <2>2, <3>1
  <2>3. CASE j >= i
    <3>1. /\ At(t, j) = At(s, j + 1) /\ At(t, j + 1) = At(s, j + 2)
          /\ At(s, j + 1) # At(s, i - 1) /\ At(s, j + 1) # At(s, i)
      BY <1>2, <1>4, <2>3
    <3> QED
      BY <1>3, <2>3, <3>1 DEF InOrder
  <2> QED
    BY <2>1, <2>2, <2>3
<1>7. BackLinks(pv2, t)
  <2> SUFFICES ASSUME NEW j \in 1 .. Len(s)
               PROVE  pv2[At(t, j)] \in {At(t, j - 1), At(t, j)}
    <3>1. 1 .. Len(t) + 1 = 1 .. Len(s)
      BY <1>1
    <3> QED
      BY <3>1 DEF BackLinks
  <2>1. CASE j < i
    <3>1. /\ At(t, j) = At(s, j) /\ At(t, j - 1) = At(s, j - 1)
          /\ At(s, j) # At(s, i) /\ At(s, j) # At(s, i + 1)
      BY <1>2, <1>5, <2>1
    <3> QED
      BY <1>3, <2>1, <3>1 DEF BackLinks
  <2>2. CASE j = i
    <3>1. At(t, j) = At(s, i + 1) /\ At(s, i + 1) # At(s, i)
      BY <1>2, <1>5, <2>2
    <3> QED
      BY <1>3, <3>1
  <2>3. CASE j > i
    <3>1. /\ At(t, j) = At(s, j + 1) /\ At(t, j - 1) = At(s, j)
          /\ At(s, j + 1) # At(s, i) /\ At(s, j + 1) # At(s, i + 1)
      BY <1>2, <1>5, <2>3
    <3> QED
      BY <1>3, <2>3, <3>1 DEF BackLinks
  <2> QED
    BY <2>1, <2>2, <2>3
<1> QED
  BY <1>6, <1>7 DEF t
-----------------------------------------------------------------------------
(* Preservation. *)

\* Whatever nodes an addition links, no node of the list gets a NULL link.
LEMMA AddTypes ==
  ASSUME Inv, NEW x \in Item \ ToSet(order), NEW i \in 1 .. Len(order) + 1,
         NEW p \in Node, NEW n \in Node, __ll_add(x, p, n),
         order' = InsertAt(order, i, x), deleted' \in BOOLEAN, misled' \in BOOLEAN
  PROVE  TypeOK' /\ Distinct(order)'
<1>1. order \in Seq(Item) /\ x \in Item /\ x \in Node
  BY DEF Inv, TypeOK, Node
<1>2. /\ order' \in Seq(Item) /\ Len(order') = Len(order) + 1
      /\ \A j \in 1 .. Len(order) + 1 :
            order'[j] = IF j < i THEN order[j] ELSE IF j = i THEN x ELSE order[j - 1]
  BY <1>1, InsertProps
<1>3. /\ next' \in [Node -> Node \cup {NULL}] /\ prev' \in [Node -> Node \cup {NULL}]
      /\ \A m \in Node : next[m] # NULL => next'[m] # NULL
      /\ \A m \in Node : prev[m] # NULL => prev'[m] # NULL
      /\ next'[x] # NULL /\ prev'[x] # NULL
  BY <1>1, ListAssumption DEF Inv, TypeOK, __ll_add, Node
<1>4. ASSUME NEW j \in 0 .. Len(order) + 1
      PROVE  next'[At(order', j)] # NULL /\ prev'[At(order', j)] # NULL
  <2>1. At(order', j) = x \/ \E k \in 0 .. Len(order) : At(order', j) = At(order, k)
    <3>1. At(order', j) = IF j < i THEN At(order, j)
                          ELSE IF j = i THEN x ELSE At(order, j - 1)
      BY <1>1, AtInsert
    <3>2. CASE j < i
      BY <3>1, <3>2, <1>1
    <3>3. CASE j = i
      BY <3>1, <3>3, <1>1
    <3>4. CASE j > i
      BY <3>1, <3>4, <1>1
    <3> QED
      BY <1>1, <3>2, <3>3, <3>4
  <2>2. ASSUME NEW k \in 0 .. Len(order)
        PROVE  /\ At(order, k) \in Node
               /\ next[At(order, k)] # NULL /\ prev[At(order, k)] # NULL
    BY <1>1, AtType DEF Inv, TypeOK
  <2> QED
    BY <1>3, <2>1, <2>2
<1>5. Distinct(order)'
  <2>1. \A j \in 1 .. Len(order) : order[j] # x
    BY <1>1, LenProperties DEF ToSet
  <2>2. \A j, k \in 1 .. Len(order) : order[j] = order[k] => j = k
    BY DEF Inv, Distinct
  <2> SUFFICES ASSUME NEW j \in 1 .. Len(order) + 1, NEW k \in 1 .. Len(order) + 1,
                      order'[j] = order'[k]
               PROVE  j = k
    BY <1>2 DEF Distinct
  <2>3. CASE j = i
    BY <1>1, <1>2, <2>1, <2>3
  <2>4. CASE k = i
    BY <1>1, <1>2, <2>1, <2>4
  <2>5. CASE j # i /\ k # i
    <3>1. /\ order'[j] = order[IF j < i THEN j ELSE j - 1]
          /\ order'[k] = order[IF k < i THEN k ELSE k - 1]
      BY <1>2, <2>5
    <3>2. /\ (IF j < i THEN j ELSE j - 1) \in 1 .. Len(order)
          /\ (IF k < i THEN k ELSE k - 1) \in 1 .. Len(order)
      BY <1>1, <2>5
    <3>3. (IF j < i THEN j ELSE j - 1) = (IF k < i THEN k ELSE k - 1)
      BY <2>2, <3>1, <3>2
    <3> QED
      BY <2>5, <3>3
  <2> QED
    BY <2>3, <2>4, <2>5
<1> QED
  BY <1>2, <1>3, <1>4, <1>5 DEF TypeOK

LEMMA AddStep ==
  ASSUME Inv, NEW x \in Item, NEW i \in 1 .. Len(order) + 1, ll_add(x, i)
  PROVE  Inv'
<1>1. /\ x \in Item \ ToSet(order) /\ order \in Seq(Item)
      /\ order' = InsertAt(order, i, x) /\ deleted' = deleted /\ misled' = misled
      /\ __ll_add(x, At(order, i - 1), next[At(order, i - 1)])
  BY DEF ll_add, Inv, TypeOK
<1>2. At(order, i - 1) \in Node /\ next[At(order, i - 1)] \in Node
  BY <1>1, AtType DEF Inv, TypeOK
<1>3. TypeOK' /\ Distinct(order)'
  BY <1>1, <1>2, AddTypes DEF Inv, TypeOK
<1>4. CASE misled
  BY <1>1, <1>3, <1>4 DEF Inv
<1>5. CASE ~misled
  <2>1. next[At(order, i - 1)] = At(order, i)
    BY <1>1, <1>5 DEF Inv, InOrder
  <2>2. /\ next' = [next EXCEPT ![x] = At(order, i), ![At(order, i - 1)] = x]
        /\ prev' = [prev EXCEPT ![x] = At(order, i - 1), ![At(order, i)] = x]
    BY <1>1, <2>1 DEF __ll_add
  <2>3. /\ InOrder(next', order') /\ BackLinks(prev', order')
        /\ FullBackLinks(prev, order) => FullBackLinks(prev', order')
    BY <1>1, <1>5, <2>2, AddLinks DEF Inv, TypeOK
  <2> QED
    BY <1>1, <1>3, <1>5, <2>3 DEF Inv
<1> QED
  BY <1>4, <1>5

LEMMA AddTailStep ==
  ASSUME Inv, NEW x \in Item, NEW i \in 1 .. Len(order) + 1, ll_add_tail(x, i)
  PROVE  Inv'
<1>1. /\ x \in Item \ ToSet(order) /\ order \in Seq(Item)
      /\ order' = InsertAt(order, i, x) /\ deleted' = deleted
      /\ misled' = (misled \/ Spoilt(i))
      /\ __ll_add(x, prev[At(order, i)], At(order, i))
  BY DEF ll_add_tail, Inv, TypeOK
<1>2. At(order, i) \in Node /\ prev[At(order, i)] \in Node
  <2>1. \E j \in 0 .. Len(order) : At(order, i) = At(order, j)
    <3>1. CASE i <= Len(order)
      BY <3>1, <1>1
    <3>2. CASE i = Len(order) + 1
      BY <3>2, <1>1, AtType
    <3> QED
      BY <1>1, <3>1, <3>2
  <2> QED
    BY <1>1, <2>1, AtType DEF Inv, TypeOK
<1>3. misled' \in BOOLEAN /\ deleted' \in BOOLEAN
  BY <1>1 DEF Inv, TypeOK, Spoilt
<1>4. TypeOK' /\ Distinct(order)'
  BY <1>1, <1>2, <1>3, AddTypes
<1>5. ~deleted => ~Spoilt(i)
  BY DEF Inv, FullBackLinks, Spoilt
<1>6. CASE misled'
  BY <1>1, <1>4, <1>5, <1>6 DEF Inv
<1>7. CASE ~misled'
  <2>1. ~misled /\ prev[At(order, i)] = At(order, i - 1)
    BY <1>1, <1>7 DEF Spoilt
  <2>2. /\ next' = [next EXCEPT ![x] = At(order, i), ![At(order, i - 1)] = x]
        /\ prev' = [prev EXCEPT ![x] = At(order, i - 1), ![At(order, i)] = x]
    BY <1>1, <2>1 DEF __ll_add
  <2>3. /\ InOrder(next', order') /\ BackLinks(prev', order')
        /\ FullBackLinks(prev, order) => FullBackLinks(prev', order')
    BY <1>1, <2>1, <2>2, AddLinks DEF Inv, TypeOK
  <2> QED
    BY <1>1, <1>4, <1>7, <2>1, <2>3 DEF Inv
<1> QED
  BY <1>6, <1>7

LEMMA DelStep ==
  ASSUME Inv, NEW i \in 1 .. Len(order), ll_del(i)
  PROVE  Inv'
<1> DEFINE p == prev[order[i]]
           n == next[order[i]]
<1>1. /\ order \in Seq(Item) /\ Distinct(order)
      /\ order' = RemoveAt(order, i) /\ deleted' = TRUE
      /\ misled' = (misled \/ Spoilt(i))
      /\ next' = [next EXCEPT ![p] = n, ![order[i]] = NULL]
      /\ prev' = [prev EXCEPT ![n] = n, ![order[i]] = NULL]
  BY DEF ll_del, __ll_del, Inv, TypeOK
<1>2. /\ order[i] = At(order, i) /\ order[i] \in Node
      /\ p \in Node /\ n \in Node
  BY <1>1 DEF Inv, TypeOK, At, Node
<1>3. /\ order' \in Seq(Item) /\ Len(order') = Len(order) - 1
      /\ \A j \in 1 .. Len(order) - 1 :
            order'[j] = IF j < i THEN order[j] ELSE order[j + 1]
  BY <1>1, RemoveProps
<1>4. Distinct(order)'
  <2> SUFFICES ASSUME NEW j \in 1 .. Len(order) - 1, NEW k \in 1 .. Len(order) - 1,
                      order'[j] = order'[k]
               PROVE  j = k
    BY <1>3 DEF Distinct
  <2>1. /\ order'[j] = order[IF j < i THEN j ELSE j + 1]
        /\ order'[k] = order[IF k < i THEN k ELSE k + 1]
    BY <1>3
  <2>2. (IF j < i THEN j ELSE j + 1) = (IF k < i THEN k ELSE k + 1)
    BY <1>1, <2>1 DEF Distinct
  <2> QED
    BY <2>2
<1>5. /\ next' \in [Node -> Node \cup {NULL}] /\ prev' \in [Node -> Node \cup {NULL}]
      /\ \A m \in Node \ {order[i]} : next[m] # NULL => next'[m] # NULL
      /\ \A m \in Node \ {order[i]} : prev[m] # NULL => prev'[m] # NULL
  <2> HIDE DEF p, n
  <2> QED
    BY <1>1, <1>2, ListAssumption DEF Inv, TypeOK, Node
<1>6. ASSUME NEW j \in 0 .. Len(order')
      PROVE  next'[At(order', j)] # NULL /\ prev'[At(order', j)] # NULL
  <2>1. PICK k \in 0 .. Len(order) : At(order', j) = At(order, k) /\ k # i
    <3>1. j \in 0 .. Len(order) /\ At(order', j) = IF j < i THEN At(order, j)
                                                   ELSE At(order, j + 1)
      BY <1>1, <1>3, AtRemove
    <3>2. CASE j < i
      BY <1>1, <3>1, <3>2
    <3>3. CASE ~(j < i)
      BY <1>1, <1>3, <3>1, <3>3
    <3> QED
      BY <3>2, <3>3
  <2>2. At(order, k) \in Node /\ At(order, k) # order[i]
    BY <1>1, <1>2, <2>1, AtType, AtInjective
  <2>3. next[At(order, k)] # NULL /\ prev[At(order, k)] # NULL
    BY DEF Inv, TypeOK
  <2> QED
    BY <1>5, <2>1, <2>2, <2>3
<1>7. TypeOK'
  <2>1. misled' \in BOOLEAN /\ deleted' \in BOOLEAN
    BY <1>1 DEF Inv, TypeOK, Spoilt
  <2> QED
    BY <1>3, <1>5, <1>6, <2>1 DEF TypeOK
<1>8. CASE misled'
  BY <1>1, <1>4, <1>7, <1>8 DEF Inv
<1>9. CASE ~misled'
  <2>1. ~misled /\ p = At(order, i - 1) /\ n = At(order, i + 1)
    <3>1. ~misled /\ prev[At(order, i)] = At(order, i - 1)
      BY <1>1, <1>9 DEF Spoilt
    <3>2. i \in 0 .. Len(order) /\ InOrder(next, order)
      BY <1>1, <3>1 DEF Inv
    <3>3. next[At(order, i)] = At(order, i + 1)
      BY <3>2 DEF InOrder
    <3> QED
      BY <1>2, <3>1, <3>3
  <2>2. InOrder(next', order') /\ BackLinks(prev', order')
    <3> HIDE DEF p, n
    <3> QED
      BY <1>1, <2>1, DelLinks DEF Inv, TypeOK
  <2> QED
    BY <1>1, <1>4, <1>7, <2>2 DEF Inv
<1> QED
  BY <1>8, <1>9

LEMMA InvHolds == Spec => []Inv
<1>1. Inv /\ [Next]_vars => Inv'
  <2> SUFFICES ASSUME Inv, [Next]_vars PROVE Inv'
    OBVIOUS
  <2>1. CASE UNCHANGED vars
    BY <2>1 DEF vars, Inv, TypeOK, Distinct, InOrder, BackLinks, FullBackLinks, At
  <2>2. CASE Next
    BY <2>2, AddStep, AddTailStep, DelStep DEF Next
  <2> QED
    BY <2>1, <2>2
<1> QED
  BY InitInv, <1>1, PTL DEF Spec

(* No operation of ll.h ever follows a NULL link: ll_del sets the links of  *)
(* the node it removes to NULL, but no node still in the list keeps one.    *)
THEOREM TypeCorrect == Spec => []TypeOK
<1>1. Inv => TypeOK
  BY DEF Inv
<1> QED
  BY InvHolds, <1>1, PTL

(* Following next visits the items in the order of the calls as long as no  *)
(* call has read a prev link that an earlier ll_del left wrong (ll.h:47).   *)
THEOREM ForwardCorrect == Spec => []ForwardOrder
<1>1. Inv => ForwardOrder
  <2> SUFFICES ASSUME Inv, ~misled
               PROVE  InOrder(next, order) /\ Distinct(order)
                      /\ (ll_is_empty <=> order = <<>>)
    BY DEF ForwardOrder
  <2>1. order \in Seq(Item) /\ InOrder(next, order) /\ Distinct(order)
    BY DEF Inv, TypeOK
  <2>2. next[head] = At(order, 1)
    BY <2>1 DEF InOrder, At
  <2>3. At(order, 1) = head <=> order = <<>>
    BY <2>1, ListAssumption DEF At
  <2> QED
    BY <2>1, <2>2, <2>3 DEF ll_is_empty
<1> QED
  BY InvHolds, <1>1, PTL

(* ll_add and ll_add_tail keep the list walkable backwards; only ll_del     *)
(* loses that.                                                              *)
THEOREM BackwardCorrect == Spec => []BackwardOrder
<1>1. Inv => BackwardOrder
  BY DEF Inv, BackwardOrder, FullBackLinks
<1> QED
  BY InvHolds, <1>1, PTL

(* All that ll_del leaves wrong is a node that points back at itself.       *)
THEOREM SpoiltLinksAreSelfLinks == Spec => []SelfOrPredecessor
<1>1. Inv => SelfOrPredecessor
  BY DEF Inv, SelfOrPredecessor, BackLinks
<1> QED
  BY InvHolds, <1>1, PTL

(* ll_add_tail puts an item before next when next's prev link is right, and *)
(* ties it into a ring of two with next when ll_del has left that link      *)
(* pointing at next itself (ll.h:37, 47).                                   *)
THEOREM AddTailPlaceCorrect == Spec => AddTailPlace
<1>1. ASSUME Inv, ~misled, NEW x \in Item, NEW i \in 1 .. Len(order) + 1, ll_add_tail(x, i)
      PROVE  /\ next'[x] = At(order, i)
             /\ next'[IF Spoilt(i) THEN At(order, i) ELSE At(order, i - 1)] = x
  <2> DEFINE n == At(order, i)
             p == prev[n]
  <2>1. order \in Seq(Item) /\ next \in [Node -> Node \cup {NULL}]
    BY <1>1 DEF Inv, TypeOK
  <2>2. p \in {At(order, i - 1), n}
    BY <1>1 DEF Inv, BackLinks
  <2>3. p = IF Spoilt(i) THEN n ELSE At(order, i - 1)
    BY <2>2 DEF Spoilt
  <2>4. n \in Node /\ At(order, i - 1) \in Node /\ x \in Node
    BY <2>1, AtType DEF Node
  <2>5. p \in Node /\ x # n /\ x # At(order, i - 1)
    BY <1>1, <2>1, <2>2, <2>4, AtNew DEF ll_add_tail
  <2>6. next' = [next EXCEPT ![x] = n, ![p] = x]
    BY <1>1 DEF ll_add_tail, __ll_add
  <2>7. x # p
    BY <2>2, <2>5
  <2> HIDE DEF n, p
  <2>8. next'[x] = n /\ next'[p] = x
    BY <2>1, <2>4, <2>5, <2>6, <2>7
  <2> QED
    BY <2>3, <2>8 DEF n
<1>2. Inv /\ [Next]_vars =>
        [~misled => \A x \in Item, i \in 1 .. Len(order) + 1 :
            ll_add_tail(x, i) =>
              /\ next'[x] = At(order, i)
              /\ next'[IF Spoilt(i) THEN At(order, i) ELSE At(order, i - 1)] = x]_vars
  BY <1>1
<1> QED
  BY InvHolds, <1>2, PTL DEF Spec, AddTailPlace
=============================================================================
