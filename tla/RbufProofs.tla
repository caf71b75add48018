----------------------------- MODULE RbufProofs -----------------------------
(***************************************************************************)
(* The ring buffer is correct for every size, every width of size_t and    *)
(* every set of items: its indices stay in range, rbuf_size is the number  *)
(* of stored items, and it implements the bounded queue of BoundedFifo.    *)
(***************************************************************************)
EXTENDS Rbuf, TLAPS

\* The invariant the proofs rest on.  TypeOK alone does not say that full is
\* set only where head meets tail, which inc_buf needs: it moves head to tail.
Inv == TypeOK /\ FullMeansMet

-----------------------------------------------------------------------------
(* Arithmetic of the indices. *)

\* One step of an index modulo the size: what inc_buf and dec_buf compute.
LEMMA StepMod ==
  ASSUME NEW i \in Slots
  PROVE  (i + 1) % size = IF i + 1 < size THEN i + 1 ELSE 0
BY RbufAssumption DEF Slots

\* A size_t difference that does not wrap, and one that does.
LEMMA SizeTDiff ==
  ASSUME NEW h \in Slots, NEW t \in Slots
  PROVE  /\ t <= h => (h - t) % SizeMod = h - t
         /\ t > h => (((h - t) % SizeMod) + size) % SizeMod = h - t + size
BY RbufAssumption DEF Slots
-----------------------------------------------------------------------------
(* The inductive invariant. *)

LEMMA ZeroSlot == /\ 0 \in Slots
                  /\ [i \in Slots |-> Zero] \in [Slots -> Item]
BY RbufAssumption DEF Slots

LEMMA InitInv == Init => Inv
BY ZeroSlot DEF Init, Inv, TypeOK, FullMeansMet, Handles

\* inc_buf keeps both indices in range and leaves full saying whether they meet.
LEMMA IncBuf ==
  ASSUME Inv, inc_buf
  PROVE  /\ head' \in Slots /\ tail' \in Slots /\ full' \in BOOLEAN
         /\ FullMeansMet'
  <1>1. /\ (head + 1) % size \in Slots
        /\ (tail + 1) % size \in Slots
    BY StepMod, RbufAssumption DEF Inv, TypeOK, Slots
  <1>2. QED
    BY <1>1 DEF inc_buf, Inv, TypeOK, FullMeansMet

LEMMA DecBuf ==
  ASSUME Inv, dec_buf
  PROVE  /\ head' \in Slots /\ tail' \in Slots /\ full' \in BOOLEAN
         /\ FullMeansMet'
  <1>1. (tail + 1) % size \in Slots
    BY StepMod, RbufAssumption DEF Inv, TypeOK, Slots
  <1>2. QED
    BY <1>1 DEF dec_buf, Inv, TypeOK, FullMeansMet

LEMMA NextInv == Inv /\ [Next]_vars => Inv'
  <1> SUFFICES ASSUME Inv, [Next]_vars
               PROVE  Inv'
    OBVIOUS
  <1> USE DEF Inv, TypeOK, FullMeansMet
  <1>1. CASE rbuf_init
    BY <1>1, ZeroSlot DEF rbuf_init, Handles
  <1>2. CASE assert_fails
    BY <1>2 DEF assert_fails, Handles
  <1>3. CASE rbuf_free
    BY <1>3 DEF rbuf_free, Handles
  <1>4. CASE rbuf_reset
    BY <1>4, ZeroSlot DEF rbuf_reset
  <1>5. CASE rbuf_get
    <2>1. CASE rbuf_empty
      BY <1>5, <2>1 DEF rbuf_get
    <2>2. CASE ~rbuf_empty
      BY <1>5, <2>2, DecBuf DEF rbuf_get
    <2>3. QED
      BY <2>1, <2>2
  <1>6. ASSUME NEW d \in Item, rbuf_put(d)
        PROVE  Inv'
    <2>1. CASE full
      BY <1>6, <2>1 DEF rbuf_put
    <2>2. CASE ~full
      BY <1>6, <2>2, IncBuf DEF rbuf_put
    <2>3. QED
      BY <2>1, <2>2
  <1>7. ASSUME NEW d \in Item, rbuf_fput(d)
        PROVE  Inv'
    BY <1>7, IncBuf DEF rbuf_fput
  <1>8. CASE UNCHANGED vars
    BY <1>8 DEF vars
  <1>9. QED
    BY <1>1, <1>2, <1>3, <1>4, <1>5, <1>6, <1>7, <1>8 DEF Next

LEMMA InvHolds == Spec => []Inv
  <1>1. Init => Inv
    BY InitInv
  <1>2. Inv /\ [Next]_vars => Inv'
    BY NextInv
  <1>3. QED
    BY <1>1, <1>2, PTL DEF Spec

\* Type correctness: no operation lets head or tail leave the slots that
\* rbuf_init allocated (inc_buf and dec_buf, rbuf.c:18-42).
THEOREM TypeCorrect == Spec => []TypeOK
  <1>1. Inv => TypeOK
    BY DEF Inv
  <1>2. QED
    BY <1>1, InvHolds, PTL

\* The flag and the indices never disagree: full is set only where head and
\* tail meet (rbuf.c:32).
THEOREM FullFlagCorrect == Spec => []FullMeansMet
  <1>1. Inv => FullMeansMet
    BY DEF Inv
  <1>2. QED
    BY <1>1, InvHolds, PTL

-----------------------------------------------------------------------------
(* The queue between tail and head, as constant-level facts. *)

LEMMA CountRange ==
  ASSUME NEW h \in Slots, NEW t \in Slots, NEW f \in BOOLEAN
  PROVE  CountOf(h, t, f) \in 0 .. size
BY RbufAssumption DEF CountOf, Slots

LEMMA SlotRange ==
  ASSUME NEW t \in Slots, NEW i \in 1 .. size
  PROVE  SlotOf(t, i) \in Slots
BY RbufAssumption DEF SlotOf, Slots

LEMMA QueueType ==
  ASSUME NEW b \in [Slots -> Item], NEW t \in Slots, NEW n \in 0 .. size
  PROVE  /\ QueueOf(b, t, n) \in Seq(Item)
         /\ Len(QueueOf(b, t, n)) = n
  <1>1. \A i \in 1 .. n : b[SlotOf(t, i)] \in Item
    BY SlotRange, RbufAssumption
  <1>2. n \in Nat
    BY RbufAssumption
  <1>3. QED
    BY <1>1, <1>2 DEF QueueOf

\* Writing the slot behind the newest item appends to the queue.
LEMMA QueueAppend ==
  ASSUME NEW b \in [Slots -> Item], NEW t \in Slots,
         NEW n \in 0 .. size - 1, NEW d \in Item
  PROVE  QueueOf([b EXCEPT ![SlotOf(t, n + 1)] = d], t, n + 1)
           = Append(QueueOf(b, t, n), d)
  <1> DEFINE b1 == [b EXCEPT ![SlotOf(t, n + 1)] = d]
  <1>1. n \in Nat /\ n + 1 \in 0 .. size /\ n \in 0 .. size
    BY RbufAssumption
  <1>2. SlotOf(t, n + 1) \in Slots
    BY <1>1, SlotRange
  <1>3. \A i \in 1 .. n : SlotOf(t, i) # SlotOf(t, n + 1)
    BY <1>1, RbufAssumption DEF SlotOf, Slots
  <1>4. \A i \in 1 .. n : b1[SlotOf(t, i)] = b[SlotOf(t, i)]
    BY <1>1, <1>2, <1>3, SlotRange
  <1>5. b1[SlotOf(t, n + 1)] = d
    BY <1>2
  <1>6. Append(QueueOf(b, t, n), d)
          = [i \in 1 .. n + 1 |-> IF i <= n THEN b[SlotOf(t, i)] ELSE d]
    BY <1>1, QueueType DEF QueueOf
  <1>7. QueueOf(b1, t, n + 1)
          = [i \in 1 .. n + 1 |-> IF i <= n THEN b[SlotOf(t, i)] ELSE d]
    BY <1>1, <1>4, <1>5 DEF QueueOf
  <1>8. QED
    BY <1>6, <1>7

\* Moving tail one slot on takes the oldest item off the queue.
LEMMA QueueTail ==
  ASSUME NEW b \in [Slots -> Item], NEW t \in Slots, NEW n \in 1 .. size
  PROVE  /\ Head(QueueOf(b, t, n)) = b[t]
         /\ QueueOf(b, (t + 1) % size, n - 1) = Tail(QueueOf(b, t, n))
  <1> DEFINE t1 == (t + 1) % size
  <1>1. n \in Nat /\ n \in 0 .. size
    BY RbufAssumption
  <1>2. SlotOf(t, 1) = t
    BY RbufAssumption DEF SlotOf, Slots
  <1>3. \A i \in 1 .. n - 1 : SlotOf(t1, i) = SlotOf(t, i + 1)
    <2>1. t1 = IF t + 1 < size THEN t + 1 ELSE 0
      BY StepMod
    <2>2. QED
      BY <1>1, <2>1, RbufAssumption DEF SlotOf, Slots
  <1>4. Tail(QueueOf(b, t, n)) = [i \in 1 .. n - 1 |-> b[SlotOf(t, i + 1)]]
    BY <1>1, QueueType DEF QueueOf
  <1>5. QED
    BY <1>1, <1>2, <1>3, <1>4 DEF QueueOf

-----------------------------------------------------------------------------
(* rbuf_size. *)

LEMMA SizeIsCount == Inv => rbuf_size = CountOf(head, tail, full)
  <1> SUFFICES ASSUME Inv PROVE rbuf_size = CountOf(head, tail, full)
    OBVIOUS
  <1>1. CASE full
    BY <1>1 DEF rbuf_size, CountOf
  <1>2. CASE ~full /\ tail <= head
    <2>1. /\ (head - tail) % SizeMod = head - tail
          /\ ~(tail > head)
      BY <1>2, SizeTDiff DEF Inv, TypeOK, Slots
    <2>2. QED
      BY <1>2, <2>1 DEF rbuf_size, CountOf
  <1>3. CASE ~full /\ tail > head
    <2>1. /\ (((head - tail) % SizeMod) + size) % SizeMod = head - tail + size
          /\ ~(tail <= head)
      BY <1>3, SizeTDiff DEF Inv, TypeOK, Slots
    <2>2. QED
      BY <1>3, <2>1 DEF rbuf_size, CountOf
  <1>4. QED
    BY <1>1, <1>2, <1>3 DEF Inv, TypeOK, Slots

\* rbuf_size is the number of items in the queue although it is computed in
\* wrapping size_t arithmetic (rbuf.c:141-154).
THEOREM SizeCorrect == Spec => []SizeIsLength
  <1>1. Inv => SizeIsLength
    <2> SUFFICES ASSUME Inv, handle = "live"
                 PROVE  /\ rbuf_size = Len(Contents)
                        /\ rbuf_size <= rbuf_capacity
                        /\ rbug_full <=> rbuf_size = rbuf_capacity
                        /\ rbuf_empty <=> rbuf_size = 0
      BY DEF SizeIsLength
    <2>1. CountOf(head, tail, full) \in 0 .. size
      BY CountRange DEF Inv, TypeOK
    <2>2. Len(Contents) = CountOf(head, tail, full)
      BY <2>1, QueueType DEF Contents, Inv, TypeOK
    <2>3. rbuf_size = CountOf(head, tail, full)
      BY SizeIsCount
    <2>4. CASE full
      BY <2>1, <2>2, <2>3, <2>4, RbufAssumption
         DEF CountOf, rbuf_capacity, rbug_full, rbuf_empty
    <2>5. CASE ~full
      <3>1. /\ CountOf(head, tail, full) < size
            /\ CountOf(head, tail, full) = 0 <=> head = tail
        BY <2>5, RbufAssumption DEF CountOf, Inv, TypeOK, Slots
      <3> QED
        BY <2>1, <2>2, <2>3, <2>5, <3>1, RbufAssumption
           DEF rbuf_capacity, rbug_full, rbuf_empty
    <2>6. QED
      BY <2>4, <2>5
  <1>2. QED
    BY <1>1, InvHolds, PTL
-----------------------------------------------------------------------------
(* Refinement of the bounded queue. *)

Cnt == CountOf(head, tail, full)

\* Appending behind the newest item: rbuf_put, and rbuf_fput when not full.
LEMMA AppendStep ==
  ASSUME Inv, handle = "live", handle' = "live", ~full,
         NEW d \in Item, buffer' = [buffer EXCEPT ![head] = d], inc_buf
  PROVE  /\ Len(Contents) < size
         /\ Contents' = Append(Contents, d)
  <1>1. /\ tail' = tail
        /\ head' = IF head + 1 < size THEN head + 1 ELSE 0
        /\ full' = (head' = tail)
    BY StepMod DEF inc_buf, Inv, TypeOK
  <1>2. /\ head \in Slots /\ tail \in Slots /\ buffer \in [Slots -> Item]
    BY DEF Inv, TypeOK
  <1>3. Cnt \in 0 .. size - 1
    BY <1>2, RbufAssumption DEF Cnt, CountOf, Slots
  <1>4. SlotOf(tail, Cnt + 1) = head
    BY <1>2, RbufAssumption DEF Cnt, CountOf, Slots, SlotOf
  <1>5. CountOf(head', tail, head' = tail) = Cnt + 1
    BY <1>1, <1>2, RbufAssumption DEF Cnt, CountOf, Slots
  <1>6. Contents = QueueOf(buffer, tail, Cnt)
    BY DEF Contents, Cnt
  <1>7. Contents' = QueueOf(buffer', tail, Cnt + 1)
    BY <1>1, <1>5 DEF Contents
  <1>8. Contents' = Append(Contents, d)
    BY <1>2, <1>3, <1>4, <1>6, <1>7, QueueAppend
  <1>9. Len(Contents) < size
    BY <1>2, <1>3, <1>6, QueueType, RbufAssumption
  <1>10. QED
    BY <1>8, <1>9

\* Overwriting the oldest item: rbuf_fput in a full buffer.
LEMMA OverwriteStep ==
  ASSUME Inv, handle = "live", handle' = "live", full,
         NEW d \in Item, buffer' = [buffer EXCEPT ![head] = d], inc_buf
  PROVE  /\ Len(Contents) = size
         /\ Contents' = Append(Tail(Contents), d)
  <1> DEFINE t1 == (tail + 1) % size
  <1>1. tail' = t1 /\ head' = t1 /\ full' = TRUE /\ head = tail
    BY DEF inc_buf, Inv, FullMeansMet
  <1>2. /\ tail \in Slots /\ buffer \in [Slots -> Item]
    BY DEF Inv, TypeOK
  <1>3. t1 = IF tail + 1 < size THEN tail + 1 ELSE 0
    BY <1>2, StepMod
  <1>4. t1 \in Slots /\ SlotOf(t1, size) = tail /\ size \in 1 .. size
        /\ size - 1 \in 0 .. size - 1 /\ (size - 1) + 1 = size /\ size \in 0 .. size
    BY <1>2, <1>3, RbufAssumption DEF SlotOf, Slots
  <1>5. Contents = QueueOf(buffer, tail, size)
    BY DEF Contents, CountOf
  <1>6. Contents' = QueueOf([buffer EXCEPT ![tail] = d], t1, size)
    BY <1>1 DEF Contents, CountOf
  <1>7. QueueOf(buffer, t1, size - 1) = Tail(Contents)
    BY <1>2, <1>4, <1>5, QueueTail
  <1> HIDE DEF t1
  <1>8. QueueOf([buffer EXCEPT ![SlotOf(t1, (size - 1) + 1)] = d], t1, (size - 1) + 1)
          = Append(QueueOf(buffer, t1, size - 1), d)
    BY <1>2, <1>4, QueueAppend
  <1>9. Contents' = Append(Tail(Contents), d)
    BY <1>4, <1>6, <1>7, <1>8
  <1>10. Len(Contents) = size
    BY <1>2, <1>4, <1>5, QueueType
  <1>11. QED
    BY <1>9, <1>10

\* Taking the oldest item: rbuf_get in a buffer that is not empty.
LEMMA TakeStep ==
  ASSUME Inv, handle = "live", handle' = "live", ~rbuf_empty,
         UNCHANGED buffer, dec_buf
  PROVE  /\ Contents # <<>>
         /\ Head(Contents) = buffer[tail]
         /\ Contents' = Tail(Contents)
  <1> DEFINE t1 == (tail + 1) % size
  <1>1. tail' = t1 /\ head' = head /\ full' = FALSE
    BY DEF dec_buf
  <1>2. /\ head \in Slots /\ tail \in Slots /\ buffer \in [Slots -> Item]
    BY DEF Inv, TypeOK
  <1>3. t1 = IF tail + 1 < size THEN tail + 1 ELSE 0
    BY <1>2, StepMod
  <1>4. full => head = tail
    BY DEF Inv, FullMeansMet
  <1>5. ~full => head # tail
    BY DEF rbuf_empty
  <1>6. Cnt \in 1 .. size
    BY <1>2, <1>5, RbufAssumption DEF Cnt, CountOf, Slots
  <1>7. CountOf(head, t1, FALSE) = Cnt - 1
    BY <1>2, <1>3, <1>4, <1>5, RbufAssumption DEF Cnt, CountOf, Slots
  <1>8. Contents = QueueOf(buffer, tail, Cnt)
    BY DEF Contents, Cnt
  <1>9. Contents' = QueueOf(buffer, t1, Cnt - 1)
    BY <1>1, <1>7 DEF Contents
  <1>10. Head(Contents) = buffer[tail] /\ Contents' = Tail(Contents)
    BY <1>2, <1>6, <1>8, <1>9, QueueTail
  <1>11. Contents # <<>>
    <2>1. Cnt \in 0 .. size /\ Cnt # 0
      BY <1>6, RbufAssumption
    <2>2. Len(Contents) = Cnt
      BY <1>2, <1>8, <2>1, QueueType
    <2>3. QED
      BY <2>1, <2>2
  <1>12. QED
    BY <1>10, <1>11

\* An empty queue has equal indices and a cleared flag.
LEMMA EmptyQueue ==
  ASSUME Inv, handle = "live", rbuf_empty
  PROVE  Contents = <<>>
  <1>1. CountOf(head, tail, full) = 0
    BY RbufAssumption DEF Inv, TypeOK, rbuf_empty, CountOf, Slots
  <1>2. QED
    BY <1>1 DEF Contents, QueueOf

\* The queue right after head, tail and full were zeroed is empty.
LEMMA ClearedQueue ==
  ASSUME handle' = "live", head' = 0, tail' = 0, full' = FALSE
  PROVE  Contents' = <<>>
  <1>1. CountOf(0, 0, FALSE) = 0
    BY DEF CountOf
  <1>2. Contents' = QueueOf(buffer', 0, 0)
    BY <1>1 DEF Contents
  <1>3. QED
    BY <1>2 DEF QueueOf

LEMMA RefineInit == Init => Fifo!Init
BY DEF Init, Fifo!Init, Contents

LEMMA RefineNext == Inv /\ [Next]_vars => [Fifo!Next]_(Fifo!vars)
  <1> SUFFICES ASSUME Inv, [Next]_vars
               PROVE  [Fifo!Next]_(Fifo!vars)
    OBVIOUS
  <1>1. CASE rbuf_init
    <2>1. Contents' = <<>>
      BY <1>1, ClearedQueue DEF rbuf_init
    <2>2. Fifo!Create
      BY <1>1, <2>1 DEF rbuf_init, Fifo!Create
    <2>3. QED
      BY <2>2 DEF Fifo!Next
  <1>2. CASE assert_fails
    <2>1. Contents = <<>> /\ Contents' = <<>>
      BY <1>2 DEF assert_fails, Contents
    <2>2. Fifo!Abort
      BY <1>2, <2>1 DEF assert_fails, Fifo!Abort
    <2>3. QED
      BY <2>2 DEF Fifo!Next
  <1>3. CASE rbuf_free
    <2>1. Contents' = <<>>
      BY <1>3 DEF rbuf_free, Contents
    <2>2. Fifo!Destroy
      BY <1>3, <2>1 DEF rbuf_free, Fifo!Destroy
    <2>3. QED
      BY <2>2 DEF Fifo!Next
  <1>4. CASE rbuf_reset
    <2>1. Contents' = <<>>
      BY <1>4, ClearedQueue DEF rbuf_reset
    <2>2. Fifo!Clear
      BY <1>4, <2>1 DEF rbuf_reset, Fifo!Clear
    <2>3. QED
      BY <2>2 DEF Fifo!Next
  <1>5. CASE rbuf_get
    <2>1. CASE rbuf_empty
      <3>1. Contents = <<>> /\ Contents' = Contents
        BY <1>5, <2>1, EmptyQueue DEF rbuf_get, Contents
      <3>2. QED
        BY <1>5, <2>1, <3>1 DEF rbuf_get, Fifo!Get, Fifo!Next
    <2>2. CASE ~rbuf_empty
      <3>1. /\ Contents # <<>>
            /\ Head(Contents) = buffer[tail]
            /\ Contents' = Tail(Contents)
        BY <1>5, <2>2, TakeStep DEF rbuf_get
      <3>2. QED
        BY <1>5, <2>2, <3>1 DEF rbuf_get, Fifo!Get, Fifo!Next
    <2>3. QED
      BY <2>1, <2>2
  <1>6. ASSUME NEW d \in Item, rbuf_put(d)
        PROVE  Fifo!Next
    <2>1. CASE full
      <3>1. Len(Contents) = size
        <4>1. size \in 0 .. size
          BY RbufAssumption
        <4>2. QED
          BY <1>6, <2>1, <4>1, QueueType DEF rbuf_put, Contents, CountOf, Inv, TypeOK
      <3>2. Contents' = Contents
        BY <1>6, <2>1 DEF rbuf_put, Contents
      <3>3. Fifo!Put(d)
        BY <1>6, <2>1, <3>1, <3>2 DEF rbuf_put, Fifo!Put
      <3>4. QED
        BY <3>3 DEF Fifo!Next
    <2>2. CASE ~full
      <3>1. Len(Contents) < size /\ Contents' = Append(Contents, d)
        BY <1>6, <2>2, AppendStep DEF rbuf_put
      <3>2. Fifo!Put(d)
        BY <1>6, <2>2, <3>1 DEF rbuf_put, Fifo!Put
      <3>3. QED
        BY <3>2 DEF Fifo!Next
    <2>3. QED
      BY <2>1, <2>2
  <1>7. ASSUME NEW d \in Item, rbuf_fput(d)
        PROVE  Fifo!Next
    <2>1. CASE full
      <3>1. Len(Contents) = size /\ Contents' = Append(Tail(Contents), d)
        BY <1>7, <2>1, OverwriteStep DEF rbuf_fput
      <3>2. Fifo!ForcePut(d)
        BY <1>7, <3>1 DEF rbuf_fput, Fifo!ForcePut
      <3>3. QED
        BY <3>2 DEF Fifo!Next
    <2>2. CASE ~full
      <3>1. Len(Contents) < size /\ Contents' = Append(Contents, d)
        BY <1>7, <2>2, AppendStep DEF rbuf_fput
      <3>2. Fifo!ForcePut(d)
        BY <1>7, <3>1 DEF rbuf_fput, Fifo!ForcePut
      <3>3. QED
        BY <3>2 DEF Fifo!Next
    <2>3. QED
      BY <2>1, <2>2
  <1>8. CASE UNCHANGED vars
    BY <1>8 DEF vars, Fifo!vars, Contents
  <1>9. QED
    BY <1>1, <1>2, <1>3, <1>4, <1>5, <1>6, <1>7, <1>8 DEF Next

\* The ring buffer implements the bounded queue: every call of rbuf_put,
\* rbuf_fput, rbuf_get and rbuf_reset has the effect and the result that
\* BoundedFifo allows, for every size and every history of calls.
THEOREM RbufImplementsFifo == Spec => ImplementsFifo
  <1>1. Init => Fifo!Init
    BY RefineInit
  <1>2. Inv /\ [Next]_vars => [Fifo!Next]_(Fifo!vars)
    BY RefineNext
  <1>3. QED
    BY <1>1, <1>2, InvHolds, PTL DEF Spec, ImplementsFifo, Fifo!Spec
=============================================================================
