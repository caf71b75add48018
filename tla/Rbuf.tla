-------------------------------- MODULE Rbuf --------------------------------
(***************************************************************************)
(* ring_buffer/src/rbuf.c: a ring buffer of `size' slots used by one       *)
(* caller.  Every operation is one action: the library takes no lock and   *)
(* none of its callers in the repository shares a buffer between threads.  *)
(***************************************************************************)
EXTENDS Integers, Sequences

CONSTANTS Item,    \* the values a caller may store; slots start as one of them
          Zero,    \* the item that calloc'ed (all zero) memory holds
          size,    \* item_count given to rbuf_init
          SizeMod  \* number of values of a size_t

\* size_t arithmetic is modulo SizeMod and a ssize_t result must not be
\* negative.  A size of 0 would divide by zero in inc_buf and dec_buf.
ASSUME RbufAssumption == /\ Zero \in Item
                         /\ size \in Nat \ {0}
                         /\ SizeMod \in Nat
                         /\ size < SizeMod

VARIABLES handle,            \* life cycle of the rbuf_handle_t of the caller
          buffer,            \* the slots
          head, tail, full,  \* the fields of struct ring_buf
          ret,               \* result of the last call: 0 is "ok", -1 is "error"
          data               \* the caller's object that rbuf_get fills

vars == <<handle, buffer, head, tail, full, ret, data>>

Handles == {"null", "live", "freed", "aborted"}
Slots == 0 .. size - 1

Init == /\ handle = "null"
        /\ buffer = [i \in Slots |-> Zero]
        /\ head = 0 /\ tail = 0 /\ full = FALSE
        /\ ret = "void"
        /\ data \in Item
-----------------------------------------------------------------------------
(* Observers. *)

rbuf_empty == ~full /\ head = tail

rbug_full == full

rbuf_capacity == size

\* Mutant: the correction for a wrapped head is forgotten.
rbuf_size_NoWrap == IF full THEN size ELSE (head - tail) % SizeMod

\* head - tail is computed in size_t: it wraps when tail > head, and adding
\* the size wraps it back.
rbuf_size ==
  LET diff == (head - tail) % SizeMod
  IN  IF full THEN size
      ELSE IF tail > head THEN (diff + size) % SizeMod ELSE diff
-----------------------------------------------------------------------------
(* Index arithmetic. *)

inc_buf ==
  /\ \/ /\ full
        /\ tail' = (tail + 1) % size /\ head' = tail'
     \/ /\ ~full
        /\ head' = (head + 1) % size /\ UNCHANGED tail
  /\ full' = (head' = tail')

dec_buf == /\ full' = FALSE
           /\ tail' = (tail + 1) % size
           /\ UNCHANGED head
-----------------------------------------------------------------------------
(* Operations. *)

rbuf_init == /\ handle \in {"null", "freed"}
             /\ handle' = "live"
             /\ buffer' = [i \in Slots |-> Zero]
             /\ head' = 0 /\ tail' = 0 /\ full' = FALSE
             /\ ret' = "void"
             /\ UNCHANGED data

\* An assert() fails: calloc returned NULL in rbuf_init, or an operation was
\* called with a NULL handle.
assert_fails == /\ handle \in {"null", "freed"}
                /\ handle' = "aborted"
                /\ UNCHANGED <<buffer, head, tail, full, ret, data>>

rbuf_free == /\ handle = "live"
             /\ handle' = "freed"
             /\ ret' = "void"
             /\ UNCHANGED <<buffer, head, tail, full, data>>

rbuf_reset == /\ handle = "live"
              /\ head' = 0 /\ tail' = 0 /\ full' = FALSE
              /\ ret' = "void"
              /\ UNCHANGED <<handle, buffer, data>>

\* Mutant: the full test is dropped.
rbuf_put_Unchecked(d) == /\ handle = "live"
                         /\ buffer' = [buffer EXCEPT ![head] = d]
                         /\ inc_buf
                         /\ ret' = "ok"
                         /\ UNCHANGED <<handle, data>>

rbuf_put(d) == /\ handle = "live"
               /\ \/ /\ full
                     /\ ret' = "error"
                     /\ UNCHANGED <<buffer, head, tail, full>>
                  \/ /\ ~full
                     /\ buffer' = [buffer EXCEPT ![head] = d]
                     /\ inc_buf
                     /\ ret' = "ok"
               /\ UNCHANGED <<handle, data>>

rbuf_fput(d) == /\ handle = "live"
                /\ buffer' = [buffer EXCEPT ![head] = d]
                /\ inc_buf
                /\ ret' = "void"
                /\ UNCHANGED <<handle, data>>

rbuf_get == /\ handle = "live"
            /\ \/ /\ rbuf_empty
                  /\ ret' = "error"
                  /\ UNCHANGED <<head, tail, full, data>>
               \/ /\ ~rbuf_empty
                  /\ data' = buffer[tail]
                  /\ dec_buf
                  /\ ret' = "ok"
            /\ UNCHANGED <<handle, buffer>>

Next == \/ rbuf_init \/ assert_fails \/ rbuf_free \/ rbuf_reset \/ rbuf_get
        \/ \E d \in Item : rbuf_put(d) \/ rbuf_fput(d)

Spec == Init /\ [][Next]_vars
-----------------------------------------------------------------------------
(* Properties. *)

\* The fields keep their types; in particular both indices stay inside the
\* allocated slots, so no memcpy of rbuf_put, rbuf_fput or rbuf_get leaves
\* the buffer.
TypeOK == /\ handle \in Handles
          /\ buffer \in [Slots -> Item]
          /\ head \in Slots
          /\ tail \in Slots
          /\ full \in BOOLEAN
          /\ ret \in {"ok", "error", "void"}
          /\ data \in Item

\* full is only ever set while the indices meet: head = tail means either
\* empty or full and the flag alone tells which.
FullMeansMet == full => head = tail

\* The number of items stored from slot t up to slot h.
CountOf(h, t, f) == IF f THEN size ELSE IF t <= h THEN h - t ELSE h - t + size

\* The slot of the i-th oldest item when the oldest is in slot t.
SlotOf(t, i) == IF t + i - 1 < size THEN t + i - 1 ELSE t + i - 1 - size

\* The n items of the slots b from slot t on, oldest first.
QueueOf(b, t, n) == [i \in 1 .. n |-> b[SlotOf(t, i)]]

\* The queue a caller sees.
Contents == IF handle = "live"
            THEN QueueOf(buffer, tail, CountOf(head, tail, full))
            ELSE <<>>

\* rbuf_size, computed in wrapping size_t arithmetic, is the number of items
\* stored and not yet taken, whatever the wrap of the indices, and never
\* exceeds rbuf_capacity, which it reaches exactly when rbug_full says so and
\* leaves at 0 exactly when rbuf_empty does.
SizeIsLength == handle = "live" => /\ rbuf_size = Len(Contents)
                                   /\ rbuf_size <= rbuf_capacity
                                   /\ rbug_full <=> rbuf_size = rbuf_capacity
                                   /\ rbuf_empty <=> rbuf_size = 0

\* The ring buffer behaves as a bounded queue: rbuf_put refuses exactly when
\* size items are stored, rbuf_fput drops exactly the oldest one, rbuf_get
\* returns items in the order they were stored and refuses when there is none.
Fifo == INSTANCE BoundedFifo WITH Capacity <- size, contents <- Contents
ImplementsFifo == Fifo!Spec
=============================================================================
