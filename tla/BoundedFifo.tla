----------------------------- MODULE BoundedFifo -----------------------------
(***************************************************************************)
(* What a bounded queue object promises its caller, with no indices and no *)
(* wrap-around: the items it holds, oldest first, and the result of the    *)
(* last call.  The ring buffer of ring_buffer/src/rbuf.c implements it.    *)
(***************************************************************************)
EXTENDS Integers, Sequences

CONSTANTS Item,      \* the values a caller may store
          Capacity   \* how many of them fit

VARIABLES handle,    \* life cycle of the object: see Handles
          contents,  \* the stored items, oldest first
          ret,       \* result of the last call: "ok", "error" or "void"
          data       \* the caller's buffer that Get fills

vars == <<handle, contents, ret, data>>

Handles == {"null", "live", "freed", "aborted"}

Init == /\ handle = "null"
        /\ contents = <<>>
        /\ ret = "void"
        /\ data \in Item

Create == /\ handle \in {"null", "freed"}
          /\ handle' = "live"
          /\ contents' = <<>>
          /\ ret' = "void"
          /\ UNCHANGED data

Destroy == /\ handle = "live"
           /\ handle' = "freed"
           /\ contents' = <<>>
           /\ ret' = "void"
           /\ UNCHANGED data

Abort == /\ handle \in {"null", "freed"}
         /\ handle' = "aborted"
         /\ UNCHANGED <<contents, ret, data>>

Clear == /\ handle = "live"
         /\ contents' = <<>>
         /\ ret' = "void"
         /\ UNCHANGED <<handle, data>>

\* An item is appended when there is room and refused otherwise.
Put(d) == /\ handle = "live"
          /\ \/ /\ Len(contents) < Capacity
                /\ contents' = Append(contents, d)
                /\ ret' = "ok"
             \/ /\ Len(contents) = Capacity
                /\ ret' = "error"
                /\ UNCHANGED contents
          /\ UNCHANGED <<handle, data>>

\* An item is always appended; in a full queue the oldest one makes room.
ForcePut(d) == /\ handle = "live"
               /\ \/ /\ Len(contents) < Capacity
                     /\ contents' = Append(contents, d)
                  \/ /\ Len(contents) = Capacity
                     /\ contents' = Append(Tail(contents), d)
               /\ ret' = "void"
               /\ UNCHANGED <<handle, data>>

Get == /\ handle = "live"
       /\ \/ /\ contents # <<>>
             /\ data' = Head(contents)
             /\ contents' = Tail(contents)
             /\ ret' = "ok"
          \/ /\ contents = <<>>
             /\ ret' = "error"
             /\ UNCHANGED <<contents, data>>
       /\ UNCHANGED handle

Next == \/ Create \/ Destroy \/ Abort \/ Clear \/ Get
        \/ \E d \in Item : Put(d) \/ ForcePut(d)

Spec == Init /\ [][Next]_vars
=============================================================================
