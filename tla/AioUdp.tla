------------------------------- MODULE AioUdp -------------------------------
(***************************************************************************)
(* async_UDP_multithread/src/main.c: a list of UDP connections, opened one *)
(* after the other, each drained by the SIGIO handler; SIGQUIT frees the   *)
(* list and ends the process.                                              *)
(*                                                                         *)
(* There is one thread.  The SIGIO handler blocks every signal while it    *)
(* runs; the SIGQUIT handler blocks only SIGQUIT, so SIGIO interrupts it.  *)
(* SIGIO is a standard signal: one at most is pending, with the descriptor *)
(* of the first datagram that raised it.  Connection i's list node, lock   *)
(* and descriptor are all called i; node 0 is the list's head.             *)
(***************************************************************************)
EXTENDS Integers, Sequences

CONSTANTS NConns,    \* connections main opens
          MaxMsg     \* datagrams that arrive for a connection

ASSUME AioAssumption == NConns \in Nat \ {0} /\ MaxMsg \in Nat

Conn == 1 .. NConns

VARIABLES step,      \* main's next step
          opening,   \* the connection main is opening
          linked,    \* nodes in the list
          mem,       \* the memory of each node: none, live, nobuf, freed
          kern,      \* each socket: none, bound, owned (it raises SIGIO), closed
          locked,    \* the nodes whose mutex is locked
          quit,      \* SIGQUIT: no, sent, running
          del,       \* the node aIODeinit is at
          handler,   \* the SIGIO handler's next step, "no" when it does not run
          si_fd,     \* the descriptor the handler was called for
          pos,       \* the node findConnection calls prev
          pending,   \* the descriptor of the pending SIGIO, or 0
          queue,     \* datagrams not read
          arrived,   \* datagrams that have arrived
          missed     \* connections with datagrams no signal stands for

main == <<step, opening, linked>>
walk == <<handler, si_fd, pos>>
net == <<pending, queue, arrived, missed>>
vars == <<step, opening, linked, mem, kern, locked, quit, del, handler, si_fd, pos,
          pending, queue, arrived, missed>>

Init == /\ step = "create" /\ opening = 1 /\ linked = 0
        /\ mem = [i \in Conn |-> "none"]
        /\ kern = [i \in Conn |-> "none"]
        /\ locked = {}
        /\ quit = "no" /\ del = 1
        /\ handler = "no" /\ si_fd = 0 /\ pos = 0
        /\ pending = 0
        /\ queue = [i \in Conn |-> <<>>]
        /\ arrived = [i \in Conn |-> 0]
        /\ missed = {}

Alive == step # "exited" /\ handler # "crash"
-----------------------------------------------------------------------------
(* main: aIOOpenUDPSocket for each connection, then a loop that sleeps. *)

InMain == handler = "no" /\ quit # "running"

\* The new node is linked behind the last one before it is set up.
Create == /\ InMain /\ step = "create"
          /\ linked' = opening
          /\ mem' = [mem EXCEPT ![opening] = "live"]
          /\ step' = "lock"
          /\ UNCHANGED <<opening, kern, locked, quit, del, walk, net>>

\* Mutant: the lock taken is that of the last connection, not of its successor.
LockConn_Last == /\ InMain /\ step = "lock"
                 /\ locked' = locked \cup {opening - 1}
                 /\ step' = "bind"
                 /\ UNCHANGED <<opening, linked, mem, kern, quit, del, walk, net>>

LockConn == /\ InMain /\ step = "lock"
            /\ opening \notin locked
            /\ locked' = locked \cup {opening}
            /\ step' = "bind"
            /\ UNCHANGED <<opening, linked, mem, kern, quit, del, walk, net>>

\* socket, sigaction, O_ASYNC and F_SETSIG, then bind: datagrams may arrive.
Bind == /\ InMain /\ step = "bind"
        /\ kern' = [kern EXCEPT ![opening] = "bound"]
        /\ step' = "setown"
        /\ UNCHANGED <<opening, linked, mem, locked, quit, del, walk, net>>

\* F_SETOWN: from here on they raise SIGIO.
SetOwn == /\ InMain /\ step = "setown"
          /\ kern' = [kern EXCEPT ![opening] = "owned"]
          /\ step' = "unlock"
          /\ UNCHANGED <<opening, linked, mem, locked, quit, del, walk, net>>

UnlockConn == /\ InMain /\ step = "unlock"
              /\ locked' = locked \ {opening}
              /\ IF opening = NConns THEN step' = "tick" /\ UNCHANGED opening
                                     ELSE step' = "create" /\ opening' = opening + 1
              /\ UNCHANGED <<linked, mem, kern, quit, del, walk, net>>

\* A failed CHECK in createAsyncIO or aIOOpenUDPSocket ends the process.
CheckFails == /\ InMain /\ step \in {"create", "bind", "setown"}
              /\ step' = "exited"
              /\ UNCHANGED <<opening, linked, mem, kern, locked, quit, del, walk, net>>

aIOOpenUDPSocket == Create \/ LockConn \/ Bind \/ SetOwn \/ UnlockConn \/ CheckFails
-----------------------------------------------------------------------------
(* The network and the signals. *)

\* A datagram, empty or not, arrives.  Its SIGIO is discarded when one is
\* pending, whichever descriptor that one is for.
Arrive(i, kind) ==
  /\ Alive
  /\ kern[i] \in {"bound", "owned"}
  /\ arrived[i] < MaxMsg
  /\ arrived' = [arrived EXCEPT ![i] = @ + 1]
  /\ queue' = [queue EXCEPT ![i] = Append(@, kind)]
  /\ pending' = IF kern[i] = "owned" /\ pending = 0 THEN i ELSE pending
  /\ missed' = IF pending' = i THEN missed ELSE missed \cup {i}
  /\ UNCHANGED <<main, mem, kern, locked, quit, del, walk>>

SendQuit == /\ Alive /\ quit = "no"
            /\ quit' = "sent"
            /\ UNCHANGED <<main, mem, kern, locked, del, walk, net>>

\* SIGIO interrupts main or aIODeinit.
Deliver == /\ Alive /\ handler = "no"
           /\ pending # 0
           /\ si_fd' = pending
           /\ pending' = 0
           /\ handler' = "find"
           /\ UNCHANGED <<main, mem, kern, locked, quit, del, pos, queue, arrived, missed>>
-----------------------------------------------------------------------------
(* findConnection, in the SIGIO handler. *)

LockHead == /\ handler = "find"
            /\ 0 \notin locked
            /\ locked' = locked \cup {0}
            /\ pos' = 0
            /\ handler' = "walk"
            /\ UNCHANGED <<main, mem, kern, quit, del, si_fd, net>>

\* The node's type and descriptor match.  The allocator overwrites both when
\* the node is freed.
Matches(n) == n = si_fd /\ mem[n] # "freed"

\* Mutant: prev stays locked when the loop moves on.
WalkOn_KeepsPrev == /\ handler = "walk"
                    /\ pos < linked
                    /\ pos + 1 \notin locked
                    /\ ~Matches(pos + 1)
                    /\ locked' = locked \cup {pos + 1}
                    /\ pos' = pos + 1
                    /\ UNCHANGED <<main, mem, kern, quit, del, handler, si_fd, net>>

\* Lock curr, which is not the one; unlock prev and move on.
WalkOn == /\ handler = "walk"
          /\ pos < linked
          /\ pos + 1 \notin locked
          /\ ~Matches(pos + 1)
          /\ locked' = (locked \ {pos}) \cup {pos + 1}
          /\ pos' = pos + 1
          /\ UNCHANGED <<main, mem, kern, quit, del, handler, si_fd, net>>

\* Lock curr, which is the one; unlock prev and curr.
Found == /\ handler = "walk"
         /\ pos < linked
         /\ pos + 1 \notin locked
         /\ Matches(pos + 1)
         /\ locked' = locked \ {pos}
         /\ handler' = "conn"
         /\ UNCHANGED <<main, mem, kern, quit, del, si_fd, pos, net>>

\* Mutant: the loop ends one node early.
NotFound_Early == /\ handler = "walk"
                  /\ \/ pos + 1 >= linked
                     \/ pos < linked /\ mem[pos + 1] = "freed"
                  /\ handler' = "crash"
                  /\ UNCHANGED <<main, mem, kern, locked, quit, del, si_fd, pos, net>>

\* The list ends: NULL is returned and the handler dereferences it before it
\* checks it.  A freed node on the way may also crash the handler at once.
NotFound == /\ handler = "walk"
            /\ \/ pos = linked
               \/ pos < linked /\ mem[pos + 1] = "freed"
            /\ handler' = "crash"
            /\ UNCHANGED <<main, mem, kern, locked, quit, del, si_fd, pos, net>>

findConnection == LockHead \/ WalkOn \/ Found \/ NotFound
-----------------------------------------------------------------------------
(* aIOUDPSigHandler, after findConnection. *)

LockFound == /\ handler = "conn"
             /\ si_fd \notin locked
             /\ locked' = locked \cup {si_fd}
             /\ handler' = "recv"
             /\ UNCHANGED <<main, mem, kern, quit, del, si_fd, pos, net>>

HasData == queue[si_fd] # <<>> /\ Head(queue[si_fd]) = "data"

\* Mutant: one recv() per signal.
Recv_Once == /\ handler = "recv" /\ HasData
             /\ queue' = [queue EXCEPT ![si_fd] = Tail(@)]
                  /\ locked' = locked \ {si_fd}
             /\ handler' = "no"
             /\ UNCHANGED <<main, mem, kern, quit, del, si_fd, pos, pending, arrived, missed>>

\* recv() returns data and the callback gets it.  Reading into a freed buffer
\* corrupts the heap: the process may crash or go on.
Recv == /\ handler = "recv" /\ HasData
        /\ queue' = [queue EXCEPT ![si_fd] = Tail(@)]
        /\ \/ UNCHANGED handler
           \/ mem[si_fd] = "nobuf" /\ handler' = "crash"
        /\ UNCHANGED <<main, mem, kern, locked, quit, del, si_fd, pos, pending, arrived, missed>>

\* recv() returns 0 for an empty datagram, or -1: none is left or the socket is
\* closed.  The loop ends, whatever is behind the empty datagram.
RecvEnds ==
  LET rest == IF queue[si_fd] = <<>> THEN <<>> ELSE Tail(queue[si_fd])
  IN  /\ handler = "recv" /\ ~HasData
      /\ queue' = [queue EXCEPT ![si_fd] = rest]
      /\ missed' = IF rest = <<>> THEN missed \ {si_fd} ELSE missed \cup {si_fd}
      /\ locked' = locked \ {si_fd}
      /\ handler' = "no"
      /\ UNCHANGED <<main, mem, kern, quit, del, si_fd, pos, pending, arrived>>

aIOUDPSigHandler == Deliver \/ findConnection \/ LockFound \/ Recv \/ RecvEnds
-----------------------------------------------------------------------------
(* aIODeinit, the SIGQUIT handler. *)

TakeQuit == /\ Alive /\ handler = "no" /\ quit = "sent"
            /\ quit' = "running"
            /\ UNCHANGED <<main, mem, kern, locked, del, walk, net>>

InDeinit == Alive /\ handler = "no" /\ quit = "running" /\ del <= linked

FreeBuffer == /\ InDeinit /\ mem[del] = "live"
              /\ mem' = [mem EXCEPT ![del] = "nobuf"]
              /\ UNCHANGED <<main, kern, locked, quit, del, walk, net>>

\* close() discards the datagrams; a pending SIGIO stays.  A connection that
\* main has not yet given a socket has descriptor 0, which is closed instead.
CloseSocket == /\ InDeinit /\ mem[del] = "nobuf" /\ kern[del] # "closed"
               /\ kern' = [kern EXCEPT ![del] = "closed"]
               /\ queue' = [queue EXCEPT ![del] = <<>>]
               /\ UNCHANGED <<main, mem, locked, quit, del, walk, pending, arrived, missed>>

\* Mutant: the iterator is not advanced.
FreeConn_Stays == /\ InDeinit /\ mem[del] = "nobuf" /\ kern[del] = "closed"
                  /\ mem' = [mem EXCEPT ![del] = "freed"]
                  /\ UNCHANGED <<main, kern, locked, quit, del, walk, net>>

FreeConn == /\ InDeinit /\ mem[del] = "nobuf" /\ kern[del] = "closed"
            /\ mem' = [mem EXCEPT ![del] = "freed"]
            /\ del' = del + 1
            /\ UNCHANGED <<main, kern, locked, quit, walk, net>>

Exit == /\ Alive /\ handler = "no" /\ quit = "running" /\ del > linked
        /\ step' = "exited"
        /\ UNCHANGED <<opening, linked, mem, kern, locked, quit, del, walk, net>>

aIODeinit == TakeQuit \/ FreeBuffer \/ CloseSocket \/ FreeConn \/ Exit
-----------------------------------------------------------------------------
Next == \/ aIOOpenUDPSocket \/ aIOUDPSigHandler \/ aIODeinit \/ SendQuit
        \/ \E i \in Conn : \E kind \in {"data", "empty"} : Arrive(i, kind)

\* The process runs, and takes the signals that are pending.
Fairness == WF_vars(aIOOpenUDPSocket) /\ WF_vars(aIOUDPSigHandler) /\ WF_vars(aIODeinit)

Spec == Init /\ [][Next]_vars /\ Fairness
-----------------------------------------------------------------------------
(* Properties. *)

TypeOK == /\ step \in {"create", "lock", "bind", "setown", "unlock", "tick", "exited"}
          /\ opening \in Conn /\ linked \in 0 .. NConns
          /\ mem \in [Conn -> {"none", "live", "nobuf", "freed"}]
          /\ kern \in [Conn -> {"none", "bound", "owned", "closed"}]
          /\ locked \subseteq 0 .. NConns
          /\ quit \in {"no", "sent", "running"} /\ del \in 1 .. NConns + 1
          /\ handler \in {"no", "find", "walk", "conn", "recv", "crash"}
          /\ si_fd \in 0 .. NConns /\ pos \in 0 .. linked
          /\ pending \in 0 .. NConns
          /\ queue \in [Conn -> Seq({"data", "empty"})]
          /\ arrived \in [Conn -> 0 .. MaxMsg]
          /\ missed \subseteq Conn

\* Datagrams wait unread only if a signal for their socket is pending, the
\* handler works for it, or their signal was never there: they arrived between
\* bind (main.c:228) and F_SETOWN (230), while another socket's SIGIO was
\* pending, or behind an empty datagram.
NoneLeftBehind ==
  \A i \in Conn : queue[i] # <<>> => \/ pending = i
                                     \/ handler # "no" /\ si_fd = i
                                     \/ i \in missed

\* Every lock has a holder that will release it: main while it opens that
\* connection, findConnection at that node, or the handler reading for it.
LocksHaveHolders ==
  handler # "crash" =>
    \A n \in locked : \/ n = opening /\ step \notin {"create", "lock", "tick"}
                      \/ handler = "walk" /\ n = pos
                      \/ handler = "recv" /\ n = si_fd

Stuck == \/ handler = "find" /\ 0 \in locked
         \/ handler = "walk" /\ pos < linked /\ pos + 1 \in locked
         \/ handler = "conn" /\ si_fd \in locked

\* The handler waits for a lock that the code it interrupted holds, for ever,
\* only when a datagram arrives between F_SETOWN and the unlock that follows it
\* (main.c:230-232), or when it looks for a connection that is freed already.
StuckOnlyOnOpening ==
  Stuck => \/ step = "unlock" /\ opening = si_fd
           \/ quit = "running" /\ mem[si_fd] = "freed"

\* The connection a signal is for is always found, with its memory intact,
\* unless aIODeinit has begun to free the list.
CrashOnlyAtQuit == handler = "crash" => quit = "running"

\* SIGQUIT ends the process, unless the SIGIO handler is stuck or has crashed.
QuitEnds == quit = "sent" ~> (step = "exited" \/ handler = "crash" \/ Stuck)
=============================================================================
