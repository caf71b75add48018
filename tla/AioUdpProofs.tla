---------------------------- MODULE AioUdpProofs ----------------------------
(***************************************************************************)
(* Proofs about async_UDP_multithread (AioUdp), for any number of          *)
(* connections and datagrams: what waits unread, who holds the locks, when *)
(* the SIGIO handler waits for ever and when it crashes.                   *)
(***************************************************************************)
EXTENDS AioUdp, TLAPS

\* The list grows with the connections that main opens.
OpenInv == /\ step = "create" => linked = opening - 1
           /\ step \in {"lock", "bind", "setown", "unlock", "tick"} => linked = opening
           /\ linked \in {opening - 1, opening}

\* main has called F_SETOWN for connection i, so that it can raise SIGIO.
Ready(i) == i < opening \/ (i = opening /\ step \in {"unlock", "tick", "exited"})

\* Signals are for connections that are in the list, and the process does not
\* end in the handler.
SignalInv == /\ \A i \in Conn : kern[i] = "owned" => Ready(i)
             /\ pending # 0 => Ready(pending)
             /\ handler # "no" => si_fd \in Conn /\ Ready(si_fd) /\ step # "exited"

\* Only aIODeinit frees.
MemInv == quit # "running" => \A i \in Conn : mem[i] \in {"none", "live"}

\* findConnection has not gone past the node it looks for, unless that was freed.
WalkInv == handler = "walk" => pos < si_fd \/ mem[si_fd] = "freed"

\* The inductive invariant.
Inv == /\ TypeOK /\ OpenInv /\ SignalInv /\ MemInv /\ WalkInv
       /\ NoneLeftBehind /\ LocksHaveHolders /\ CrashOnlyAtQuit

LEMMA InitInv == Init => Inv
<1> SUFFICES ASSUME Init PROVE Inv
  OBVIOUS
<1> USE AioAssumption
<1>1. TypeOK
  BY DEF Init, TypeOK, Conn
<1>2. OpenInv /\ SignalInv /\ MemInv /\ WalkInv
  BY DEF Init, OpenInv, SignalInv, MemInv, WalkInv
<1>3. NoneLeftBehind /\ LocksHaveHolders /\ CrashOnlyAtQuit
  BY DEF Init, NoneLeftBehind, LocksHaveHolders, CrashOnlyAtQuit
<1> QED
  BY <1>1, <1>2, <1>3 DEF Inv
-----------------------------------------------------------------------------
(* main. *)

\* While main runs no handler does, and the only lock is that of the connection
\* main is opening.
LEMMA MainLocks ==
  ASSUME Inv, handler = "no"
  PROVE  /\ locked \subseteq {opening}
         /\ step \in {"create", "lock", "tick"} => locked = {}
BY DEF Inv, LocksHaveHolders

LEMMA OpenStep ==
  ASSUME Inv, aIOOpenUDPSocket
  PROVE  Inv'
<1> USE AioAssumption
<1>1. /\ handler = "no" /\ quit # "running"
      /\ UNCHANGED <<quit, del, handler, si_fd, pos, pending, queue, arrived, missed>>
  BY DEF aIOOpenUDPSocket, Create, LockConn, Bind, SetOwn, UnlockConn, CheckFails, InMain, walk, net
<1>2. NoneLeftBehind' /\ CrashOnlyAtQuit' /\ WalkInv'
  BY <1>1 DEF Inv, NoneLeftBehind, CrashOnlyAtQuit, WalkInv
<1>3. /\ opening \in Conn /\ opening \in Int /\ linked \in 0 .. NConns
      /\ step \in {"create", "lock", "bind", "setown", "unlock", "tick", "exited"}
  BY DEF Inv, TypeOK, Conn
<1>4. CASE Create
  <2>1. /\ step = "create" /\ step' = "lock" /\ linked' = opening /\ linked = opening - 1
        /\ mem' = [mem EXCEPT ![opening] = "live"] /\ UNCHANGED <<opening, kern, locked>>
    BY <1>4 DEF Create, Inv, OpenInv
  <2>2. mem' \in [Conn -> {"none", "live", "nobuf", "freed"}]
    BY <2>1 DEF Inv, TypeOK
  <2>3. TypeOK'
    BY <1>1, <1>3, <2>1, <2>2 DEF Inv, TypeOK, Conn
  <2>4. MemInv'
    BY <1>1, <2>1 DEF Inv, TypeOK, MemInv
  <2>5. OpenInv' /\ SignalInv'
    BY <1>1, <1>3, <2>1 DEF Inv, OpenInv, SignalInv, Ready
  <2>6. LocksHaveHolders'
    BY <1>1, <2>1, MainLocks DEF LocksHaveHolders
  <2> QED
    BY <1>2, <2>3, <2>4, <2>5, <2>6 DEF Inv
<1>5. CASE LockConn
  <2>1. /\ step = "lock" /\ step' = "bind" /\ locked' = locked \cup {opening}
        /\ UNCHANGED <<opening, linked, mem, kern>>
    BY <1>5 DEF LockConn
  <2>2. TypeOK'
    BY <1>1, <1>3, <2>1 DEF Inv, TypeOK, Conn
  <2>3. OpenInv' /\ SignalInv' /\ MemInv'
    BY <1>1, <1>3, <2>1 DEF Inv, OpenInv, SignalInv, MemInv, Ready
  <2>4. LocksHaveHolders'
    BY <1>1, <2>1, MainLocks DEF LocksHaveHolders
  <2> QED
    BY <1>2, <2>2, <2>3, <2>4 DEF Inv
<1>6. CASE Bind
  <2>1. /\ step = "bind" /\ step' = "setown" /\ kern' = [kern EXCEPT ![opening] = "bound"]
        /\ UNCHANGED <<opening, linked, mem, locked>>
    BY <1>6 DEF Bind
  <2>2. kern' \in [Conn -> {"none", "bound", "owned", "closed"}]
    BY <2>1 DEF Inv, TypeOK
  <2>3. TypeOK'
    BY <1>1, <2>1, <2>2 DEF Inv, TypeOK
  <2>4. OpenInv' /\ SignalInv' /\ MemInv'
    BY <1>1, <1>3, <2>1 DEF Inv, TypeOK, OpenInv, SignalInv, MemInv, Ready
  <2>5. LocksHaveHolders'
    BY <1>1, <2>1, MainLocks DEF LocksHaveHolders
  <2> QED
    BY <1>2, <2>3, <2>4, <2>5 DEF Inv
<1>7. CASE SetOwn
  <2>1. /\ step = "setown" /\ step' = "unlock" /\ kern' = [kern EXCEPT ![opening] = "owned"]
        /\ UNCHANGED <<opening, linked, mem, locked>>
    BY <1>7 DEF SetOwn
  <2>2. kern' \in [Conn -> {"none", "bound", "owned", "closed"}]
    BY <2>1 DEF Inv, TypeOK
  <2>3. TypeOK'
    BY <1>1, <2>1, <2>2 DEF Inv, TypeOK
  <2>4. OpenInv' /\ SignalInv' /\ MemInv'
    BY <1>1, <1>3, <2>1 DEF Inv, TypeOK, OpenInv, SignalInv, MemInv, Ready
  <2>5. LocksHaveHolders'
    BY <1>1, <2>1, MainLocks DEF LocksHaveHolders
  <2> QED
    BY <1>2, <2>3, <2>4, <2>5 DEF Inv
<1>8. CASE UnlockConn
  <2>1. /\ step = "unlock" /\ locked' = locked \ {opening} /\ UNCHANGED <<linked, mem, kern>>
        /\ \/ opening = NConns /\ step' = "tick" /\ opening' = opening
           \/ opening # NConns /\ step' = "create" /\ opening' = opening + 1
    BY <1>8 DEF UnlockConn
  <2>2. TypeOK'
    BY <1>1, <2>1 DEF Inv, TypeOK, Conn
  <2>3. OpenInv' /\ MemInv'
    BY <1>1, <1>3, <2>1 DEF Inv, OpenInv, MemInv
  <2>4. SignalInv'
    BY <1>1, <1>3, <2>1 DEF Inv, TypeOK, SignalInv, Ready, Conn
  <2>5. LocksHaveHolders'
    BY <1>1, <2>1, MainLocks DEF LocksHaveHolders
  <2> QED
    BY <1>2, <2>2, <2>3, <2>4, <2>5 DEF Inv
<1>9. CASE CheckFails
  <2>1. /\ step \in {"create", "bind", "setown"} /\ step' = "exited"
        /\ UNCHANGED <<opening, linked, mem, kern, locked>>
    BY <1>9 DEF CheckFails
  <2>2. TypeOK'
    BY <1>1, <2>1 DEF Inv, TypeOK
  <2>3. OpenInv' /\ SignalInv' /\ MemInv'
    BY <1>1, <1>3, <2>1 DEF Inv, OpenInv, SignalInv, MemInv, Ready
  <2>4. LocksHaveHolders'
    BY <1>1, <2>1, MainLocks DEF LocksHaveHolders
  <2> QED
    BY <1>2, <2>2, <2>3, <2>4 DEF Inv
<1> QED
  BY <1>4, <1>5, <1>6, <1>7, <1>8, <1>9 DEF aIOOpenUDPSocket
-----------------------------------------------------------------------------
(* The network and the signals. *)

LEMMA ArriveStep ==
  ASSUME Inv, NEW i \in Conn, NEW kind \in {"data", "empty"}, Arrive(i, kind)
  PROVE  Inv'
<1> USE AioAssumption
<1>1. /\ UNCHANGED <<step, opening, linked, mem, kern, locked, quit, del, handler, si_fd, pos>>
      /\ arrived[i] < MaxMsg /\ arrived' = [arrived EXCEPT ![i] = @ + 1]
      /\ queue' = [queue EXCEPT ![i] = Append(@, kind)]
      /\ pending' = IF kern[i] = "owned" /\ pending = 0 THEN i ELSE pending
      /\ missed' = IF pending' = i THEN missed ELSE missed \cup {i}
  BY DEF Arrive, main, walk
<1>2. queue' \in [Conn -> Seq({"data", "empty"})]
  <2>1. queue \in [Conn -> Seq({"data", "empty"})]
    BY DEF Inv, TypeOK
  <2>2. Append(queue[i], kind) \in Seq({"data", "empty"})
    BY <2>1
  <2> QED
    BY <1>1, <2>1, <2>2
<1>3. arrived' \in [Conn -> 0 .. MaxMsg] /\ pending' \in 0 .. NConns /\ missed' \subseteq Conn
  <2>1. arrived \in [Conn -> 0 .. MaxMsg] /\ arrived[i] \in 0 .. MaxMsg
    BY DEF Inv, TypeOK
  <2>2. arrived[i] + 1 \in 0 .. MaxMsg
    BY <1>1, <2>1
  <2>3. arrived' \in [Conn -> 0 .. MaxMsg]
    BY <1>1, <2>1, <2>2
  <2>4. pending' \in 0 .. NConns /\ missed' \subseteq Conn
    BY <1>1 DEF Inv, TypeOK, Conn
  <2> QED
    BY <2>3, <2>4
<1>4. TypeOK'
  BY <1>1, <1>2, <1>3 DEF Inv, TypeOK
<1>5. OpenInv' /\ MemInv' /\ WalkInv' /\ LocksHaveHolders' /\ CrashOnlyAtQuit'
  BY <1>1 DEF Inv, OpenInv, MemInv, WalkInv, LocksHaveHolders, CrashOnlyAtQuit
<1>6. SignalInv'
  BY <1>1 DEF Inv, SignalInv, Ready
<1>7. NoneLeftBehind'
  <2>1. \A j \in Conn \ {i} : queue'[j] = queue[j]
    BY <1>1 DEF Inv, TypeOK
  <2>2. pending # 0 => pending' = pending
    BY <1>1
  <2> QED
    BY <1>1, <2>1, <2>2 DEF Inv, NoneLeftBehind, Conn
<1> QED
  BY <1>4, <1>5, <1>6, <1>7 DEF Inv

LEMMA SendQuitStep ==
  ASSUME Inv, SendQuit
  PROVE  Inv'
<1>1. /\ UNCHANGED <<step, opening, linked, mem, kern, locked, del, handler, si_fd, pos, pending,
                     queue, arrived, missed>>
      /\ quit = "no" /\ quit' = "sent"
  BY DEF SendQuit, main, walk, net
<1>2. TypeOK'
  BY <1>1 DEF Inv, TypeOK
<1> QED
  BY <1>1, <1>2 DEF Inv, OpenInv, SignalInv, Ready, MemInv, WalkInv, NoneLeftBehind,
                    LocksHaveHolders, CrashOnlyAtQuit

LEMMA DeliverStep ==
  ASSUME Inv, Deliver
  PROVE  Inv'
<1>1. /\ UNCHANGED <<step, opening, linked, mem, kern, locked, quit, del, pos, queue, arrived, missed>>
      /\ handler = "no" /\ handler' = "find" /\ pending # 0 /\ si_fd' = pending /\ pending' = 0
      /\ step # "exited"
  BY DEF Deliver, Alive, main
<1>2. TypeOK' /\ pending \in Conn
  BY <1>1, AioAssumption DEF Inv, TypeOK, Conn
<1>3. OpenInv' /\ SignalInv' /\ MemInv' /\ WalkInv' /\ CrashOnlyAtQuit'
  BY <1>1, <1>2 DEF Inv, OpenInv, SignalInv, Ready, MemInv, WalkInv, CrashOnlyAtQuit
<1>4. NoneLeftBehind' /\ LocksHaveHolders'
  BY <1>1, <1>2 DEF Inv, NoneLeftBehind, LocksHaveHolders
<1> QED
  BY <1>2, <1>3, <1>4 DEF Inv
-----------------------------------------------------------------------------
(* The SIGIO handler. *)

\* Steps of the handler that only touch the locks and its own variables.
LEMMA HandlerStep ==
  ASSUME Inv, UNCHANGED <<step, opening, linked, mem, kern, quit, del, si_fd, pending, arrived>>,
         handler # "no", handler' \in {"find", "walk", "conn", "recv", "crash"},
         UNCHANGED <<queue, missed>>,
         locked' \subseteq 0 .. NConns, pos' \in 0 .. linked,
         WalkInv', LocksHaveHolders', CrashOnlyAtQuit'
  PROVE  Inv'
<1>1. TypeOK'
  BY DEF Inv, TypeOK
<1>2. OpenInv' /\ SignalInv' /\ MemInv' /\ NoneLeftBehind'
  BY DEF Inv, OpenInv, SignalInv, Ready, MemInv, NoneLeftBehind
<1> QED
  BY <1>1, <1>2 DEF Inv

\* The connection that a signal is for is in the list.
LEMMA SignalledIsLinked ==
  ASSUME Inv, handler # "no"
  PROVE  si_fd \in Conn /\ si_fd <= linked
BY AioAssumption DEF Inv, TypeOK, SignalInv, Ready, OpenInv, Conn

LEMMA FindStep ==
  ASSUME Inv, findConnection
  PROVE  Inv'
<1> USE AioAssumption
<1>0. /\ locked \subseteq 0 .. NConns /\ linked \in 0 .. NConns /\ pos \in 0 .. linked
      /\ UNCHANGED <<step, opening, linked, mem, kern, quit, del, si_fd, pending, arrived,
                     queue, missed>>
      /\ handler \in {"find", "walk"} /\ si_fd \in Conn /\ si_fd <= linked
  BY SignalledIsLinked DEF Inv, TypeOK, findConnection, LockHead, WalkOn, Found, NotFound, main, net
<1>1. CASE LockHead
  <2>1. /\ handler = "find" /\ handler' = "walk" /\ locked' = locked \cup {0} /\ pos' = 0
    BY <1>1 DEF LockHead
  <2>2. WalkInv' /\ LocksHaveHolders' /\ CrashOnlyAtQuit'
    BY <1>0, <2>1 DEF Inv, WalkInv, LocksHaveHolders, CrashOnlyAtQuit, Conn
  <2> QED
    BY <1>0, <2>1, <2>2, HandlerStep
<1>2. CASE WalkOn
  <2>1. /\ handler = "walk" /\ handler' = "walk" /\ pos < linked /\ pos' = pos + 1
        /\ locked' = (locked \ {pos}) \cup {pos + 1}
        /\ pos + 1 # si_fd \/ mem[pos + 1] = "freed"
    BY <1>2 DEF WalkOn, Matches
  <2>2. WalkInv' /\ CrashOnlyAtQuit'
    BY <1>0, <2>1 DEF Inv, WalkInv, CrashOnlyAtQuit, Conn
  <2>3. LocksHaveHolders'
    BY <1>0, <2>1 DEF Inv, LocksHaveHolders
  <2>4. pos' \in 0 .. linked /\ locked' \subseteq 0 .. NConns
    BY <1>0, <2>1
  <2> QED
    BY <1>0, <2>1, <2>2, <2>3, <2>4, HandlerStep
<1>3. CASE Found
  <2>1. handler = "walk" /\ handler' = "conn" /\ locked' = locked \ {pos} /\ pos' = pos
    BY <1>3 DEF Found
  <2>2. WalkInv' /\ LocksHaveHolders' /\ CrashOnlyAtQuit'
    BY <1>0, <2>1 DEF Inv, WalkInv, LocksHaveHolders, CrashOnlyAtQuit
  <2> QED
    BY <1>0, <2>1, <2>2, HandlerStep
<1>4. CASE NotFound
  <2>1. /\ handler = "walk" /\ handler' = "crash" /\ locked' = locked /\ pos' = pos
        /\ pos = linked \/ (pos < linked /\ mem[pos + 1] = "freed")
    BY <1>4 DEF NotFound
  <2>2. pos = linked => mem[si_fd] = "freed"
    BY <1>0, <2>1 DEF Inv, WalkInv, Conn
  <2>3. pos < linked => pos + 1 \in Conn
    BY <1>0 DEF Conn
  <2>4. \E n \in Conn : mem[n] = "freed"
    BY <1>0, <2>1, <2>2, <2>3
  <2>5. quit = "running"
    BY <2>4 DEF Inv, MemInv
  <2>6. WalkInv' /\ LocksHaveHolders' /\ CrashOnlyAtQuit'
    BY <1>0, <2>1, <2>5 DEF WalkInv, LocksHaveHolders, CrashOnlyAtQuit
  <2> QED
    BY <1>0, <2>1, <2>6, HandlerStep
<1> QED
  BY <1>1, <1>2, <1>3, <1>4 DEF findConnection

LEMMA LockFoundStep ==
  ASSUME Inv, LockFound
  PROVE  Inv'
<1>1. /\ UNCHANGED <<step, opening, linked, mem, kern, quit, del, si_fd, pos, pending, arrived,
                     queue, missed>>
      /\ handler = "conn" /\ handler' = "recv" /\ locked' = locked \cup {si_fd}
  BY DEF LockFound, main, net
<1>2. si_fd \in Conn /\ locked \subseteq 0 .. NConns /\ pos \in 0 .. linked
  BY <1>1, SignalledIsLinked DEF Inv, TypeOK
<1>3. locked' \subseteq 0 .. NConns
  BY <1>1, <1>2, AioAssumption DEF Conn
<1>4. WalkInv' /\ LocksHaveHolders' /\ CrashOnlyAtQuit'
  BY <1>1 DEF Inv, WalkInv, LocksHaveHolders, CrashOnlyAtQuit
<1> QED
  BY <1>1, <1>2, <1>3, <1>4, HandlerStep

LEMMA RecvStep ==
  ASSUME Inv, Recv \/ RecvEnds
  PROVE  Inv'
<1>0. /\ UNCHANGED <<step, opening, linked, mem, kern, quit, del, si_fd, pos, pending, arrived>>
      /\ handler = "recv"
  BY DEF Recv, RecvEnds, main
<1>1. si_fd \in Conn /\ queue \in [Conn -> Seq({"data", "empty"})]
  BY <1>0, SignalledIsLinked DEF Inv, TypeOK
<1>2. OpenInv' /\ MemInv'
  BY <1>0 DEF Inv, OpenInv, MemInv
<1>3. CASE Recv
  <2>1. /\ queue[si_fd] # <<>> /\ queue' = [queue EXCEPT ![si_fd] = Tail(@)]
        /\ UNCHANGED <<locked, missed>>
        /\ handler' = "recv" \/ (handler' = "crash" /\ mem[si_fd] = "nobuf")
    BY <1>0, <1>3 DEF Recv, HasData
  <2>2. queue' \in [Conn -> Seq({"data", "empty"})]
    <3>1. Tail(queue[si_fd]) \in Seq({"data", "empty"})
      BY <1>1, <2>1
    <3> QED
      BY <1>1, <2>1, <3>1
  <2>3. TypeOK'
    BY <1>0, <2>1, <2>2 DEF Inv, TypeOK
  <2>4. handler' = "crash" => quit = "running"
    BY <1>1, <2>1 DEF Inv, MemInv
  <2>5. SignalInv' /\ WalkInv' /\ LocksHaveHolders' /\ CrashOnlyAtQuit'
    BY <1>0, <2>1, <2>4 DEF Inv, SignalInv, Ready, WalkInv, LocksHaveHolders, CrashOnlyAtQuit
  <2>6. NoneLeftBehind'
    BY <1>0, <1>1, <2>1 DEF Inv, NoneLeftBehind
  <2> QED
    BY <1>2, <2>3, <2>5, <2>6 DEF Inv
<1>4. CASE RecvEnds
  <2>1. PICK rest : /\ rest = IF queue[si_fd] = <<>> THEN <<>> ELSE Tail(queue[si_fd])
                    /\ queue' = [queue EXCEPT ![si_fd] = rest]
                    /\ missed' = IF rest = <<>> THEN missed \ {si_fd} ELSE missed \cup {si_fd}
                    /\ locked' = locked \ {si_fd} /\ handler' = "no"
    BY <1>4 DEF RecvEnds
  <2>2. rest \in Seq({"data", "empty"})
    BY <1>1, <2>1
  <2>3. queue' \in [Conn -> Seq({"data", "empty"})]
    BY <1>1, <2>1, <2>2
  <2>4. TypeOK'
    BY <1>0, <1>1, <2>1, <2>3 DEF Inv, TypeOK
  <2>5. SignalInv' /\ WalkInv' /\ CrashOnlyAtQuit'
    BY <1>0, <2>1 DEF Inv, SignalInv, Ready, WalkInv, CrashOnlyAtQuit
  <2>6. LocksHaveHolders'
    BY <1>0, <2>1 DEF Inv, LocksHaveHolders
  <2>7. NoneLeftBehind'
    <3>1. queue'[si_fd] = rest /\ \A i \in Conn \ {si_fd} : queue'[i] = queue[i]
      BY <1>1, <2>1
    <3>2. queue'[si_fd] # <<>> => si_fd \in missed'
      BY <2>1, <3>1
    <3>3. \A i \in Conn \ {si_fd} : queue[i] # <<>> => pending = i \/ i \in missed'
      BY <1>0, <2>1 DEF Inv, NoneLeftBehind
    <3> QED
      BY <1>0, <3>1, <3>2, <3>3 DEF NoneLeftBehind
  <2> QED
    BY <1>2, <2>4, <2>5, <2>6, <2>7 DEF Inv
<1> QED
  BY <1>3, <1>4
-----------------------------------------------------------------------------
(* aIODeinit. *)

LEMMA DeinitStep ==
  ASSUME Inv, aIODeinit
  PROVE  Inv'
<1> USE AioAssumption
<1>0. /\ UNCHANGED <<opening, linked, locked, handler, si_fd, pos, pending, arrived, missed>>
      /\ handler = "no" /\ quit' = "running"
      /\ step' = step \/ step' = "exited"
  BY DEF aIODeinit, TakeQuit, FreeBuffer, CloseSocket, FreeConn, Exit, InDeinit, main, walk, net
<1>1. OpenInv' /\ MemInv' /\ WalkInv' /\ CrashOnlyAtQuit'
  BY <1>0 DEF Inv, OpenInv, MemInv, WalkInv, CrashOnlyAtQuit
<1>2. LocksHaveHolders'
  BY <1>0, MainLocks DEF LocksHaveHolders
<1>3. CASE TakeQuit \/ Exit
  <2>1. UNCHANGED <<mem, kern, del, queue>>
    BY <1>3 DEF TakeQuit, Exit, walk, net
  <2>2. TypeOK'
    BY <1>0, <2>1 DEF Inv, TypeOK
  <2>3. SignalInv' /\ NoneLeftBehind'
    BY <1>0, <2>1 DEF Inv, SignalInv, Ready, NoneLeftBehind
  <2> QED
    BY <1>1, <1>2, <2>2, <2>3 DEF Inv
<1>4. CASE FreeBuffer \/ FreeConn
  <2>1. /\ UNCHANGED <<step, kern, queue>> /\ del <= linked
        /\ \E m \in {"nobuf", "freed"} : mem' = [mem EXCEPT ![del] = m]
        /\ del' \in {del, del + 1}
    BY <1>4 DEF FreeBuffer, FreeConn, InDeinit, main, net
  <2>2. mem' \in [Conn -> {"none", "live", "nobuf", "freed"}] /\ del' \in 1 .. NConns + 1
    <3>1. mem \in [Conn -> {"none", "live", "nobuf", "freed"}]
      BY DEF Inv, TypeOK
    <3>2. mem' \in [Conn -> {"none", "live", "nobuf", "freed"}]
      BY <2>1, <3>1
    <3>3. del \in 1 .. NConns + 1 /\ linked \in 0 .. NConns
      BY DEF Inv, TypeOK
    <3> QED
      BY <2>1, <3>2, <3>3
  <2>3. TypeOK'
    BY <1>0, <2>1, <2>2 DEF Inv, TypeOK
  <2>4. SignalInv' /\ NoneLeftBehind'
    BY <1>0, <2>1 DEF Inv, SignalInv, Ready, NoneLeftBehind
  <2> QED
    BY <1>1, <1>2, <2>3, <2>4 DEF Inv
<1>5. CASE CloseSocket
  <2>1. /\ UNCHANGED <<step, mem, del>> /\ del <= linked
        /\ kern' = [kern EXCEPT ![del] = "closed"] /\ queue' = [queue EXCEPT ![del] = <<>>]
    BY <1>5 DEF CloseSocket, InDeinit, main
  <2>2. /\ kern' \in [Conn -> {"none", "bound", "owned", "closed"}]
        /\ queue' \in [Conn -> Seq({"data", "empty"})]
    <3>1. kern' \in [Conn -> {"none", "bound", "owned", "closed"}]
      BY <2>1 DEF Inv, TypeOK
    <3>2. queue \in [Conn -> Seq({"data", "empty"})] /\ <<>> \in Seq({"data", "empty"})
      BY DEF Inv, TypeOK
    <3>3. queue' \in [Conn -> Seq({"data", "empty"})]
      BY <2>1, <3>2
    <3> QED
      BY <3>1, <3>3
  <2>3. TypeOK'
    BY <1>0, <2>1, <2>2 DEF Inv, TypeOK
  <2>4. /\ \A i \in Conn : kern'[i] = "owned" => kern[i] = "owned"
        /\ \A i \in Conn : queue'[i] # <<>> => queue[i] # <<>>
    BY <2>1 DEF Inv, TypeOK
  <2>5. SignalInv' /\ NoneLeftBehind'
    BY <1>0, <2>1, <2>4 DEF Inv, SignalInv, Ready, NoneLeftBehind
  <2> QED
    BY <1>1, <1>2, <2>3, <2>5 DEF Inv
<1> QED
  BY <1>3, <1>4, <1>5 DEF aIODeinit
-----------------------------------------------------------------------------
LEMMA NextInv == Inv /\ [Next]_vars => Inv'
<1> SUFFICES ASSUME Inv, [Next]_vars PROVE Inv'
  OBVIOUS
<1>1. CASE UNCHANGED vars
  BY <1>1 DEF vars, Inv, TypeOK, OpenInv, SignalInv, Ready, MemInv, WalkInv, NoneLeftBehind,
              LocksHaveHolders, CrashOnlyAtQuit
<1>2. CASE aIOUDPSigHandler
  BY <1>2, DeliverStep, FindStep, LockFoundStep, RecvStep DEF aIOUDPSigHandler
<1> QED
  BY <1>1, <1>2, OpenStep, DeinitStep, SendQuitStep, ArriveStep DEF Next

LEMMA SpecInv == Spec => []Inv
BY InitInv, NextInv, PTL DEF Spec

\* Every variable keeps its type; so aIODeinit never runs past the list's end.
THEOREM TypeCorrect == Spec => []TypeOK
<1>1. Inv => TypeOK
  BY DEF Inv
<1> QED
  BY SpecInv, <1>1, PTL

\* A datagram that waits has a signal or a handler, or came without one: between
\* bind and F_SETOWN, while another socket's SIGIO was pending, or behind an
\* empty datagram (main.c:183-190, 228-230).
THEOREM NoDatagramLeftBehind == Spec => []NoneLeftBehind
<1>1. Inv => NoneLeftBehind
  BY DEF Inv
<1> QED
  BY SpecInv, <1>1, PTL

\* The hand-over-hand locking of findConnection leaves no lock behind.
THEOREM LocksAreHeld == Spec => []LocksHaveHolders
<1>1. Inv => LocksHaveHolders
  BY DEF Inv
<1> QED
  BY SpecInv, <1>1, PTL

\* The handler waits for a lock for ever only if it interrupted main between
\* F_SETOWN and the unlock of the connection it looks for, or the list is being
\* freed.
THEOREM StuckOnOpening == Spec => []StuckOnlyOnOpening
<1>1. Inv => StuckOnlyOnOpening
  <2> SUFFICES ASSUME Inv, Stuck
               PROVE  \/ step = "unlock" /\ opening = si_fd
                      \/ quit = "running" /\ mem[si_fd] = "freed"
    BY DEF StuckOnlyOnOpening
  <2>0. /\ handler \in {"find", "walk", "conn"} /\ opening \in Conn /\ si_fd \in Conn
        /\ si_fd <= linked /\ Ready(si_fd) /\ step # "exited"
        /\ pos \in 0 .. linked /\ linked \in 0 .. NConns
        /\ step \in {"create", "lock", "bind", "setown", "unlock", "tick", "exited"}
    BY SignalledIsLinked DEF Stuck, Inv, TypeOK, SignalInv
  <2>1. PICK n \in locked : \/ handler = "find" /\ n = 0
                            \/ handler = "walk" /\ n = pos + 1
                            \/ handler = "conn" /\ n = si_fd
    BY DEF Stuck
  <2>2. n = opening /\ step \in {"bind", "setown", "unlock"}
    BY <2>0, <2>1 DEF Inv, LocksHaveHolders
  <2>3. handler # "find"
    BY <2>0, <2>1, <2>2, AioAssumption DEF Conn
  <2>4. CASE handler = "conn"
    BY <2>0, <2>1, <2>2, <2>4, AioAssumption DEF Ready, Conn
  <2>5. CASE handler = "walk" /\ mem[si_fd] = "freed"
    BY <2>0, <2>5 DEF Inv, MemInv
  <2>6. CASE handler = "walk" /\ mem[si_fd] # "freed"
    <3>1. pos < si_fd /\ pos + 1 = opening
      BY <2>1, <2>2, <2>6 DEF Inv, WalkInv
    <3> QED
      BY <2>0, <2>2, <3>1, AioAssumption DEF Ready, Conn
  <2> QED
    BY <2>0, <2>3, <2>4, <2>5, <2>6
<1> QED
  BY SpecInv, <1>1, PTL

\* findConnection returns a connection, and its buffer is there, until aIODeinit
\* begins to free the list: the NULL that the handler does not check (main.c:174-181)
\* is never returned before.
THEOREM CrashAtQuitOnly == Spec => []CrashOnlyAtQuit
<1>1. Inv => CrashOnlyAtQuit
  BY DEF Inv
<1> QED
  BY SpecInv, <1>1, PTL
=============================================================================
