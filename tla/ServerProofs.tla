---------------------------- MODULE ServerProofs ----------------------------
(***************************************************************************)
(* Proofs about the programs that answer peers: the two whose SIGIO        *)
(* handler reads one descriptor, async_UDP (AsyncUdp) and tty_serial       *)
(* (TtySerial), side by side as MCSigioReaders puts them; then async_TCP   *)
(* (AsyncTcp) and async_TCP_multithread (AsyncTcpMt), whose handlers       *)
(* accept connections, and the threads of TCP_sockets (TcpSockets), each   *)
(* by the specification that MCServers gives it.                           *)
(***************************************************************************)
EXTENDS MCServers, FiniteSetTheorems, TLAPS
-----------------------------------------------------------------------------
(* async_UDP. *)

\* Nothing can arrive before bind(), so the fcntl calls, which come before it,
\* find an empty socket.
SetUpInv == step \in {"socket", "fcntl", "sigaction", "bind"} => bound = "no" /\ queue = <<>>

\* The part of AsyncUdp's types that the argument needs.
UdpTypes == /\ queue \in Seq({"data", "empty"})
            /\ signals \in {"yes", "no"}
            /\ pending \in {0, 1}

UdpInv == UdpTypes /\ SetUpInv /\ NoneLeftBehind

LEMMA UdpInit == RInit => UdpInv
BY DEF RInit, Init, UdpInv, UdpTypes, SetUpInv, NoneLeftBehind

LEMMA UdpStep == UdpInv /\ Next => UdpInv'
<1> SUFFICES ASSUME UdpInv, Next PROVE UdpInv'
  OBVIOUS
<1> USE DEF UdpInv, UdpTypes, SetUpInv, NoneLeftBehind
<1>1. CASE main
  BY <1>1 DEF main, Socket, Fcntl, SigAction, Bind
<1>2. CASE signalHandler
  BY <1>2 DEF signalHandler
<1>3. CASE Recv
  BY <1>3 DEF Recv, HasData, setup
<1>4. CASE RecvEnds
  BY <1>4 DEF RecvEnds, HasData, setup
<1>5. ASSUME NEW kind \in {"data", "empty"}, Arrive(kind)
      PROVE  UdpInv'
  BY <1>5, UdpAssumption DEF Arrive, setup
<1> QED
  BY <1>1, <1>2, <1>3, <1>4, <1>5 DEF Next, socketCallback

\* The loop over recvfrom() makes up for every coalesced SIGIO
\* (async_UDP/src/main.c:111-124): however many datagrams arrive and however
\* large the socket's buffer, one that waits has a signal pending, a callback
\* running, or an empty datagram before it at which the callback stopped.
THEOREM NoDatagramLeftBehind == RSpec => []NoneLeftBehind
<1>1. UdpInv /\ [RNext]_<<vars, port>> => UdpInv'
  <2> SUFFICES ASSUME UdpInv, [RNext]_<<vars, port>> PROVE UdpInv'
    OBVIOUS
  <2>1. CASE Next
    BY <2>1, UdpStep
  <2>2. CASE UNCHANGED vars
    BY <2>2 DEF vars, UdpInv, UdpTypes, SetUpInv, NoneLeftBehind
  <2> QED
    BY <2>1, <2>2 DEF RNext
<1>2. UdpInv => NoneLeftBehind
  BY DEF UdpInv
<1> QED
  BY UdpInit, <1>1, <1>2, PTL DEF RSpec
-----------------------------------------------------------------------------
(* tty_serial. *)

\* The part of TtySerial's types that the argument needs.
TtyTypes == /\ buffered \in Int
            /\ portPending \in {0, 1}
            /\ portHandler \in {"yes", "no"}

\* The port is made asynchronous by main's last step, so signals come to a main
\* that sleeps.
TtyAwake == portPending = 1 \/ portHandler = "yes" => portStep = "sleep"

TtyCover == portPending + Tty!InHandler <= buffered

TtyInv == TtyTypes /\ TtyAwake /\ TtyCover

LEMMA AsyncLast ==
  /\ Tty!Past("fcntl") => portStep = "sleep"
  /\ portStep = "sleep" => Tty!Past("sigaction")
<1>1. DOMAIN Tty!SetUp = 1 .. 5 /\ \A i \in 1 .. 5 : Tty!SetUp[i] = "fcntl" => i = 5
  BY DEF Tty!SetUp
<1> QED
  BY <1>1 DEF Tty!Past

LEMMA TtyInit == RInit => TtyInv
BY DEF RInit, Tty!Init, TtyInv, TtyTypes, TtyAwake, TtyCover, Tty!InHandler

LEMMA TtyStep == TtyInv /\ Tty!Next => TtyInv'
<1> SUFFICES ASSUME TtyInv, Tty!Next PROVE TtyInv'
  OBVIOUS
<1> USE DEF TtyInv, TtyTypes, TtyAwake, TtyCover, Tty!InHandler
<1>1. CASE Tty!main
  <2>1. portStep # "sleep"
    <3>1. DOMAIN Tty!SetUp = 1 .. 5 /\ \A i \in 1 .. 5 : Tty!SetUp[i] # "sleep"
      BY DEF Tty!SetUp
    <3> QED
      BY <1>1, <3>1 DEF Tty!main, Tty!Start, Tty!Fail
  <2>2. UNCHANGED <<portHandler, portPending, buffered>>
    BY <1>1 DEF Tty!main, Tty!Start, Tty!Fail
  <2> QED
    BY <2>1, <2>2
<1>2. CASE Tty!Deliver
  BY <1>2 DEF Tty!Deliver
<1>3. CASE Tty!Read
  BY <1>3 DEF Tty!Read, Tty!Got
<1>4. ASSUME NEW n \in 1 .. Burst, Tty!Arrive(n)
      PROVE  TtyInv'
  <2>1. /\ UNCHANGED <<portStep, portHandler>> /\ buffered' = buffered + n
        /\ \/ portStep = "sleep" /\ portPending = 0 /\ portPending' = 1
           \/ UNCHANGED portPending
    BY <1>4, AsyncLast DEF Tty!Arrive
  <2> QED
    BY <2>1
<1> QED
  BY <1>1, <1>2, <1>3, <1>4 DEF Tty!Next, Tty!serial_handler

\* For bursts of any length, SIGIO is raised only in a process that has installed
\* its handler, and the one read() of each handler (tty_serial/src/main.c:20)
\* finds a byte, whatever coalesced and whatever earlier handlers have read.
THEOREM EverySignalFindsAByte == RSpec => []SignalFindsHandlerAndByte
<1>1. TtyInv /\ [RNext]_<<vars, port>> => TtyInv'
  <2> SUFFICES ASSUME TtyInv, [RNext]_<<vars, port>> PROVE TtyInv'
    OBVIOUS
  <2>1. CASE Tty!Next
    BY <2>1, TtyStep
  <2>2. CASE UNCHANGED port
    BY <2>2 DEF port, TtyInv, TtyTypes, TtyAwake, TtyCover, Tty!InHandler
  <2> QED
    BY <2>1, <2>2 DEF RNext
<1>2. TtyInv => SignalFindsHandlerAndByte
  BY AsyncLast DEF TtyInv, TtyAwake, TtyCover, SignalFindsHandlerAndByte, Tty!SignalFindsHandlerAndByte
<1> QED
  BY TtyInit, <1>1, <1>2, PTL DEF RSpec
-----------------------------------------------------------------------------
(* async_TCP. *)

\* The part of AsyncTcp's types that the arguments need.
TcpTypes == /\ backlog \in Seq(Client)
            /\ pending \in {0, 1}
            /\ lost \in {"yes", "no"} /\ failed \in Nat
            /\ serving \subseteq Client
            /\ client \in [Client -> {"out", "open", "gone", "reset"}]
            /\ unread \in [Client -> Nat] /\ shown \in [Client -> Nat] /\ sent \in [Client -> Nat]

\* The connection of client c has not been accepted.
Waits(c) == \E i \in DOMAIN backlog : backlog[i] = c

\* The handler serves one client at a time, and a client that has not
\* disconnected waits or is served.
ServingInv == /\ server = "recv" <=> serving # {}
              /\ \A c, d \in serving : c = d
              /\ \A c \in Client : client[c] = "open" => c \in serving \/ Waits(c)

\* What was sent is printed or unread, and nothing is sent without a connection.
BytesInv == \A c \in Client : /\ sent[c] = shown[c] + unread[c]
                              /\ client[c] = "out" => sent[c] = 0

TcpInv == TcpTypes /\ ServingInv /\ BytesInv /\ Tcp!SilentOnlyAfterLoss /\ Tcp!NothingUnread

LEMMA TcpInit == Tcp!Init => TcpInv
BY DEF Tcp!Init, TcpInv, TcpTypes, ServingInv, BytesInv, Tcp!SilentOnlyAfterLoss, Tcp!InHandler,
       Tcp!NothingUnread

\* A connection that waits still waits behind a new one.
LEMMA WaitsAppend ==
  ASSUME backlog \in Seq(Client), NEW c \in Client, backlog' = Append(backlog, c)
  PROVE  \A d \in Client : Waits(d)' <=> Waits(d) \/ d = c
<1>1. /\ DOMAIN backlog' = 1 .. Len(backlog) + 1 /\ DOMAIN backlog = 1 .. Len(backlog)
      /\ backlog'[Len(backlog) + 1] = c /\ \A i \in DOMAIN backlog : backlog'[i] = backlog[i]
      /\ Len(backlog) \in Nat
  OBVIOUS
<1> QED
  BY <1>1 DEF Waits

\* Only the first connection stops waiting when it is accepted.
LEMMA WaitsTail ==
  ASSUME backlog \in Seq(Client), backlog # <<>>, backlog' = Tail(backlog),
         NEW d \in Client, Waits(d), d # Head(backlog)
  PROVE  Waits(d)'
<1>1. PICK i \in DOMAIN backlog : backlog[i] = d
  BY DEF Waits
<1>2. i \in 2 .. Len(backlog) /\ Len(backlog) \in Nat
  BY <1>1
<1>3. i - 1 \in DOMAIN backlog' /\ backlog'[i - 1] = d
  BY <1>1, <1>2
<1> QED
  BY <1>3 DEF Waits

\* main's set-up changes nothing but main's own step.
LEMMA TcpStart ==
  ASSUME TcpInv, Tcp!Start
  PROVE  TcpInv'
<1>1. /\ server \in {"socket", "bind", "sigaction", "fcntl", "listen"}
      /\ server' \in {"bind", "sigaction", "fcntl", "listen", "sleep", "exited"}
      /\ UNCHANGED <<serving, pending, backlog, client, unread, shown, sent, lost, failed>>
  BY DEF Tcp!Start, Tcp!SetUp
<1> QED
  BY <1>1 DEF TcpInv, TcpTypes, ServingInv, BytesInv, Waits, Tcp!SilentOnlyAfterLoss,
              Tcp!InHandler, Tcp!NothingUnread

\* listen() is main's last call, so that a socket that listens is asynchronous.
LEMMA ListensLast ==
  ASSUME Tcp!Past("listen")
  PROVE  Tcp!Past("fcntl")
<1>1. DOMAIN Tcp!SetUp = 1 .. 5 /\ \A i \in 1 .. 5 : Tcp!SetUp[i] = "listen" => i = 5
  BY DEF Tcp!SetUp
<1> QED
  BY <1>1 DEF Tcp!Past

LEMMA TcpConnect ==
  ASSUME TcpInv, NEW c \in Client, Tcp!Connect(c)
  PROVE  TcpInv'
<1>1. /\ UNCHANGED <<server, serving, unread, shown, sent, failed>>
      /\ client[c] = "out" /\ client' = [client EXCEPT ![c] = "open"]
      /\ backlog' = Append(backlog, c) /\ pending' = 1
      /\ lost' = IF pending = 1 THEN "yes" ELSE lost
  BY ListensLast DEF Tcp!Connect
<1>2. TcpTypes'
  <2>1. backlog' \in Seq(Client)
    BY <1>1 DEF TcpInv, TcpTypes
  <2>2. client' \in [Client -> {"out", "open", "gone", "reset"}]
    BY <1>1 DEF TcpInv, TcpTypes
  <2> QED
    BY <1>1, <2>1, <2>2 DEF TcpInv, TcpTypes
<1>3. Waits(c)' /\ \A d \in Client : Waits(d) => Waits(d)'
  BY <1>1, WaitsAppend DEF TcpInv, TcpTypes
<1>4. ServingInv' /\ BytesInv'
  BY <1>1, <1>3 DEF TcpInv, TcpTypes, ServingInv, BytesInv
<1>5. Tcp!SilentOnlyAfterLoss'
  <2>1. Len(backlog') = Len(backlog) + 1 /\ Len(backlog) \in Nat
    BY <1>1 DEF TcpInv, TcpTypes
  <2> QED
    BY <1>1, <2>1 DEF TcpInv, TcpTypes, Tcp!SilentOnlyAfterLoss, Tcp!InHandler
<1>6. Tcp!NothingUnread'
  BY <1>1, <1>3 DEF TcpInv, TcpTypes, Tcp!NothingUnread, Waits
<1> QED
  BY <1>2, <1>4, <1>5, <1>6 DEF TcpInv

LEMMA TcpSend ==
  ASSUME TcpInv, NEW c \in Client, Tcp!Send(c)
  PROVE  TcpInv'
<1>1. /\ UNCHANGED <<server, serving, pending, backlog, client, shown, lost, failed>>
      /\ client[c] = "open" /\ sent' = [sent EXCEPT ![c] = @ + 1]
      /\ unread' = [unread EXCEPT ![c] = @ + 1]
  BY DEF Tcp!Send
<1>2. TcpTypes'
  BY <1>1 DEF TcpInv, TcpTypes
<1>3. ServingInv' /\ Tcp!SilentOnlyAfterLoss'
  BY <1>1 DEF TcpInv, ServingInv, Waits, Tcp!SilentOnlyAfterLoss, Tcp!InHandler
<1>4. BytesInv'
  <2> SUFFICES ASSUME NEW d \in Client
               PROVE  /\ sent'[d] = shown[d] + unread'[d]
                      /\ client[d] = "out" => sent'[d] = 0
    BY <1>1 DEF BytesInv
  <2>1. sent[d] = shown[d] + unread[d] /\ (client[d] = "out" => sent[d] = 0)
    BY DEF TcpInv, BytesInv
  <2>2. sent[d] \in Nat /\ shown[d] \in Nat /\ unread[d] \in Nat
    BY DEF TcpInv, TcpTypes
  <2>3. CASE d = c
    BY <1>1, <2>1, <2>2, <2>3 DEF TcpInv, TcpTypes
  <2>4. CASE d # c
    BY <1>1, <2>1, <2>4 DEF TcpInv, TcpTypes
  <2> QED
    BY <2>3, <2>4
<1>5. Tcp!NothingUnread'
  BY <1>1 DEF TcpInv, TcpTypes, Tcp!NothingUnread
<1> QED
  BY <1>2, <1>3, <1>4, <1>5 DEF TcpInv

LEMMA TcpDisconnect ==
  ASSUME TcpInv, NEW c \in Client, Tcp!Disconnect(c)
  PROVE  TcpInv'
<1>1. /\ UNCHANGED <<server, serving, pending, backlog, unread, shown, sent, lost, failed>>
      /\ client[c] = "open"
      /\ \/ client' = [client EXCEPT ![c] = "gone"]
         \/ client' = [client EXCEPT ![c] = "reset"]
  BY DEF Tcp!Disconnect
<1>2. TcpTypes'
  BY <1>1 DEF TcpInv, TcpTypes
<1>3. ServingInv' /\ Tcp!SilentOnlyAfterLoss' /\ BytesInv'
  BY <1>1 DEF TcpInv, TcpTypes, ServingInv, BytesInv, Waits, Tcp!SilentOnlyAfterLoss, Tcp!InHandler
<1>4. Tcp!NothingUnread'
  BY <1>1 DEF TcpInv, TcpTypes, ServingInv, Waits, Tcp!NothingUnread
<1> QED
  BY <1>2, <1>3, <1>4 DEF TcpInv

LEMMA TcpHandler ==
  ASSUME TcpInv, Tcp!Handler
  PROVE  TcpInv'
<1>1. CASE Tcp!Deliver
  BY <1>1 DEF Tcp!Deliver, TcpInv, TcpTypes, ServingInv, BytesInv, Waits,
              Tcp!SilentOnlyAfterLoss, Tcp!InHandler, Tcp!NothingUnread
<1>2. CASE Tcp!AcceptFails
  <2>1. /\ UNCHANGED <<serving, pending, backlog, client, unread, shown, sent, lost>>
        /\ server = "accept" /\ server' = "sleep" /\ failed' = failed + 1
    BY <1>2 DEF Tcp!AcceptFails
  <2>2. TcpTypes' /\ BytesInv' /\ ServingInv' /\ Tcp!NothingUnread'
    BY <2>1 DEF TcpInv, TcpTypes, ServingInv, BytesInv, Waits, Tcp!NothingUnread
  <2>3. Tcp!SilentOnlyAfterLoss'
    BY <2>1 DEF TcpInv, TcpTypes, Tcp!SilentOnlyAfterLoss, Tcp!InHandler
  <2> QED
    BY <2>2, <2>3 DEF TcpInv
<1>3. CASE Tcp!Accept
  <2>1. /\ UNCHANGED <<pending, client, unread, shown, sent, lost, failed>>
        /\ server = "accept" /\ server' = "recv" /\ backlog # <<>>
        /\ serving' = {Head(backlog)} /\ backlog' = Tail(backlog) /\ serving = {}
    BY <1>3 DEF Tcp!Accept, TcpInv, ServingInv
  <2>2. /\ backlog' \in Seq(Client) /\ Len(backlog') = Len(backlog) - 1
        /\ \A d \in Client : Waits(d) => Waits(d)' \/ d \in serving'
    BY <2>1, WaitsTail DEF TcpInv, TcpTypes
  <2>3. TcpTypes' /\ BytesInv'
    BY <2>1, <2>2 DEF TcpInv, TcpTypes, BytesInv
  <2>4. ServingInv'
    BY <2>1, <2>2 DEF TcpInv, ServingInv
  <2>5. Tcp!SilentOnlyAfterLoss'
    BY <2>1, <2>2 DEF TcpInv, TcpTypes, Tcp!SilentOnlyAfterLoss, Tcp!InHandler
  <2>6. Tcp!NothingUnread'
    BY <2>1, <2>2 DEF TcpInv, Tcp!NothingUnread, Waits
  <2> QED
    BY <2>3, <2>4, <2>5, <2>6 DEF TcpInv
<1>4. CASE Tcp!Receive
  <2>0. PICK c \in serving : \E n \in 1 .. unread[c] :
              /\ unread' = [unread EXCEPT ![c] = @ - n]
              /\ shown' = [shown EXCEPT ![c] = @ + n]
    BY <1>4 DEF Tcp!Receive
  <2>1. PICK n \in 1 .. unread[c] : /\ unread' = [unread EXCEPT ![c] = @ - n]
                                    /\ shown' = [shown EXCEPT ![c] = @ + n]
    BY <2>0
  <2>2. UNCHANGED <<server, serving, pending, backlog, client, sent, lost, failed>>
    BY <1>4 DEF Tcp!Receive
  <2>3. TcpTypes'
    <3>1. unread[c] \in Nat /\ c \in Client /\ n \in 1 .. unread[c]
      BY <2>1 DEF TcpInv, TcpTypes
    <3>2. unread' \in [Client -> Nat] /\ shown' \in [Client -> Nat]
      BY <2>1, <3>1 DEF TcpInv, TcpTypes
    <3> QED
      BY <2>2, <3>2 DEF TcpInv, TcpTypes
  <2>4. ServingInv' /\ Tcp!SilentOnlyAfterLoss'
    BY <2>2 DEF TcpInv, ServingInv, Waits, Tcp!SilentOnlyAfterLoss, Tcp!InHandler
  <2>5. BytesInv'
    BY <2>1, <2>2 DEF TcpInv, TcpTypes, BytesInv
  <2>6. Tcp!NothingUnread'
    BY <2>1, <2>2 DEF TcpInv, TcpTypes, Tcp!NothingUnread
  <2> QED
    BY <2>3, <2>4, <2>5, <2>6 DEF TcpInv
<1>5. CASE Tcp!Close
  <2>1. /\ UNCHANGED <<pending, backlog, client, unread, shown, sent, lost, failed>>
        /\ server = "recv" /\ server' = "sleep" /\ serving' = {}
    BY <1>5 DEF Tcp!Close
  <2>2. PICK c \in serving : client[c] = "reset" \/ (client[c] = "gone" /\ unread[c] = 0)
    BY <1>5 DEF Tcp!Close, Tcp!Ended
  <2>3. serving = {c}
    BY DEF TcpInv, ServingInv
  <2>4. TcpTypes' /\ BytesInv' /\ Tcp!SilentOnlyAfterLoss'
    BY <2>1 DEF TcpInv, TcpTypes, BytesInv, Tcp!SilentOnlyAfterLoss, Tcp!InHandler
  <2>5. ServingInv'
    BY <2>1, <2>2, <2>3 DEF TcpInv, ServingInv, Waits
  <2>6. Tcp!NothingUnread'
    <3>1. client[c] = "reset" \/ shown[c] = sent[c]
      BY <2>2 DEF TcpInv, TcpTypes, BytesInv
    <3> QED
      BY <2>1, <2>3, <3>1 DEF TcpInv, Tcp!NothingUnread
  <2> QED
    BY <2>4, <2>5, <2>6 DEF TcpInv
<1> QED
  BY <1>1, <1>2, <1>3, <1>4, <1>5 DEF Tcp!Handler

LEMMA TcpSpecInv == Tcp!Spec => []TcpInv
<1>1. TcpInv /\ [Tcp!Next]_(Tcp!vars) => TcpInv'
  <2> SUFFICES ASSUME TcpInv, [Tcp!Next]_(Tcp!vars) PROVE TcpInv'
    OBVIOUS
  <2>1. CASE UNCHANGED Tcp!vars
    BY <2>1 DEF Tcp!vars, TcpInv, TcpTypes, ServingInv, BytesInv, Waits,
                Tcp!SilentOnlyAfterLoss, Tcp!InHandler, Tcp!NothingUnread
  <2> QED
    BY <2>1, TcpStart, TcpHandler, TcpConnect, TcpSend, TcpDisconnect DEF Tcp!Next, Tcp!Idle
<1> QED
  BY TcpInit, <1>1, PTL DEF Tcp!Spec

\* A behaviour of TcpSpec is one of the program alone.
LEMMA TcpAlone == TcpSpec => Tcp!Spec
<1>1. SInit => Tcp!Init
  BY DEF SInit
<1>2. [Tcp!Next /\ UNCHANGED <<readers, tcpMt, sockets, cut>>]_servers
        => [Tcp!Next]_(Tcp!vars)
  BY DEF servers, shared, tcp, Tcp!vars
<1> QED
  BY <1>1, <1>2, PTL DEF TcpSpec, Tcp!Spec

\* One accept() per SIGIO (async_TCP/src/main.c:28-51): for any number of clients
\* and any backlog, each signal finds a connection to accept, and a connection
\* waits without a signal only after one was discarded or an accept() failed.
THEOREM NoConnectionInSilence == TcpSpec => []SilentOnlyAfterLoss
<1>1. TcpInv => SilentOnlyAfterLoss
  BY DEF TcpInv, SilentOnlyAfterLoss
<1> QED
  BY TcpAlone, TcpSpecInv, <1>1, PTL

\* The handler reads a connection to its end before it closes it: nothing that a
\* client sent is lost, unless the connection was reset.
THEOREM AllIsPrinted == TcpSpec => []NothingUnread
<1>1. TcpInv => NothingUnread
  BY DEF TcpInv, NothingUnread
<1> QED
  BY TcpAlone, TcpSpecInv, <1>1, PTL
-----------------------------------------------------------------------------
(* async_TCP_multithread: the handler's loop. *)

\* A behaviour of MtSpec is one of the program alone.
LEMMA MtAlone == MtSpec => Mt!Spec
<1>1. SInit => Mt!Init
  BY DEF SInit
<1>2. [Mt!Next /\ UNCHANGED <<readers, tcp, sockets>>]_servers
        => [Mt!Next]_(Mt!vars)
  BY DEF servers, shared, tcpMt, Mt!vars
<1> QED
  BY <1>1, <1>2, PTL DEF MtSpec, Mt!Spec

LEMMA MtLoop == Mt!NoneLeftBehind /\ [Mt!Next]_(Mt!vars) => Mt!NoneLeftBehind'
<1> SUFFICES ASSUME Mt!NoneLeftBehind, [Mt!Next]_(Mt!vars) PROVE Mt!NoneLeftBehind'
  OBVIOUS
<1> USE DEF Mt!NoneLeftBehind
<1>1. CASE Mt!Start
  BY <1>1 DEF Mt!Start, Mt!SetUp
<1>2. CASE Mt!action_handler
  BY <1>2 DEF Mt!action_handler, Mt!Deliver, Mt!Accept, Mt!AcceptEnds, Mt!CreateThread
<1>3. ASSUME NEW c \in Client, Mt!Connect(c) PROVE Mt!NoneLeftBehind'
  BY <1>3 DEF Mt!Connect
<1>4. ASSUME NEW c \in Client, Mt!Send(c) \/ Mt!Disconnect(c) PROVE Mt!NoneLeftBehind'
  BY <1>4 DEF Mt!Send, Mt!Disconnect
<1>5. ASSUME NEW c \in Client, Mt!connection_handler(c) PROVE Mt!NoneLeftBehind'
  BY <1>5 DEF Mt!connection_handler, Mt!Recv, Mt!Write, Mt!CloseClient
<1>6. CASE UNCHANGED Mt!vars
  BY <1>6 DEF Mt!vars
<1> QED
  BY <1>1, <1>2, <1>3, <1>4, <1>5, <1>6 DEF Mt!Next, Mt!Idle

\* The loop over accept() (async_TCP_multithread/src/main.c:50-65) makes up for
\* coalesced SIGIOs, for any number of clients and any backlog.
THEOREM NoConnectionLeftBehind == MtSpec => []NoConnectionBehind
<1>1. Mt!Init => Mt!NoneLeftBehind
  BY DEF Mt!Init, Mt!NoneLeftBehind
<1> QED
  BY <1>1, MtAlone, MtLoop, PTL DEF Mt!Spec, NoConnectionBehind
-----------------------------------------------------------------------------
(* async_TCP_multithread: the threads. *)

\* The part of AsyncTcpMt's types that the argument needs.
MtTypes == /\ accepted \subseteq Client /\ backlog \in Seq(Client)
           /\ client \in [Client -> {"out", "open", "gone", "reset"}]
           /\ worker \in [Client -> {"none", "recv", "write", "closed", "failed"}]
           /\ held \in [Client -> Nat] /\ unread \in [Client -> Nat]
           /\ answered \in [Client -> Nat] /\ sent \in [Client -> Nat]

\* A connection waits once, is then between accept() and pthread_create(), and
\* has its thread last.
OnePlace == /\ \A i, j \in DOMAIN backlog : backlog[i] = backlog[j] => i = j
            /\ \A c \in Client : /\ Waits(c) => c \notin accepted
                                 /\ Waits(c) \/ c \in accepted => worker[c] = "none"
                                 /\ client[c] = "out" => /\ ~Waits(c) /\ c \notin accepted
                                                         /\ worker[c] = "none"

\* What was sent is unread, in the thread's buffer or answered; the buffer is in
\* use only between recv() and write(), and a closed connection was at its end.
EchoInv ==
  \A c \in Client : /\ sent[c] = answered[c] + held[c] + unread[c]
                    /\ worker[c] # "write" => held[c] = 0
                    /\ worker[c] = "closed" => \/ client[c] = "reset"
                                               \/ client[c] = "gone" /\ unread[c] = 0

MtInv == MtTypes /\ OnePlace /\ EchoInv

LEMMA MtInit == Mt!Init => MtInv
BY DEF Mt!Init, Mt!Zero, MtInv, MtTypes, OnePlace, EchoInv, Waits

\* Steps that leave connections where they are.
LEMMA MtSame ==
  ASSUME MtInv, UNCHANGED <<accepted, backlog, client, worker, held, unread, answered, sent>>
  PROVE  MtInv'
BY DEF MtInv, MtTypes, OnePlace, EchoInv, Waits

LEMMA MtConnect ==
  ASSUME MtInv, NEW c \in Client, Mt!Connect(c)
  PROVE  MtInv'
<1>1. /\ UNCHANGED <<accepted, worker, held, unread, answered, sent>>
      /\ client[c] = "out" /\ client' = [client EXCEPT ![c] = "open"]
      /\ backlog' = Append(backlog, c)
  BY DEF Mt!Connect
<1>2. MtTypes'
  <2>1. backlog' \in Seq(Client)
    BY <1>1 DEF MtInv, MtTypes
  <2>2. client' \in [Client -> {"out", "open", "gone", "reset"}]
    BY <1>1 DEF MtInv, MtTypes
  <2> QED
    BY <1>1, <2>1, <2>2 DEF MtInv, MtTypes
<1>3. \A d \in Client : Waits(d)' <=> Waits(d) \/ d = c
  BY <1>1, WaitsAppend DEF MtInv, MtTypes
<1>4. OnePlace'
  <2>1. \A i, j \in DOMAIN backlog' : backlog'[i] = backlog'[j] => i = j
    <3>1. /\ DOMAIN backlog' = 1 .. Len(backlog) + 1 /\ DOMAIN backlog = 1 .. Len(backlog)
          /\ backlog'[Len(backlog) + 1] = c /\ Len(backlog) \in Nat
          /\ \A i \in DOMAIN backlog : backlog'[i] = backlog[i]
      BY <1>1 DEF MtInv, MtTypes
    <3>2. \A i \in DOMAIN backlog : backlog[i] # c
      BY <1>1 DEF MtInv, OnePlace, Waits
    <3> QED
      BY <3>1, <3>2 DEF MtInv, OnePlace
  <2>2. /\ c \notin accepted /\ worker[c] = "none" /\ client'[c] = "open"
        /\ \A d \in Client \ {c} : client'[d] = client[d]
    BY <1>1 DEF MtInv, MtTypes, OnePlace
  <2> QED
    BY <1>1, <1>3, <2>1, <2>2 DEF MtInv, OnePlace
<1>5. EchoInv'
  BY <1>1 DEF MtInv, MtTypes, OnePlace, EchoInv
<1> QED
  BY <1>2, <1>4, <1>5 DEF MtInv

LEMMA MtAccept ==
  ASSUME MtInv, Mt!Accept
  PROVE  MtInv'
<1>1. /\ UNCHANGED <<client, worker, held, unread, answered, sent>>
      /\ backlog # <<>> /\ accepted' = {Head(backlog)} /\ backlog' = Tail(backlog)
  BY DEF Mt!Accept
<1>2. /\ backlog' \in Seq(Client) /\ Head(backlog) \in Client /\ Len(backlog) \in Nat
      /\ DOMAIN backlog = 1 .. Len(backlog) /\ Head(backlog) = backlog[1] /\ Len(backlog) > 0
      /\ DOMAIN backlog' = 1 .. Len(backlog) - 1
      /\ \A i \in DOMAIN backlog' : backlog'[i] = backlog[i + 1]
  BY <1>1 DEF MtInv, MtTypes
<1>3. MtTypes' /\ EchoInv'
  BY <1>1, <1>2 DEF MtInv, MtTypes, EchoInv
<1>4. \A i, j \in DOMAIN backlog' : backlog'[i] = backlog'[j] => i = j
  <2> SUFFICES ASSUME NEW i \in DOMAIN backlog', NEW j \in DOMAIN backlog',
                      backlog'[i] = backlog'[j]
               PROVE  i = j
    OBVIOUS
  <2>1. i + 1 \in DOMAIN backlog /\ j + 1 \in DOMAIN backlog /\ backlog[i + 1] = backlog[j + 1]
    BY <1>2
  <2>2. i + 1 = j + 1
    BY <2>1 DEF MtInv, OnePlace
  <2> QED
    BY <1>2, <2>2
<1>5. \A d \in Client : Waits(d)' => Waits(d) /\ d # Head(backlog)
  <2> SUFFICES ASSUME NEW d \in Client, NEW i \in DOMAIN backlog', backlog'[i] = d
               PROVE  Waits(d) /\ d # Head(backlog)
    BY DEF Waits
  <2>1. i + 1 \in DOMAIN backlog /\ backlog[i + 1] = d /\ i + 1 # 1 /\ 1 \in DOMAIN backlog
    BY <1>2
  <2> QED
    BY <1>2, <2>1 DEF Waits, MtInv, OnePlace
<1>6. Waits(Head(backlog))
  BY <1>2 DEF Waits
<1>7. OnePlace'
  BY <1>1, <1>2, <1>4, <1>5, <1>6 DEF MtInv, OnePlace
<1> QED
  BY <1>3, <1>7 DEF MtInv

LEMMA MtCreateThread ==
  ASSUME MtInv, Mt!CreateThread
  PROVE  MtInv'
<1>1. /\ UNCHANGED <<backlog, client, held, unread, answered, sent>> /\ accepted' = {}
      /\ \A c \in Client : /\ c \in accepted => worker'[c] \in {"recv", "failed"}
                           /\ c \notin accepted => worker'[c] = worker[c]
  BY DEF Mt!CreateThread
<1>2. worker' \in [Client -> {"none", "recv", "write", "closed", "failed"}]
  BY DEF Mt!CreateThread, MtInv, MtTypes
<1>3. MtTypes'
  BY <1>1, <1>2 DEF MtInv, MtTypes
<1>4. \A c \in Client : Waits(c)' <=> Waits(c)
  BY <1>1 DEF Waits
<1>5. OnePlace'
  BY <1>1, <1>4 DEF MtInv, OnePlace
<1>6. EchoInv'
  BY <1>1 DEF MtInv, OnePlace, EchoInv
<1> QED
  BY <1>3, <1>5, <1>6 DEF MtInv

\* Steps of one connection, of its client or of its thread.
LEMMA MtLocal ==
  ASSUME MtInv, MtTypes', NEW c \in Client, UNCHANGED <<accepted, backlog>>,
         client[c] # "out", client'[c] # "out", worker[c] = "none" => worker'[c] = "none",
         \A d \in Client \ {c} : /\ client'[d] = client[d] /\ worker'[d] = worker[d]
                                 /\ held'[d] = held[d] /\ unread'[d] = unread[d]
                                 /\ answered'[d] = answered[d] /\ sent'[d] = sent[d],
         sent'[c] = answered'[c] + held'[c] + unread'[c],
         worker'[c] # "write" => held'[c] = 0,
         worker'[c] = "closed" => \/ client'[c] = "reset"
                                  \/ client'[c] = "gone" /\ unread'[c] = 0
  PROVE  MtInv'
<1>1. \A d \in Client : Waits(d)' <=> Waits(d)
  BY DEF Waits
<1>2. OnePlace'
  BY <1>1 DEF MtInv, OnePlace
<1>3. EchoInv'
  BY DEF MtInv, EchoInv
<1> QED
  BY <1>2, <1>3 DEF MtInv

LEMMA MtClient ==
  ASSUME MtInv, NEW c \in Client, Mt!Send(c) \/ Mt!Disconnect(c)
  PROVE  MtInv'
<1>0. /\ sent[c] = answered[c] + held[c] + unread[c]
      /\ worker[c] # "write" => held[c] = 0
      /\ worker[c] = "closed" => client[c] # "open"
      /\ sent[c] \in Nat /\ answered[c] \in Nat /\ held[c] \in Nat /\ unread[c] \in Nat
  BY DEF MtInv, MtTypes, EchoInv
<1>1. CASE Mt!Send(c)
  <2>1. /\ UNCHANGED <<accepted, backlog, client, worker, held, answered>> /\ client[c] = "open"
        /\ sent' = [sent EXCEPT ![c] = @ + 1] /\ unread' = [unread EXCEPT ![c] = @ + 1]
    BY <1>1 DEF Mt!Send
  <2>2. MtTypes'
    BY <2>1 DEF MtInv, MtTypes
  <2>3. /\ sent'[c] = sent[c] + 1 /\ unread'[c] = unread[c] + 1
        /\ \A d \in Client \ {c} : sent'[d] = sent[d] /\ unread'[d] = unread[d]
    BY <2>1 DEF MtInv, MtTypes
  <2>4. sent'[c] = answered'[c] + held'[c] + unread'[c]
    BY <1>0, <2>1, <2>3
  <2> QED
    BY <1>0, <2>1, <2>2, <2>3, <2>4, MtLocal
<1>2. CASE Mt!Disconnect(c)
  <2>1. /\ UNCHANGED <<accepted, backlog, sent, unread, worker, held, answered>>
        /\ client[c] = "open"
        /\ \/ client' = [client EXCEPT ![c] = "gone"]
           \/ client' = [client EXCEPT ![c] = "reset"]
    BY <1>2 DEF Mt!Disconnect
  <2>2. MtTypes'
    BY <2>1 DEF MtInv, MtTypes
  <2>3. client'[c] \in {"gone", "reset"} /\ \A d \in Client \ {c} : client'[d] = client[d]
    BY <2>1 DEF MtInv, MtTypes
  <2> QED
    BY <1>0, <2>1, <2>2, <2>3, MtLocal
<1> QED
  BY <1>1, <1>2

LEMMA MtThread ==
  ASSUME MtInv, NEW c \in Client, Mt!connection_handler(c)
  PROVE  MtInv'
<1>0. /\ sent[c] = answered[c] + held[c] + unread[c]
      /\ worker[c] # "write" => held[c] = 0
      /\ worker[c] # "none" => client[c] # "out"
      /\ sent[c] \in Nat /\ answered[c] \in Nat /\ held[c] \in Nat /\ unread[c] \in Nat
  BY DEF MtInv, MtTypes, EchoInv, OnePlace
<1>1. CASE Mt!Recv(c)
  <2>1. PICK n \in 1 .. unread[c] : /\ unread' = [unread EXCEPT ![c] = @ - n]
                                    /\ held' = [held EXCEPT ![c] = n]
    BY <1>1 DEF Mt!Recv
  <2>2. /\ UNCHANGED <<accepted, backlog, client, answered, sent>> /\ worker[c] = "recv"
        /\ worker' = [worker EXCEPT ![c] = "write"]
    BY <1>1 DEF Mt!Recv
  <2>3. MtTypes'
    BY <1>0, <2>1, <2>2 DEF MtInv, MtTypes
  <2>4. /\ unread'[c] = unread[c] - n /\ held'[c] = n /\ worker'[c] = "write"
        /\ \A d \in Client \ {c} :
             unread'[d] = unread[d] /\ held'[d] = held[d] /\ worker'[d] = worker[d]
    BY <2>1, <2>2 DEF MtInv, MtTypes
  <2>5. sent'[c] = answered'[c] + held'[c] + unread'[c]
    BY <1>0, <2>2, <2>4
  <2> QED
    BY <1>0, <2>2, <2>3, <2>4, <2>5, MtLocal
<1>2. CASE Mt!Write(c)
  <2>1. /\ UNCHANGED <<accepted, backlog, unread, sent>> /\ worker[c] = "write"
        /\ answered' = [answered EXCEPT ![c] = @ + held[c]] /\ held' = [held EXCEPT ![c] = 0]
        /\ worker' = [worker EXCEPT ![c] = "recv"]
        /\ \/ UNCHANGED client
           \/ client' = [client EXCEPT ![c] = "reset"]
    BY <1>2 DEF Mt!Write
  <2>2. MtTypes'
    <3>1. client' \in [Client -> {"out", "open", "gone", "reset"}]
      BY <2>1 DEF MtInv, MtTypes
    <3>2. held' \in [Client -> Nat] /\ answered' \in [Client -> Nat]
      BY <1>0, <2>1 DEF MtInv, MtTypes
    <3>3. worker' \in [Client -> {"none", "recv", "write", "closed", "failed"}]
      BY <2>1 DEF MtInv, MtTypes
    <3> QED
      BY <2>1, <3>1, <3>2, <3>3 DEF MtInv, MtTypes
  <2>3. /\ answered'[c] = answered[c] + held[c] /\ held'[c] = 0 /\ worker'[c] = "recv"
        /\ client'[c] # "out"
        /\ \A d \in Client \ {c} : /\ answered'[d] = answered[d] /\ held'[d] = held[d]
                                    /\ worker'[d] = worker[d] /\ client'[d] = client[d]
    BY <1>0, <2>1 DEF MtInv, MtTypes
  <2>4. sent'[c] = answered'[c] + held'[c] + unread'[c]
    BY <1>0, <2>1, <2>3
  <2> QED
    BY <1>0, <2>1, <2>2, <2>3, <2>4, MtLocal
<1>3. CASE Mt!CloseClient(c)
  <2>1. /\ UNCHANGED <<accepted, backlog, client, unread, sent, answered, held>>
        /\ worker[c] = "recv" /\ worker' = [worker EXCEPT ![c] = "closed"]
        /\ client[c] = "reset" \/ (client[c] = "gone" /\ unread[c] = 0)
    BY <1>3 DEF Mt!CloseClient, Mt!Ended
  <2>2. MtTypes'
    BY <2>1 DEF MtInv, MtTypes
  <2>3. worker'[c] = "closed" /\ \A d \in Client \ {c} : worker'[d] = worker[d]
    BY <2>1 DEF MtInv, MtTypes
  <2> QED
    BY <1>0, <2>1, <2>2, <2>3, MtLocal
<1> QED
  BY <1>1, <1>2, <1>3 DEF Mt!connection_handler

\* A thread of async_TCP_multithread calls write() for all that it received
\* before it closes its connection (main.c:19-39), however clients send and
\* disconnect and whichever threads could not be created.
THEOREM ClosedIsAnswered == MtSpec => []AnsweredBeforeClose
<1>1. MtInv /\ [Mt!Next]_(Mt!vars) => MtInv'
  <2> SUFFICES ASSUME MtInv, [Mt!Next]_(Mt!vars) PROVE MtInv'
    OBVIOUS
  <2>1. CASE Mt!Start \/ Mt!Deliver \/ Mt!AcceptEnds \/ UNCHANGED Mt!vars
    BY <2>1, MtSame DEF Mt!Start, Mt!Deliver, Mt!AcceptEnds, Mt!vars
  <2>2. CASE Mt!action_handler
    BY <2>1, <2>2, MtAccept, MtCreateThread DEF Mt!action_handler
  <2> QED
    BY <2>1, <2>2, MtConnect, MtClient, MtThread DEF Mt!Next, Mt!Idle
<1>2. MtInv => AnsweredBeforeClose
  <2> SUFFICES ASSUME MtInv, NEW c \in Client, worker[c] = "closed", client[c] # "reset"
               PROVE  answered[c] = sent[c]
    BY DEF AnsweredBeforeClose, Mt!AnsweredBeforeClose
  <2>1. sent[c] = answered[c] + held[c] + unread[c] /\ held[c] = 0 /\ unread[c] = 0
    BY DEF MtInv, EchoInv
  <2>2. answered[c] \in Nat
    BY DEF MtInv, MtTypes
  <2> QED
    BY <2>1, <2>2
<1> QED
  BY MtAlone, MtInit, <1>1, <1>2, PTL DEF Mt!Spec
-----------------------------------------------------------------------------
(* TCP_sockets. *)

\* The part of TcpSockets's types that the argument needs.
SockTypes == /\ accepts \in Seq(Client \cup {NoSock}) /\ backlog \in Seq(Client)
             /\ thread \in [Sock!Thread -> {"none", "created", "hello", "recv", "echo", "done"}]
             /\ sock \in [Sock!Thread -> Client \cup {NoSock}]

\* A thread is created after the accept() whose number it has.
CreatedInv == \A k \in Sock!Thread : thread[k] # "none" => k <= Len(accepts)

SockInv == SockTypes /\ CreatedInv /\ Sock!NeverAnEarlierConnection

LEMMA SockInit == Sock!Init => SockInv
BY DEF Sock!Init, SockInv, SockTypes, CreatedInv, Sock!NeverAnEarlierConnection

\* accept() returns once more.
LEMMA SockAppend ==
  ASSUME SockInv, NEW s \in Client \cup {NoSock}, accepts' = Append(accepts, s),
         UNCHANGED <<thread, sock>>, backlog' \in Seq(Client)
  PROVE  SockInv'
<1>1. /\ accepts' \in Seq(Client \cup {NoSock}) /\ Len(accepts') = Len(accepts) + 1
      /\ Len(accepts) \in Nat /\ \A j \in 1 .. Len(accepts) : accepts'[j] = accepts[j]
  BY DEF SockInv, SockTypes
<1>2. SockTypes' /\ CreatedInv'
  BY <1>1 DEF SockInv, SockTypes, CreatedInv, Sock!Thread
<1>3. Sock!NeverAnEarlierConnection'
  <2> SUFFICES ASSUME NEW k \in Sock!Thread, thread[k] \notin {"none", "created"}
               PROVE  \E j \in k .. Len(accepts') : sock[k] = accepts'[j]
    BY DEF Sock!NeverAnEarlierConnection
  <2>1. PICK j \in k .. Len(accepts) : sock[k] = accepts[j]
    BY DEF SockInv, Sock!NeverAnEarlierConnection
  <2> QED
    BY <1>1, <2>1 DEF Sock!Thread
<1> QED
  BY <1>2, <1>3 DEF SockInv

\* Thread k takes a step, or begins.
LEMMA SockThread ==
  ASSUME SockInv, NEW k \in Sock!Thread, NEW s \in {"created", "hello", "recv", "echo", "done"},
         thread' = [thread EXCEPT ![k] = s], UNCHANGED <<accepts, backlog>>, k <= Len(accepts),
         sock' \in [Sock!Thread -> Client \cup {NoSock}],
         \A i \in Sock!Thread \ {k} : sock'[i] = sock[i],
         s = "created" \/ \E j \in k .. Len(accepts) : sock'[k] = accepts[j]
  PROVE  SockInv'
<1>1. thread'[k] = s /\ \A i \in Sock!Thread \ {k} : thread'[i] = thread[i]
  BY DEF SockInv, SockTypes
<1>2. SockTypes'
  BY DEF SockInv, SockTypes
<1>3. CreatedInv' /\ Sock!NeverAnEarlierConnection'
  BY <1>1 DEF SockInv, CreatedInv, Sock!NeverAnEarlierConnection
<1> QED
  BY <1>2, <1>3 DEF SockInv

LEMMA SockMain ==
  ASSUME SockInv, Sock!Main
  PROVE  SockInv'
<1> USE DEF Sock!threads, Sock!streams
<1>1. CASE Sock!SetUp
  BY <1>1 DEF Sock!SetUp, SockInv, SockTypes, CreatedInv, Sock!NeverAnEarlierConnection
<1>2. CASE Sock!Accept
  <2>1. backlog # <<>> /\ backlog \in Seq(Client)
    BY <1>2 DEF Sock!Accept, SockInv, SockTypes
  <2>2. Head(backlog) \in Client /\ Tail(backlog) \in Seq(Client)
    BY <2>1
  <2> QED
    BY <1>2, <2>2, SockAppend DEF Sock!Accept
<1>3. CASE Sock!AcceptFails
  BY <1>3, SockAppend DEF Sock!AcceptFails, SockInv, SockTypes
<1>4. CASE Sock!CreateThread
  <2>1. CASE UNCHANGED thread \/ Len(accepts) \notin Sock!Thread
    <3>1. UNCHANGED <<thread, accepts, sock, backlog>>
      BY <1>4, <2>1 DEF Sock!CreateThread, SockInv, SockTypes
    <3> QED
      BY <3>1 DEF SockInv, SockTypes, CreatedInv, Sock!NeverAnEarlierConnection
  <2>2. CASE ~UNCHANGED thread /\ Len(accepts) \in Sock!Thread
    <3>1. /\ thread' = [thread EXCEPT ![Len(accepts)] = "created"]
          /\ UNCHANGED <<accepts, sock, backlog>> /\ Len(accepts) <= Len(accepts)
      BY <1>4, <2>2 DEF Sock!CreateThread, SockInv, SockTypes
    <3> QED
      BY <2>2, <3>1, SockThread DEF SockInv, SockTypes
  <2> QED
    BY <2>1, <2>2
<1>5. CASE Sock!ServeOne
  <2>1. CASE UNCHANGED <<accepts, backlog, thread, sock>>
    BY <2>1 DEF SockInv, SockTypes, CreatedInv, Sock!NeverAnEarlierConnection
  <2>2. CASE ~UNCHANGED <<accepts, backlog, thread, sock>>
    <3>1. /\ accepts = <<>> /\ backlog # <<>> /\ backlog \in Seq(Client)
          /\ accepts' = <<Head(backlog)>> /\ backlog' = Tail(backlog)
          /\ thread' = [thread EXCEPT ![1] = "recv"] /\ sock' = [sock EXCEPT ![1] = Head(backlog)]
      BY <1>5, <2>2 DEF Sock!ServeOne, SockInv, SockTypes
    <3>2. Head(backlog) \in Client /\ Tail(backlog) \in Seq(Client)
      BY <3>1
    <3>3. SockTypes'
      <4>1. accepts' \in Seq(Client \cup {NoSock})
        BY <3>1, <3>2
      <4>2. thread' \in [Sock!Thread -> {"none", "created", "hello", "recv", "echo", "done"}]
        BY <3>1 DEF SockInv, SockTypes
      <4>3. sock' \in [Sock!Thread -> Client \cup {NoSock}]
        BY <3>1, <3>2 DEF SockInv, SockTypes
      <4> QED
        BY <3>1, <3>2, <4>1, <4>2, <4>3 DEF SockTypes
    <3>4. \A k \in Sock!Thread : thread[k] = "none" /\ k \in Int /\ k >= 1
      BY <3>1 DEF SockInv, CreatedInv, Sock!Thread
    <3>5. /\ \A k \in Sock!Thread : k # 1 => thread'[k] = "none"
          /\ 1 \in Sock!Thread => sock'[1] = accepts'[1]
          /\ Len(accepts') = 1
      BY <3>1, <3>4 DEF SockInv, SockTypes
    <3>6. CreatedInv' /\ Sock!NeverAnEarlierConnection'
      BY <3>4, <3>5 DEF CreatedInv, Sock!NeverAnEarlierConnection
    <3> QED
      BY <3>3, <3>6 DEF SockInv
  <2> QED
    BY <2>1, <2>2
<1> QED
  BY <1>1, <1>2, <1>3, <1>4, <1>5 DEF Sock!Main

LEMMA SockHandler ==
  ASSUME SockInv, NEW k \in Sock!Thread, Sock!connection_handler(k)
  PROVE  SockInv'
<1> USE DEF Sock!threads, Sock!streams
<1>1. thread[k] # "none" => k <= Len(accepts)
  BY DEF SockInv, CreatedInv
<1>2. CASE Sock!Start(k)
  <2>1. /\ thread[k] = "created" /\ sock' = [sock EXCEPT ![k] = accepts[Len(accepts)]]
        /\ thread' = [thread EXCEPT ![k] = "hello"] /\ UNCHANGED <<accepts, backlog>>
    BY <1>2 DEF Sock!Start
  <2>2. /\ k \in Int /\ k >= 1 /\ k <= Len(accepts) /\ Len(accepts) \in Nat
        /\ accepts[Len(accepts)] \in Client \cup {NoSock}
    BY <1>1, <2>1 DEF SockInv, SockTypes, Sock!Thread
  <2>3. /\ sock' \in [Sock!Thread -> Client \cup {NoSock}]
        /\ \A i \in Sock!Thread \ {k} : sock'[i] = sock[i]
        /\ sock'[k] = accepts[Len(accepts)]
    BY <2>1, <2>2 DEF SockInv, SockTypes
  <2>4. \E j \in k .. Len(accepts) : sock'[k] = accepts[j]
    BY <2>2, <2>3
  <2> QED
    BY <2>1, <2>2, <2>3, <2>4, SockThread
<1>3. CASE Sock!Hello(k) \/ Sock!Recv(k) \/ Sock!Echo(k) \/ Sock!RecvEnds(k)
  <2>1. /\ thread[k] \in {"hello", "recv", "echo"} /\ UNCHANGED <<accepts, backlog, sock>>
        /\ \E s \in {"recv", "echo", "done"} : thread' = [thread EXCEPT ![k] = s]
    BY <1>3 DEF Sock!Hello, Sock!Recv, Sock!Echo, Sock!RecvEnds
  <2>2. PICK s \in {"recv", "echo", "done"} : thread' = [thread EXCEPT ![k] = s]
    BY <2>1
  <2>3. \E j \in k .. Len(accepts) : sock[k] = accepts[j]
    BY <2>1 DEF SockInv, Sock!NeverAnEarlierConnection
  <2> QED
    BY <1>1, <2>1, <2>2, <2>3, SockThread DEF SockInv, SockTypes
<1> QED
  BY <1>2, <1>3 DEF Sock!connection_handler

LEMMA SockClient ==
  ASSUME SockInv, NEW c \in Client, Sock!client_main(c) \/ Sock!Kill(c)
  PROVE  SockInv'
<1>1. UNCHANGED <<accepts, thread, sock>> /\ (backlog' = backlog \/ backlog' = Append(backlog, c))
  BY DEF Sock!client_main, Sock!Kill, Sock!Connect, Sock!Send, Sock!Reply, Sock!ReplyEnds,
         Sock!threads
<1>2. backlog' \in Seq(Client)
  BY <1>1 DEF SockInv, SockTypes
<1> QED
  BY <1>1, <1>2 DEF SockInv, SockTypes, CreatedInv, Sock!NeverAnEarlierConnection

LEMMA SockNext == SockInv /\ [Sock!Next]_(Sock!vars) => SockInv'
<1> SUFFICES ASSUME SockInv, [Sock!Next]_(Sock!vars) PROVE SockInv'
  OBVIOUS
<1>1. CASE UNCHANGED Sock!vars
  BY <1>1 DEF Sock!vars, Sock!threads, SockInv, SockTypes, CreatedInv,
              Sock!NeverAnEarlierConnection
<1> QED
  BY <1>1, SockMain, SockHandler, SockClient DEF Sock!Next

\* A behaviour of SockSpec is one of the program alone.
LEMMA SockAlone == SockSpec => Sock!Spec
<1>1. SInit => Sock!Init
  BY DEF SInit
<1>2. [Sock!Next /\ UNCHANGED <<readers, tcp, tcpMt, pending, cut, server, unread, failed>>]_servers
        => [Sock!Next]_(Sock!vars)
  BY DEF servers, shared, sockets, Sock!vars, Sock!threads, Sock!streams
<1> QED
  BY <1>1, <1>2, PTL DEF SockSpec, Sock!Spec

\* The race on main's client_socket (multi_server.c:80-86) can only make a thread
\* serve a later connection: for any number of clients and failures of accept()
\* and pthread_create(), none serves one accepted before its own.
THEOREM OwnOrLaterConnection == SockSpec => []NeverAnEarlierConnection
<1>1. SockInv => NeverAnEarlierConnection
  BY DEF SockInv, NeverAnEarlierConnection
<1> QED
  BY SockAlone, SockInit, SockNext, <1>1, PTL DEF Sock!Spec
-----------------------------------------------------------------------------
(* The bytes that TCP_sockets echoes. *)

\* A set of numbers that is not empty has a least one.  The intervals up to its
\* elements are finite sets, which inclusion orders well.
LEMMA LeastNumber ==
  ASSUME NEW Z \in SUBSET Nat, Z # {}
  PROVE  \E n \in Z : \A m \in Z : n <= m
<1> DEFINE T == {0 .. z : z \in Z}
           R == StrictSubsetOrdering(Nat)
<1>1. IsWellFoundedOn(R, FiniteSubsetsOf(Nat))
  BY FS_StrictSubsetOrderingWellFounded
<1>2. T \subseteq FiniteSubsetsOf(Nat)
  <2> SUFFICES ASSUME NEW z \in Z PROVE 0 .. z \in FiniteSubsetsOf(Nat)
    OBVIOUS
  <2>1. z \in Nat /\ IsFiniteSet(0 .. z)
    BY FS_Interval
  <2> QED
    BY <2>1 DEF FiniteSubsetsOf
<1>3. T # {}
  OBVIOUS
<1>4. PICK x \in T : \A y \in T : ~(<<y, x>> \in R)
  <2> HIDE DEF T, R
  <2> QED
    BY <1>1, <1>2, <1>3, WFMin
<1>5. PICK n \in Z : x = 0 .. n
  BY <1>4
<1>6. ASSUME NEW m \in Z, m < n PROVE FALSE
  <2>1. /\ 0 .. m \subseteq Nat /\ 0 .. n \subseteq Nat /\ 0 .. m \subseteq 0 .. n
        /\ n \in 0 .. n /\ n \notin 0 .. m
    BY <1>6
  <2>2. <<0 .. m, 0 .. n>> \in R
    BY <2>1 DEF StrictSubsetOrdering
  <2> QED
    BY <1>4, <1>5, <2>2
<1> QED
  BY <1>6

LEMMA SockCardinality == \A S : Sock!Cardinality(S) = Cardinality(S)
BY DEF Sock!Cardinality, Cardinality

Byte == {"zero", "data", "junk"}

\* strlen() of a buffer is at most its size and not less than the data in front.
LEMMA StrlenPastData ==
  ASSUME BufLen \in Nat, NEW b \in [1 .. BufLen -> Byte], NEW m \in 0 .. BufLen,
         \A i \in 1 .. BufLen : b[i] = "data" <=> i <= m
  PROVE  Sock!strlen(b) \in 0 .. BufLen /\ m <= Sock!strlen(b)
<1> DEFINE P(n) == (\A i \in 1 .. n : b[i] # "zero") /\ (n = BufLen \/ b[n + 1] = "zero")
           Z == {i \in 1 .. BufLen : b[i] = "zero"}
<1>1. \E n \in 0 .. BufLen : P(n)
  <2>1. CASE Z = {}
    BY <2>1
  <2>2. CASE Z # {}
    <3>1. PICK n \in Z : \A i \in Z : n <= i
      <4>1. Z \in SUBSET Nat
        OBVIOUS
      <4> HIDE DEF Z
      <4> QED
        BY <2>2, <4>1, LeastNumber
    <3>2. n - 1 \in 0 .. BufLen /\ (n - 1) + 1 = n
      BY <3>1
    <3>3. \A i \in 1 .. n - 1 : b[i] # "zero"
      BY <3>1
    <3> QED
      BY <3>1, <3>2, <3>3
  <2> QED
    BY <2>1, <2>2
<1>2. Sock!strlen(b) = CHOOSE n \in 0 .. BufLen : P(n)
  BY DEF Sock!strlen
<1>3. Sock!strlen(b) \in 0 .. BufLen /\ P(Sock!strlen(b))
  BY <1>1, <1>2
<1>4. ASSUME Sock!strlen(b) < m PROVE FALSE
  <2>1. Sock!strlen(b) + 1 \in 1 .. BufLen /\ Sock!strlen(b) + 1 <= m /\ Sock!strlen(b) # BufLen
    BY <1>3, <1>4
  <2> QED
    BY <1>3, <2>1
<1> QED
  BY <1>3, <1>4

\* n bytes more in the buffer of thread k.
LEMMA AddRow ==
  ASSUME NEW S, IsFiniteSet(S), NEW k, NEW n \in Nat, S \cap ({k} \X (1 .. n)) = {}
  PROVE  Cardinality(S \cup ({k} \X (1 .. n))) = Cardinality(S) + n
<1> DEFINE row == {k} \X (1 .. n)
<1>1. IsFiniteSet({k}) /\ Cardinality({k}) = 1
  BY FS_Singleton
<1>2. IsFiniteSet(1 .. n) /\ Cardinality(1 .. n) = n
  BY FS_Interval
<1>3. IsFiniteSet(row) /\ Cardinality(row) = n
  <2>1. IsFiniteSet(row) /\ Cardinality(row) = Cardinality({k}) * Cardinality(1 .. n)
    BY <1>1, <1>2, FS_Product
  <2> QED
    BY <1>1, <1>2, <2>1
<1>4. Cardinality(S \cap row) = 0
  BY FS_EmptySet
<1>5. Cardinality(S \cup row) = Cardinality(S) + Cardinality(row) - Cardinality(S \cap row)
  BY <1>3, FS_Union
<1>6. Cardinality(S) \in Nat
  BY FS_CardinalityType
<1> QED
  BY <1>3, <1>4, <1>5, <1>6

StreamTypes == /\ mainCall \in {"accept", "pthread_create"}
               /\ buf \in [Sock!Thread -> {<<>>} \cup [1 .. BufLen -> Byte]]
               /\ inbox \in [Client -> Int]
               /\ sent \in [Client -> Int]
               /\ echoed \in [Client -> Int]

\* A thread that is about to be created has not run before.
FreshInv == mainCall = "pthread_create" =>
              /\ Len(accepts) > 0
              /\ \A k \in Sock!Thread : k = Len(accepts) => thread[k] = "none"

NoData(b) == \A i \in DOMAIN b : b[i] # "data"

DataInFront(b) == /\ b \in [1 .. BufLen -> Byte]
                  /\ \E m \in 0 .. BufLen : \A i \in 1 .. BufLen : b[i] = "data" <=> i <= m

\* A buffer has data only between recv() and the reply, and then in front.
BufInv == \A k \in Sock!Thread : IF thread[k] # "echo" THEN NoData(buf[k])
                                 ELSE sock[k] \in Client /\ DataInFront(buf[k])

\* As EveryByteOnce, and for clients that are gone as well.
ByteInv == \A c \in Client : sent[c] = inbox[c] + Cardinality(Sock!Held(c)) + echoed[c]

StreamInv == StreamTypes /\ FreshInv /\ BufInv /\ ByteInv

LEMMA HeldIsFinite ==
  ASSUME MaxAccept \in Nat, BufLen \in Nat
  PROVE  \A c : IsFiniteSet(Sock!Held(c)) /\ Cardinality(Sock!Held(c)) \in Nat
<1> DEFINE all == Sock!Thread \X (1 .. BufLen)
<1>1. IsFiniteSet(Sock!Thread) /\ IsFiniteSet(1 .. BufLen)
  BY FS_Interval DEF Sock!Thread
<1>2. IsFiniteSet(all)
  BY <1>1, FS_Product
<1> SUFFICES ASSUME NEW c PROVE IsFiniteSet(Sock!Held(c)) /\ Cardinality(Sock!Held(c)) \in Nat
  OBVIOUS
<1>3. Sock!Held(c) \in SUBSET all
  BY DEF Sock!Held
<1> HIDE DEF all
<1>4. IsFiniteSet(Sock!Held(c))
  BY <1>2, <1>3, FS_Subset
<1> QED
  BY <1>4, FS_CardinalityType

\* Buffers without data count for no client: a thread may change the connection
\* it serves, or a new one take its place.
LEMMA HeldStays ==
  ASSUME SockInv, StreamInv, UNCHANGED buf,
         \A k \in Sock!Thread : thread[k] = "echo" => sock'[k] = sock[k]
  PROVE  \A c : Sock!Held(c)' = Sock!Held(c)
<1> SUFFICES ASSUME NEW c, NEW p \in Sock!Thread \X (1 .. BufLen)
             PROVE  p \in Sock!Held(c)' <=> p \in Sock!Held(c)
  BY DEF Sock!Held
<1>1. p[1] \in Sock!Thread
  OBVIOUS
<1>2. CASE thread[p[1]] = "echo"
  BY <1>1, <1>2 DEF Sock!Held
<1>3. CASE thread[p[1]] # "echo"
  BY <1>1, <1>3 DEF StreamInv, BufInv, NoData, Sock!Held
<1> QED
  BY <1>2, <1>3

\* A step that receives nothing and echoes nothing.
LEMMA StreamStays ==
  ASSUME SockInv, StreamInv, UNCHANGED <<buf, inbox, sent, echoed>>,
         \A k \in Sock!Thread : thread[k] = "echo" <=> thread'[k] = "echo",
         \A k \in Sock!Thread : thread[k] = "echo" => sock'[k] = sock[k],
         mainCall' \in {"accept", "pthread_create"}, FreshInv'
  PROVE  StreamInv'
<1>1. StreamTypes'
  BY DEF StreamInv, StreamTypes
<1>2. BufInv'
  BY DEF StreamInv, BufInv
<1>3. ByteInv'
  BY HeldStays DEF StreamInv, ByteInv
<1> QED
  BY <1>1, <1>2, <1>3 DEF StreamInv

LEMMA StreamMain ==
  ASSUME SockInv, StreamInv, Sock!Main
  PROVE  StreamInv'
<1> USE DEF Sock!threads, Sock!streams
<1>1. CASE Sock!SetUp
  BY <1>1, StreamStays DEF Sock!SetUp, StreamInv, StreamTypes, FreshInv
<1>2. CASE Sock!Accept \/ Sock!AcceptFails
  <2>1. /\ UNCHANGED <<thread, sock, buf, inbox, sent, echoed>>
        /\ mainCall' = "pthread_create" /\ backlog \in Seq(Client)
        /\ \/ accepts' = Append(accepts, NoSock)
           \/ backlog # <<>> /\ accepts' = Append(accepts, Head(backlog))
    BY <1>2 DEF Sock!Accept, Sock!AcceptFails, SockInv, SockTypes
  <2>2. Len(accepts') = Len(accepts) + 1 /\ Len(accepts) \in Nat
    BY <2>1 DEF SockInv, SockTypes
  <2>3. FreshInv'
    BY <2>1, <2>2 DEF SockInv, CreatedInv, FreshInv
  <2> QED
    BY <2>1, <2>3, StreamStays
<1>3. CASE Sock!CreateThread
  <2>1. /\ mainCall' = "accept" /\ UNCHANGED <<sock, buf, inbox, sent, echoed>>
        /\ thread' = thread \/ thread' = [thread EXCEPT ![Len(accepts)] = "created"]
        /\ \A k \in Sock!Thread : k = Len(accepts) => thread[k] = "none"
    BY <1>3 DEF Sock!CreateThread, StreamInv, FreshInv
  <2>2. \A k \in Sock!Thread : thread[k] = "echo" <=> thread'[k] = "echo"
    BY <2>1 DEF SockInv, SockTypes
  <2>3. FreshInv'
    BY <2>1 DEF FreshInv
  <2> QED
    BY <2>1, <2>2, <2>3, StreamStays
<1>4. CASE Sock!ServeOne
  <2>1. /\ UNCHANGED <<mainCall, buf, inbox, sent, echoed>> /\ accepts = <<>>
        /\ thread' = thread \/ thread' = [thread EXCEPT ![1] = "recv"]
        /\ sock' = sock \/ sock' = [sock EXCEPT ![1] = Head(backlog)]
        /\ mainCall # "pthread_create"
    BY <1>4 DEF Sock!ServeOne, StreamInv, FreshInv
  <2>2. \A k \in Sock!Thread : thread[k] = "none"
    BY <2>1 DEF SockInv, CreatedInv, Sock!Thread
  <2>3. \A k \in Sock!Thread : thread[k] = "echo" <=> thread'[k] = "echo"
    BY <2>1, <2>2 DEF SockInv, SockTypes
  <2>4. FreshInv'
    BY <2>1 DEF FreshInv
  <2> QED
    BY <2>1, <2>2, <2>3, <2>4, StreamStays DEF StreamInv, StreamTypes
<1> QED
  BY <1>1, <1>2, <1>3, <1>4 DEF Sock!Main

\* Steps of a thread other than recv() and the reply.
LEMMA StreamThread ==
  ASSUME SockInv, StreamInv, NEW k \in Sock!Thread,
         Sock!Start(k) \/ Sock!Hello(k) \/ Sock!RecvEnds(k)
  PROVE  StreamInv'
<1> USE DEF Sock!threads, Sock!streams
<1>1. /\ UNCHANGED <<mainCall, accepts, buf, inbox, sent, echoed>>
      /\ thread[k] \in {"created", "hello", "recv"}
      /\ \E s \in {"hello", "recv", "done"} : thread' = [thread EXCEPT ![k] = s]
      /\ sock' = sock \/ sock' = [sock EXCEPT ![k] = accepts[Len(accepts)]]
  BY DEF Sock!Start, Sock!Hello, Sock!RecvEnds
<1>2. PICK s \in {"hello", "recv", "done"} : thread' = [thread EXCEPT ![k] = s]
  BY <1>1
<1>3. \A j \in Sock!Thread : thread'[j] = IF j = k THEN s ELSE thread[j]
  BY <1>2 DEF SockInv, SockTypes
<1>4. \A j \in Sock!Thread : thread[j] = "echo" => sock'[j] = sock[j]
  BY <1>1 DEF SockInv, SockTypes
<1>5. FreshInv'
  BY <1>1, <1>3 DEF StreamInv, FreshInv
<1> QED
  BY <1>1, <1>3, <1>4, <1>5, StreamStays DEF StreamInv, StreamTypes

\* What has no part in thread k's buffer is the same before and after.
LEMMA OtherRows ==
  ASSUME SockInv, StreamInv, NEW k \in Sock!Thread, UNCHANGED sock,
         NEW b, buf' = [buf EXCEPT ![k] = b],
         NEW c, NEW p \in Sock!Thread \X (1 .. BufLen), p[1] # k
  PROVE  p \in Sock!Held(c)' <=> p \in Sock!Held(c)
<1>1. p[1] \in Sock!Thread /\ buf'[p[1]] = buf[p[1]]
  BY DEF StreamInv, StreamTypes
<1> QED
  BY <1>1 DEF Sock!Held

LEMMA StreamRecv ==
  ASSUME MaxAccept \in Nat, BufLen \in Nat, SockInv, StreamInv,
         NEW k \in Sock!Thread, Sock!Recv(k)
  PROVE  StreamInv'
<1>1. /\ thread[k] = "recv" /\ sock[k] \in Client /\ thread' = [thread EXCEPT ![k] = "echo"]
      /\ UNCHANGED <<mainCall, accepts, sock, sent, echoed>>
  BY DEF Sock!Recv
<1>2. PICK n \in 1 .. BufLen : \E b \in Sock!Before(k) :
        /\ inbox' = [inbox EXCEPT ![sock[k]] = @ - n]
        /\ buf' = [buf EXCEPT ![k] = [i \in 1 .. BufLen |-> IF i <= n THEN "data" ELSE b[i]]]
  BY DEF Sock!Recv
<1>3. PICK b \in Sock!Before(k) :
        /\ inbox' = [inbox EXCEPT ![sock[k]] = @ - n]
        /\ buf' = [buf EXCEPT ![k] = [i \in 1 .. BufLen |-> IF i <= n THEN "data" ELSE b[i]]]
  BY <1>2
<1>4. b \in [1 .. BufLen -> Byte] /\ \A i \in 1 .. BufLen : b[i] # "data"
  <2>1. CASE buf[k] = <<>>
    BY <1>3, <2>1 DEF Sock!Before, Byte
  <2>2. CASE buf[k] # <<>>
    <3>1. b = buf[k] /\ buf[k] \in [1 .. BufLen -> Byte]
      BY <1>3, <2>2 DEF Sock!Before, StreamInv, StreamTypes
    <3>2. NoData(buf[k])
      BY <1>1 DEF StreamInv, BufInv
    <3> QED
      BY <3>1, <3>2 DEF NoData
  <2> QED
    BY <2>1, <2>2
<1> DEFINE new == [i \in 1 .. BufLen |-> IF i <= n THEN "data" ELSE b[i]]
<1>5. /\ new \in [1 .. BufLen -> Byte] /\ \A i \in 1 .. BufLen : new[i] = "data" <=> i <= n
  BY <1>4 DEF Byte
<1>6. buf' = [buf EXCEPT ![k] = new]
  BY <1>3
<1> HIDE DEF new
<1>7. buf'[k] = new /\ \A j \in Sock!Thread : j # k => buf'[j] = buf[j]
  BY <1>6 DEF StreamInv, StreamTypes
<1>8. StreamTypes'
  <2>1. buf' \in [Sock!Thread -> {<<>>} \cup [1 .. BufLen -> Byte]]
    BY <1>5, <1>6 DEF StreamInv, StreamTypes
  <2>2. inbox' \in [Client -> Int]
    BY <1>1, <1>3 DEF StreamInv, StreamTypes
  <2> QED
    BY <1>1, <2>1, <2>2 DEF StreamInv, StreamTypes
<1>9. \A j \in Sock!Thread : thread'[j] = IF j = k THEN "echo" ELSE thread[j]
  BY <1>1 DEF SockInv, SockTypes
<1>10. FreshInv'
  BY <1>1, <1>9 DEF StreamInv, FreshInv
<1>11. BufInv'
  <2>1. n \in 0 .. BufLen
    OBVIOUS
  <2>2. DataInFront(buf'[k])
    BY <1>5, <1>7, <2>1 DEF DataInFront
  <2> QED
    BY <1>1, <1>7, <1>9, <2>2 DEF StreamInv, BufInv
<1>12. ASSUME NEW c \in Client, c # sock[k]
       PROVE  Sock!Held(c)' = Sock!Held(c)
  <2> SUFFICES ASSUME NEW p \in Sock!Thread \X (1 .. BufLen)
               PROVE  p \in Sock!Held(c)' <=> p \in Sock!Held(c)
    BY DEF Sock!Held
  <2>1. CASE p[1] = k
    BY <1>1, <1>12, <2>1 DEF Sock!Held
  <2>2. CASE p[1] # k
    BY <1>1, <1>6, <2>2, OtherRows
  <2> QED
    BY <2>1, <2>2
<1>13. ASSUME NEW c \in Client, c = sock[k]
       PROVE  Cardinality(Sock!Held(c)') = Cardinality(Sock!Held(c)) + n
  <2>1. \A p \in Sock!Thread \X (1 .. BufLen) : p[1] = k =>
           p \notin Sock!Held(c) /\ (p \in Sock!Held(c)' <=> p[2] <= n)
    <3>1. NoData(buf[k])
      BY <1>1 DEF StreamInv, BufInv
    <3> QED
      BY <1>1, <1>5, <1>7, <1>13, <3>1 DEF NoData, Sock!Held
  <2>2. \A p \in Sock!Thread \X (1 .. BufLen) : p[1] # k => (p \in Sock!Held(c)' <=> p \in Sock!Held(c))
    BY <1>1, <1>6, OtherRows
  <2>3. Sock!Held(c) \subseteq Sock!Thread \X (1 .. BufLen)
        /\ Sock!Held(c)' \subseteq Sock!Thread \X (1 .. BufLen)
    BY DEF Sock!Held
  <2>4. {k} \X (1 .. n) \subseteq Sock!Thread \X (1 .. BufLen)
    OBVIOUS
  <2>5. Sock!Held(c)' = Sock!Held(c) \cup ({k} \X (1 .. n))
    <3>1. \A p \in Sock!Thread \X (1 .. BufLen) : p \in {k} \X (1 .. n) <=> p[1] = k /\ p[2] <= n
      OBVIOUS
    <3> QED
      BY <2>1, <2>2, <2>3, <2>4, <3>1
  <2>6. Sock!Held(c) \cap ({k} \X (1 .. n)) = {}
    BY <2>1, <2>4
  <2>7. IsFiniteSet(Sock!Held(c)) /\ n \in Nat
    BY HeldIsFinite
  <2> QED
    <3>1. Cardinality(Sock!Held(c) \cup ({k} \X (1 .. n))) = Cardinality(Sock!Held(c)) + n
      BY <2>6, <2>7, AddRow
    <3> QED
      BY <2>5, <3>1
<1>14. ByteInv'
  <2> SUFFICES ASSUME NEW c \in Client
               PROVE  sent'[c] = inbox'[c] + Cardinality(Sock!Held(c)') + echoed'[c]
    BY DEF ByteInv
  <2>1. /\ sent[c] = inbox[c] + Cardinality(Sock!Held(c)) + echoed[c] /\ sent'[c] = sent[c]
        /\ echoed'[c] = echoed[c] /\ inbox[c] \in Int /\ echoed[c] \in Int
        /\ Cardinality(Sock!Held(c)) \in Nat
    BY <1>1, HeldIsFinite DEF StreamInv, StreamTypes, ByteInv
  <2>2. CASE c = sock[k]
    <3>1. inbox'[c] = inbox[c] - n
      BY <1>3, <2>2 DEF StreamInv, StreamTypes
    <3>2. Cardinality(Sock!Held(c)') = Cardinality(Sock!Held(c)) + n
      BY <1>13, <2>2
    <3> QED
      BY <2>1, <3>1, <3>2
  <2>3. CASE c # sock[k]
    <3>1. inbox'[c] = inbox[c]
      BY <1>1, <1>3, <2>3 DEF StreamInv, StreamTypes
    <3> QED
      BY <1>12, <2>1, <2>3, <3>1
  <2> QED
    BY <2>2, <2>3
<1> QED
  BY <1>8, <1>10, <1>11, <1>14 DEF StreamInv

LEMMA StreamEcho ==
  ASSUME MaxAccept \in Nat, BufLen \in Nat, SockInv, StreamInv,
         NEW k \in Sock!Thread, Sock!Echo(k)
  PROVE  StreamInv'
<1> DEFINE n == Sock!strlen(buf[k])
           b == buf[k]
           new == [i \in 1 .. BufLen |-> IF i <= n THEN "zero" ELSE b[i]]
           d == Sock!Data(SubSeq(b, 1, n))
<1>1. /\ thread[k] = "echo" /\ thread' = [thread EXCEPT ![k] = "recv"]
      /\ UNCHANGED <<mainCall, accepts, sock, inbox, sent>>
      /\ echoed' = [echoed EXCEPT ![sock[k]] = @ + d]
      /\ buf' = [buf EXCEPT ![k] = new]
  BY DEF Sock!Echo
<1>2. sock[k] \in Client /\ b \in [1 .. BufLen -> Byte]
  BY <1>1 DEF StreamInv, BufInv, DataInFront
<1>3. PICK m \in 0 .. BufLen : \A i \in 1 .. BufLen : b[i] = "data" <=> i <= m
  BY <1>1 DEF StreamInv, BufInv, DataInFront
<1>4. n \in 0 .. BufLen /\ m <= n
  <2> HIDE DEF b
  <2>1. Sock!strlen(b) \in 0 .. BufLen /\ m <= Sock!strlen(b)
    BY <1>2, <1>3, StrlenPastData
  <2> QED
    BY <2>1 DEF b
<1>5. d = m
  <2> HIDE DEF n, b
  <2> DEFINE q == SubSeq(b, 1, n)
  <2>1. q = [i \in 1 .. n |-> b[i]]
    BY <1>2, <1>4 DEF Byte
  <2>2. {i \in DOMAIN q : q[i] = "data"} = 1 .. m
    BY <1>3, <1>4, <2>1
  <2>3. Cardinality(1 .. m) = m
    BY FS_Interval
  <2> QED
    BY <2>2, <2>3, SockCardinality DEF Sock!Data
<1>6. new \in [1 .. BufLen -> Byte] /\ NoData(new)
  <2> HIDE DEF n, b
  <2> QED
    BY <1>2, <1>3, <1>4 DEF NoData, Byte
<1> HIDE DEF new, d
<1>7. buf'[k] = new /\ \A j \in Sock!Thread : j # k => buf'[j] = buf[j]
  BY <1>1 DEF StreamInv, StreamTypes
<1>8. \A j \in Sock!Thread : thread'[j] = IF j = k THEN "recv" ELSE thread[j]
  BY <1>1 DEF SockInv, SockTypes
<1>9. StreamTypes'
  <2>1. buf' \in [Sock!Thread -> {<<>>} \cup [1 .. BufLen -> Byte]]
    BY <1>1, <1>6 DEF StreamInv, StreamTypes
  <2>2. echoed' \in [Client -> Int]
    BY <1>1, <1>2, <1>5 DEF StreamInv, StreamTypes
  <2> QED
    BY <1>1, <2>1, <2>2 DEF StreamInv, StreamTypes
<1>10. FreshInv'
  BY <1>1, <1>8 DEF StreamInv, FreshInv
<1>11. BufInv'
  BY <1>1, <1>6, <1>7, <1>8 DEF StreamInv, BufInv
<1>12. ASSUME NEW c \in Client, c # sock[k]
       PROVE  Sock!Held(c)' = Sock!Held(c)
  <2> SUFFICES ASSUME NEW p \in Sock!Thread \X (1 .. BufLen)
               PROVE  p \in Sock!Held(c)' <=> p \in Sock!Held(c)
    BY DEF Sock!Held
  <2>1. CASE p[1] = k
    BY <1>1, <1>12, <2>1 DEF Sock!Held
  <2>2. CASE p[1] # k
    BY <1>1, <2>2, OtherRows
  <2> QED
    BY <2>1, <2>2
<1>13. ASSUME NEW c \in Client, c = sock[k]
       PROVE  Cardinality(Sock!Held(c)) = Cardinality(Sock!Held(c)') + m
  <2>1. \A p \in Sock!Thread \X (1 .. BufLen) : p[1] = k =>
           p \notin Sock!Held(c)' /\ (p \in Sock!Held(c) <=> p[2] <= m)
    BY <1>1, <1>2, <1>3, <1>6, <1>7, <1>13 DEF NoData, Sock!Held
  <2>2. \A p \in Sock!Thread \X (1 .. BufLen) : p[1] # k => (p \in Sock!Held(c)' <=> p \in Sock!Held(c))
    BY <1>1, OtherRows
  <2>3. Sock!Held(c) \subseteq Sock!Thread \X (1 .. BufLen)
        /\ Sock!Held(c)' \subseteq Sock!Thread \X (1 .. BufLen)
    BY DEF Sock!Held
  <2>4. {k} \X (1 .. m) \subseteq Sock!Thread \X (1 .. BufLen)
    OBVIOUS
  <2>5. Sock!Held(c) = Sock!Held(c)' \cup ({k} \X (1 .. m))
    <3>1. \A p \in Sock!Thread \X (1 .. BufLen) : p \in {k} \X (1 .. m) <=> p[1] = k /\ p[2] <= m
      OBVIOUS
    <3> QED
      BY <2>1, <2>2, <2>3, <2>4, <3>1
  <2>6. Sock!Held(c)' \cap ({k} \X (1 .. m)) = {}
    BY <2>1, <2>4
  <2>7. IsFiniteSet(Sock!Held(c)') /\ m \in Nat
    <3>1. Sock!Held(c)' \in SUBSET Sock!Held(c)
      BY <2>5
    <3> QED
      BY <3>1, HeldIsFinite, FS_Subset
  <2> QED
    <3>1. Cardinality(Sock!Held(c)' \cup ({k} \X (1 .. m))) = Cardinality(Sock!Held(c)') + m
      BY <2>6, <2>7, AddRow
    <3> QED
      BY <2>5, <3>1
<1>14. ByteInv'
  <2> SUFFICES ASSUME NEW c \in Client
               PROVE  sent'[c] = inbox'[c] + Cardinality(Sock!Held(c)') + echoed'[c]
    BY DEF ByteInv
  <2>1. /\ sent[c] = inbox[c] + Cardinality(Sock!Held(c)) + echoed[c] /\ sent'[c] = sent[c]
        /\ inbox'[c] = inbox[c] /\ inbox[c] \in Int /\ echoed[c] \in Int
        /\ Cardinality(Sock!Held(c)) \in Nat
    BY <1>1, HeldIsFinite DEF StreamInv, StreamTypes, ByteInv
  <2>2. CASE c = sock[k]
    <3>1. echoed'[c] = echoed[c] + m
      BY <1>1, <1>5, <2>2 DEF StreamInv, StreamTypes
    <3>2. Cardinality(Sock!Held(c)) = Cardinality(Sock!Held(c)') + m
      BY <1>13, <2>2
    <3>3. Cardinality(Sock!Held(c)') \in Nat
      <4>1. IsFiniteSet(Sock!Held(c)')
        <5>1. Sock!Held(c)' \subseteq Sock!Thread \X (1 .. BufLen)
          BY DEF Sock!Held
        <5>2. IsFiniteSet(Sock!Thread) /\ IsFiniteSet(1 .. BufLen)
          BY FS_Interval DEF Sock!Thread
        <5>3. IsFiniteSet(Sock!Thread \X (1 .. BufLen))
          BY <5>2, FS_Product
        <5> QED
          BY <5>1, <5>3, FS_Subset
      <4> QED
        BY <4>1, FS_CardinalityType
    <3> QED
      BY <2>1, <3>1, <3>2, <3>3
  <2>3. CASE c # sock[k]
    <3>1. echoed'[c] = echoed[c]
      BY <1>1, <1>2, <2>3 DEF StreamInv, StreamTypes
    <3> QED
      BY <1>12, <2>1, <2>3, <3>1
  <2> QED
    BY <2>2, <2>3
<1> QED
  BY <1>9, <1>10, <1>11, <1>14 DEF StreamInv

LEMMA StreamClient ==
  ASSUME SockInv, StreamInv, NEW c \in Client, Sock!client_main(c) \/ Sock!Kill(c),
         MaxAccept \in Nat, BufLen \in Nat
  PROVE  StreamInv'
<1> USE DEF Sock!threads
<1>1. UNCHANGED <<mainCall, accepts, thread, sock, buf, echoed>>
  BY DEF Sock!client_main, Sock!Connect, Sock!Send, Sock!Reply, Sock!ReplyEnds, Sock!Kill
<1>2. FreshInv'
  BY <1>1 DEF StreamInv, FreshInv
<1>3. CASE UNCHANGED <<inbox, sent>>
  BY <1>1, <1>2, <1>3, StreamStays DEF StreamInv, StreamTypes
<1>4. CASE ~UNCHANGED <<inbox, sent>>
  <2>1. PICK n \in 1 .. BufLen - 2 : /\ sent' = [sent EXCEPT ![c] = @ + n]
                                     /\ inbox' = [inbox EXCEPT ![c] = @ + n]
    BY <1>4 DEF Sock!client_main, Sock!Connect, Sock!Send, Sock!Reply, Sock!ReplyEnds, Sock!Kill
  <2>2. n \in Int
    OBVIOUS
  <2>3. sent' \in [Client -> Int] /\ inbox' \in [Client -> Int]
    BY <2>1, <2>2 DEF StreamInv, StreamTypes
  <2>4. StreamTypes' /\ BufInv'
    <3>1. StreamTypes'
      BY <1>1, <2>3 DEF StreamInv, StreamTypes
    <3>2. BufInv'
      BY <1>1 DEF StreamInv, BufInv
    <3> QED
      BY <3>1, <3>2
  <2>5. \A e : Sock!Held(e)' = Sock!Held(e)
    BY <1>1, HeldStays
  <2>6. ByteInv'
    <3> SUFFICES ASSUME NEW e \in Client
                 PROVE  sent'[e] = inbox'[e] + Cardinality(Sock!Held(e)') + echoed'[e]
      BY DEF ByteInv
    <3>1. /\ sent[e] = inbox[e] + Cardinality(Sock!Held(e)) + echoed[e] /\ inbox[e] \in Int
          /\ echoed[e] \in Int /\ echoed'[e] = echoed[e] /\ Cardinality(Sock!Held(e)) \in Nat
      BY <1>1, HeldIsFinite DEF StreamInv, StreamTypes, ByteInv
    <3>2. Cardinality(Sock!Held(e)') = Cardinality(Sock!Held(e))
      BY <2>5
    <3>3. CASE e = c
      <4>1. sent'[e] = sent[e] + n /\ inbox'[e] = inbox[e] + n
        BY <2>1, <3>3 DEF StreamInv, StreamTypes
      <4> QED
        BY <2>2, <3>1, <3>2, <4>1
    <3>4. CASE e # c
      <4>1. sent'[e] = sent[e] /\ inbox'[e] = inbox[e]
        BY <2>1, <3>4 DEF StreamInv, StreamTypes
      <4> QED
        BY <3>1, <3>2, <4>1
    <3> QED
      BY <3>3, <3>4
  <2> QED
    BY <1>2, <2>4, <2>6 DEF StreamInv
<1> QED
  BY <1>3, <1>4

\* The echo by strlen() of a buffer that is neither initialised nor terminated
\* (multi_server.c:19-24) loses and repeats no byte: for every number of clients
\* and threads and every size of the buffer, each byte of a client that is still
\* there is on its way, in one thread's buffer, or was sent back once.
THEOREM EchoedOnce == SockSpec => []EveryByteOnce
<1>0. MaxAccept \in Nat /\ BufLen \in Nat
  BY ServersAssumption
<1>1. Sock!Init => StreamInv
  <2> SUFFICES ASSUME Sock!Init PROVE StreamInv
    OBVIOUS
  <2>1. StreamTypes /\ FreshInv
    BY DEF Sock!Init, Sock!Zero, StreamTypes, FreshInv
  <2>2. BufInv
    BY DEF Sock!Init, BufInv, NoData
  <2>3. \A c \in Client : Sock!Held(c) = {}
    BY DEF Sock!Init, Sock!Held
  <2>4. ByteInv
    <3>1. \A c \in Client : sent[c] = 0 /\ inbox[c] = 0 /\ echoed[c] = 0
      BY DEF Sock!Init, Sock!Zero
    <3>2. \A c \in Client : Cardinality(Sock!Held(c)) = 0
      BY <2>3, FS_EmptySet
    <3> QED
      BY <3>1, <3>2 DEF ByteInv
  <2> QED
    BY <2>1, <2>2, <2>4 DEF StreamInv
<1>2. SockInv /\ StreamInv /\ [Sock!Next]_(Sock!vars) => StreamInv'
  <2> SUFFICES ASSUME SockInv, StreamInv, [Sock!Next]_(Sock!vars) PROVE StreamInv'
    OBVIOUS
  <2>1. CASE UNCHANGED Sock!vars
    BY <1>0, <2>1, StreamStays DEF Sock!vars, Sock!threads, Sock!streams, StreamInv, StreamTypes, FreshInv
  <2>2. ASSUME NEW k \in Sock!Thread, Sock!connection_handler(k) PROVE StreamInv'
    BY <1>0, <2>2, StreamThread, StreamRecv, StreamEcho DEF Sock!connection_handler
  <2> QED
    BY <1>0, <2>1, <2>2, StreamMain, StreamClient DEF Sock!Next
<1>3. StreamInv => EveryByteOnce
  BY SockCardinality DEF StreamInv, ByteInv, EveryByteOnce, Sock!EveryByteOnce
<1> QED
  BY SockAlone, SockInit, SockNext, <1>1, <1>2, <1>3, PTL DEF Sock!Spec
=============================================================================
