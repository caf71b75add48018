------------------------------ MODULE AsyncUdp ------------------------------
(***************************************************************************)
(* async_UDP/src/main.c: one UDP socket whose SIGIO handler receives until *)
(* recvfrom() has nothing more.                                            *)
(*                                                                         *)
(* The socket is asynchronous and has an owner before it is bound, so each *)
(* datagram raises SIGIO; at most one SIGIO is pending and it is blocked   *)
(* while its handler runs.  An error in the set-up is reported, but main   *)
(* goes on in every case and sleeps in a loop.                             *)
(***************************************************************************)
EXTENDS Integers, Sequences

CONSTANTS MaxMsg,    \* datagrams that arrive
          RcvBuf     \* datagrams the socket can hold

ASSUME UdpAssumption == MaxMsg \in Nat /\ RcvBuf \in Nat \ {0}

VARIABLES step,      \* main's next call; "sleep" when it is done; "killed"
          signals,   \* "yes" when the fcntl calls made the socket raise SIGIO
          caught,    \* "yes" when the handler for SIGIO is installed
          bound,     \* "yes" when datagrams can arrive
          handler,   \* "yes" while socketCallback runs
          pending,   \* 1 when a SIGIO is pending
          queue,     \* datagrams not received
          arrived, received, dropped,   \* datagrams so far
          cut        \* "yes" when the last run stopped at an empty datagram

setup == <<step, signals, caught, bound>>
vars == <<step, signals, caught, bound, handler, pending, queue, arrived, received, dropped, cut>>

Init == /\ step = "socket"
        /\ signals = "no" /\ caught = "no" /\ bound = "no"
        /\ handler = "no"
        /\ pending = 0
        /\ queue = <<>>
        /\ arrived = 0 /\ received = 0 /\ dropped = 0
        /\ cut = "no"
-----------------------------------------------------------------------------
(* socketOpenUDP, called by main. *)

\* When there is no socket, the result 1 passes for a descriptor and main
\* sleeps.
Socket == /\ step = "socket"
          /\ step' \in {"fcntl", "sleep"}
          /\ UNCHANGED <<signals, caught, bound, handler, pending, queue, arrived, received, dropped, cut>>

\* registerSignalHandler: the fcntl calls and sigaction only report failure.
Fcntl == /\ step = "fcntl"
         /\ signals' \in {"yes", "no"}
         /\ step' = "sigaction"
         /\ UNCHANGED <<caught, bound, handler, pending, queue, arrived, received, dropped, cut>>

SigAction == /\ step = "sigaction"
             /\ caught' \in {"yes", "no"}
             /\ step' = "bind"
             /\ UNCHANGED <<signals, bound, handler, pending, queue, arrived, received, dropped, cut>>

Bind == /\ step = "bind"
        /\ bound' \in {"yes", "no"}
        /\ step' = "sleep"
        /\ UNCHANGED <<signals, caught, handler, pending, queue, arrived, received, dropped, cut>>

main == Socket \/ Fcntl \/ SigAction \/ Bind
-----------------------------------------------------------------------------
(* The network. *)

\* A datagram arrives, empty or not; the kernel drops it when the socket's
\* buffer is full.
Arrive(kind) ==
  /\ bound = "yes" /\ step # "killed"
  /\ arrived < MaxMsg
  /\ arrived' = arrived + 1
  /\ \/ /\ Len(queue) < RcvBuf
        /\ queue' = Append(queue, kind)
        /\ pending' = IF signals = "yes" THEN 1 ELSE 0
        /\ UNCHANGED dropped
     \/ /\ Len(queue) = RcvBuf
        /\ dropped' = dropped + 1
        /\ UNCHANGED <<queue, pending>>
  /\ UNCHANGED <<setup, handler, received, cut>>
-----------------------------------------------------------------------------
(* signalHandler and socketCallback. *)

\* Without a handler SIGIO ends the process.
signalHandler == /\ step = "sleep" /\ handler = "no"
                 /\ pending = 1
                 /\ pending' = 0
                 /\ \/ caught = "yes" /\ handler' = "yes" /\ UNCHANGED step
                    \/ caught = "no" /\ step' = "killed" /\ UNCHANGED handler
                 /\ UNCHANGED <<signals, caught, bound, queue, arrived, received, dropped, cut>>

HasData == queue # <<>> /\ Head(queue) = "data"

\* Mutant: one recvfrom() per signal.
Recv_Once == /\ handler = "yes" /\ HasData
             /\ queue' = Tail(queue)
             /\ received' = received + 1
             /\ handler' = "no"
             /\ UNCHANGED <<setup, pending, arrived, dropped, cut>>

\* recvfrom() returns a datagram, which is printed.
Recv == /\ handler = "yes" /\ HasData
        /\ queue' = Tail(queue)
        /\ received' = received + 1
        /\ UNCHANGED <<setup, handler, pending, arrived, dropped, cut>>

\* recvfrom() returns 0 for an empty datagram ("Client disconnected"), or -1
\* when there is none.  Either ends the loop.
RecvEnds == /\ handler = "yes" /\ ~HasData
            /\ queue' = IF queue = <<>> THEN <<>> ELSE Tail(queue)
            /\ cut' = IF queue' = <<>> THEN "no" ELSE "yes"
            /\ handler' = "no"
            /\ UNCHANGED <<setup, pending, arrived, received, dropped>>

socketCallback == Recv \/ RecvEnds

Next == \/ main \/ signalHandler \/ socketCallback
        \/ \E kind \in {"data", "empty"} : Arrive(kind)

\* The process runs and takes its signals.
Fairness == WF_vars(main) /\ WF_vars(signalHandler) /\ WF_vars(socketCallback)

Spec == Init /\ [][Next]_vars /\ Fairness
-----------------------------------------------------------------------------
(* Properties. *)

\* Types; a datagram is received at most once.
TypeOK == /\ step \in {"socket", "fcntl", "sigaction", "bind", "sleep", "killed"}
          /\ {signals, caught, bound, handler, cut} \subseteq {"yes", "no"}
          /\ pending \in {0, 1}
          /\ queue \in Seq({"data", "empty"}) /\ Len(queue) <= RcvBuf
          /\ arrived \in 0 .. MaxMsg /\ received \in Nat /\ dropped \in Nat
          /\ received + dropped + Len(queue) <= arrived

\* The loop over recvfrom() makes up for coalesced signals: if the socket
\* raises signals at all, a datagram waits only while one is pending, the
\* callback runs, or the callback stopped at an empty datagram before it.
NoneLeftBehind == queue # <<>> => \/ signals = "no" \/ step = "killed"
                                  \/ pending = 1 \/ handler = "yes" \/ cut = "yes"

\* When the set-up succeeded, the socket is read until it is empty or an empty
\* datagram stops the callback.
SocketIsRead == (signals = "yes" /\ caught = "yes" /\ queue # <<>>)
                  ~> (queue = <<>> \/ cut = "yes")
=============================================================================
