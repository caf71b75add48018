------------------------------ MODULE MCServers ------------------------------
(***************************************************************************)
(* The servers, one specification for each of the three that accept        *)
(* connections: async_TCP (AsyncTcp), async_TCP_multithread (AsyncTcpMt)   *)
(* and TCP_sockets (TcpSockets), next to the two of MCSigioReaders.  Each  *)
(* is a program of its own: in a behaviour of one of the specifications    *)
(* the variables that only the others have stay as they are.  The          *)
(* variables with the same meaning and initial value are shared.           *)
(***************************************************************************)
EXTENDS MCSigioReaders

CONSTANTS Client, Backlog, MaxSend, MaxFail, MaxNoThread, NoSock, MaxAccept, BufLen

ASSUME ServersAssumption ==
         /\ Backlog \in Nat \ {0}
         /\ MaxSend \in Nat /\ MaxFail \in Nat /\ MaxNoThread \in Nat
         /\ NoSock \notin Client
         /\ MaxAccept \in Nat /\ BufLen \in Nat \ {0, 1, 2} /\ MaxBytes \in Nat

VARIABLES server, backlog, client, unread, sent, failed,
          serving, shown, lost,                          \* async_TCP only
          accepted, worker, held, answered, nothread,    \* async_TCP_multithread only
          program, proc, mainCall, accepts, thread, sock, buf, inbox, outbox, echoed

readers == <<step, signals, caught, bound, handler, queue, arrived, received, dropped, port>>
tcp == <<serving, shown, lost>>
tcpMt == <<accepted, worker, held, answered, nothread>>
sockets == <<program, proc, mainCall, accepts, thread, sock, buf, inbox, outbox, echoed>>
shared == <<pending, cut, server, backlog, client, unread, sent, failed>>
servers == <<readers, tcp, tcpMt, sockets, shared>>

Tcp == INSTANCE AsyncTcp WITH printed <- shown

Mt == INSTANCE AsyncTcpMt WITH thread <- worker

Sock == INSTANCE TcpSockets WITH main <- mainCall

SInit == RInit /\ Tcp!Init /\ Mt!Init /\ Sock!Init

TcpSpec == /\ SInit /\ program = "server"
           /\ [][Tcp!Next /\ UNCHANGED <<readers, tcpMt, sockets, cut>>]_servers
           /\ Tcp!Fairness

MtSpec == /\ SInit /\ program = "server"
          /\ [][Mt!Next /\ UNCHANGED <<readers, tcp, sockets>>]_servers
          /\ Mt!Fairness

SockSpec == /\ SInit
            /\ [][/\ Sock!Next
                  /\ UNCHANGED <<readers, tcp, tcpMt, pending, cut, server, unread, failed>>]_servers
            /\ Sock!Fairness
-----------------------------------------------------------------------------
\* AsyncTcp's SilentOnlyAfterLoss.
SilentOnlyAfterLoss == Tcp!SilentOnlyAfterLoss

\* AsyncTcp's NothingUnread.
NothingUnread == Tcp!NothingUnread

\* AsyncTcp's HandlerReturns.
HandlerReturns == Tcp!HandlerReturns

\* AsyncTcpMt's NoneLeftBehind.
NoConnectionBehind == Mt!NoneLeftBehind

\* AsyncTcpMt's AnsweredBeforeClose.
AnsweredBeforeClose == Mt!AnsweredBeforeClose

\* AsyncTcpMt's ConnectionsAreServed.
ConnectionsAreServed == Mt!ConnectionsAreServed

\* TcpSockets' NeverAnEarlierConnection.
NeverAnEarlierConnection == Sock!NeverAnEarlierConnection

\* TcpSockets' EveryByteOnce.
EveryByteOnce == Sock!EveryByteOnce

\* TcpSockets' ClientAnswered.
ClientAnswered == Sock!ClientAnswered
=============================================================================
