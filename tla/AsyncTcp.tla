------------------------------ MODULE AsyncTcp ------------------------------
(***************************************************************************)
(* async_TCP/src/main.c: a server whose SIGIO handler accepts one          *)
(* connection per signal, reads it to its end and closes it.               *)
(*                                                                         *)
(* The kernel's part: every completed connection raises SIGIO for the      *)
(* listening socket, if that is asynchronous and has an owner.  SIGIO is a *)
(* standard signal: at most one is pending, further ones are discarded,    *)
(* and it is blocked while its own handler runs (the handler is installed  *)
(* without SA_NODEFER, so taking SIGIO out of sa_mask does not unblock     *)
(* it).  The listening socket is non-blocking, an accepted one is not.     *)
(***************************************************************************)
EXTENDS Integers, Sequences

CONSTANTS Client,     \* the clients that may connect, each once
          Backlog,    \* connections that can wait to be accepted
          MaxSend,    \* messages a client sends
          MaxFail     \* accept() failures for want of resources

VARIABLES server,     \* main's set-up step, "sleep", a handler step or "exited"
          serving,    \* the client whose socket the handler has, or {}
          pending,    \* 1 when a SIGIO is pending
          backlog,    \* connections not accepted yet, oldest first
          client,     \* what each client has done
          unread,     \* messages sent and not received, per client
          printed,    \* messages the server has printed, per client
          sent,       \* messages sent, per client
          lost,       \* "yes" once a SIGIO was discarded because one was pending
          failed      \* failed accept() calls

vars == <<server, serving, pending, backlog, client, unread, printed, sent, lost, failed>>

\* Mutant: the socket listens before it is asynchronous.
SetUp_ListenFirst == <<"socket", "bind", "sigaction", "listen", "fcntl">>

\* main's calls in order.
SetUp == <<"socket", "bind", "sigaction", "fcntl", "listen">>

Init == /\ server = "socket"
        /\ serving = {}
        /\ pending = 0
        /\ backlog = <<>>
        /\ client = [c \in Client |-> "out"]
        /\ unread = [c \in Client |-> 0]
        /\ printed = [c \in Client |-> 0]
        /\ sent = [c \in Client |-> 0]
        /\ lost = "no"
        /\ failed = 0
-----------------------------------------------------------------------------
(* main. *)

\* One set-up call: main goes on, or reports the error and returns; the results
\* of the fcntl calls are not checked and they are taken to succeed.
Start == /\ \E i \in DOMAIN SetUp :
              /\ server = SetUp[i]
              /\ \/ server' = IF i = Len(SetUp) THEN "sleep" ELSE SetUp[i + 1]
                 \/ SetUp[i] # "fcntl" /\ server' = "exited"
         /\ UNCHANGED <<serving, pending, backlog, client, unread, printed, sent, lost, failed>>

\* main has made this call and goes on.
Past(call) == \/ server \in {"sleep", "accept", "recv"}
              \/ \E i, j \in DOMAIN SetUp : i < j /\ SetUp[i] = call /\ SetUp[j] = server
-----------------------------------------------------------------------------
(* Clients, and the kernel's side of a connection. *)

\* The connection waits to be accepted, and SIGIO is raised if the socket is
\* asynchronous.
Connect(c) ==
  /\ Past("listen")
  /\ client[c] = "out"
  /\ Len(backlog) < Backlog
  /\ client' = [client EXCEPT ![c] = "open"]
  /\ backlog' = Append(backlog, c)
  /\ pending' = IF Past("fcntl") THEN 1 ELSE pending
  /\ lost' = IF Past("fcntl") /\ pending = 1 THEN "yes" ELSE lost
  /\ UNCHANGED <<server, serving, unread, printed, sent, failed>>

Send(c) == /\ client[c] = "open"
           /\ sent[c] < MaxSend
           /\ sent' = [sent EXCEPT ![c] = @ + 1]
           /\ unread' = [unread EXCEPT ![c] = @ + 1]
           /\ UNCHANGED <<server, serving, pending, backlog, client, printed, lost, failed>>

\* The client closes its side, or the connection is reset and what the server
\* has not read yet may be lost.
Disconnect(c) == /\ client[c] = "open"
                 /\ \/ client' = [client EXCEPT ![c] = "gone"]
                    \/ client' = [client EXCEPT ![c] = "reset"]
                 /\ UNCHANGED <<server, serving, pending, backlog, unread, printed, sent, lost, failed>>
-----------------------------------------------------------------------------
(* action_handler. *)

\* The pending SIGIO interrupts main's sleep.
Deliver == /\ server = "sleep"
           /\ pending = 1
           /\ pending' = 0
           /\ server' = "accept"
           /\ UNCHANGED <<serving, backlog, client, unread, printed, sent, lost, failed>>

Accept == /\ server = "accept"
          /\ backlog # <<>>
          /\ serving' = {Head(backlog)}
          /\ backlog' = Tail(backlog)
          /\ server' = "recv"
          /\ UNCHANGED <<pending, client, unread, printed, sent, lost, failed>>

\* accept() fails: there is no connection, or no descriptor or memory for one.
\* The handler returns and the connection, if any, stays.
AcceptFails == /\ server = "accept"
               /\ backlog = <<>> \/ failed < MaxFail
               /\ failed' = failed + 1
               /\ server' = "sleep"
               /\ UNCHANGED <<serving, pending, backlog, client, unread, printed, sent, lost>>

\* recv() returns some of what has arrived and the handler prints it (as a
\* string, which need not end where the message does: only that it is printed
\* is modelled).
Receive == /\ server = "recv"
           /\ \E c \in serving : \E n \in 1 .. unread[c] :
                /\ unread' = [unread EXCEPT ![c] = @ - n]
                /\ printed' = [printed EXCEPT ![c] = @ + n]
           /\ UNCHANGED <<server, serving, pending, backlog, client, sent, lost, failed>>

\* recv() may have nothing more to return for client c.
Ended(c) == client[c] = "reset" \/ (client[c] = "gone" /\ unread[c] = 0)

\* Mutant: the loop ends as soon as the peer has closed its side.
Close_Early == /\ server = "recv"
               /\ \E c \in serving : client[c] # "open"
               /\ serving' = {}
               /\ server' = "sleep"
               /\ UNCHANGED <<pending, backlog, client, unread, printed, sent, lost, failed>>

\* Mutant: the loop goes on when recv() returns 0.
Close_ErrorOnly == /\ server = "recv"
                   /\ \E c \in serving : client[c] = "reset"
                   /\ serving' = {}
                   /\ server' = "sleep"
                   /\ UNCHANGED <<pending, backlog, client, unread, printed, sent, lost, failed>>

\* recv() returns 0 or -1: the socket is closed and the handler returns.
Close == /\ server = "recv"
         /\ \E c \in serving : Ended(c)
         /\ serving' = {}
         /\ server' = "sleep"
         /\ UNCHANGED <<pending, backlog, client, unread, printed, sent, lost, failed>>

Handler == Deliver \/ Accept \/ AcceptFails \/ Receive \/ Close

\* main sleeps in a loop.
Idle == UNCHANGED vars

Next == \/ Start \/ Handler \/ Idle
        \/ \E c \in Client : Connect(c) \/ Send(c) \/ Disconnect(c)

\* The server runs; a client that has connected disconnects in the end.
Fairness == /\ WF_vars(Start)
            /\ WF_vars(Handler)
            /\ \A c \in Client : WF_vars(Disconnect(c))

Spec == Init /\ [][Next]_vars /\ Fairness
-----------------------------------------------------------------------------
(* Properties. *)

InHandler == IF server = "accept" THEN 1 ELSE 0

\* Types; the handler holds a client's socket exactly while it reads it, so no
\* path through it leaks a descriptor.
TypeOK == /\ server \in {"socket", "bind", "sigaction", "fcntl", "listen",
                         "sleep", "accept", "recv", "exited"}
          /\ serving \in SUBSET Client
          /\ server = "recv" <=> serving # {}
          /\ pending \in {0, 1}
          /\ backlog \in Seq(Client)
          /\ Len(backlog) <= Backlog
          /\ client \in [Client -> {"out", "open", "gone", "reset"}]
          /\ unread \in [Client -> Nat]
          /\ printed \in [Client -> Nat]
          /\ sent \in [Client -> Nat]
          /\ lost \in {"yes", "no"}
          /\ failed \in Nat

\* A signal stands for a connection and, as long as none was lost, a connection
\* for a signal.  Every pending SIGIO and every handler about to accept() has a
\* connection of its own that waits, so that accept() fails for want of
\* resources only; and a connection waits without a signal, for ever if no other
\* client comes, only in a server that discarded a SIGIO because one was pending
\* or whose accept() failed.  The first half is what the handler relies on when
\* it accepts once for each signal (main.c:29), the second how far it is true
\* that connections "trigger callback in which they can be accepted"
\* (main.c:107): no step of the set-up, of a client or of another handler makes
\* a connection wait in silence.
SilentOnlyAfterLoss ==
  /\ pending + InHandler <= Len(backlog)
  /\ pending + InHandler < Len(backlog) => lost = "yes" \/ failed > 0

\* The handler only closes a connection when all it was sent is printed: what
\* a client sent before it disconnected is not lost, unless the connection was
\* reset or still waits.
NothingUnread ==
  \A c \in Client : \/ printed[c] = sent[c]
                    \/ client[c] \in {"open", "reset"}
                    \/ c \in serving
                    \/ \E i \in DOMAIN backlog : backlog[i] = c

\* A client whose connection was accepted is served to the end and the handler
\* returns, so that the next SIGIO can be taken.
HandlerReturns == \A c \in Client : c \in serving ~> c \notin serving
=============================================================================
