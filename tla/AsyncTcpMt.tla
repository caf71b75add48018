----------------------------- MODULE AsyncTcpMt -----------------------------
(***************************************************************************)
(* async_TCP_multithread/src/main.c: the SIGIO handler accepts connections *)
(* until there are none left and starts an echoing thread for each.        *)
(*                                                                         *)
(* The kernel's part is that of AsyncTcp: at most one SIGIO is pending and *)
(* it is blocked while the handler runs.  The threads are created inside   *)
(* the handler and inherit its signal mask, in which everything is         *)
(* blocked, so the handler always runs on main's thread.                   *)
(***************************************************************************)
EXTENDS Integers, Sequences

CONSTANTS Client,       \* the clients that may connect, each once
          Backlog,      \* connections that can wait to be accepted
          MaxSend,      \* messages a client sends
          MaxFail,      \* accept() failures for want of resources
          MaxNoThread   \* pthread_create() failures

VARIABLES server,     \* main's set-up step, "sleep", a handler step or "exited"
          accepted,   \* the connection pthread_create is about to be called for
          pending,    \* 1 when a SIGIO is pending
          backlog,    \* connections not accepted yet, oldest first
          client,     \* what each client has done
          thread,     \* the thread that serves each client
          held,       \* what a thread has received and not yet written back
          unread,     \* messages sent and not received
          answered,   \* messages a write() was made for
          sent,       \* messages sent
          cut,        \* the last accept loop ended with connections waiting
          failed, nothread   \* failures so far

vars == <<server, accepted, pending, backlog, client, thread, held, unread, answered, sent,
          cut, failed, nothread>>

SetUp == <<"socket", "bind", "sigaction", "listen">>

Zero == [c \in Client |-> 0]

Init == /\ server = "socket"
        /\ accepted = {}
        /\ pending = 0
        /\ backlog = <<>>
        /\ client = [c \in Client |-> "out"]
        /\ thread = [c \in Client |-> "none"]
        /\ held = Zero /\ unread = Zero /\ answered = Zero /\ sent = Zero
        /\ cut = "no"
        /\ failed = 0 /\ nothread = 0
-----------------------------------------------------------------------------
(* main. *)

\* One set-up call: main goes on, or reports the error and returns.
Start == /\ \E i \in DOMAIN SetUp :
              /\ server = SetUp[i]
              /\ \/ server' = IF i = Len(SetUp) THEN "sleep" ELSE SetUp[i + 1]
                 \/ server' = "exited"
         /\ UNCHANGED <<accepted, pending, backlog, client, thread, held, unread, answered, sent,
                        cut, failed, nothread>>
-----------------------------------------------------------------------------
(* Clients, and the kernel's side of a connection. *)

Connect(c) ==
  /\ server \in {"sleep", "accept", "create"}
  /\ client[c] = "out"
  /\ Len(backlog) < Backlog
  /\ client' = [client EXCEPT ![c] = "open"]
  /\ backlog' = Append(backlog, c)
  /\ pending' = 1
  /\ UNCHANGED <<server, accepted, thread, held, unread, answered, sent, cut, failed, nothread>>

Send(c) == /\ client[c] = "open"
           /\ sent[c] < MaxSend
           /\ sent' = [sent EXCEPT ![c] = @ + 1]
           /\ unread' = [unread EXCEPT ![c] = @ + 1]
           /\ UNCHANGED <<server, accepted, pending, backlog, client, thread, held, answered, cut,
                          failed, nothread>>

\* The client closes its side, or the connection is reset and what the server
\* has not read yet may be lost.
Disconnect(c) == /\ client[c] = "open"
                 /\ \/ client' = [client EXCEPT ![c] = "gone"]
                    \/ client' = [client EXCEPT ![c] = "reset"]
                 /\ UNCHANGED <<server, accepted, pending, backlog, thread, held, unread, answered,
                                sent, cut, failed, nothread>>
-----------------------------------------------------------------------------
(* action_handler. *)

\* The pending SIGIO interrupts main's sleep.
Deliver == /\ server = "sleep"
           /\ pending = 1
           /\ pending' = 0
           /\ server' = "accept"
           /\ UNCHANGED <<accepted, backlog, client, thread, held, unread, answered, sent, cut,
                          failed, nothread>>

Accept == /\ server = "accept"
          /\ backlog # <<>>
          /\ accepted' = {Head(backlog)}
          /\ backlog' = Tail(backlog)
          /\ server' = "create"
          /\ UNCHANGED <<pending, client, thread, held, unread, answered, sent, cut, failed, nothread>>

\* accept() finds no connection (EAGAIN), or fails for want of resources and
\* leaves the others waiting.
AcceptEnds == /\ server = "accept"
              /\ \/ /\ backlog = <<>>
                    /\ cut' = "no"
                    /\ UNCHANGED failed
                 \/ /\ backlog # <<>> /\ failed < MaxFail
                    /\ failed' = failed + 1
                    /\ cut' = "yes"
              /\ server' = "sleep"
              /\ UNCHANGED <<accepted, pending, backlog, client, thread, held, unread, answered,
                             sent, nothread>>

\* Mutant: the accept loop is an if, as in async_TCP.
CreateThread_Once ==
  /\ server = "create"
  /\ thread' = [c \in Client |-> IF c \in accepted THEN "recv" ELSE thread[c]]
  /\ accepted' = {}
  /\ server' = "sleep"
  /\ UNCHANGED <<pending, backlog, client, held, unread, answered, sent, cut, failed, nothread>>

\* pthread_create() reports failure with a positive error number, so the test
\* for a negative result never sees one: the handler goes on and nobody serves
\* the connection.
CreateThread ==
  /\ server = "create"
  /\ \/ /\ thread' = [c \in Client |-> IF c \in accepted THEN "recv" ELSE thread[c]]
        /\ UNCHANGED nothread
     \/ /\ nothread < MaxNoThread
        /\ nothread' = nothread + 1
        /\ thread' = [c \in Client |-> IF c \in accepted THEN "failed" ELSE thread[c]]
  /\ accepted' = {}
  /\ server' = "accept"
  /\ UNCHANGED <<pending, backlog, client, held, unread, answered, sent, cut, failed>>
-----------------------------------------------------------------------------
(* connection_handler, one thread per connection. *)

Recv(c) == /\ thread[c] = "recv"
           /\ \E n \in 1 .. unread[c] :
                /\ unread' = [unread EXCEPT ![c] = @ - n]
                /\ held' = [held EXCEPT ![c] = n]
           /\ thread' = [thread EXCEPT ![c] = "write"]
           /\ UNCHANGED <<server, accepted, pending, backlog, client, answered, sent, cut,
                          failed, nothread>>

\* Mutant: nothing is written back once the peer has closed its side.
Write_OnlyIfOpen(c) ==
  /\ thread[c] = "write"
  /\ answered' = [answered EXCEPT ![c] = IF client[c] = "open" THEN @ + held[c] ELSE @]
  /\ held' = [held EXCEPT ![c] = 0]
  /\ thread' = [thread EXCEPT ![c] = "recv"]
  /\ UNCHANGED <<server, accepted, pending, backlog, client, unread, sent, cut, failed, nothread>>

\* What was received is written back before the next recv() (strlen() of it:
\* only that write() is called is modelled).  A peer that has closed its
\* socket answers with a reset.  SIGPIPE is blocked in the thread.
Write(c) == /\ thread[c] = "write"
            /\ answered' = [answered EXCEPT ![c] = @ + held[c]]
            /\ held' = [held EXCEPT ![c] = 0]
            /\ thread' = [thread EXCEPT ![c] = "recv"]
            /\ \/ UNCHANGED client
               \/ client[c] = "gone" /\ client' = [client EXCEPT ![c] = "reset"]
            /\ UNCHANGED <<server, accepted, pending, backlog, unread, sent, cut, failed, nothread>>

\* recv() may have nothing more to return for client c.
Ended(c) == client[c] = "reset" \/ (client[c] = "gone" /\ unread[c] = 0)

\* Mutant: the loop goes on when recv() returns 0.
CloseClient_ErrorOnly(c) == /\ thread[c] = "recv"
                            /\ client[c] = "reset"
                            /\ thread' = [thread EXCEPT ![c] = "closed"]
                            /\ UNCHANGED <<server, accepted, pending, backlog, client, held,
                                           unread, answered, sent, cut, failed, nothread>>

\* recv() returns 0 or -1: close the socket and end the thread.
CloseClient(c) == /\ thread[c] = "recv"
                  /\ Ended(c)
                  /\ thread' = [thread EXCEPT ![c] = "closed"]
                  /\ UNCHANGED <<server, accepted, pending, backlog, client, held, unread, answered,
                                 sent, cut, failed, nothread>>

connection_handler(c) == Recv(c) \/ Write(c) \/ CloseClient(c)

action_handler == Deliver \/ Accept \/ AcceptEnds \/ CreateThread

\* main sleeps in a loop.
Idle == UNCHANGED vars

Next == \/ Start \/ action_handler \/ Idle
        \/ \E c \in Client : \/ Connect(c) \/ Send(c) \/ Disconnect(c)
                             \/ connection_handler(c)

\* main and the threads run; a connected client reads what it is sent, so that
\* write() does not block for ever, and disconnects in the end.
Fairness == /\ WF_vars(Start)
            /\ WF_vars(action_handler)
            /\ \A c \in Client : WF_vars(Disconnect(c)) /\ WF_vars(connection_handler(c))

Spec == Init /\ [][Next]_vars /\ Fairness
-----------------------------------------------------------------------------
(* Properties. *)

Waiting(c) == \E i \in DOMAIN backlog : backlog[i] = c

\* Types; an accepted descriptor is in flight exactly between accept() and
\* pthread_create().
TypeOK == /\ server \in {"socket", "bind", "sigaction", "listen",
                         "sleep", "accept", "create", "exited"}
          /\ accepted \in SUBSET Client
          /\ server = "create" <=> accepted # {}
          /\ pending \in {0, 1}
          /\ backlog \in Seq(Client)
          /\ client \in [Client -> {"out", "open", "gone", "reset"}]
          /\ thread \in [Client -> {"none", "recv", "write", "closed", "failed"}]
          /\ held \in [Client -> Nat]
          /\ unread \in [Client -> Nat]
          /\ answered \in [Client -> Nat]
          /\ sent \in [Client -> Nat]
          /\ cut \in {"yes", "no"}
          /\ failed \in 0 .. MaxFail
          /\ nothread \in 0 .. MaxNoThread

\* The loop over accept() makes up for coalesced signals: a connection waits
\* only while a SIGIO is pending, the handler is still accepting, or accept()
\* itself failed.
NoneLeftBehind == backlog # <<>> => \/ pending = 1
                                    \/ server \in {"accept", "create"}
                                    \/ cut = "yes"

\* A thread closes a connection only after calling write() for all that was
\* sent, unless the connection was reset.
AnsweredBeforeClose ==
  \A c \in Client : thread[c] = "closed" => answered[c] = sent[c] \/ client[c] = "reset"

\* main.c:121 says "connections will trigger callback in which they can be
\* accepted": here every connection is accepted, served until its client is
\* gone and closed, or accept() failed, or its pthread_create() failed, which
\* is never noticed (main.c:58).
ConnectionsAreServed ==
  \A c \in Client : Waiting(c) ~> (thread[c] \in {"closed", "failed"} \/ cut = "yes")
=============================================================================
