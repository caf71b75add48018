----------------------------- MODULE TcpSockets -----------------------------
(***************************************************************************)
(* TCP_sockets/src: multi_server.c starts a thread for each connection,    *)
(* server.c serves one connection; both listen on the port that client.c   *)
(* connects to, and echo what they receive.                                *)
(*                                                                         *)
(* multi_server.c hands each thread the address of main's one variable     *)
(* client_socket, so a thread serves the connection that was accepted last *)
(* when it starts, not the one it was created for; at its end it passes    *)
(* that address to free().  The echo takes the length of its reply from    *)
(* strlen() of a buffer that is not initialised and that recv() does not   *)
(* terminate.                                                              *)
(***************************************************************************)
EXTENDS Integers, Sequences, FiniteSets

CONSTANTS Client,     \* the clients, each of which may connect once
          NoSock,     \* what accept() returns when it fails
          MaxAccept,  \* connections and failures that accept() returns
          BufLen,     \* BUFFER_LENGTH; the programs have 2000
          MaxBytes    \* bytes a client sends in all

Thread == 1 .. MaxAccept

VARIABLES program,    \* the program that listens: "multi_server" or "server"
          proc,       \* its process: "setup", "running", or how it ended
          main,       \* main's next call: "accept" or "pthread_create"
          accepts,    \* what accept() has returned; client_socket is the last
          thread,     \* each thread's next step; in server.c main is thread 1
          sock,       \* each thread's copy of the descriptor
          buf,        \* each thread's client_message: "zero", "data" or "junk" bytes;
                      \*   empty as long as nothing has been received
          backlog,    \* connections not accepted yet
          client,     \* what each client does
          inbox,      \* bytes the client has sent and the server not received
          outbox,     \* writes of the server that the client has not received
          sent,       \* bytes the client has sent so far
          echoed      \* those of them that were sent back

threads == <<thread, sock, buf>>
streams == <<client, inbox, outbox, sent, echoed>>
vars == <<program, proc, main, accepts, threads, backlog, streams>>

Zero == [c \in Client |-> 0]

Init == /\ program \in {"multi_server", "server"}
        /\ proc = "setup" /\ main = "accept"
        /\ accepts = <<>> /\ backlog = <<>>
        /\ thread = [k \in Thread |-> "none"]
        /\ sock = [k \in Thread |-> NoSock]
        /\ buf = [k \in Thread |-> <<>>]
        /\ client = [c \in Client |-> "out"]
        /\ inbox = Zero /\ outbox = Zero /\ sent = Zero /\ echoed = Zero

Running == proc = "running"

MoreAccepts == Len(accepts) + Len(backlog) < MaxAccept
-----------------------------------------------------------------------------
(* main. *)

\* socket(), bind() and listen().
SetUp == /\ proc = "setup"
         /\ proc' \in {"running", "ended"}
         /\ UNCHANGED <<program, main, accepts, threads, backlog, streams>>

Accept == /\ Running /\ program = "multi_server" /\ main = "accept"
          /\ backlog # <<>>
          /\ accepts' = Append(accepts, Head(backlog))
          /\ backlog' = Tail(backlog)
          /\ main' = "pthread_create"
          /\ UNCHANGED <<program, proc, threads, streams>>

\* The loop ends at 0 only, so a failed accept() gets its thread too.
AcceptFails == /\ Running /\ program = "multi_server" /\ main = "accept"
               /\ MoreAccepts
               /\ accepts' = Append(accepts, NoSock)
               /\ main' = "pthread_create"
               /\ UNCHANGED <<program, proc, threads, backlog, streams>>

\* pthread_create() fails with a positive number, which goes unnoticed.
CreateThread == /\ Running /\ main = "pthread_create"
                /\ main' = "accept"
                /\ \/ thread' = [thread EXCEPT ![Len(accepts)] = "created"]
                   \/ UNCHANGED thread
                /\ UNCHANGED <<program, proc, accepts, sock, buf, backlog, streams>>

\* server.c accepts once and goes on to echo; it returns when that fails.
ServeOne == /\ Running /\ program = "server" /\ accepts = <<>>
            /\ \/ /\ backlog # <<>>
                  /\ accepts' = <<Head(backlog)>>
                  /\ backlog' = Tail(backlog)
                  /\ thread' = [thread EXCEPT ![1] = "recv"]
                  /\ sock' = [sock EXCEPT ![1] = Head(backlog)]
                  /\ UNCHANGED proc
               \/ proc' = "ended" /\ UNCHANGED <<accepts, backlog, thread, sock>>
            /\ UNCHANGED <<program, main, buf, streams>>

Main == SetUp \/ Accept \/ AcceptFails \/ CreateThread \/ ServeOne
-----------------------------------------------------------------------------
(* connection_handler, in thread k. *)

\* Mutant: the pointer is to a copy made at the first accept().
Start_First(k) == /\ Running /\ thread[k] = "created"
                  /\ sock' = [sock EXCEPT ![k] = accepts[1]]
                  /\ thread' = [thread EXCEPT ![k] = "hello"]
                  /\ UNCHANGED <<program, proc, main, accepts, buf, backlog, streams>>

\* The descriptor is read through the pointer.
Start(k) == /\ Running /\ thread[k] = "created"
            /\ sock' = [sock EXCEPT ![k] = accepts[Len(accepts)]]
            /\ thread' = [thread EXCEPT ![k] = "hello"]
            /\ UNCHANGED <<program, proc, main, accepts, buf, backlog, streams>>

\* write() of n bytes; it fails on NoSock.  When the client is gone the bytes
\* are lost, or SIGPIPE ends the process.
Write(k, n) ==
  \/ /\ sock[k] \in Client
     /\ outbox' = [outbox EXCEPT ![sock[k]] = @ + IF n > 0 THEN 1 ELSE 0]
     /\ UNCHANGED proc
  \/ /\ sock[k] = NoSock
     /\ UNCHANGED <<proc, outbox>>
  \/ /\ sock[k] \in Client /\ client[sock[k]] = "gone"
     /\ proc' = "crashed"
     /\ UNCHANGED outbox

Hello(k) == /\ Running /\ thread[k] = "hello"
            /\ Write(k, 1)
            /\ thread' = [thread EXCEPT ![k] = "recv"]
            /\ UNCHANGED <<program, main, accepts, sock, buf, backlog, client, inbox, sent, echoed>>

\* What the buffer may hold behind what recv() puts into it.
Before(k) == IF buf[k] = <<>> THEN [1 .. BufLen -> {"zero", "junk"}] ELSE {buf[k]}

\* recv() fills the front of the buffer with at most BufLen bytes.
Recv(k) ==
  /\ Running /\ thread[k] = "recv" /\ sock[k] \in Client
  /\ \E n \in 1 .. BufLen, b \in Before(k) :
       /\ n <= inbox[sock[k]]
       /\ inbox' = [inbox EXCEPT ![sock[k]] = @ - n]
       /\ buf' = [buf EXCEPT ![k] = [i \in 1 .. BufLen |-> IF i <= n THEN "data" ELSE b[i]]]
  /\ thread' = [thread EXCEPT ![k] = "echo"]
  /\ UNCHANGED <<program, proc, main, accepts, sock, backlog, client, outbox, sent, echoed>>

\* The leading bytes that are not zero; BufLen when there is no zero.
strlen(b) == CHOOSE n \in 0 .. BufLen : /\ \A i \in 1 .. n : b[i] # "zero"
                                        /\ n = BufLen \/ b[n + 1] = "zero"

Data(b) == Cardinality({i \in DOMAIN b : b[i] = "data"})

\* Mutant: the buffer is not cleared after the reply.
Echo_NoMemset(k) ==
  /\ Running /\ thread[k] = "echo"
  /\ Write(k, strlen(buf[k]))
  /\ echoed' = [echoed EXCEPT ![sock[k]] = @ + Data(buf[k])]
  /\ thread' = [thread EXCEPT ![k] = "recv"]
  /\ UNCHANGED <<program, main, accepts, sock, buf, backlog, client, inbox, sent>>

\* Mutant: the buffer is cleared before the reply.
Echo_Cleared(k) ==
  /\ Running /\ thread[k] = "echo"
  /\ buf' = [buf EXCEPT ![k] = [i \in 1 .. BufLen |-> "zero"]]
  /\ Write(k, strlen(buf'[k]))
  /\ thread' = [thread EXCEPT ![k] = "recv"]
  /\ UNCHANGED <<program, main, accepts, sock, backlog, client, inbox, sent, echoed>>

\* As many bytes as strlen() finds are sent back and set to zero.  In a full
\* buffer strlen() and memset() run on into the stack, which may end the process.
Echo(k) ==
  LET n == strlen(buf[k])
  IN  /\ Running /\ thread[k] = "echo"
      /\ \/ Write(k, n)
         \/ n = BufLen /\ proc' = "crashed" /\ UNCHANGED outbox
      /\ echoed' = [echoed EXCEPT ![sock[k]] = @ + Data(SubSeq(buf[k], 1, n))]
      /\ buf' = [buf EXCEPT ![k] = [i \in 1 .. BufLen |-> IF i <= n THEN "zero" ELSE @[i]]]
      /\ thread' = [thread EXCEPT ![k] = "recv"]
      /\ UNCHANGED <<program, main, accepts, sock, backlog, client, inbox, sent>>

\* recv() returns 0 or an error.  In server.c main then returns.  The thread of
\* multi_server.c passes the address of a variable on main's stack to free(), which
\* ends the process unless what is there happens to look like a block of the heap.
RecvEnds(k) == /\ Running /\ thread[k] = "recv"
               /\ sock[k] \in Client => client[sock[k]] = "gone"
               /\ thread' = [thread EXCEPT ![k] = "done"]
               /\ \/ program = "server" /\ proc' = "ended"
                  \/ program = "multi_server" /\ proc' \in {"crashed", "running"}
               /\ UNCHANGED <<program, main, accepts, sock, buf, backlog, streams>>

connection_handler(k) == Start(k) \/ Hello(k) \/ Recv(k) \/ Echo(k) \/ RecvEnds(k)
-----------------------------------------------------------------------------
(* client.c. *)

Connect(c) == /\ client[c] = "out"
              /\ \/ /\ Running /\ MoreAccepts
                    /\ backlog' = Append(backlog, c)
                    /\ client' = [client EXCEPT ![c] = "input"]
                 \/ /\ ~Running
                    /\ client' = [client EXCEPT ![c] = "gone"]
                    /\ UNCHANGED backlog
              /\ UNCHANGED <<program, proc, main, accepts, threads, inbox, outbox, sent, echoed>>

\* A word is read and sent.  It fits client_message, which is one byte shorter
\* than the server's buffer and ends with a zero byte.
Send(c) ==
  /\ client[c] = "input"
  /\ \E n \in 1 .. BufLen - 2 :
       /\ sent[c] + n <= MaxBytes
       /\ \/ /\ sent' = [sent EXCEPT ![c] = @ + n]
             /\ inbox' = [inbox EXCEPT ![c] = @ + n]
             /\ client' = [client EXCEPT ![c] = "reply"]
          \/ /\ ~Running
             /\ client' = [client EXCEPT ![c] = "gone"]
             /\ UNCHANGED <<sent, inbox>>
  /\ UNCHANGED <<program, proc, main, accepts, threads, backlog, outbox, echoed>>

\* One recv() per word: some or all of what has come, the greeting to begin with.
Reply(c) == /\ client[c] = "reply"
            /\ outbox[c] > 0
            /\ \E n \in 0 .. outbox[c] : outbox' = [outbox EXCEPT ![c] = n]
            /\ client' = [client EXCEPT ![c] = "input"]
            /\ UNCHANGED <<program, proc, main, accepts, threads, backlog, inbox, sent, echoed>>

\* The server is gone: recv() returns 0, which the client does not notice, or
\* an error.
ReplyEnds(c) == /\ client[c] = "reply" /\ ~Running /\ outbox[c] = 0
                /\ \E s \in {"input", "gone"} : client' = [client EXCEPT ![c] = s]
                /\ UNCHANGED <<program, proc, main, accepts, threads, backlog, inbox, outbox, sent,
                               echoed>>

\* The user stops the client.
Kill(c) == /\ client[c] \in {"input", "reply"}
           /\ client' = [client EXCEPT ![c] = "gone"]
           /\ UNCHANGED <<program, proc, main, accepts, threads, backlog, inbox, outbox, sent, echoed>>

client_main(c) == Connect(c) \/ Send(c) \/ Reply(c) \/ ReplyEnds(c)
-----------------------------------------------------------------------------
Next == \/ Main
        \/ \E k \in Thread : connection_handler(k)
        \/ \E c \in Client : client_main(c) \/ Kill(c)

\* The scheduler runs every thread that can run; users need not type.
Fairness == /\ WF_vars(Main)
            /\ \A k \in Thread : WF_vars(connection_handler(k))
            /\ \A c \in Client : WF_vars(Reply(c) \/ ReplyEnds(c))

Spec == Init /\ [][Next]_vars /\ Fairness
-----------------------------------------------------------------------------
(* Properties. *)

\* Types.
TypeOK == /\ program \in {"multi_server", "server"}
          /\ proc \in {"setup", "running", "ended", "crashed"}
          /\ main \in {"accept", "pthread_create"}
          /\ accepts \in Seq(Client \cup {NoSock}) /\ Len(accepts) <= MaxAccept
          /\ thread \in [Thread -> {"none", "created", "hello", "recv", "echo", "done"}]
          /\ sock \in [Thread -> Client \cup {NoSock}]
          /\ buf \in [Thread -> {<<>>} \cup [1 .. BufLen -> {"zero", "data", "junk"}]]
          /\ backlog \in Seq(Client)
          /\ client \in [Client -> {"out", "input", "reply", "gone"}]
          /\ {inbox, outbox, sent, echoed} \subseteq [Client -> Nat]

\* A thread that shares client_socket with the accept loop may serve a later
\* connection than its own, never an earlier one; so the connection accepted
\* last is served if its thread has started.
NeverAnEarlierConnection ==
  \A k \in Thread : thread[k] \notin {"none", "created"}
                      => \E j \in k .. Len(accepts) : sock[k] = accepts[j]

\* The bytes of client c in the threads' buffers.
Held(c) == {p \in Thread \X (1 .. BufLen) : /\ sock[p[1]] = c /\ p[2] \in DOMAIN buf[p[1]]
                                           /\ buf[p[1]][p[2]] = "data"}

\* Each byte that a connected client has sent is still on its way, in the buffer
\* of one thread, or was sent back once, even with uninitialised buffers, words
\* that arrive together, and several threads on one connection.
EveryByteOnce == \A c \in Client : Running /\ client[c] # "gone"
                   => sent[c] = inbox[c] + Cardinality(Held(c)) + echoed[c]

\* No thread reads connection c, and none will: main has accepted another one or
\* got no thread for it; or the program is server.c and serves someone else.
Abandoned(c) == \/ /\ \A k \in Thread : sock[k] # c
                   /\ \E i \in DOMAIN accepts :
                        /\ accepts[i] = c
                        /\ \/ i < Len(accepts)
                           \/ main = "accept" /\ \A k \in Thread : thread[k] # "created"
                \/ program = "server" /\ \E i \in DOMAIN backlog : backlog[i] = c

\* A client that waits for a reply gets one, or learns that the server is gone,
\* unless its connection has been abandoned.
ClientAnswered == \A c \in Client : client[c] = "reply" ~> (client[c] # "reply" \/ Abandoned(c))
=============================================================================
