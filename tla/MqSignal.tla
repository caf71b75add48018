------------------------------ MODULE MqSignal ------------------------------
(***************************************************************************)
(* async_posix_message_queues/src: main_server.c opens several POSIX       *)
(* message queues and asks for a SIGIO on each; main_client.c sends every  *)
(* line it reads twice, both times to the first queue, because it opens    *)
(* QUEUE_NAME for both of its descriptors.                                 *)
(*                                                                         *)
(* mq_notify is as in MqThread: a registration is used up by the first     *)
(* message that arrives at an empty queue.  Here it raises SIGIO, a        *)
(* standard signal: one at most is pending, with the queue it stands for,  *)
(* and another one is discarded.  The SIGIO handler blocks all signals.    *)
(***************************************************************************)
EXTENDS Integers

CONSTANTS NQueues,   \* queues the server opens; the program has 2
          MaxMsg,    \* mq_maxmsg; the program has 10
          MaxLeft    \* most messages an earlier run can have left in a queue

Queue == 1 .. NQueues

VARIABLES proc,      \* the server: "running", or how it ended
          opened,    \* mq_info_t structures in the list
          setup,     \* "yes" while openMessageQueue has still to register the last
          failed,    \* queues whose openMessageQueue returned -1
          msgs,      \* messages in each queue
          linked,    \* queues whose name exists
          reg,       \* queues with a registered notification
          pending,   \* the queue of the pending SIGIO, or 0
          lost,      \* queues whose SIGIO was discarded
          handler,   \* the SIGIO handler's next step; "no" when it does not run
          queue,     \* the queue the handler was called for
          masked,    \* "yes" when SIGIO is blocked in the SIGINT handler
          closing,   \* how far closeMsgQueues has got, called by SIGINT ("int")
                     \*   and by the SIGIO handler ("io"); 0: not running
          freed,     \* queues whose mq_info_t has been freed
          client,    \* the client's next step, or how it ended
          mq2        \* the client's second descriptor: "none", "ok" or "bad"

server == <<opened, setup, failed, handler, queue, masked, closing, freed>>
peer == <<client, mq2>>
vars == <<proc, opened, setup, failed, msgs, linked, reg, pending, lost, handler, queue,
          masked, closing, freed, client, mq2>>

\* initMsgQueues leaves the mask of SIGINT's sigaction uninitialised.
Init == /\ proc = "running"
        /\ opened = 0 /\ setup = "no" /\ failed = {}
        /\ msgs \in [Queue -> 0 .. MaxLeft]
        /\ linked = {q \in Queue : msgs[q] > 0}
        /\ reg = {} /\ pending = 0 /\ lost = {}
        /\ handler = "no" /\ queue = 1
        /\ masked \in {"yes", "no"}
        /\ closing = [c \in {"int", "io"} |-> 0]
        /\ freed = {}
        /\ client = "open" /\ mq2 = "none"

Running == proc = "running"
-----------------------------------------------------------------------------
(* The server's main. *)

InMain == Running /\ handler = "no" /\ closing["int"] = 0

\* openMessageQueue up to mq_open: the structure joins the list and the queue
\* is there for everyone.  If mq_open fails the name is unlinked and -1 returned,
\* which main ignores; without memory the process ends.
Create ==
  /\ InMain /\ setup = "no" /\ opened < NQueues
  /\ LET q == opened + 1
     IN  \/ /\ opened' = q
            /\ setup' = "yes"
            /\ linked' = linked \cup {q}
            /\ UNCHANGED <<proc, failed>>
         \/ /\ opened' = q
            /\ failed' = failed \cup {q}
            /\ linked' = linked \ {q}
            /\ UNCHANGED <<proc, setup>>
         \/ /\ proc' \in {"crashed", "exited"}
            /\ UNCHANGED <<opened, setup, failed, linked>>
  /\ UNCHANGED <<msgs, reg, pending, lost, handler, queue, masked, closing, freed, peer>>

\* The rest: sigaction or mq_notify may fail, which leaves the structure in the
\* list; a failed F_SETOWN ends the process.
Register ==
  /\ InMain /\ setup = "yes"
  /\ \/ /\ reg' = reg \cup {opened}
        /\ setup' = "no"
        /\ UNCHANGED <<proc, failed, linked>>
     \/ /\ failed' = failed \cup {opened}
        /\ linked' = linked \ {opened}
        /\ setup' = "no"
        /\ UNCHANGED <<proc, reg>>
     \/ proc' = "exited" /\ UNCHANGED <<setup, failed, linked, reg>>
  /\ UNCHANGED <<opened, msgs, pending, lost, handler, queue, masked, closing, freed, peer>>

openMessageQueue == Create \/ Register
-----------------------------------------------------------------------------
(* Messages. *)

\* A message arrives at queue q.  The kernel drops the registrations of a
\* process that has ended.
Arrive(q) ==
  /\ msgs[q] < MaxMsg
  /\ msgs' = [msgs EXCEPT ![q] = @ + 1]
  /\ \/ /\ msgs[q] = 0 /\ q \in reg /\ Running
        /\ reg' = reg \ {q}
        /\ \/ pending = 0 /\ pending' = q /\ UNCHANGED lost
           \/ pending # 0 /\ lost' = lost \cup {q} /\ UNCHANGED pending
     \/ /\ msgs[q] > 0 \/ q \notin reg \/ ~Running
        /\ UNCHANGED <<reg, pending, lost>>

\* Some other process sends to a queue that the client does not use.
PutOther(q) == /\ q # 1 /\ q \in linked
               /\ Arrive(q)
               /\ UNCHANGED <<proc, linked, server, peer>>

\* The client's first mq_open is checked.
ClientOpen == /\ client = "open"
              /\ client' = IF 1 \in linked THEN "open2" ELSE "failed"
              /\ UNCHANGED <<proc, msgs, linked, reg, pending, lost, server, mq2>>

\* The second opens the same name, and the check after it tests the first.
ClientOpen2 == /\ client = "open2"
               /\ mq2' = IF 1 \in linked THEN "ok" ELSE "bad"
               /\ client' = "send"
               /\ UNCHANGED <<proc, msgs, linked, reg, pending, lost, server>>

ClientSend == /\ client = "send"
              /\ Arrive(1)
              /\ client' = "send2"
              /\ UNCHANGED <<proc, linked, server, mq2>>

\* The line goes to the first queue again.  "exit" ends the client.
ClientSend2 == /\ client = "send2"
               /\ \/ /\ mq2 = "ok" /\ Arrive(1)
                     /\ client' \in {"send", "done"}
                  \/ /\ mq2 = "bad" /\ client' = "failed"
                     /\ UNCHANGED <<msgs, reg, pending, lost>>
               /\ UNCHANGED <<proc, linked, server, mq2>>
-----------------------------------------------------------------------------
(* sigHandler. *)

\* SIGIO interrupts main, or closeMsgQueues if it is not blocked there.
Deliver == /\ Running /\ handler = "no" /\ pending # 0
           /\ closing["int"] = 0 \/ masked = "no"
           /\ queue' = pending
           /\ pending' = 0
           /\ handler' = "receive"
           /\ UNCHANGED <<proc, opened, setup, failed, msgs, linked, reg, lost, masked, closing, freed, peer>>

\* Mutant: the message is taken from the first queue of the list.
Receive_FirstQueue ==
  /\ Running /\ handler = "receive"
  /\ msgs' = [msgs EXCEPT ![1] = IF @ > 0 THEN @ - 1 ELSE 0]
  /\ handler' = "notify"
  /\ UNCHANGED <<proc, opened, setup, failed, linked, reg, pending, lost, queue, masked, closing, freed, peer>>

\* Mutant: the handler returns when more messages wait.
Receive_Return ==
  /\ Running /\ handler = "receive"
  /\ queue \notin freed
  /\ msgs' = [msgs EXCEPT ![queue] = @ - 1]
  /\ handler' = IF msgs[queue] > 1 THEN "no" ELSE "notify"
  /\ UNCHANGED <<proc, opened, setup, failed, linked, reg, pending, lost, queue, masked, closing, freed, peer>>

\* One message is received and printed.
Receive == /\ Running /\ handler = "receive"
           /\ queue \notin freed
           /\ msgs' = [msgs EXCEPT ![queue] = @ - 1]
           /\ handler' = "notify"
           /\ UNCHANGED <<proc, opened, setup, failed, linked, reg, pending, lost, queue, masked, closing, freed, peer>>

\* The queue is registered again; if that fails the handler closes all queues.
Notify == /\ Running /\ handler = "notify"
          /\ \/ reg' = reg \cup {queue} /\ handler' = "no" /\ UNCHANGED closing
             \/ handler' = "close" /\ closing' = [closing EXCEPT !["io"] = 1] /\ UNCHANGED reg
          /\ UNCHANGED <<proc, opened, setup, failed, msgs, linked, pending, lost, queue, masked, freed, peer>>

\* The SIGINT handler has freed the mq_info_t: the process dies, or the old,
\* closed descriptor is read, nothing is received and mq_notify fails.
UseAfterFree == /\ Running /\ handler = "receive" /\ queue \in freed
                /\ \/ proc' = "crashed" /\ UNCHANGED <<handler, closing>>
                   \/ /\ handler' = "close"
                      /\ closing' = [closing EXCEPT !["io"] = 1]
                      /\ UNCHANGED proc
                /\ UNCHANGED <<opened, setup, failed, msgs, linked, reg, pending, lost, queue, masked, freed, peer>>

sigHandler == Deliver \/ Receive \/ Notify \/ UseAfterFree
-----------------------------------------------------------------------------
(* closeMsgQueues. *)

\* SIGINT interrupts main.
Interrupt == /\ InMain
             /\ closing' = [closing EXCEPT !["int"] = 1]
             /\ UNCHANGED <<proc, opened, setup, failed, msgs, linked, reg, pending, lost, handler, queue,
                            masked, freed, peer>>

\* The call that runs: the SIGIO handler's is on top of SIGINT's.
Active(c) == handler = IF c = "io" THEN "close" ELSE "no"

\* Close, unlink and free the next queue, which drops its registration.  The
\* step to the next element reads the freed one, and closing a queue that was
\* closed before is a double free.
CloseNext(c) ==
  /\ Running /\ Active(c) /\ closing[c] \in 1 .. opened
  /\ LET q == closing[c]
     IN \/ /\ q \notin freed
           /\ freed' = freed \cup {q}
           /\ linked' = linked \ {q}
           /\ reg' = reg \ {q}
           /\ closing' = [closing EXCEPT ![c] = q + 1]
           /\ UNCHANGED proc
        \/ /\ freed # {}
           /\ proc' = "crashed"
           /\ UNCHANGED <<freed, linked, reg, closing>>
  /\ UNCHANGED <<opened, setup, failed, msgs, pending, lost, handler, queue, masked, peer>>

\* Mutant: closeMsgQueues returns at the end of the list.
CloseExit_Return(c) == /\ Running /\ Active(c) /\ closing[c] = opened + 1
                       /\ closing' = [closing EXCEPT ![c] = 0]
                       /\ handler' = "no"
                       /\ UNCHANGED <<proc, msgs, linked, reg, pending, lost, opened, setup, failed,
                                      queue, masked, freed, peer>>

\* exit(EXIT_SUCCESS) at the end of the list.
CloseExit(c) == /\ Running /\ Active(c) /\ closing[c] = opened + 1
                /\ proc' = "exited"
                /\ UNCHANGED <<msgs, linked, reg, pending, lost, server, peer>>

closeMsgQueues(c) == CloseNext(c) \/ CloseExit(c)
-----------------------------------------------------------------------------
Server == \/ openMessageQueue \/ sigHandler \/ Interrupt
          \/ \E c \in {"int", "io"} : closeMsgQueues(c)

Client == ClientOpen \/ ClientOpen2 \/ ClientSend \/ ClientSend2

Next == Server \/ Client \/ \E q \in Queue : PutOther(q)

\* A signal handler that has begun goes on, and what it interrupted goes on
\* when it has returned, however often it is interrupted again.
Fairness == /\ WF_vars(sigHandler)
            /\ \A c \in {"int", "io"} : SF_vars(closeMsgQueues(c))

Spec == Init /\ [][Next]_vars /\ Fairness
-----------------------------------------------------------------------------
(* Properties. *)

\* Types; closeMsgQueues never runs past the end of the list.
TypeOK == /\ proc \in {"running", "exited", "crashed"}
          /\ opened \in 0 .. NQueues /\ setup \in {"yes", "no"}
          /\ msgs \in [Queue -> 0 .. MaxMsg]
          /\ {failed, linked, reg, lost, freed} \subseteq SUBSET Queue
          /\ pending \in 0 .. NQueues
          /\ handler \in {"no", "receive", "notify", "close"}
          /\ queue \in Queue
          /\ masked \in {"yes", "no"}
          /\ closing["int"] \in 0 .. opened + 1 /\ closing["io"] \in 0 .. opened + 1
          /\ client \in {"open", "open2", "send", "send2", "done", "failed"}
          /\ mq2 \in {"none", "ok", "bad"}

\* Where the notification of queue q is.
Places(q) == {p \in {"reg", "pending", "handler", "lost"} :
                \/ p = "reg" /\ q \in reg
                \/ p = "pending" /\ pending = q
                \/ p = "handler" /\ handler # "no" /\ queue = q
                \/ p = "lost" /\ q \in lost}

\* The notification of an open queue is in one place only: registered, in the
\* pending SIGIO, with the handler, or lost for good because another queue's
\* SIGIO was pending.  So a queue is never registered twice, and the handler
\* never finds its queue empty.
OneNotification ==
  \A q \in Queue : /\ \E p \in {"reg", "pending", "handler", "lost"} : Places(q) \subseteq {p}
                   /\ (/\ q <= opened /\ q \notin failed \cup freed
                       /\ ~(setup = "yes" /\ q = opened)) => Places(q) # {}
                   /\ handler = "receive" /\ queue = q => msgs[q] > 0

\* A queue whose SIGIO was discarded, or that is registered while it holds
\* messages, as the client's double send makes the first one, never gets the
\* handler again before it is closed.
MuteForEver ==
  [][\A q \in Queue : (q \in lost \/ (q \in reg /\ msgs[q] > 0))
        => \/ q \in lost'
           \/ q \in reg' /\ msgs'[q] > 0
           \/ q \in freed']_vars

\* Once closeMsgQueues has begun, in the SIGINT handler or in the SIGIO handler
\* that may interrupt it there (main_server.c:168), the server ends, by exit()
\* or by what the freed structures do to it; it never runs on with closed queues.
CloseEnds == \A c \in {"int", "io"} : closing[c] # 0 ~> ~Running
=============================================================================
