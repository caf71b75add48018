------------------------------ MODULE MqThread ------------------------------
(***************************************************************************)
(* async_posix_message_queues_SIGEV_THREAD/src/main_server.c: one process  *)
(* that opens several POSIX message queues, asks for a SIGEV_THREAD        *)
(* notification on each, and has a sender thread of its own that puts one  *)
(* message into every queue per tick.                                      *)
(*                                                                         *)
(* mq_notify as mq_overview(7) defines it: a registration is used up by    *)
(* the first message that arrives at an EMPTY queue; registering at a      *)
(* queue that already holds messages is allowed and notifies nobody.       *)
(* Queues outlive processes, so one may hold messages of an earlier run    *)
(* when it is opened.  All messages of a queue are equal, so a queue is    *)
(* the number of its messages.                                             *)
(***************************************************************************)
EXTENDS Integers

CONSTANTS NQueues,   \* queues main opens; the program has 2
          MaxMsg,    \* mq_maxmsg; the program has 10
          MaxLeft    \* most messages an earlier run can have left in a queue

ASSUME MqAssumption == /\ NQueues \in Nat \ {0}
                       /\ MaxMsg \in Nat \ {0}
                       /\ MaxLeft \in 0 .. MaxMsg

VARIABLES proc,      \* "running", or how the process ended
          opened,    \* how many queues main has opened
          msgs,      \* messages in each queue
          linked,    \* queues whose name still exists
          reg,       \* queues with a registered notification
          receiving, \* sigHandler threads of each queue: about to mq_receive,
          calling,   \*   about to hand the queue's buffer to the callback,
          notifying, \*   about to mq_notify
          sender,    \* the sender thread: "none", at mq_"open" or in mq_"send"
          target,    \* the queue it is at
          freed,     \* queues whose mq_info_t has been freed
          closing    \* how far each execution of closeMsgQueues has got

threads == <<receiving, calling, notifying>>
vars == <<proc, opened, msgs, linked, reg, threads, sender, target, freed, closing>>

Queue == 1 .. NQueues

\* closeMsgQueues is run by the SIGINT handler (0) and by a sigHandler thread
\* whose mq_notify failed (the number of its queue).  0: not running,
\* k: about to close queue k.
Closer == 0 .. NQueues

Init == /\ proc = "running"
        /\ opened = 0
        /\ msgs \in [Queue -> 0 .. MaxLeft]
        /\ linked = Queue
        /\ reg = {}
        /\ receiving = [q \in Queue |-> 0]
        /\ calling = [q \in Queue |-> 0]
        /\ notifying = [q \in Queue |-> 0]
        /\ sender = "none"
        /\ target = 1
        /\ freed = {}
        /\ closing = [c \in Closer |-> 0]

Running == proc = "running"

\* Threads of sigHandler for queue q that have not registered again.
InFlight(q) == receiving[q] + calling[q] + notifying[q]

Registered(q) == IF q \in reg THEN 1 ELSE 0

\* One more and one less thread of queue q.
Inc(f, q) == [f EXCEPT ![q] = @ + 1]
Dec(f, q) == [f EXCEPT ![q] = @ - 1]
-----------------------------------------------------------------------------
(* main. *)

\* openMessageQueue for the next queue.  When mq_open or mq_notify fails main's
\* assert aborts the process; mq_unlink is then called with a name that lacks
\* the leading '/', so the queue stays.
openMessageQueue ==
  /\ Running /\ opened < NQueues /\ closing[0] = 0
  /\ \/ /\ opened' = opened + 1
        /\ reg' = reg \cup {opened + 1}
        /\ UNCHANGED proc
     \/ /\ proc' = "aborted"
        /\ UNCHANGED <<opened, reg>>
  /\ UNCHANGED <<msgs, linked, threads, sender, target, freed, closing>>

\* main creates the sender thread.
CreateSender == /\ Running /\ opened = NQueues /\ sender = "none" /\ closing[0] = 0
                /\ \/ sender' = "open" /\ UNCHANGED proc
                   \/ proc' = "aborted" /\ UNCHANGED sender
                /\ UNCHANGED <<opened, msgs, linked, reg, threads, target, freed, closing>>
-----------------------------------------------------------------------------
(* The sender thread: messageQueuePut for one queue after the other. *)

NextQueue == IF target = NQueues THEN 1 ELSE target + 1

\* mq_open succeeds while the name exists, otherwise this queue is skipped.
PutOpen == /\ Running /\ sender = "open"
           /\ \/ target \in linked /\ sender' = "send" /\ UNCHANGED target
              \/ target \notin linked /\ target' = NextQueue /\ UNCHANGED sender
           /\ UNCHANGED <<proc, opened, msgs, linked, reg, threads, freed, closing>>

\* mq_send blocks while the queue is full.  A message that arrives at an empty
\* queue uses up the registration and starts a sigHandler thread.  The mq_close
\* that follows closes the sender's own descriptor and, as mq_close(3) has it,
\* only a registration made through that one: the server's stays.
PutSend == /\ Running /\ sender = "send"
           /\ msgs[target] < MaxMsg
           /\ msgs' = [msgs EXCEPT ![target] = @ + 1]
           /\ \/ /\ msgs[target] = 0 /\ target \in reg
                 /\ reg' = reg \ {target}
                 /\ receiving' = Inc(receiving, target)
              \/ /\ msgs[target] > 0 \/ target \notin reg
                 /\ UNCHANGED <<reg, receiving>>
           /\ sender' = "open"
           /\ target' = NextQueue
           /\ UNCHANGED <<proc, opened, linked, calling, notifying, freed, closing>>
-----------------------------------------------------------------------------
(* sigHandler, on a thread of its own. *)

\* Mutant: the queue is registered again before the message is received.
Receive_NotifyFirst(q) ==
  /\ Running /\ q \notin freed /\ receiving[q] > 0
  /\ reg' = reg \cup {q}
  /\ msgs' = [msgs EXCEPT ![q] = IF @ > 0 THEN @ - 1 ELSE 0]
  /\ receiving' = Dec(receiving, q) /\ calling' = Inc(calling, q)
  /\ UNCHANGED <<proc, opened, linked, notifying, sender, target, freed, closing>>

\* Mutant: the message is taken from the first queue of the list.
Receive_FirstQueue(q) ==
  /\ Running /\ q \notin freed /\ receiving[q] > 0
  /\ msgs' = [msgs EXCEPT ![1] = IF @ > 0 THEN @ - 1 ELSE 0]
  /\ receiving' = Dec(receiving, q) /\ calling' = Inc(calling, q)
  /\ UNCHANGED <<proc, opened, linked, reg, notifying, sender, target, freed, closing>>

\* One message is received.  The queue is non-blocking: were it empty,
\* mq_receive would return -1 and the callback be skipped.
Receive(q) ==
  /\ Running /\ q \notin freed /\ receiving[q] > 0
  /\ msgs' = [msgs EXCEPT ![q] = IF @ > 0 THEN @ - 1 ELSE 0]
  /\ receiving' = Dec(receiving, q)
  /\ calling' = IF msgs[q] > 0 THEN Inc(calling, q) ELSE calling
  /\ notifying' = IF msgs[q] > 0 THEN notifying ELSE Inc(notifying, q)
  /\ UNCHANGED <<proc, opened, linked, reg, sender, target, freed, closing>>

\* Mutant: the handler returns after the callback without registering again.
Callback_Return(q) ==
  /\ Running /\ q \notin freed /\ calling[q] > 0
  /\ calling' = Dec(calling, q)
  /\ UNCHANGED <<proc, opened, msgs, linked, reg, receiving, notifying, sender, target,
                 freed, closing>>

Callback(q) ==
  /\ Running /\ q \notin freed /\ calling[q] > 0
  /\ calling' = Dec(calling, q) /\ notifying' = Inc(notifying, q)
  /\ UNCHANGED <<proc, opened, msgs, linked, reg, receiving, sender, target, freed, closing>>

\* mq_notify registers again; it fails when the queue is already registered or
\* the system refuses, and the thread then runs closeMsgQueues.
Notify(q) ==
  /\ Running /\ q \notin freed /\ notifying[q] > 0
  /\ notifying' = Dec(notifying, q)
  /\ \/ q \notin reg /\ reg' = reg \cup {q} /\ UNCHANGED closing
     \/ closing' = [closing EXCEPT ![q] = 1] /\ UNCHANGED reg
  /\ UNCHANGED <<proc, opened, msgs, linked, receiving, calling, sender, target, freed>>

\* The mq_info_t has been freed under the thread: it reads garbage and the
\* process dies, or it reads the old descriptor, which is closed, and the call
\* fails; a failed mq_notify runs closeMsgQueues once more.
UseAfterFree(q) ==
  /\ Running /\ q \in freed
  /\ \/ /\ InFlight(q) > 0
        /\ proc' = "crashed"
        /\ UNCHANGED <<threads, closing>>
     \/ /\ receiving[q] > 0
        /\ receiving' = Dec(receiving, q) /\ notifying' = Inc(notifying, q)
        /\ UNCHANGED <<proc, calling, closing>>
     \/ /\ calling[q] > 0
        /\ calling' = Dec(calling, q) /\ notifying' = Inc(notifying, q)
        /\ UNCHANGED <<proc, receiving, closing>>
     \/ /\ notifying[q] > 0
        /\ notifying' = Dec(notifying, q)
        /\ closing' = [closing EXCEPT ![q] = 1]
        /\ UNCHANGED <<proc, receiving, calling>>
  /\ UNCHANGED <<opened, msgs, linked, reg, sender, target, freed>>
-----------------------------------------------------------------------------
(* closeMsgQueues. *)

\* SIGINT interrupts main.
Interrupt == /\ Running /\ closing[0] = 0
             /\ closing' = [closing EXCEPT ![0] = 1]
             /\ UNCHANGED <<proc, opened, msgs, linked, reg, threads, sender, target, freed>>

\* Close, unlink and free the next queue.  Closing drops the registration.
\* Closing one that another closeMsgQueues has freed already is a double free,
\* and the step to the next element reads the freed element.
CloseNext(c) ==
  /\ Running /\ closing[c] \in 1 .. opened
  /\ LET q == closing[c]
     IN \/ /\ q \notin freed
           /\ freed' = freed \cup {q}
           /\ linked' = linked \ {q}
           /\ reg' = reg \ {q}
           /\ closing' = [closing EXCEPT ![c] = @ + 1]
           /\ UNCHANGED proc
        \/ /\ proc' = "crashed"
           /\ UNCHANGED <<linked, reg, freed, closing>>
  /\ UNCHANGED <<opened, msgs, threads, sender, target>>

\* Mutant: closeMsgQueues returns to its caller.
CloseExit_Return(c) ==
  /\ Running /\ closing[c] = opened + 1
  /\ closing' = [closing EXCEPT ![c] = 0]
  /\ UNCHANGED <<proc, opened, msgs, linked, reg, threads, sender, target, freed>>

\* exit(EXIT_SUCCESS) at the end of the list.
CloseExit(c) == /\ Running /\ closing[c] = opened + 1
                /\ proc' = "exited"
                /\ UNCHANGED <<opened, msgs, linked, reg, threads, sender, target, freed, closing>>

sigHandler(q) == Receive(q) \/ Callback(q) \/ Notify(q) \/ UseAfterFree(q)
closeMsgQueues(c) == CloseNext(c) \/ CloseExit(c)

\* main sleeps for ever, so a running process is never stuck as a whole.
Idle == UNCHANGED vars

Next == \/ openMessageQueue \/ CreateSender \/ PutOpen \/ PutSend \/ Interrupt \/ Idle
        \/ \E q \in Queue : sigHandler(q)
        \/ \E c \in Closer : closeMsgQueues(c)

\* Every thread runs; SIGINT need not come.
Fairness == /\ WF_vars(openMessageQueue \/ CreateSender)
            /\ WF_vars(PutOpen \/ PutSend)
            /\ \A q \in Queue : WF_vars(sigHandler(q))
            /\ \A c \in Closer : WF_vars(closeMsgQueues(c))

Spec == Init /\ [][Next]_vars /\ Fairness
-----------------------------------------------------------------------------
(* Properties. *)

\* Types; no queue ever holds more than mq_maxmsg messages.
TypeOK == /\ proc \in {"running", "aborted", "crashed", "exited"}
          /\ opened \in 0 .. NQueues
          /\ msgs \in [Queue -> 0 .. MaxMsg]
          /\ linked \subseteq Queue
          /\ reg \subseteq Queue
          /\ receiving \in [Queue -> Nat]
          /\ calling \in [Queue -> Nat]
          /\ notifying \in [Queue -> Nat]
          /\ sender \in {"none", "open", "send"}
          /\ target \in Queue
          /\ freed \subseteq Queue
          /\ closing \in [Closer -> 0 .. NQueues + 1]

\* The notification of a queue is a token: it is registered, or one sigHandler
\* thread carries it, never both and never two threads.  So no two threads
\* ever use the one buffer of a queue at the same time, although nothing locks
\* it.
OneHandlerPerQueue ==
  \A q \in Queue : InFlight(q) + Registered(q) <= 1

\* The token is lost only by a failed mq_notify or by closing the queue.
TokenKept == \A q \in Queue :
                q <= opened => \/ InFlight(q) + Registered(q) = 1
                               \/ q \in freed
                               \/ closing[q] > 0

\* A queue is deaf when it holds messages, is registered and has no handler.
Deaf(q) == q \in reg /\ msgs[q] > 0 /\ InFlight(q) = 0

\* Nothing in the program ever wakes a deaf queue again: only closing it or
\* the end of the process ends that state.
DeafForEver ==
  [][\A q \in Queue : Deaf(q) => Deaf(q)' \/ q \in freed']_vars

\* closeMsgQueues ends the process once SIGINT or a failed mq_notify has
\* started it, whatever the handler threads and the sender do meanwhile.
CloseEnds == (\E c \in Closer : closing[c] > 0) ~> ~Running
=============================================================================
