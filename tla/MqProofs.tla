------------------------------ MODULE MqProofs ------------------------------
(***************************************************************************)
(* The notification token of                                               *)
(* async_posix_message_queues_SIGEV_THREAD/src/main_server.c (MqThread)    *)
(* and of async_posix_message_queues/src/main_server.c (MqSignal, as the   *)
(* instance Sig), for every number of queues, every queue length and any   *)
(* number of messages.                                                     *)
(***************************************************************************)
EXTENDS MCMq, TLAPS

\* A queue that main has not opened has neither a registration nor a handler;
\* the sender only runs once all are open.
Unopened == /\ \A q \in Queue : q > opened => q \notin reg /\ InFlight(q) = 0
            /\ sender # "none" => opened = NQueues
            /\ \A c \in Closer : closing[c] <= opened + 1

Token == OneHandlerPerQueue /\ TokenKept /\ Unopened

Inv == TypeOK /\ Token

\* The queues and the executions of closeMsgQueues.
LEMMA Ranges == /\ Queue \subseteq Closer /\ 0 \in Closer
                /\ Queue \subseteq Nat /\ NQueues \in Nat
                /\ \A q \in Queue : q <= NQueues /\ q >= 1
                /\ \A i \in Nat : (i >= 1 /\ i <= NQueues) => i \in Queue
BY MqAssumption DEF Queue, Closer

LEMMA InitInv == Init => Inv
<1> SUFFICES ASSUME Init PROVE Inv
  OBVIOUS
<1>1. TypeOK
  BY MqAssumption, Ranges DEF Init, TypeOK
<1>2. \A q \in Queue : InFlight(q) = 0 /\ q \notin reg
  BY DEF Init, InFlight
<1> QED
  BY <1>1, <1>2, Ranges DEF Init, Inv, Token, OneHandlerPerQueue, TokenKept, Unopened, Registered

-----------------------------------------------------------------------------
(* Types. *)

LEMMA TypeStep == Inv /\ [Next]_vars => TypeOK'
<1> SUFFICES ASSUME Inv, [Next]_vars PROVE TypeOK'
  OBVIOUS
<1> USE Ranges, MqAssumption DEF TypeOK, Inv, threads, Running
<1>1. CASE openMessageQueue
  <2>1. opened + 1 \in Queue /\ opened + 1 \in 0 .. NQueues
    BY <1>1 DEF openMessageQueue
  <2>2. opened' \in 0 .. NQueues /\ reg' \subseteq Queue
    BY <1>1, <2>1 DEF openMessageQueue
  <2> QED
    BY <1>1, <2>2 DEF openMessageQueue
<1>10. CASE CreateSender
  BY <1>10 DEF CreateSender
<1>11. CASE Interrupt
  BY <1>11 DEF Interrupt
<1>2. CASE PutOpen
  BY <1>2 DEF PutOpen, NextQueue
<1>3. CASE PutSend
  <2>1. target' \in Queue
    BY <1>3 DEF PutSend, NextQueue
  <2>2. msgs' \in [Queue -> 0 .. MaxMsg]
    BY <1>3 DEF PutSend
  <2>3. reg' \subseteq Queue /\ receiving' \in [Queue -> Nat]
    <3>1. Inc(receiving, target) \in [Queue -> Nat]
      BY DEF Inc
    <3> QED
      BY <1>3, <3>1 DEF PutSend
  <2> QED
    BY <1>3, <2>1, <2>2, <2>3 DEF PutSend
<1>4. ASSUME NEW q \in Queue, Receive(q) PROVE TypeOK'
  <2>1. msgs' \in [Queue -> 0 .. MaxMsg]
    BY <1>4 DEF Receive
  <2>2. /\ receiving' \in [Queue -> Nat] /\ calling' \in [Queue -> Nat]
        /\ notifying' \in [Queue -> Nat]
    BY <1>4 DEF Receive, Inc, Dec
  <2> QED
    BY <1>4, <2>1, <2>2 DEF Receive
<1>5. ASSUME NEW q \in Queue, Callback(q) PROVE TypeOK'
  BY <1>5 DEF Callback, Inc, Dec
<1>6. ASSUME NEW q \in Queue, Notify(q) PROVE TypeOK'
  <2>1. notifying' \in [Queue -> Nat]
    BY <1>6 DEF Notify, Dec
  <2>2. reg' \subseteq Queue
    BY <1>6 DEF Notify
  <2>3. closing' \in [Closer -> 0 .. NQueues + 1]
    BY <1>6 DEF Notify
  <2> QED
    BY <1>6, <2>1, <2>2, <2>3 DEF Notify
<1>7. ASSUME NEW q \in Queue, UseAfterFree(q) PROVE TypeOK'
  BY <1>7 DEF UseAfterFree, Inc, Dec
<1>8. ASSUME NEW c \in Closer, CloseNext(c) \/ CloseExit(c) PROVE TypeOK'
  <2>1. CASE CloseExit(c)
    BY <2>1 DEF CloseExit
  <2>2. CASE CloseNext(c)
    <3>1. closing[c] \in Queue /\ closing[c] + 1 \in 0 .. NQueues + 1
      BY <2>2 DEF CloseNext
    <3>2. closing' \in [Closer -> 0 .. NQueues + 1]
      BY <2>2, <3>1 DEF CloseNext
    <3>3. /\ freed' \subseteq Queue /\ linked' \subseteq Queue /\ reg' \subseteq Queue
          /\ proc' \in {"running", "crashed"}
      BY <2>2, <3>1 DEF CloseNext
    <3> QED
      BY <2>2, <3>2, <3>3 DEF CloseNext
  <2> QED
    BY <1>8, <2>1, <2>2
<1>9. CASE UNCHANGED vars
  BY <1>9 DEF vars
<1> QED
  BY <1>1, <1>2, <1>3, <1>4, <1>5, <1>6, <1>7, <1>8, <1>9, <1>10, <1>11
     DEF Next, Idle, sigHandler, closeMsgQueues

-----------------------------------------------------------------------------
(* What a step does to the threads in flight. *)

LEMMA InFlightNat == ASSUME TypeOK, NEW q \in Queue PROVE InFlight(q) \in Nat
BY DEF TypeOK, InFlight

\* Steps that leave every queue's count alone.
LEMMA SameInFlight ==
  ASSUME TypeOK, NEW q \in Queue,
         Receive(q) \/ Callback(q) \/ UNCHANGED threads
  PROVE  \A r \in Queue : InFlight(r)' = InFlight(r)
<1>1. CASE Receive(q)
  BY <1>1 DEF Receive, Inc, Dec, TypeOK, InFlight
<1>2. CASE Callback(q)
  BY <1>2 DEF Callback, Inc, Dec, TypeOK, InFlight
<1>3. CASE UNCHANGED threads
  BY <1>3 DEF threads, InFlight
<1> QED
  BY <1>1, <1>2, <1>3

\* A thread that has called mq_notify is gone.
LEMMA OneLess ==
  ASSUME TypeOK, NEW q \in Queue, notifying[q] > 0, notifying' = Dec(notifying, q),
         UNCHANGED <<receiving, calling>>
  PROVE  /\ InFlight(q)' = InFlight(q) - 1 /\ InFlight(q) > 0
         /\ \A r \in Queue \ {q} : InFlight(r)' = InFlight(r)
BY DEF Dec, TypeOK, InFlight

\* Steps that change neither counts nor registrations keep the token.
LEMMA SameToken ==
  ASSUME Inv, \A r \in Queue : InFlight(r)' = InFlight(r),
         UNCHANGED <<reg, opened, freed>>,
         sender # "none" \/ sender' = sender \/ opened = NQueues,
         closing' = closing \/ \E c \in Closer : closing' = [closing EXCEPT ![c] = 1]
  PROVE  Token'
<1>1. OneHandlerPerQueue'
  BY DEF Inv, Token, OneHandlerPerQueue, Registered
<1>2. \A c \in Closer : closing[c] > 0 => closing'[c] > 0
  BY DEF Inv, TypeOK
<1>3. TokenKept'
  BY <1>2, Ranges DEF Inv, Token, TokenKept, Registered
<1>4. \A c \in Closer : closing'[c] <= opened + 1
  BY Ranges DEF Inv, TypeOK, Token, Unopened
<1>5. Unopened'
  BY <1>4 DEF Inv, Token, Unopened
<1> QED
  BY <1>1, <1>3, <1>5 DEF Token

\* Registering again, or failing to and closing down.
LEMMA NotifyToken ==
  ASSUME Inv, NEW q \in Queue,
         InFlight(q)' = InFlight(q) - 1, InFlight(q) > 0,
         \A r \in Queue \ {q} : InFlight(r)' = InFlight(r),
         \/ q \notin reg /\ reg' = reg \cup {q} /\ UNCHANGED closing
         \/ closing' = [closing EXCEPT ![q] = 1] /\ UNCHANGED reg,
         UNCHANGED <<opened, sender, freed>>
  PROVE  Token'
<1>1. \A r \in Queue : InFlight(r) \in Nat
  BY InFlightNat DEF Inv
<1>2. q <= opened /\ opened \in Nat
  BY <1>1, Ranges DEF Inv, TypeOK, Token, Unopened
<1>3. OneHandlerPerQueue'
  BY <1>1 DEF Inv, Token, OneHandlerPerQueue, Registered
<1>4. TokenKept'
  <2>1. \A r \in Queue : closing[r] > 0 => closing'[r] > 0
    BY Ranges DEF Inv, TypeOK
  <2>2. InFlight(q) + Registered(q) = 1
    BY <1>1 DEF Inv, Token, OneHandlerPerQueue, Registered
  <2>3. q \in reg' \/ closing'[q] > 0
    BY Ranges DEF Inv, TypeOK
  <2> SUFFICES ASSUME NEW r \in Queue, r <= opened
               PROVE  (InFlight(r) + Registered(r) = 1)' \/ r \in freed \/ closing'[r] > 0
    BY DEF TokenKept
  <2>4. CASE r = q
    BY <1>1, <2>2, <2>3, <2>4 DEF Registered
  <2>5. CASE r # q
    BY <1>1, <2>1, <2>5 DEF Inv, Token, TokenKept, Registered
  <2> QED
    BY <2>4, <2>5
<1>5. Unopened'
  BY <1>1, <1>2 DEF Inv, TypeOK, Token, Unopened
<1> QED
  BY <1>3, <1>4, <1>5 DEF Token

LEMMA OpenToken == Inv /\ openMessageQueue => Token'
<1> SUFFICES ASSUME Inv, openMessageQueue PROVE Token'
  OBVIOUS
<1>1. \A r \in Queue : InFlight(r)' = InFlight(r)
  BY DEF openMessageQueue, threads, InFlight
<1>2. CASE UNCHANGED <<opened, reg>>
  BY <1>1, <1>2, SameToken DEF openMessageQueue
<1>3. CASE opened' = opened + 1 /\ reg' = reg \cup {opened + 1}
  <2>1. opened + 1 \in Queue /\ opened + 1 \notin reg /\ InFlight(opened + 1) = 0
    BY Ranges DEF openMessageQueue, Inv, TypeOK, Token, Unopened
  <2>2. OneHandlerPerQueue'
    BY <1>1, <1>3, <2>1 DEF Inv, Token, OneHandlerPerQueue, Registered
  <2>3. TokenKept'
    <3> SUFFICES ASSUME NEW r \in Queue, r <= opened + 1
                 PROVE  (InFlight(r) + Registered(r) = 1)' \/ r \in freed \/ closing[r] > 0
      BY <1>3 DEF TokenKept, openMessageQueue
    <3>1. CASE r = opened + 1
      BY <1>1, <1>3, <2>1, <3>1 DEF Registered
    <3>2. CASE r # opened + 1
      <4>1. r <= opened
        BY <3>2, Ranges DEF Inv, TypeOK
      <4> QED
        BY <1>1, <1>3, <3>2, <4>1 DEF Inv, Token, TokenKept, Registered
    <3> QED
      BY <3>1, <3>2
  <2>4. Unopened'
    <3>1. \A r \in Queue : r > opened + 1 => r \notin reg' /\ InFlight(r)' = 0
      BY <1>1, <1>3, <2>1, Ranges DEF Inv, TypeOK, Token, Unopened
    <3>2. sender = "none" /\ sender' = sender
      BY Ranges DEF openMessageQueue, Inv, TypeOK, Token, Unopened
    <3>3. \A c \in Closer : closing'[c] <= (opened + 1) + 1
      BY Ranges DEF openMessageQueue, Inv, TypeOK, Token, Unopened
    <3> QED
      BY <1>3, <3>1, <3>2, <3>3 DEF Unopened
  <2> QED
    BY <2>2, <2>3, <2>4 DEF Token
<1> QED
  BY <1>2, <1>3 DEF openMessageQueue

LEMMA SendToken == Inv /\ PutSend => Token'
<1> SUFFICES ASSUME Inv, PutSend PROVE Token'
  OBVIOUS
<1>1. /\ target \in Queue /\ opened = NQueues /\ UNCHANGED <<opened, freed, closing>>
      /\ sender = "send"
  BY DEF PutSend, Inv, TypeOK, Token, Unopened
<1>10. PICK t \in Queue : t = target
  BY <1>1
<1>2. CASE UNCHANGED <<reg, receiving>>
  <2>1. \A r \in Queue : InFlight(r)' = InFlight(r)
    BY <1>2 DEF PutSend, InFlight
  <2> QED
    BY <1>1, <1>2, <2>1, SameToken
<1>3. CASE t \in reg /\ reg' = reg \ {t} /\ receiving' = Inc(receiving, t)
  <2>1. /\ InFlight(t)' = InFlight(t) + 1
        /\ \A r \in Queue \ {t} : InFlight(r)' = InFlight(r)
    <3>1. /\ receiving \in [Queue -> Nat] /\ UNCHANGED <<calling, notifying>>
          /\ calling \in [Queue -> Nat] /\ notifying \in [Queue -> Nat]
      BY DEF PutSend, Inv, TypeOK
    <3> QED
      BY <1>1, <1>3, <3>1 DEF Inc, InFlight
  <2>2. \A r \in Queue : InFlight(r) \in Nat
    BY InFlightNat DEF Inv
  <2>3. OneHandlerPerQueue'
    <3> SUFFICES ASSUME NEW r \in Queue PROVE (InFlight(r) + Registered(r) <= 1)'
      BY DEF OneHandlerPerQueue
    <3>1. InFlight(r) + Registered(r) <= 1
      BY DEF Inv, Token, OneHandlerPerQueue
    <3>2. CASE r = t
      BY <1>1, <1>3, <2>1, <2>2, <3>1, <3>2 DEF Registered
    <3>3. CASE r # t
      BY <1>3, <2>1, <3>1, <3>3 DEF Registered
    <3> QED
      BY <3>2, <3>3
  <2>4. TokenKept'
    <3> SUFFICES ASSUME NEW r \in Queue, r <= opened
                 PROVE  (InFlight(r) + Registered(r) = 1)' \/ r \in freed \/ closing[r] > 0
      BY <1>1 DEF TokenKept
    <3>1. InFlight(r) + Registered(r) = 1 \/ r \in freed \/ closing[r] > 0
      BY DEF Inv, Token, TokenKept
    <3>2. CASE r = t
      BY <1>1, <1>3, <2>1, <2>2, <3>1, <3>2 DEF Registered
    <3>3. CASE r # t
      BY <1>3, <2>1, <3>1, <3>3 DEF Registered
    <3> QED
      BY <3>2, <3>3
  <2>5. Unopened'
    BY <1>1, <1>3, <2>1, <2>2 DEF Inv, TypeOK, Token, Unopened
  <2> QED
    BY <2>3, <2>4, <2>5 DEF Token
<1> QED
  BY <1>2, <1>3, <1>10 DEF PutSend

LEMMA HandlerToken == ASSUME Inv, NEW q \in Queue, sigHandler(q) PROVE Token'
<1>1. CASE Receive(q) \/ Callback(q)
  <2>1. \A r \in Queue : InFlight(r)' = InFlight(r)
    BY <1>1, SameInFlight DEF Inv
  <2> QED
    BY <1>1, <2>1, SameToken DEF Receive, Callback
<1>2. CASE Notify(q)
  BY <1>2, OneLess, NotifyToken DEF Notify, Inv
<1>3. CASE UseAfterFree(q)
  <2>1. CASE /\ notifying[q] > 0 /\ notifying' = Dec(notifying, q)
             /\ closing' = [closing EXCEPT ![q] = 1]
             /\ UNCHANGED <<receiving, calling>>
    BY <1>3, <2>1, OneLess, NotifyToken DEF UseAfterFree, Inv
  <2>2. CASE /\ \/ UNCHANGED threads
                \/ /\ receiving[q] > 0 /\ receiving' = Dec(receiving, q)
                   /\ notifying' = Inc(notifying, q) /\ UNCHANGED calling
                \/ /\ calling[q] > 0 /\ calling' = Dec(calling, q)
                   /\ notifying' = Inc(notifying, q) /\ UNCHANGED receiving
             /\ UNCHANGED closing
    <3>1. \A r \in Queue : InFlight(r)' = InFlight(r)
      BY <2>2 DEF threads, Inc, Dec, InFlight, Inv, TypeOK
    <3> QED
      BY <1>3, <2>2, <3>1, SameToken DEF UseAfterFree
  <2> QED
    BY <1>3, <2>1, <2>2 DEF UseAfterFree
<1> QED
  BY <1>1, <1>2, <1>3 DEF sigHandler

LEMMA CloseToken == ASSUME Inv, NEW c \in Closer, closeMsgQueues(c) PROVE Token'
<1>1. /\ \A r \in Queue : InFlight(r)' = InFlight(r)
      /\ UNCHANGED <<opened, sender>>
  BY DEF closeMsgQueues, CloseNext, CloseExit, threads, InFlight
<1>2. CASE UNCHANGED <<reg, freed, closing>>
  BY <1>1, <1>2, SameToken
<1>3. CASE /\ closing[c] \in 1 .. opened
           /\ freed' = freed \cup {closing[c]} /\ reg' = reg \ {closing[c]}
           /\ closing' = [closing EXCEPT ![c] = @ + 1]
  <2>0. \A r \in Queue : InFlight(r) \in Nat
    BY InFlightNat DEF Inv
  <2>1. OneHandlerPerQueue'
    BY <1>1, <1>3, <2>0 DEF Inv, Token, OneHandlerPerQueue, Registered
  <2>2. TokenKept'
    <3> SUFFICES ASSUME NEW r \in Queue, r <= opened
                 PROVE  (InFlight(r) + Registered(r) = 1)' \/ r \in freed' \/ closing'[r] > 0
      BY <1>1 DEF TokenKept
    <3>1. InFlight(r) + Registered(r) = 1 \/ r \in freed \/ closing[r] > 0
      BY DEF Inv, Token, TokenKept
    <3>2. closing[r] > 0 => closing'[r] > 0
      BY <1>3, Ranges DEF Inv, TypeOK
    <3>3. r # closing[c] => (r \in reg' <=> r \in reg)
      BY <1>3
    <3> QED
      BY <1>1, <1>3, <3>1, <3>2, <3>3 DEF Registered
  <2>3. Unopened'
    BY <1>1, <1>3, <2>0 DEF Inv, TypeOK, Token, Unopened
  <2> QED
    BY <2>1, <2>2, <2>3 DEF Token
<1> QED
  BY <1>2, <1>3 DEF closeMsgQueues, CloseNext, CloseExit

LEMMA InvHolds == Spec => []Inv
<1>1. Inv /\ [Next]_vars => Token'
  <2> SUFFICES ASSUME Inv, [Next]_vars PROVE Token'
    OBVIOUS
  <2>1. CASE CreateSender \/ PutOpen \/ Interrupt
    <3>1. \A r \in Queue : InFlight(r)' = InFlight(r)
      BY <2>1 DEF CreateSender, PutOpen, Interrupt, threads, InFlight
    <3>2. 0 \in Closer
      BY Ranges
    <3> QED
      BY <2>1, <3>1, <3>2, SameToken DEF CreateSender, PutOpen, Interrupt
  <2>2. CASE UNCHANGED vars
    <3>1. \A r \in Queue : InFlight(r)' = InFlight(r)
      BY <2>2 DEF vars, threads, InFlight
    <3> QED
      BY <2>2, <3>1, SameToken DEF vars
  <2> QED
    BY <2>1, <2>2, OpenToken, SendToken, HandlerToken, CloseToken DEF Next, Idle
<1>2. Inv /\ [Next]_vars => Inv'
  BY <1>1, TypeStep DEF Inv
<1> QED
  BY InitInv, <1>2, PTL DEF Spec

-----------------------------------------------------------------------------

(* Types, with every queue within mq_maxmsg. *)
THEOREM TypeCorrect == Spec => []TypeOK
<1>1. Inv => TypeOK
  BY DEF Inv
<1> QED
  BY InvHolds, <1>1, PTL

(* No two sigHandler threads of a queue run before the second registration: *)
(* the shared buffer needs no lock.                                         *)
THEOREM BufferIsExclusive == Spec => []OneHandlerPerQueue
<1>1. Inv => OneHandlerPerQueue
  BY DEF Inv, Token
<1> QED
  BY InvHolds, <1>1, PTL

(* The registration is passed on and never leaks, except by failing or by   *)
(* closing the queue.                                                       *)
THEOREM TokenIsKept == Spec => []TokenKept
<1>1. Inv => TokenKept
  BY DEF Inv, Token
<1> QED
  BY InvHolds, <1>1, PTL

(* A queue that becomes deaf stays deaf.                                    *)
THEOREM DeafnessIsFinal == Spec => DeafForEver
<1>1. Inv /\ [Next]_vars => [\A q \in Queue : Deaf(q) => Deaf(q)' \/ q \in freed']_vars
  <2> SUFFICES ASSUME Inv, Next, NEW q \in Queue, Deaf(q), q \notin freed' PROVE Deaf(q)'
    OBVIOUS
  <2>0. /\ q \in reg /\ msgs[q] > 0 /\ InFlight(q) = 0
        /\ receiving[q] = 0 /\ calling[q] = 0 /\ notifying[q] = 0
    BY DEF Deaf, InFlight, Inv, TypeOK
  <2> SUFFICES /\ q \in reg' /\ msgs'[q] > 0
               /\ receiving'[q] = 0 /\ calling'[q] = 0 /\ notifying'[q] = 0
    BY DEF Deaf, InFlight
  <2>1. CASE openMessageQueue \/ CreateSender \/ PutOpen \/ Interrupt \/ Idle
    BY <2>1, <2>0 DEF openMessageQueue, CreateSender, PutOpen, Interrupt, Idle, vars, threads
  <2>2. CASE PutSend
    BY <2>0, <2>2 DEF PutSend, Inc, Inv, TypeOK
  <2>3. ASSUME NEW r \in Queue, sigHandler(r)
        PROVE  /\ q \in reg' /\ msgs'[q] > 0
               /\ receiving'[q] = 0 /\ calling'[q] = 0 /\ notifying'[q] = 0
    <3>1. r # q
      BY <2>0, <2>3 DEF sigHandler, Receive, Callback, Notify, UseAfterFree
    <3>2. CASE Receive(r)
      BY <2>0, <3>1, <3>2 DEF Receive, Inc, Dec, Inv, TypeOK
    <3>3. CASE Callback(r) \/ Notify(r)
      BY <2>0, <3>1, <3>3 DEF Callback, Notify, Inc, Dec, Inv, TypeOK
    <3>4. CASE UseAfterFree(r)
      BY <2>0, <3>1, <3>4 DEF UseAfterFree, Inc, Dec, threads, Inv, TypeOK
    <3> QED
      BY <2>3, <3>2, <3>3, <3>4 DEF sigHandler
  <2>4. ASSUME NEW c \in Closer, closeMsgQueues(c)
        PROVE  /\ q \in reg' /\ msgs'[q] > 0
               /\ receiving'[q] = 0 /\ calling'[q] = 0 /\ notifying'[q] = 0
    BY <2>0, <2>4 DEF closeMsgQueues, CloseNext, CloseExit, threads
  <2> QED
    BY <2>1, <2>2, <2>3, <2>4 DEF Next
<1> QED
  BY InvHolds, <1>1, PTL DEF Spec, DeafForEver
-----------------------------------------------------------------------------
(* The server of async_posix_message_queues, which is notified by SIGIO.    *)

\* A queue has no notification as long as openMessageQueue has not registered it.
NotYet(q) == q > opened \/ (setup = "yes" /\ q = opened)

HandlerHas(q) == handler # "no" /\ queue = q

\* The part of MqSignal's types that the argument needs.
SigTypes == /\ opened \in 0 .. NQueues /\ (setup = "yes" => opened > 0)
            /\ msgs \in [Queue -> Nat]
            /\ reg \subseteq Queue /\ lost \subseteq Queue
            /\ pending \in 0 .. NQueues /\ queue \in Queue

\* A notification is in one place at most, and in none before it is made.
SigOne == \A q \in Queue : /\ q \in reg => pending # q /\ q \notin lost /\ ~HandlerHas(q)
                           /\ pending = q => q \notin lost /\ ~HandlerHas(q)
                           /\ q \in lost => ~HandlerHas(q)
                           /\ NotYet(q) => /\ q \notin reg /\ pending # q
                                           /\ q \notin lost /\ ~HandlerHas(q)

\* It is somewhere unless openMessageQueue failed or the queue has been closed.
SigKept == \A q \in Queue : \/ NotYet(q) \/ q \in failed \/ q \in freed
                            \/ q \in reg \/ pending = q \/ q \in lost \/ HandlerHas(q)

\* Only a message makes a SIGIO, and only its handler takes messages.
SigFull == \A q \in Queue : /\ pending = q => msgs[q] > 0
                            /\ handler = "receive" /\ queue = q => msgs[q] > 0

SigInv == SigTypes /\ SigOne /\ SigKept /\ SigFull

LEMMA SigInit == Sig!Init => SigInv
<1> SUFFICES ASSUME Sig!Init PROVE SigInv
  OBVIOUS
<1> USE MqAssumption
<1>1. SigTypes
  BY DEF Sig!Init, SigTypes, Queue, Sig!Queue
<1>2. SigOne /\ SigKept /\ SigFull
  BY DEF Sig!Init, SigOne, SigKept, SigFull, NotYet, HandlerHas, Queue
<1> QED
  BY <1>1, <1>2 DEF SigInv

LEMMA SigOpen ==
  ASSUME SigInv, Sig!openMessageQueue
  PROVE  SigInv'
<1> USE MqAssumption
<1>1. CASE Sig!Create
  <2>1. /\ UNCHANGED <<msgs, reg, pending, lost, handler, queue, freed>>
        /\ setup = "no" /\ opened < NQueues
        /\ \/ UNCHANGED <<opened, setup, failed>>
           \/ opened' = opened + 1 /\ setup' = "yes" /\ UNCHANGED failed
           \/ opened' = opened + 1 /\ setup' = "no" /\ failed' = failed \cup {opened + 1}
    BY <1>1 DEF Sig!Create
  <2>2. SigTypes' /\ SigFull'
    BY <2>1 DEF SigInv, SigTypes, SigFull
  <2>3. \A q \in Queue : NotYet(q)' => NotYet(q)
    BY <2>1 DEF NotYet, SigInv, SigTypes, Queue
  <2>4. \A q \in Queue : NotYet(q) => NotYet(q)' \/ q \in failed'
    BY <2>1 DEF NotYet, SigInv, SigTypes, Queue
  <2>5. failed \subseteq failed' /\ \A q \in Queue : HandlerHas(q)' <=> HandlerHas(q)
    BY <2>1 DEF HandlerHas
  <2> QED
    BY <2>1, <2>2, <2>3, <2>4, <2>5 DEF SigInv, SigOne, SigKept
<1>2. CASE Sig!Register
  <2>1. /\ UNCHANGED <<opened, msgs, pending, lost, handler, queue, freed>> /\ setup = "yes"
        /\ \/ UNCHANGED <<setup, failed, reg>>
           \/ setup' = "no" /\ reg' = reg \cup {opened} /\ UNCHANGED failed
           \/ setup' = "no" /\ failed' = failed \cup {opened} /\ UNCHANGED reg
    BY <1>2 DEF Sig!Register
  <2>2. opened \in Queue /\ NotYet(opened)
    BY <2>1 DEF NotYet, SigInv, SigTypes, Queue
  <2>3. SigTypes' /\ SigFull'
    BY <2>1, <2>2 DEF SigInv, SigTypes, SigFull
  <2>4. \A q \in Queue : HandlerHas(q)' <=> HandlerHas(q)
    BY <2>1 DEF HandlerHas
  <2>5. \A q \in Queue : /\ NotYet(q)' => NotYet(q) /\ q \notin reg'
                         /\ NotYet(q) => NotYet(q)' \/ q \in reg' \/ q \in failed'
    BY <2>1, <2>2 DEF NotYet, SigInv, SigTypes, SigOne, Queue
  <2>6. SigOne'
    BY <2>1, <2>2, <2>4, <2>5 DEF SigInv, SigOne
  <2>7. SigKept'
    BY <2>1, <2>4, <2>5 DEF SigInv, SigKept
  <2> QED
    BY <2>3, <2>6, <2>7 DEF SigInv
<1> QED
  BY <1>1, <1>2 DEF Sig!openMessageQueue

\* A message at an empty, registered queue moves its notification to the pending
\* SIGIO, or loses it there.
LEMMA SigArrive ==
  ASSUME SigInv, NEW q \in Queue, Sig!Arrive(q),
         UNCHANGED <<opened, setup, failed, handler, queue, freed>>
  PROVE  SigInv'
<1> USE MqAssumption
<1>1. /\ msgs' = [msgs EXCEPT ![q] = @ + 1]
      /\ \/ q \in reg /\ reg' = reg \ {q} /\ pending = 0 /\ pending' = q /\ UNCHANGED lost
         \/ q \in reg /\ reg' = reg \ {q} /\ lost' = lost \cup {q} /\ UNCHANGED pending
         \/ UNCHANGED <<reg, pending, lost>>
  BY DEF Sig!Arrive
<1>2. msgs'[q] > 0 /\ \A r \in Queue \ {q} : msgs'[r] = msgs[r]
  BY <1>1 DEF SigInv, SigTypes
<1>3. SigTypes'
  <2>1. msgs' \in [Queue -> Nat]
    BY <1>1 DEF SigInv, SigTypes
  <2>2. pending' \in 0 .. NQueues
    BY <1>1 DEF SigInv, SigTypes, Queue
  <2> QED
    BY <1>1, <2>1, <2>2 DEF SigInv, SigTypes
<1>4. \A r \in Queue : (NotYet(r)' <=> NotYet(r)) /\ (HandlerHas(r)' <=> HandlerHas(r))
  BY DEF NotYet, HandlerHas
<1>5. 0 \notin Queue
  BY DEF Queue
<1>6. SigOne'
  BY <1>1, <1>4, <1>5 DEF SigInv, SigOne
<1>7. SigKept'
  BY <1>1, <1>4, <1>5 DEF SigInv, SigKept
<1>8. SigFull'
  BY <1>1, <1>2, <1>5 DEF SigInv, SigTypes, SigFull
<1> QED
  BY <1>3, <1>6, <1>7, <1>8 DEF SigInv

LEMMA SigHandler ==
  ASSUME SigInv, Sig!sigHandler
  PROVE  SigInv'
<1> USE MqAssumption
<1>0. /\ Sig!Queue = Queue /\ 0 \notin Queue
      /\ \A q \in Queue : UNCHANGED <<opened, setup>> => (NotYet(q)' <=> NotYet(q))
  BY DEF Sig!Queue, Queue, NotYet
<1>1. CASE Sig!Deliver
  <2>1. /\ UNCHANGED <<opened, setup, failed, msgs, reg, lost, freed>>
        /\ handler = "no" /\ handler' = "receive" /\ queue' = pending /\ pending' = 0
        /\ pending \in Queue
    BY <1>1 DEF Sig!Deliver, SigInv, SigTypes, Queue
  <2>2. SigTypes' /\ SigFull'
    BY <1>0, <2>1 DEF SigInv, SigTypes, SigFull
  <2>3. \A q \in Queue : ~HandlerHas(q) /\ (HandlerHas(q)' <=> pending = q)
    BY <2>1 DEF HandlerHas
  <2>4. SigOne'
    BY <1>0, <2>1, <2>3 DEF SigInv, SigOne
  <2>5. SigKept'
    BY <1>0, <2>1, <2>3 DEF SigInv, SigKept
  <2> QED
    BY <2>2, <2>4, <2>5 DEF SigInv
<1>2. CASE Sig!Receive
  <2>1. /\ UNCHANGED <<opened, setup, failed, reg, pending, lost, queue, freed>>
        /\ handler = "receive" /\ handler' = "notify" /\ msgs' = [msgs EXCEPT ![queue] = @ - 1]
        /\ queue \in Queue
    BY <1>2 DEF Sig!Receive, SigInv, SigTypes
  <2>2. msgs[queue] \in Nat /\ msgs[queue] > 0 /\ pending # queue
    BY <2>1 DEF SigInv, SigTypes, SigFull, SigOne, HandlerHas
  <2>3. SigTypes'
    BY <2>1, <2>2 DEF SigInv, SigTypes
  <2>4. SigFull'
    BY <2>1, <2>2 DEF SigInv, SigTypes, SigFull
  <2>5. \A q \in Queue : HandlerHas(q)' <=> HandlerHas(q)
    BY <2>1 DEF HandlerHas
  <2>6. SigOne' /\ SigKept'
    BY <1>0, <2>1, <2>5 DEF SigInv, SigOne, SigKept
  <2> QED
    BY <2>3, <2>4, <2>6 DEF SigInv
<1>3. CASE Sig!Notify
  <2>1. /\ UNCHANGED <<opened, setup, failed, msgs, pending, lost, queue, freed>>
        /\ handler = "notify" /\ queue \in Queue
        /\ \/ reg' = reg \cup {queue} /\ handler' = "no"
           \/ handler' = "close" /\ UNCHANGED reg
    BY <1>3 DEF Sig!Notify, SigInv, SigTypes
  <2>2. SigTypes' /\ SigFull'
    BY <2>1 DEF SigInv, SigTypes, SigFull
  <2>3. \A q \in Queue : /\ HandlerHas(q) <=> q = queue
                         /\ HandlerHas(q)' <=> handler' = "close" /\ q = queue
    BY <2>1 DEF HandlerHas
  <2>4. SigOne'
    BY <1>0, <2>1, <2>3 DEF SigInv, SigOne
  <2>5. SigKept'
    BY <1>0, <2>1, <2>3 DEF SigInv, SigKept
  <2> QED
    BY <2>2, <2>4, <2>5 DEF SigInv
<1>4. CASE Sig!UseAfterFree
  <2>1. /\ UNCHANGED <<opened, setup, failed, msgs, reg, pending, lost, queue, freed>>
        /\ handler = "receive" /\ handler' \in {"receive", "close"}
    BY <1>4 DEF Sig!UseAfterFree
  <2>2. SigTypes' /\ SigFull'
    BY <2>1 DEF SigInv, SigTypes, SigFull
  <2>3. \A q \in Queue : HandlerHas(q)' <=> HandlerHas(q)
    BY <2>1 DEF HandlerHas
  <2>4. SigOne' /\ SigKept'
    BY <1>0, <2>1, <2>3 DEF SigInv, SigOne, SigKept
  <2> QED
    BY <2>2, <2>4 DEF SigInv
<1> QED
  BY <1>1, <1>2, <1>3, <1>4 DEF Sig!sigHandler

\* Closing, the clients, and SIGINT move no notification but drop that of the
\* queue that is closed.
LEMMA SigOther ==
  ASSUME SigInv, UNCHANGED <<opened, setup, failed, msgs, pending, lost, handler, queue>>,
         reg' \subseteq reg, freed \subseteq freed', reg \subseteq reg' \cup freed'
  PROVE  SigInv'
<1>1. \A q \in Queue : (NotYet(q)' <=> NotYet(q)) /\ (HandlerHas(q)' <=> HandlerHas(q))
  BY DEF NotYet, HandlerHas
<1>2. SigTypes' /\ SigFull'
  BY DEF SigInv, SigTypes, SigFull
<1>3. SigOne'
  BY <1>1 DEF SigInv, SigOne
<1>4. SigKept'
  BY <1>1 DEF SigInv, SigKept
<1> QED
  BY <1>2, <1>3, <1>4 DEF SigInv

LEMMA SigNext == SigInv /\ [Sig!Next]_(Sig!vars) => SigInv'
<1> SUFFICES ASSUME SigInv, [Sig!Next]_(Sig!vars) PROVE SigInv'
  OBVIOUS
<1> USE DEF Sig!server, Sig!peer
<1>1. CASE Sig!Interrupt \/ Sig!ClientOpen \/ Sig!ClientOpen2 \/ UNCHANGED Sig!vars
  BY <1>1, SigOther DEF Sig!Interrupt, Sig!ClientOpen, Sig!ClientOpen2, Sig!vars
<1>2. CASE \E c \in {"int", "io"} : Sig!closeMsgQueues(c)
  BY <1>2, SigOther DEF Sig!closeMsgQueues, Sig!CloseNext, Sig!CloseExit
<1>3. CASE Sig!ClientSend \/ Sig!ClientSend2
  <2>1. 1 \in Queue
    BY MqAssumption DEF Queue
  <2> QED
    BY <1>3, <2>1, SigArrive, SigOther DEF Sig!ClientSend, Sig!ClientSend2
<1>4. CASE \E q \in Sig!Queue : Sig!PutOther(q)
  <2>1. Sig!Queue = Queue
    BY DEF Sig!Queue, Queue
  <2> QED
    BY <1>4, <2>1, SigArrive DEF Sig!PutOther
<1> QED
  BY <1>1, <1>2, <1>3, <1>4, SigOpen, SigHandler DEF Sig!Next, Sig!Server, Sig!Client

LEMMA SigSpecInv == Sig!Spec => []SigInv
BY SigInit, SigNext, PTL DEF Sig!Spec

(* A behaviour of SigSpec is one of MqSignal alone.                           *)
LEMMA SigAlone == SigSpec => Sig!Spec
<1>1. [Sig!Next /\ UNCHANGED threadOnly]_<<Sig!vars, threadOnly>> => [Sig!Next]_(Sig!vars)
  OBVIOUS
<1> QED
  BY <1>1, PTL DEF SigSpec, Sig!Spec

(* A queue's notification is never doubled and never lost but to another      *)
(* queue's pending SIGIO, a failed openMessageQueue or a close; the handler   *)
(* (main_server.c:67-85) finds a message whenever it runs.                    *)
THEOREM NotificationIsUnique == SigSpec => []OneNotification
<1>1. SigInv => OneNotification
  <2> SUFFICES ASSUME SigInv, NEW q \in Queue
      PROVE  /\ \E p \in {"reg", "pending", "handler", "lost"} : Sig!Places(q) \subseteq {p}
             /\ (/\ q <= opened /\ q \notin failed \cup freed
                 /\ ~(setup = "yes" /\ q = opened)) => Sig!Places(q) # {}
             /\ handler = "receive" /\ queue = q => msgs[q] > 0
    BY DEF OneNotification, Sig!OneNotification, Sig!Queue, Queue
  <2>1. \E p \in {"reg", "pending", "handler", "lost"} : Sig!Places(q) \subseteq {p}
    BY DEF SigInv, SigOne, HandlerHas, Sig!Places
  <2>2. ASSUME q <= opened, q \notin failed \cup freed, ~(setup = "yes" /\ q = opened)
        PROVE  Sig!Places(q) # {}
    <3>1. ~NotYet(q)
      BY <2>2, MqAssumption DEF NotYet, SigInv, SigTypes, Queue
    <3>2. q \in reg \/ pending = q \/ q \in lost \/ HandlerHas(q)
      BY <2>2, <3>1 DEF SigInv, SigKept
    <3> QED
      BY <3>2 DEF HandlerHas, Sig!Places
  <2> QED
    BY <2>1, <2>2 DEF SigInv, SigFull
<1> QED
  BY SigAlone, SigSpecInv, <1>1, PTL

(* A queue that has lost its SIGIO, or is registered while it holds messages, *)
(* is served no more.                                                         *)
THEOREM MutenessIsFinal == SigSpec => MuteForEver
<1>1. ASSUME SigInv, Sig!Next, NEW q \in Queue, q \in lost \/ (q \in reg /\ msgs[q] > 0)
      PROVE  q \in lost' \/ (q \in reg' /\ msgs'[q] > 0) \/ q \in freed'
  <2> USE DEF Sig!server, Sig!peer
  <2>0. q \in reg => ~HandlerHas(q)
    BY <1>1 DEF SigInv, SigOne
  <2>1. CASE Sig!openMessageQueue \/ Sig!Interrupt \/ Sig!ClientOpen \/ Sig!ClientOpen2
    BY <1>1, <2>1 DEF Sig!openMessageQueue, Sig!Create, Sig!Register, Sig!Interrupt,
                      Sig!ClientOpen, Sig!ClientOpen2
  <2>2. CASE Sig!sigHandler
    BY <1>1, <2>0, <2>2 DEF Sig!sigHandler, Sig!Deliver, Sig!Receive, Sig!Notify,
                            Sig!UseAfterFree, HandlerHas, SigInv, SigTypes
  <2>3. CASE \E c \in {"int", "io"} : Sig!closeMsgQueues(c)
    BY <1>1, <2>3 DEF Sig!closeMsgQueues, Sig!CloseNext, Sig!CloseExit
  <2>4. ASSUME NEW r \in Queue, Sig!Arrive(r)
        PROVE  q \in lost' \/ (q \in reg' /\ msgs'[q] > 0)
    BY <1>1, <2>4 DEF Sig!Arrive, SigInv, SigTypes
  <2>5. 1 \in Queue /\ Sig!Queue = Queue
    BY MqAssumption DEF Queue, Sig!Queue
  <2>6. CASE Sig!ClientSend \/ Sig!ClientSend2
    BY <1>1, <2>4, <2>5, <2>6 DEF Sig!ClientSend, Sig!ClientSend2
  <2>7. CASE \E r \in Queue : Sig!PutOther(r)
    BY <2>4, <2>7 DEF Sig!PutOther
  <2> QED
    BY <1>1, <2>1, <2>2, <2>3, <2>5, <2>6, <2>7 DEF Sig!Next, Sig!Server, Sig!Client
<1>2. SigInv /\ [Sig!Next]_(Sig!vars)
        => [\A q \in Sig!Queue : (q \in lost \/ (q \in reg /\ msgs[q] > 0))
               => \/ q \in lost'
                  \/ q \in reg' /\ msgs'[q] > 0
                  \/ q \in freed']_(Sig!vars)
  BY <1>1 DEF Sig!Queue, Queue
<1> QED
  BY SigAlone, SigSpecInv, <1>2, PTL DEF Sig!Spec, MuteForEver, Sig!MuteForEver
=============================================================================
