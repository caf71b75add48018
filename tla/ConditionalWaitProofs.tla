------------------------ MODULE ConditionalWaitProofs ------------------------
(***************************************************************************)
(* Safety of conditional_wait/src/main.c for every number of threads and   *)
(* any number of spurious wakeups.  The inductive invariant says who holds *)
(* the mutex, that the threads which have printed are exactly 1 .. k for   *)
(* the k lines printed, and that count follows k.                          *)
(***************************************************************************)
EXTENDS ConditionalWait, SequenceTheorems, TLAPS

\* Where a thread has printed its line.
Printed == {"unlock", "broadcast", "done"}

\* The mutex belongs to the one thread that is inside a critical section.
OwnerInv == \A t \in Thread : pc[t] \in Critical <=> mutex = t

\* The threads that have printed are the first ones, in order, and count names
\* the next one (or stays at the last).
TurnInv == /\ Len(log) \in 0 .. N
           /\ \A i \in 1 .. Len(log) : log[i] = i
           /\ \A t \in Thread : pc[t] \in Printed <=> t <= Len(log)
           /\ count = IF Len(log) < N THEN Len(log) + 1 ELSE N

\* Threads not created yet have not started, joined ones are done.
MainInv == /\ created < N => joined = 0
           /\ \A t \in Thread : pc[t] = "new" <=> t <= N - created
           /\ \A t \in Thread : t <= joined => pc[t] = "done"

IInv == TypeOK /\ OwnerInv /\ TurnInv /\ NoLostWakeup /\ MainInv

USE DEF Thread, Location

LEMMA InitIInv == Init => IInv
BY WaitAssumption DEF Init, IInv, TypeOK, OwnerInv, TurnInv, NoLostWakeup, MainInv,
                      Critical, Printed

LEMMA TypeStep == TypeOK /\ TurnInv /\ [Next]_vars => TypeOK'
<1> SUFFICES ASSUME TypeOK, TurnInv, [Next]_vars PROVE TypeOK'
  OBVIOUS
<1> USE WaitAssumption
<1>1. CASE Create
  BY <1>1 DEF Create, Goto, TypeOK
<1>2. CASE Join
  BY <1>2 DEF Join, TypeOK
<1>3. CASE UNCHANGED vars
  BY <1>3 DEF vars, TypeOK
<1>4. ASSUME NEW t \in Thread, Lock(t) \/ Unlock(t) \/ Wait(t) \/ Relock(t) \/ UnlockAndRetry(t)
      PROVE  TypeOK'
  BY <1>4 DEF Lock, Unlock, Wait, Relock, UnlockAndRetry, Goto, TypeOK
<1>5. ASSUME NEW t \in Thread, TakeTurn(t) PROVE TypeOK'
  BY <1>5 DEF TakeTurn, Goto, TypeOK
<1>6. ASSUME NEW t \in Thread, Broadcast(t) PROVE TypeOK'
  BY <1>6 DEF Broadcast, TypeOK
<1>7. ASSUME NEW t \in Thread, SpuriousWakeup(t) PROVE TypeOK'
  BY <1>7 DEF SpuriousWakeup, Goto, TypeOK
<1> QED
  BY <1>1, <1>2, <1>3, <1>4, <1>5, <1>6, <1>7 DEF Next, Step, Terminated

LEMMA OwnerStep == IInv /\ [Next]_vars => OwnerInv'
<1> SUFFICES ASSUME IInv, [Next]_vars PROVE OwnerInv'
  OBVIOUS
<1> USE WaitAssumption DEF IInv, TypeOK, OwnerInv, Critical
<1>1. CASE Create
  <2>1. N - created \in Thread /\ pc[N - created] = "new"
    BY <1>1 DEF Create, MainInv
  <2> QED
    BY <1>1, <2>1 DEF Create, Goto
<1>2. CASE Join \/ UNCHANGED vars
  BY <1>2 DEF Join, vars
<1>3. ASSUME NEW t \in Thread, Lock(t) \/ Relock(t) PROVE OwnerInv'
  BY <1>3 DEF Lock, Relock, Goto
<1>4. ASSUME NEW t \in Thread, Unlock(t) \/ Wait(t) \/ UnlockAndRetry(t) PROVE OwnerInv'
  BY <1>4 DEF Unlock, Wait, UnlockAndRetry, Goto
<1>5. ASSUME NEW t \in Thread, TakeTurn(t) \/ Broadcast(t) \/ SpuriousWakeup(t)
      PROVE  OwnerInv'
  BY <1>5 DEF TakeTurn, Broadcast, SpuriousWakeup, Goto
<1> QED
  BY <1>1, <1>2, <1>3, <1>4, <1>5 DEF Next, Step, Terminated

LEMMA TurnStep == IInv /\ [Next]_vars => TurnInv'
<1> SUFFICES ASSUME IInv, [Next]_vars PROVE TurnInv'
  OBVIOUS
<1> USE WaitAssumption DEF IInv, TypeOK, TurnInv, Printed
<1>1. CASE Create
  <2>1. N - created \in Thread /\ pc[N - created] = "new"
    BY <1>1 DEF Create, MainInv
  <2> QED
    BY <1>1, <2>1 DEF Create, Goto
<1>2. CASE Join \/ UNCHANGED vars
  BY <1>2 DEF Join, vars
<1>3. ASSUME NEW t \in Thread,
             Lock(t) \/ Unlock(t) \/ Wait(t) \/ Relock(t) \/ UnlockAndRetry(t) \/ SpuriousWakeup(t)
      PROVE  TurnInv'
  BY <1>3 DEF Lock, Unlock, Wait, Relock, UnlockAndRetry, SpuriousWakeup, Goto
<1>4. ASSUME NEW t \in Thread, TakeTurn(t) PROVE TurnInv'
  <2>1. Len(log) = t - 1
    BY <1>4 DEF TakeTurn
  <2>2. Len(log') = t /\ \A i \in 1 .. t : log'[i] = i
    BY <1>4, <2>1 DEF TakeTurn
  <2>3. \A s \in Thread : pc'[s] \in Printed <=> s <= t
    BY <1>4, <2>1 DEF TakeTurn, Goto
  <2> QED
    BY <1>4, <2>1, <2>2, <2>3 DEF TakeTurn
<1>5. ASSUME NEW t \in Thread, Broadcast(t) PROVE TurnInv'
  BY <1>5 DEF Broadcast
<1> QED
  BY <1>1, <1>2, <1>3, <1>4, <1>5 DEF Next, Step, Terminated

LEMMA WakeupStep == IInv /\ [Next]_vars => NoLostWakeup'
<1> SUFFICES ASSUME IInv, [Next]_vars PROVE NoLostWakeup'
  OBVIOUS
<1> USE WaitAssumption DEF IInv, TypeOK, NoLostWakeup
<1>1. CASE Create
  <2>1. N - created \in Thread /\ pc[N - created] = "new"
    BY <1>1 DEF Create, MainInv
  <2> QED
    BY <1>1, <2>1 DEF Create, Goto
<1>2. CASE Join \/ UNCHANGED vars
  BY <1>2 DEF Join, vars
<1>3. ASSUME NEW t \in Thread,
             Lock(t) \/ Unlock(t) \/ Wait(t) \/ Relock(t) \/ UnlockAndRetry(t) \/ SpuriousWakeup(t)
      PROVE  NoLostWakeup'
  BY <1>3 DEF Lock, Unlock, Wait, Relock, UnlockAndRetry, SpuriousWakeup, Goto
<1>4. ASSUME NEW t \in Thread, TakeTurn(t) PROVE NoLostWakeup'
  \* The only thread whose turn can begin is t + 1, and t has yet to broadcast.
  BY <1>4 DEF TakeTurn, Goto
<1>5. ASSUME NEW t \in Thread, Broadcast(t) PROVE NoLostWakeup'
  \* Nobody waits after a broadcast.
  BY <1>5 DEF Broadcast
<1> QED
  BY <1>1, <1>2, <1>3, <1>4, <1>5 DEF Next, Step, Terminated

LEMMA MainStep == IInv /\ [Next]_vars => MainInv'
<1> SUFFICES ASSUME IInv, [Next]_vars PROVE MainInv'
  OBVIOUS
<1> USE WaitAssumption DEF IInv, TypeOK, MainInv
<1>1. CASE Create
  BY <1>1 DEF Create, Goto
<1>2. CASE Join \/ UNCHANGED vars
  BY <1>2 DEF Join, vars
<1>3. ASSUME NEW t \in Thread, Lock(t) \/ Unlock(t) \/ Wait(t) \/ TakeTurn(t)
      PROVE  MainInv'
  BY <1>3 DEF Lock, Unlock, Wait, TakeTurn, Goto
<1>4. ASSUME NEW t \in Thread, Relock(t) \/ UnlockAndRetry(t) \/ SpuriousWakeup(t)
      PROVE  MainInv'
  BY <1>4 DEF Relock, UnlockAndRetry, SpuriousWakeup, Goto
<1>5. ASSUME NEW t \in Thread, Broadcast(t) PROVE MainInv'
  BY <1>5 DEF Broadcast
<1> QED
  BY <1>1, <1>2, <1>3, <1>4, <1>5 DEF Next, Step, Terminated

LEMMA Inductive == Spec => []IInv
<1>1. IInv /\ [Next]_vars => IInv'
  BY TypeStep, OwnerStep, TurnStep, WakeupStep, MainStep DEF IInv
<1> QED
  BY InitIInv, <1>1, PTL DEF Spec

(* Types hold for every number of threads: count stays a thread's number. *)
THEOREM TypeCorrect == Spec => []TypeOK
<1>1. IInv => TypeOK
  BY DEF IInv
<1> QED
  BY Inductive, <1>1, PTL

(* The lines are printed in the order 1, 2, ... whatever the schedule. *)
THEOREM OrderCorrect == Spec => []PrintOrder
<1>1. IInv => PrintOrder
  <2> SUFFICES ASSUME IInv PROVE log = [i \in 1 .. Len(log) |-> i]
    BY DEF PrintOrder
  <2>1. /\ log \in [1 .. Len(log) -> Thread]
        /\ \A i \in 1 .. Len(log) : log[i] = i
    BY LenProperties DEF IInv, TypeOK, TurnInv
  <2> QED
    BY <2>1
<1> QED
  BY Inductive, <1>1, PTL

(* pthread_cond_broadcast after the unlock loses no wakeup: a thread that   *)
(* sleeps while it is its turn has a predecessor that will still wake it.   *)
THEOREM NoWakeupIsLost == Spec => []NoLostWakeup
<1>1. IInv => NoLostWakeup
  BY DEF IInv
<1> QED
  BY Inductive, <1>1, PTL

(* main returns only when all N lines are out and every thread is done. *)
THEOREM ReturnCorrect == Spec => []ReturnsLast
<1>1. IInv => ReturnsLast
  <2> SUFFICES ASSUME IInv, Returned
               PROVE  /\ Len(log) = N /\ mutex = 0
                      /\ \A t \in Thread : pc[t] = "done"
    BY DEF ReturnsLast
  <2>1. \A t \in Thread : pc[t] = "done"
    BY DEF IInv, MainInv, Returned, TypeOK
  <2>2. Len(log) = N
    <3>1. N \in Thread /\ pc[N] \in Printed
      BY <2>1, WaitAssumption DEF Printed
    <3> QED
      <4>1. N <= Len(log) /\ Len(log) \in 0 .. N
        BY <3>1 DEF IInv, TurnInv
      <4> QED
        BY <4>1, WaitAssumption
  <2>3. mutex = 0
    BY <2>1, WaitAssumption DEF IInv, OwnerInv, Critical, TypeOK
  <2> QED
    BY <2>1, <2>2, <2>3
<1> QED
  BY Inductive, <1>1, PTL
=============================================================================
