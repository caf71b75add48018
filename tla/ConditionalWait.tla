--------------------------- MODULE ConditionalWait ---------------------------
(***************************************************************************)
(* conditional_wait/src/main.c: N threads print one line each, thread t    *)
(* when count = t, taking turns with one mutex and one condition variable. *)
(* The program has N = 4; function1 .. function4 differ only in the number *)
(* they wait for and in that the last one does not increment count.        *)
(*                                                                         *)
(* The mutex and the condition variable are those of POSIX:                *)
(* pthread_cond_wait releases the mutex and starts waiting in one step,    *)
(* takes the mutex again before it returns, and may return without a       *)
(* broadcast.  pthread_create is assumed to succeed.                       *)
(***************************************************************************)
EXTENDS Integers, Sequences

CONSTANTS N,           \* number of threads
          MaxSpurious  \* how many times pthread_cond_wait returns unasked

ASSUME WaitAssumption == N \in Nat \ {0} /\ MaxSpurious \in Nat

VARIABLES count,     \* the global: whose turn it is
          mutex,     \* the thread that holds the mutex, 0 when it is free
          pc,        \* where each thread is
          log,       \* the lines printed, oldest first
          created,   \* how many pthread_create calls main has made
          joined,    \* how many pthread_join calls of main have returned
          spurious   \* wakeups without a broadcast so far

vars == <<count, mutex, pc, log, created, joined, spurious>>

Thread == 1 .. N

\* new: not created; lock: at pthread_mutex_lock; check: has the mutex, at the
\* if; unlock: has printed, still has the mutex; broadcast: released it;
\* waiting: inside pthread_cond_wait; relock: woken, needs the mutex to return;
\* woken: returned from pthread_cond_wait; done: returned NULL.
Location == {"new", "lock", "check", "unlock", "broadcast",
             "waiting", "relock", "woken", "done"}

\* Where a thread holds the mutex.
Critical == {"check", "unlock", "woken"}

Goto(t, l) == pc' = [pc EXCEPT ![t] = l]

Init == /\ count = 1
        /\ mutex = 0
        /\ pc = [t \in Thread |-> "new"]
        /\ log = <<>>
        /\ created = 0 /\ joined = 0 /\ spurious = 0
-----------------------------------------------------------------------------
(* main. *)

\* main creates the threads from the last to the first.
Create == /\ created < N
          /\ created' = created + 1
          /\ Goto(N - created, "lock")
          /\ UNCHANGED <<count, mutex, log, joined, spurious>>

\* main joins them from the first to the last.
Join == /\ created = N /\ joined < N
        /\ pc[joined + 1] = "done"
        /\ joined' = joined + 1
        /\ UNCHANGED <<count, mutex, pc, log, created, spurious>>

Returned == joined = N
-----------------------------------------------------------------------------
(* function1 .. functionN. *)

Lock(t) == /\ pc[t] = "lock"
           /\ mutex = 0
           /\ mutex' = t
           /\ Goto(t, "check")
           /\ UNCHANGED <<count, log, created, joined, spurious>>

\* Mutant: the first thread to arrive prints without looking at count.
TakeTurn_AnyTurn(t) ==
  /\ pc[t] = "check" /\ (count = t \/ log = <<>>)
  /\ log' = Append(log, t)
  /\ count' = IF t < N THEN count + 1 ELSE count
  /\ Goto(t, "unlock")
  /\ UNCHANGED <<mutex, created, joined, spurious>>

TakeTurn(t) == /\ pc[t] = "check"
               /\ count = t
               /\ log' = Append(log, t)
               /\ count' = IF t < N THEN count + 1 ELSE count
               /\ Goto(t, "unlock")
               /\ UNCHANGED <<mutex, created, joined, spurious>>

Unlock(t) == /\ pc[t] = "unlock"
             /\ mutex' = 0
             /\ Goto(t, "broadcast")
             /\ UNCHANGED <<count, log, created, joined, spurious>>

\* Mutant: pthread_cond_signal wakes a single waiter.
Broadcast_Signal(t) ==
  /\ pc[t] = "broadcast"
  /\ \/ \E w \in Thread : /\ pc[w] = "waiting"
                          /\ pc' = [pc EXCEPT ![t] = "done", ![w] = "relock"]
     \/ /\ \A w \in Thread : pc[w] # "waiting"
        /\ Goto(t, "done")
  /\ UNCHANGED <<count, mutex, log, created, joined, spurious>>

Broadcast(t) ==
  /\ pc[t] = "broadcast"
  /\ pc' = [w \in Thread |-> IF w = t THEN "done"
                             ELSE IF pc[w] = "waiting" THEN "relock" ELSE pc[w]]
  /\ UNCHANGED <<count, mutex, log, created, joined, spurious>>

\* pthread_cond_wait: release the mutex and wait.
Wait(t) == /\ pc[t] = "check"
           /\ count # t
           /\ mutex' = 0
           /\ Goto(t, "waiting")
           /\ UNCHANGED <<count, log, created, joined, spurious>>

SpuriousWakeup(t) == /\ pc[t] = "waiting"
                     /\ spurious < MaxSpurious
                     /\ spurious' = spurious + 1
                     /\ Goto(t, "relock")
                     /\ UNCHANGED <<count, mutex, log, created, joined>>

\* pthread_cond_wait takes the mutex and returns.
Relock(t) == /\ pc[t] = "relock"
             /\ mutex = 0
             /\ mutex' = t
             /\ Goto(t, "woken")
             /\ UNCHANGED <<count, log, created, joined, spurious>>

\* The mutex is released only to be locked again at the top of the loop.
UnlockAndRetry(t) == /\ pc[t] = "woken"
                     /\ mutex' = 0
                     /\ Goto(t, "lock")
                     /\ UNCHANGED <<count, log, created, joined, spurious>>

Step(t) == \/ Lock(t) \/ TakeTurn(t) \/ Unlock(t) \/ Broadcast(t)
           \/ Wait(t) \/ Relock(t) \/ UnlockAndRetry(t)

\* main has returned and the process is gone.
Terminated == Returned /\ UNCHANGED vars

Next == \/ Create \/ Join \/ Terminated
        \/ \E t \in Thread : Step(t) \/ SpuriousWakeup(t)

\* Every thread that can run eventually runs.  Spurious wakeups are never
\* forced.
Fairness == /\ WF_vars(Create) /\ WF_vars(Join)
            /\ \A t \in Thread : WF_vars(Step(t))

Spec == Init /\ [][Next]_vars /\ Fairness
-----------------------------------------------------------------------------
(* Properties. *)

\* Types; count never passes the last thread's number, so no thread waits for
\* a turn that cannot come.
TypeOK == /\ count \in Thread
          /\ mutex \in 0 .. N
          /\ pc \in [Thread -> Location]
          /\ log \in Seq(Thread)
          /\ created \in 0 .. N
          /\ joined \in 0 .. N
          /\ spurious \in 0 .. MaxSpurious

\* The lines come out as Function 1, Function 2, ... however the threads are
\* created, scheduled and woken, and none is printed twice.
PrintOrder == log = [i \in 1 .. Len(log) |-> i]

\* The thread whose turn it is never sleeps through its turn: if it is inside
\* pthread_cond_wait, its predecessor has still to broadcast.
NoLostWakeup ==
  \A t \in Thread : (pc[t] = "waiting" /\ count = t) =>
                       t > 1 /\ pc[t - 1] \in {"unlock", "broadcast"}

\* main returns, which ends the process, only when every line is printed and
\* no thread still holds or needs the mutex.
ReturnsLast == Returned => /\ Len(log) = N
                           /\ mutex = 0
                           /\ \A t \in Thread : pc[t] = "done"

\* Every run of the program ends.
Termination == <>Returned
=============================================================================
