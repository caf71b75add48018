------------------------------ MODULE Buttons ------------------------------
(***************************************************************************)
(* embedded_button_checker/src/buttons.c: a list of buttons, used by the   *)
(* tasks of a FreeRTOS application under the mutex bt.lock.                *)
(*                                                                         *)
(* buttonInit creates the mutex and a task that begins by calling          *)
(* buttonInit again: every such task replaces the mutex, whoever holds it  *)
(* or waits for it, until the heap has no room for another task.           *)
(* buttonAdd writes the new button into the element before the one it      *)
(* allocates, so the last element has neither identifier nor poll          *)
(* function.  FreeRTOS is modelled from how it is used here.               *)
(***************************************************************************)
EXTENDS Integers, FiniteSets

CONSTANTS Task,       \* the application's tasks
          None,       \* no task
          Ident,      \* identifiers of buttons
          MaxAdd,     \* buttons that are added
          MaxTasks    \* button tasks that the heap has room for

ASSUME ButtonsAssumption == None \notin Task /\ MaxAdd \in Nat /\ MaxTasks \in Nat

VARIABLES system,     \* "up"; "exited" by exit(); "halted" by a failed assertion or a fault
          lock,       \* bt.lock: the number of the mutex, 0 for NULL
          owner,      \* who holds each mutex
          inits,      \* calls of buttonInit so far
          ready,      \* button tasks that have not called buttonInit yet
          op, arg,    \* each task's current call, and the identifier it was given
          pc,         \* its next step
          want,       \* the mutex it takes, 0 for none
          iter,       \* its iterator: an element of the list, 0 for bt.head
          next,       \* each element's next, 0 for NULL
          ident,      \* each element's identifier, 0 as long as it has none
          added,      \* elements allocated so far
          freed,      \* elements freed
          count,      \* bt.button_count
          replaced,   \* "yes" once the mutex was replaced while a call used it
          overlap     \* "yes" once two tasks were at the list at the same time

mutexes == <<lock, owner, inits, ready, replaced>>
list == <<next, ident, added, freed, count>>
calls == <<op, arg, pc, want, iter>>
vars == <<system, mutexes, calls, list, overlap>>

Element == 0 .. MaxAdd
Up == system = "up"
AtList(t) == pc[t] \in {"walk", "act", "give"}
InCall(t) == pc[t] = "take" \/ AtList(t)

Init == /\ system = "up"
        /\ lock = 0 /\ inits = 0 /\ ready = 0
        /\ owner = [h \in 1 .. MaxTasks + 1 |-> None]
        /\ op = [t \in Task |-> "none"] /\ arg = [t \in Task |-> 0]
        /\ pc = [t \in Task |-> "idle"]
        /\ want = [t \in Task |-> 0] /\ iter = [t \in Task |-> 0]
        /\ next = [e \in Element |-> 0] /\ ident = [e \in Element |-> 0]
        /\ added = 0 /\ freed = {} /\ count = 0
        /\ replaced = "no" /\ overlap = "no"
-----------------------------------------------------------------------------
(* buttonInit. *)

\* A new mutex, or NULL, and a new task; without room for the task, exit().
buttonInit == /\ inits' = inits + 1
              /\ lock' \in {inits', 0}
              /\ \/ inits < MaxTasks /\ ready' = 1 /\ UNCHANGED system
                 \/ system' = "exited" /\ ready' = 0
              /\ replaced' = IF \E t \in Task : InCall(t) THEN "yes" ELSE replaced
              /\ UNCHANGED owner

\* The application's call, once.
CallInit == /\ Up /\ inits = 0
            /\ buttonInit
            /\ UNCHANGED <<calls, list, overlap>>

buttonTask == /\ Up /\ ready = 1
              /\ buttonInit
              /\ UNCHANGED <<calls, list, overlap>>
-----------------------------------------------------------------------------
(* Calls of the application's tasks. *)

\* A task begins a call and reads bt.lock, once for its test and its use.
\* buttonFind and buttonGetPresses do not test the mutex before they take it,
\* and FreeRTOS asserts that it is not NULL.
Begin(t) == /\ Up /\ pc[t] = "idle"
            /\ \E o \in {"add", "delete", "find", "presses"}, i \in Ident :
                 /\ o = "add" => added < MaxAdd
                 /\ o = "presses" => i = CHOOSE j \in Ident : TRUE
                 /\ op' = [op EXCEPT ![t] = o]
                 /\ arg' = [arg EXCEPT ![t] = i]
                 /\ system' = IF o \in {"find", "presses"} /\ lock = 0 THEN "halted" ELSE "up"
            /\ want' = [want EXCEPT ![t] = lock]
            /\ pc' = [pc EXCEPT ![t] = "take"]
            /\ UNCHANGED <<mutexes, iter, list, overlap>>

\* Mutant: the call gives up waiting for the mutex and goes on.
Take_NoWait(t) == /\ Up /\ pc[t] = "take"
                  /\ owner' = IF want[t] = 0 THEN owner ELSE [owner EXCEPT ![want[t]] = t]
                  /\ pc' = [pc EXCEPT ![t] = "walk"]
                  /\ overlap' = IF \E u \in Task : AtList(u) THEN "yes" ELSE overlap
                  /\ UNCHANGED <<system, lock, inits, ready, replaced, op, arg, want, iter, list>>

\* The mutex that was read is taken, for as long as it takes.
Take(t) == /\ Up /\ pc[t] = "take"
           /\ \/ want[t] = 0 /\ UNCHANGED owner
              \/ /\ want[t] # 0 /\ owner[want[t]] = None
                 /\ owner' = [owner EXCEPT ![want[t]] = t]
           /\ pc' = [pc EXCEPT ![t] = "walk"]
           /\ overlap' = IF \E u \in Task : AtList(u) THEN "yes" ELSE overlap
           /\ UNCHANGED <<system, lock, inits, ready, replaced, op, arg, want, iter, list>>

\* The loop stops at the element before the one that is looked for, or at the last.
Stops(t) == \/ next[iter[t]] = 0
            \/ op[t] \in {"delete", "find"} /\ ident[next[iter[t]]] = arg[t]

\* One turn of the loop.  Freed memory still holds what it held, or is a fault.
Walk(t) == /\ Up /\ pc[t] = "walk"
           /\ \/ Stops(t) /\ pc' = [pc EXCEPT ![t] = "act"] /\ UNCHANGED iter
              \/ ~Stops(t) /\ iter' = [iter EXCEPT ![t] = next[iter[t]]] /\ UNCHANGED pc
           /\ \/ UNCHANGED system
              \/ {iter[t], next[iter[t]]} \cap freed # {} /\ system' = "halted"
           /\ UNCHANGED <<mutexes, op, arg, want, list, overlap>>

\* Mutant: the button is counted, but linked in behind bt.head.
Add_AtHead(t) == \/ /\ added < MaxAdd
                    /\ added' = added + 1 /\ count' = count + 1
                    /\ next' = [next EXCEPT ![0] = added + 1]
                    /\ ident' = [ident EXCEPT ![0] = arg[t]]
                    /\ UNCHANGED <<system, freed>>
                 \/ system' = "exited" /\ UNCHANGED list

\* An element is linked in; the arguments go into the one before it.
Add(t) == \/ /\ added < MaxAdd
             /\ added' = added + 1 /\ count' = count + 1
             /\ next' = [next EXCEPT ![iter[t]] = added + 1]
             /\ ident' = [ident EXCEPT ![iter[t]] = arg[t]]
             /\ UNCHANGED <<system, freed>>
          \/ system' = "exited" /\ UNCHANGED list

\* The element found is unlinked and freed.  bt.head, which holds the first
\* button's identifier, is never looked at.
Delete(t) == LET d == next[iter[t]]
             IN  /\ \/ /\ d # 0 /\ ident[d] = arg[t]
                       /\ next' = [next EXCEPT ![iter[t]] = next[d]]
                       /\ freed' = freed \cup {d}
                       /\ count' = count - 1
                    \/ (d = 0 \/ ident[d] # arg[t]) /\ UNCHANGED <<next, freed, count>>
                 /\ UNCHANGED <<system, ident, added>>

\* No memory for the result, a poll function that is NULL, or a result that
\* does not fit may end it all.
Presses(t) == /\ \/ system' \in {"up", "exited"}
                 \/ next[0] # 0 /\ system' = "halted"
              /\ UNCHANGED list

\* Mutant: buttonDelete returns at once when there is no such button.
Act_EarlyReturn(t) ==
  /\ Up /\ pc[t] = "act"
  /\ \/ iter[t] \notin freed /\ op[t] = "add" /\ Add(t)
     \/ iter[t] \notin freed /\ op[t] = "delete" /\ Delete(t)
     \/ op[t] = "presses" /\ Presses(t)
     \/ op[t] = "find" /\ UNCHANGED <<system, list>>
     \/ /\ iter[t] \in freed /\ op[t] \in {"add", "delete"}
        /\ system' \in {"up", "halted"} /\ UNCHANGED list
  /\ IF op[t] = "delete" /\ UNCHANGED freed
     THEN pc' = [pc EXCEPT ![t] = "idle"] ELSE pc' = [pc EXCEPT ![t] = "give"]
  /\ UNCHANGED <<mutexes, op, arg, want, iter, overlap>>

\* The body of the call; a write to freed memory is a fault, or has no effect.
Act(t) == /\ Up /\ pc[t] = "act"
          /\ \/ iter[t] \notin freed /\ op[t] = "add" /\ Add(t)
             \/ iter[t] \notin freed /\ op[t] = "delete" /\ Delete(t)
             \/ op[t] = "presses" /\ Presses(t)
             \/ op[t] = "find" /\ UNCHANGED <<system, list>>
             \/ /\ iter[t] \in freed /\ op[t] \in {"add", "delete"}
                /\ system' \in {"up", "halted"} /\ UNCHANGED list
          /\ pc' = [pc EXCEPT ![t] = "give"]
          /\ UNCHANGED <<mutexes, op, arg, want, iter, overlap>>

\* A call ends; its variables are no more.
Done(t) == /\ pc' = [pc EXCEPT ![t] = "idle"] /\ op' = [op EXCEPT ![t] = "none"]
           /\ arg' = [arg EXCEPT ![t] = 0]
           /\ want' = [want EXCEPT ![t] = 0] /\ iter' = [iter EXCEPT ![t] = 0]

\* The mutex that bt.lock names by now is given back.  If it is not the task's
\* own, nothing happens when it is free; when another holds it, that is an
\* assertion failure, or takes the mutex from the other.
Give(t) ==
  /\ Up /\ pc[t] = "give"
  /\ \/ lock = 0 /\ op[t] \in {"add", "delete"} /\ UNCHANGED <<system, owner>>
     \/ lock = 0 /\ op[t] \notin {"add", "delete"} /\ system' = "halted" /\ UNCHANGED owner
     \/ lock # 0 /\ owner' = [owner EXCEPT ![lock] = None] /\ UNCHANGED system
     \/ lock # 0 /\ owner[lock] \notin {t, None} /\ system' = "halted" /\ UNCHANGED owner
  /\ IF op[t] = "find" THEN pc' = [pc EXCEPT ![t] = "read"] /\ UNCHANGED <<op, arg, want, iter>>
                       ELSE Done(t)
  /\ UNCHANGED <<lock, inits, ready, replaced, list, overlap>>

\* buttonFind reads its result from the list after it has given the mutex back.
Read(t) == /\ Up /\ pc[t] = "read"
           /\ system' \in IF iter[t] \in freed THEN {"up", "halted"} ELSE {"up"}
           /\ Done(t)
           /\ UNCHANGED <<mutexes, list, overlap>>

Call(t) == Take(t) \/ Walk(t) \/ Act(t) \/ Give(t) \/ Read(t)

Next == CallInit \/ buttonTask \/ \E t \in Task : Begin(t) \/ Call(t)

Spec == Init /\ [][Next]_vars
-----------------------------------------------------------------------------
(* Properties. *)

\* Types.
TypeOK == /\ system \in {"up", "exited", "halted"}
          /\ lock \in 0 .. MaxTasks + 1 /\ inits \in 0 .. MaxTasks + 1 /\ ready \in {0, 1}
          /\ owner \in [1 .. MaxTasks + 1 -> Task \cup {None}]
          /\ op \in [Task -> {"none", "add", "delete", "find", "presses"}]
          /\ arg \in [Task -> Ident \cup {0}]
          /\ pc \in [Task -> {"idle", "take", "walk", "act", "give", "read"}]
          /\ want \in [Task -> 0 .. MaxTasks + 1] /\ iter \in [Task -> Element]
          /\ next \in [Element -> Element] /\ ident \in [Element -> Ident \cup {0}]
          /\ added \in Element /\ freed \subseteq Element /\ count \in Int
          /\ {replaced, overlap} \subseteq {"yes", "no"}

\* As long as no button task has replaced the mutex while a call used it: a
\* mutex is held by a call at the list, which took that very mutex, and two
\* calls are at the list together only if one of them began before there was a
\* mutex (buttons.c:43, 78, 144).
SoleUserOfList ==
  replaced = "no" =>
    /\ \A h \in DOMAIN owner : owner[h] # None => AtList(owner[h]) /\ want[owner[h]] = h
    /\ \A t, u \in Task : t # u /\ AtList(t) /\ AtList(u) => 0 \in {want[t], want[u]}

\* The elements of the list, bt.head included: those in every set that has
\* bt.head and the next of each of its elements.
Closed(S) == 0 \in S /\ \A e \in S : next[e] # 0 => next[e] \in S
InList == {e \in Element : \A S \in SUBSET Element : Closed(S) => e \in S}

\* As long as no two calls were at the list together: a call at the list is at
\* an element of the list, freed ones are in it no more, and button_count is
\* its length whenever nobody is at it (buttons.c:65, 77, 94-103).
ListIsIntact ==
  overlap = "no" => /\ \A t \in Task : AtList(t) => iter[t] \in InList
                    /\ InList \cap freed = {}
                    /\ (\A t \in Task : ~AtList(t)) => count = Cardinality(InList) - 1

\* The mutex that bt.lock names is held by nobody, or by a call that is at the
\* list and has yet to give a mutex back, even after button tasks have replaced
\* it under calls.  A mutex that was replaced may stay with a task that has left
\* the list, and the calls that wait for it wait for ever; no call that begins
\* after that joins them (buttons.c:50, 78, 105, 130, 144).
LockComesBack == lock # 0 /\ owner[lock] # None => AtList(owner[lock])
=============================================================================
