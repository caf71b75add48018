---------------------------- MODULE StateMachine ----------------------------
(***************************************************************************)
(* state_machine/src/sm.c: the list of an application's states and the     *)
(* task that runs them.                                                    *)
(*                                                                         *)
(* addState puts the number it returns into the element before the one it  *)
(* adds, which may be sm.head, and findState never looks at sm.head.       *)
(* statesHandlerTask tests the address of smInit where it should call it,  *)
(* so neither the queue nor sm.current is ever set.  A state is named by   *)
(* the call of addState that added it; 0 is sm.head.                       *)
(***************************************************************************)
EXTENDS Integers, Sequences, SequencesExt

CONSTANT MaxStates     \* calls of addState

VARIABLES system,      \* as in Buttons: "up", "exited", "halted"
          states,      \* the states behind sm.head, in the order of the list
          _ID,         \* each state's number, 0 if it has none
          _state_count,
          made         \* calls of addState so far

sm == <<states, _ID, _state_count, made>>

Init == /\ system = "up"
        /\ states = <<>> /\ _ID = [s \in 0 .. MaxStates |-> 0] /\ _state_count = 0
        /\ made = 0

\* A state is added at the end; the one before it gets the number.  Without
\* memory for it a NULL pointer is written through.
addState == /\ system = "up"
            /\ \/ /\ made < MaxStates
                  /\ made' = made + 1
                  /\ _state_count' = _state_count + 1
                  /\ states' = Append(states, made')
                  /\ _ID' = [_ID EXCEPT ![Last(<<0>> \o states)] = _state_count']
                  /\ UNCHANGED system
               \/ system' = "halted" /\ UNCHANGED sm

\* The places of the states with a number.
Places(id) == {i \in DOMAIN states : _ID[states[i]] = id}

\* The first state with a number, or 0 for NULL.
findState(id) == IF Places(id) = {} THEN 0 ELSE states[Min(Places(id))]

\* The list without the state that has the number, unless that is 0, which is
\* what the last state has.
Without(id) == IF findState(id) # 0 /\ id # 0
               THEN RemoveAt(states, Min(Places(id))) ELSE states

\* Mutant: deleteState keeps _state_count the length of the list, as
\* buttonDelete does with button_count.
deleteState_Recount == /\ system = "up"
                       /\ \E id \in 0 .. MaxStates : states' = Without(id)
                       /\ _state_count' = Len(states')
                       /\ UNCHANGED <<system, _ID, made>>

\* A state is removed; its number is not given away again.
deleteState == /\ system = "up"
               /\ \E id \in 0 .. MaxStates : states' = Without(id)
               /\ UNCHANGED <<system, _ID, _state_count, made>>

\* The task's first turn: the queue was never created, and sm.current is NULL.
statesHandlerTask == system = "up" /\ system' = "halted" /\ UNCHANGED sm

Next == addState \/ deleteState \/ statesHandlerTask

Spec == Init /\ [][Next]_<<system, sm>>
-----------------------------------------------------------------------------
(* Properties. *)

\* A number that one of the calls of addState has returned keeps its meaning:
\* whatever is added and deleted, it finds the state it found so far or, once
\* that was deleted, nothing, ever after.  So a number that waits in the queue while its state is
\* deleted, or that the application uses twice, never enters or deletes another
\* state (sm.c:50, 73-81, 118).
NumbersKeepMeaning ==
  [][\A k \in 1 .. made : findState(k)' \in {findState(k), 0}]_sm
=============================================================================
