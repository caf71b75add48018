----------------------------- MODULE MCEmbedded -----------------------------
(***************************************************************************)
(* An embedded application that links the button checker or the state      *)
(* machine.  The two share nothing but the system, so that their steps in  *)
(* turns would add nothing: a behaviour uses the one or the other.         *)
(***************************************************************************)
EXTENDS Buttons

CONSTANT MaxStates

ASSUME StatesAssumption == MaxStates \in Nat

VARIABLES states, _ID, _state_count, made

SM == INSTANCE StateMachine

EInit == Init /\ SM!Init

ENext == \/ made = 0 /\ Next /\ UNCHANGED <<states, _ID, _state_count, made>>
         \/ inits = 0 /\ added = 0 /\ (\A t \in Task : pc[t] = "idle") /\ SM!Next
            /\ UNCHANGED <<mutexes, calls, list, overlap>>

ESpec == EInit /\ [][ENext]_<<vars, states, _ID, _state_count, made>>

\* StateMachine's NumbersKeepMeaning.
NumbersKeepMeaning == SM!NumbersKeepMeaning
=============================================================================
