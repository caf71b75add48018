--------------------------- MODULE EmbeddedProofs ---------------------------
(***************************************************************************)
(* The button list of embedded_button_checker/src/buttons.c and the states *)
(* of state_machine/src/sm.c, for every number of tasks, buttons and       *)
(* states.                                                                 *)
(***************************************************************************)
EXTENDS MCEmbedded, FiniteSetTheorems, SequenceTheorems, TLAPS

evars == <<vars, states, _ID, _state_count, made>>

Ops == {"none", "add", "delete", "find", "presses"}
Steps == {"idle", "take", "walk", "act", "give", "read"}

-----------------------------------------------------------------------------
(* The mutex. *)

\* What of the types the mutex depends on; a button task that is ready finds
\* room for one more mutex.
MutexTypes == /\ lock \in 0 .. MaxTasks + 1
              /\ inits \in 0 .. MaxTasks + 1
              /\ ready \in {0, 1}
              /\ ready = 1 => inits <= MaxTasks
              /\ owner \in [1 .. MaxTasks + 1 -> Task \cup {None}]
              /\ pc \in [Task -> Steps]
              /\ want \in [Task -> 0 .. MaxTasks + 1]
              /\ replaced \in {"yes", "no"}

\* Until the mutex is replaced under a call, every call uses the one that
\* bt.lock names, has it while it is at the list, and nobody else has one.
LockInv ==
  replaced = "no" =>
    /\ \A t \in Task : InCall(t) => want[t] = lock
    /\ \A t \in Task : AtList(t) /\ want[t] # 0 => owner[want[t]] = t
    /\ \A h \in 1 .. MaxTasks + 1 : owner[h] # None => AtList(owner[h]) /\ want[owner[h]] = h

MutexInv == MutexTypes /\ LockInv

mutexvars == <<lock, owner, inits, ready, replaced, pc, want>>

LEMMA MutexStutters == MutexInv /\ UNCHANGED mutexvars => MutexInv'
BY DEF MutexInv, MutexTypes, LockInv, mutexvars, InCall, AtList

LEMMA InitKeepsMutex == MutexInv /\ Up /\ (inits = 0 \/ ready = 1) /\ buttonInit /\ UNCHANGED calls
                          => MutexInv'
<1> SUFFICES ASSUME MutexInv, Up, inits = 0 \/ ready = 1, buttonInit, UNCHANGED calls
             PROVE  MutexInv'
  OBVIOUS
<1> USE ButtonsAssumption
<1>1. MutexTypes'
  BY DEF MutexInv, MutexTypes, buttonInit, calls
<1>2. LockInv'
  <2> SUFFICES ASSUME replaced' = "no" PROVE LockInv'
    BY DEF LockInv
  <2>1. replaced = "no" /\ \A t \in Task : ~InCall(t)
    BY DEF buttonInit
  <2>2. \A t \in Task : ~InCall(t)' /\ ~AtList(t)'
    BY <2>1 DEF calls, InCall, AtList
  <2>3. \A h \in 1 .. MaxTasks + 1 : owner[h] = None
    BY <2>1 DEF MutexInv, MutexTypes, LockInv, InCall
  <2> QED
    BY <2>2, <2>3 DEF buttonInit, LockInv
<1> QED
  BY <1>1, <1>2 DEF MutexInv

LEMMA BeginKeepsMutex == ASSUME NEW t \in Task, MutexInv, Begin(t) PROVE MutexInv'
<1>1. MutexTypes'
  BY DEF MutexInv, MutexTypes, Begin, mutexes, Steps
<1>2. LockInv'
  BY DEF MutexInv, MutexTypes, LockInv, Begin, mutexes, Steps, InCall, AtList
<1> QED
  BY <1>1, <1>2 DEF MutexInv

LEMMA TakeKeepsMutex == ASSUME NEW t \in Task, MutexInv, Take(t) PROVE MutexInv'
<1> USE ButtonsAssumption
<1>1. MutexTypes'
  BY DEF MutexInv, MutexTypes, Take, Steps
<1>2. LockInv'
  <2> SUFFICES ASSUME replaced = "no" PROVE LockInv'
    BY DEF LockInv, Take
  <2>1. \A u \in Task : InCall(u)' => want'[u] = lock'
    BY DEF MutexInv, MutexTypes, LockInv, Take, InCall, AtList
  <2>2. \A u \in Task : AtList(u)' /\ want'[u] # 0 => owner'[want'[u]] = u
    BY DEF MutexInv, MutexTypes, LockInv, Take, InCall, AtList
  <2>3. \A h \in 1 .. MaxTasks + 1 : owner'[h] # None => AtList(owner[h])' /\ want'[owner'[h]] = h
    BY DEF MutexInv, MutexTypes, LockInv, Take, InCall, AtList
  <2> QED
    BY <2>1, <2>2, <2>3 DEF LockInv, Take
<1> QED
  BY <1>1, <1>2 DEF MutexInv

LEMMA GiveKeepsMutex == ASSUME NEW t \in Task, MutexInv, Give(t) PROVE MutexInv'
<1> USE ButtonsAssumption
<1>1. MutexTypes'
  <2>1. owner' = owner \/ (lock # 0 /\ owner' = [owner EXCEPT ![lock] = None])
    BY DEF Give
  <2>2. owner' \in [1 .. MaxTasks + 1 -> Task \cup {None}]
    BY <2>1 DEF MutexInv, MutexTypes
  <2>3. pc' \in [Task -> Steps]
    BY DEF MutexInv, MutexTypes, Give, Done, Steps
  <2>4. want' \in [Task -> 0 .. MaxTasks + 1]
    <3>1. want' = want \/ want' = [want EXCEPT ![t] = 0]
      BY DEF Give, Done
    <3> QED
      BY <3>1 DEF MutexInv, MutexTypes
  <2> QED
    BY <2>2, <2>3, <2>4 DEF MutexInv, MutexTypes, Give
<1>2. LockInv'
  <2> SUFFICES ASSUME replaced = "no" PROVE LockInv'
    BY DEF LockInv, Give
  <2>1. want[t] = lock /\ AtList(t) /\ (lock # 0 => owner[lock] = t)
    BY DEF MutexInv, MutexTypes, LockInv, Give, InCall, AtList
  <2>2. \A u \in Task : u # t => pc'[u] = pc[u] /\ want'[u] = want[u]
    BY DEF MutexInv, MutexTypes, Give, Done
  <2>3. ~InCall(t)' /\ ~AtList(t)'
    BY DEF MutexInv, MutexTypes, Give, Done, InCall, AtList
  <2>4. \A h \in 1 .. MaxTasks + 1 : owner'[h] = IF h = lock THEN None ELSE owner[h]
    <3>1. CASE lock = 0
      BY <3>1 DEF Give
    <3>2. CASE lock # 0
      <4>1. owner' = [owner EXCEPT ![lock] = None]
        BY <2>1, <3>2 DEF Give
      <4> QED
        BY <4>1 DEF MutexInv, MutexTypes
    <3> QED
      BY <3>1, <3>2
  <2>5. \A h \in 1 .. MaxTasks + 1 : owner'[h] # None => owner'[h] = owner[h] /\ owner[h] # t
    BY <2>1, <2>4 DEF MutexInv, MutexTypes, LockInv
  <2>6. \A u \in Task : AtList(u) /\ want[u] # 0 /\ u # t => want[u] # lock
    BY <2>1 DEF MutexInv, MutexTypes, LockInv
  <2> QED
    BY <2>1, <2>2, <2>3, <2>4, <2>5, <2>6 DEF MutexInv, MutexTypes, LockInv, Give, InCall, AtList
<1> QED
  BY <1>1, <1>2 DEF MutexInv

LEMMA ReadKeepsMutex == ASSUME NEW t \in Task, MutexInv, Read(t) PROVE MutexInv'
<1> USE ButtonsAssumption
<1>1. MutexTypes'
  BY DEF MutexInv, MutexTypes, Read, Done, mutexes, Steps
<1>2. LockInv'
  BY DEF MutexInv, MutexTypes, LockInv, Read, Done, mutexes, InCall, AtList
<1> QED
  BY <1>1, <1>2 DEF MutexInv

LEMMA WalkKeepsMutex == ASSUME NEW t \in Task, MutexInv, Walk(t) PROVE MutexInv'
<1>1. MutexTypes'
  BY DEF MutexInv, MutexTypes, Walk, mutexes, Steps
<1>2. \A u \in Task : (AtList(u)' <=> AtList(u)) /\ (InCall(u)' <=> InCall(u))
  BY DEF MutexInv, MutexTypes, Walk, AtList, InCall
<1> QED
  BY <1>1, <1>2 DEF MutexInv, MutexTypes, LockInv, Walk, mutexes

LEMMA ActKeepsMutex == ASSUME NEW t \in Task, MutexInv, Act(t) PROVE MutexInv'
<1>1. MutexTypes'
  BY DEF MutexInv, MutexTypes, Act, mutexes, Steps
<1>2. \A u \in Task : (AtList(u)' <=> AtList(u)) /\ (InCall(u)' <=> InCall(u))
  BY DEF MutexInv, MutexTypes, Act, AtList, InCall
<1> QED
  BY <1>1, <1>2 DEF MutexInv, MutexTypes, LockInv, Act, mutexes

LEMMA NextKeepsMutex == MutexInv /\ [ENext]_evars => MutexInv'
<1> SUFFICES ASSUME MutexInv, [ENext]_evars PROVE MutexInv'
  OBVIOUS
<1>1. CASE CallInit
  BY <1>1, InitKeepsMutex DEF CallInit
<1>2. CASE buttonTask
  BY <1>2, InitKeepsMutex DEF buttonTask
<1>3. CASE \E t \in Task : Begin(t)
  BY <1>3, BeginKeepsMutex
<1>4. CASE \E t \in Task : Call(t)
  BY <1>4, TakeKeepsMutex, WalkKeepsMutex, ActKeepsMutex, GiveKeepsMutex, ReadKeepsMutex DEF Call
<1>5. CASE UNCHANGED mutexvars
  BY <1>5, MutexStutters
<1> QED
  BY <1>1, <1>2, <1>3, <1>4, <1>5
  DEF ENext, Next, evars, vars, mutexes, calls, mutexvars

LEMMA LockMeansSole == MutexInv => SoleUserOfList
BY DEF MutexInv, MutexTypes, LockInv, SoleUserOfList, InCall, AtList

\* The mutex is held by a call at the list that took it, and two calls are at
\* the list together only if one began before there was a mutex, until a button
\* task replaces the mutex under a call (buttons.c:43, 78, 144).
THEOREM OneCallAtATime == ESpec => []SoleUserOfList
<1>1. EInit => MutexInv
  BY ButtonsAssumption DEF EInit, Init, MutexInv, MutexTypes, LockInv, Steps, InCall, AtList
<1> QED
  BY <1>1, NextKeepsMutex, LockMeansSole, PTL DEF ESpec, evars

\* No mutex is named, wanted or held before it is created, and the one that
\* bt.lock names is held by a call at the list.
FreshInv == /\ lock <= inits
            /\ \A t \in Task : want[t] <= inits
            /\ \A h \in 1 .. MaxTasks + 1 : h > inits => owner[h] = None
            /\ LockComesBack

LEMMA InitKeepsFresh ==
  ASSUME MutexInv, FreshInv, inits = 0 \/ ready = 1, buttonInit, UNCHANGED calls
  PROVE  FreshInv'
<1> USE ButtonsAssumption
<1>1. /\ inits' = inits + 1 /\ lock' \in {inits', 0} /\ owner' = owner
      /\ want' = want /\ pc' = pc
  BY DEF buttonInit, calls
<1>2. inits \in Nat /\ inits' \in 1 .. MaxTasks + 1
  BY <1>1 DEF MutexInv, MutexTypes
<1>3. lock' # 0 => owner'[lock'] = None
  BY <1>1, <1>2 DEF FreshInv
<1> QED
  BY <1>1, <1>2, <1>3 DEF MutexInv, MutexTypes, FreshInv, LockComesBack

\* A call's step leaves bt.lock alone.
LEMMA CallKeepsFresh ==
  ASSUME MutexInv, FreshInv, NEW t \in Task, Begin(t) \/ Call(t)
  PROVE  FreshInv'
<1> USE ButtonsAssumption
<1>1. UNCHANGED <<lock, inits>>
  BY DEF Begin, Call, Take, Walk, Act, Give, Read, mutexes
<1>2. \A u \in Task : want'[u] <= inits
  <2>1. want' = want \/ want' = [want EXCEPT ![t] = lock] \/ want' = [want EXCEPT ![t] = 0]
    BY DEF Begin, Call, Take, Walk, Act, Give, Read, Done
  <2> QED
    BY <2>1 DEF MutexInv, MutexTypes, FreshInv
<1>3. \A h \in 1 .. MaxTasks + 1 : h > inits => owner'[h] = None
  <2>1. CASE Take(t)
    BY <2>1 DEF MutexInv, MutexTypes, FreshInv, Take
  <2>2. CASE Give(t)
    BY <2>2 DEF MutexInv, MutexTypes, FreshInv, Give
  <2>3. CASE owner' = owner
    BY <2>3 DEF FreshInv
  <2> QED
    BY <2>1, <2>2, <2>3 DEF Begin, Call, Walk, Act, Read, mutexes
<1>4. LockComesBack'
  <2> SUFFICES ASSUME lock # 0, owner'[lock] # None PROVE pc'[owner'[lock]] \in {"walk", "act", "give"}
    BY <1>1 DEF LockComesBack, AtList
  <2>0. lock \in 1 .. MaxTasks + 1
    BY DEF MutexInv, MutexTypes
  <2>1. CASE Take(t)
    BY <2>0, <2>1 DEF MutexInv, MutexTypes, FreshInv, LockComesBack, AtList, Take
  <2>2. CASE Give(t)
    <3>1. owner' = owner /\ owner[lock] # t
      BY <2>0, <2>2 DEF MutexInv, MutexTypes, Give
    <3>2. \A u \in Task : u # t => pc'[u] = pc[u]
      BY <2>2 DEF MutexInv, MutexTypes, Give, Done
    <3> QED
      BY <2>0, <3>1, <3>2 DEF MutexInv, MutexTypes, FreshInv, LockComesBack, AtList
  <2>3. CASE Begin(t) \/ Read(t)
    <3>1. owner' = owner /\ pc[t] \in {"idle", "read"}
      BY <2>3 DEF Begin, Read, mutexes
    <3>2. \A u \in Task : u # t => pc'[u] = pc[u]
      BY <2>3 DEF MutexInv, MutexTypes, Begin, Read, Done
    <3> QED
      BY <2>0, <3>1, <3>2 DEF MutexInv, MutexTypes, FreshInv, LockComesBack, AtList
  <2>4. CASE Walk(t) \/ Act(t)
    BY <2>0, <2>4 DEF MutexInv, MutexTypes, FreshInv, LockComesBack, AtList, Walk, Act, mutexes
  <2> QED
    BY <2>1, <2>2, <2>3, <2>4 DEF Call
<1> QED
  BY <1>1, <1>2, <1>3, <1>4 DEF FreshInv

\* However often the button tasks replace the mutex, and whoever holds or waits
\* for the old one, the mutex that bt.lock names is free or with a call that is
\* at the list (buttons.c:50, 78, 105, 130, 144).
THEOREM CurrentMutexComesBack == ESpec => []LockComesBack
<1>1. EInit => MutexInv /\ FreshInv
  BY ButtonsAssumption DEF EInit, Init, MutexInv, MutexTypes, LockInv, Steps, InCall, AtList,
                           FreshInv, LockComesBack
<1>2. MutexInv /\ FreshInv /\ [ENext]_evars => FreshInv'
  <2> SUFFICES ASSUME MutexInv, FreshInv, [ENext]_evars PROVE FreshInv'
    OBVIOUS
  <2>1. CASE CallInit \/ buttonTask
    BY <2>1, InitKeepsFresh DEF CallInit, buttonTask
  <2>2. CASE \E t \in Task : Begin(t) \/ Call(t)
    BY <2>2, CallKeepsFresh
  <2>3. CASE UNCHANGED mutexvars
    BY <2>3 DEF FreshInv, LockComesBack, AtList, mutexvars
  <2> QED
    BY <2>1, <2>2, <2>3 DEF ENext, Next, evars, vars, mutexes, calls, mutexvars
<1>3. FreshInv => LockComesBack
  BY DEF FreshInv
<1> QED
  BY <1>1, <1>2, <1>3, NextKeepsMutex, PTL DEF ESpec, evars
-----------------------------------------------------------------------------
(* The list. *)

ListTypes == /\ pc \in [Task -> Steps]
             /\ op \in [Task -> Ops]
             /\ iter \in [Task -> Element]
             /\ next \in [Element -> Element]
             /\ added \in Element
             /\ freed \in SUBSET Element
             /\ count \in Int
             /\ overlap \in {"yes", "no"}

\* A call begins at bt.head; the loop of buttonAdd stops at the last element.
CallsInv ==
  /\ \A t \in Task : pc[t] \in {"idle", "take"} => iter[t] = 0
  /\ overlap = "no" =>
       /\ \A t, u \in Task : AtList(t) /\ AtList(u) => t = u
       /\ \A t \in Task : AtList(t) => iter[t] \in InList
       /\ \A t \in Task : pc[t] = "act" /\ op[t] = "add" => next[iter[t]] = 0

\* Links lead to younger elements that were allocated, and no two of the list
\* to the same one; memory not yet allocated has no link.
LinksInv ==
  overlap = "no" =>
    /\ \A e \in Element : next[e] # 0 => e < next[e] /\ next[e] <= added
    /\ \A e \in Element : e > added => next[e] = 0
    /\ \A e, f \in InList : next[e] = next[f] /\ next[e] # 0 => e = f
    /\ \A e \in freed : e <= added
    /\ InList \cap freed = {}
    /\ count = Cardinality(InList) - 1

ListInv == ListTypes /\ CallsInv /\ LinksInv

\* The list that a function of next elements links together.
ClosedUnder(S, nx) == 0 \in S /\ \A e \in S : nx[e] # 0 => nx[e] \in S
Reach(nx) == {e \in Element : \A S \in SUBSET Element : ClosedUnder(S, nx) => e \in S}

LEMMA InListIsReach == InList = Reach(next) /\ InList' = Reach(next')
BY DEF InList, Closed, Reach, ClosedUnder

\* It has bt.head and the next of each of its elements, and is the least set
\* that has.
LEMMA ReachIsLeast ==
  ASSUME NEW nx \in [Element -> Element]
  PROVE  /\ Reach(nx) \in SUBSET Element
         /\ ClosedUnder(Reach(nx), nx)
         /\ \A S \in SUBSET Element : ClosedUnder(S, nx) => Reach(nx) \subseteq S
BY ButtonsAssumption DEF Reach, ClosedUnder, Element

LEMMA ReachIsFinite ==
  ASSUME NEW nx
  PROVE  IsFiniteSet(Reach(nx)) /\ Cardinality(Reach(nx)) \in Nat
<1>1. IsFiniteSet(Element)
  BY FS_Interval, ButtonsAssumption DEF Element
<1>2. Reach(nx) \in SUBSET Element
  BY DEF Reach
<1>3. IsFiniteSet(Reach(nx))
  BY <1>1, <1>2, FS_Subset
<1> QED
  BY <1>3, FS_CardinalityType

\* An element linked in behind the last one is added to the list.
LEMMA LinkAdds ==
  ASSUME NEW nx \in [Element -> Element],
         NEW i \in Reach(nx), nx[i] = 0,
         NEW n \in Element, n # 0, n # i, nx[n] = 0
  PROVE  Reach([nx EXCEPT ![i] = n]) = Reach(nx) \cup {n}
<1> DEFINE ny == [nx EXCEPT ![i] = n]
<1>0. i \in Element
  BY DEF Reach
<1>1. /\ ny \in [Element -> Element] /\ ny[i] = n /\ ny[n] = 0
      /\ \A e \in Element : e # i => ny[e] = nx[e]
  BY <1>0
<1> HIDE DEF ny
<1>2. ClosedUnder(Reach(nx) \cup {n}, ny)
  BY <1>1, ReachIsLeast DEF ClosedUnder
<1>3. Reach(ny) \subseteq Reach(nx) \cup {n}
  BY <1>1, <1>2, ReachIsLeast
<1>4. ClosedUnder(Reach(ny), nx)
  BY <1>1, ReachIsLeast DEF ClosedUnder
<1>5. Reach(nx) \subseteq Reach(ny)
  BY <1>1, <1>4, ReachIsLeast
<1>6. n \in Reach(ny)
  BY <1>1, <1>5, ReachIsLeast DEF ClosedUnder
<1> QED
  BY <1>3, <1>5, <1>6 DEF ny

\* An element passed over by the only link to it is no longer in the list.
LEMMA UnlinkRemoves ==
  ASSUME NEW nx \in [Element -> Element],
         NEW i \in Reach(nx), NEW d \in Element, d = nx[i], d # 0, d # i, nx[d] # d,
         \A e \in Reach(nx) : nx[e] = d => e = i
  PROVE  Reach([nx EXCEPT ![i] = nx[d]]) = Reach(nx) \ {d}
<1> DEFINE ny == [nx EXCEPT ![i] = nx[d]]
<1>0. i \in Element /\ nx[d] \in Element
  BY DEF Reach
<1>1. /\ ny \in [Element -> Element] /\ ny[i] = nx[d]
      /\ \A e \in Element : e # i => ny[e] = nx[e]
  BY <1>0
<1> HIDE DEF ny
<1>2. Reach(nx) \in SUBSET Element /\ ClosedUnder(Reach(nx), nx)
  BY ReachIsLeast
<1>3. Reach(ny) \in SUBSET Element /\ ClosedUnder(Reach(ny), ny)
  BY <1>1, ReachIsLeast
<1>4. ClosedUnder(Reach(nx) \ {d}, ny)
  BY <1>1, <1>2 DEF ClosedUnder
<1>5. Reach(ny) \subseteq Reach(nx) \ {d}
  BY <1>1, <1>2, <1>4, ReachIsLeast
<1>6. CASE i \in Reach(ny)
  <2>1. ClosedUnder(Reach(ny) \cup {d}, nx)
    BY <1>1, <1>3, <1>6 DEF ClosedUnder
  <2>2. Reach(nx) \subseteq Reach(ny) \cup {d}
    BY <1>3, <2>1, ReachIsLeast
  <2> QED
    BY <1>5, <2>2 DEF ny
<1>7. CASE i \notin Reach(ny)
  <2>1. ClosedUnder(Reach(ny), nx)
    BY <1>1, <1>3, <1>7 DEF ClosedUnder
  <2>2. Reach(nx) \subseteq Reach(ny)
    BY <1>3, <2>1, ReachIsLeast
  <2> QED
    BY <1>7, <2>2
<1> QED
  BY <1>6, <1>7

\* A step that leaves the links alone leaves the list alone.
LEMMA LinksStay ==
  ASSUME ListInv, UNCHANGED <<next, added, freed, count>>, overlap' = "no" => overlap = "no"
  PROVE  LinksInv' /\ InList' = InList
BY DEF ListInv, LinksInv, InList, Closed

LEMMA BeginKeepsList == ASSUME NEW t \in Task, ListInv, Begin(t) PROVE ListInv'
<1>1. UNCHANGED <<next, added, freed, count, overlap, iter>> /\ UNCHANGED list
  BY DEF Begin, list
<1>2. LinksInv' /\ InList' = InList
  BY <1>1, LinksStay
<1>3. ListTypes'
  BY <1>1 DEF ListInv, ListTypes, Begin, Steps, Ops
<1>4. CallsInv'
  BY <1>1, <1>2 DEF ListInv, ListTypes, CallsInv, Begin, AtList
<1> QED
  BY <1>2, <1>3, <1>4 DEF ListInv

LEMMA TakeKeepsList == ASSUME NEW t \in Task, ListInv, Take(t) PROVE ListInv'
<1>1. UNCHANGED <<next, added, freed, count, op, iter>> /\ (overlap' = "no" => overlap = "no")
  BY DEF Take, list
<1>2. LinksInv' /\ InList' = InList
  BY <1>1, LinksStay
<1>3. ListTypes'
  BY <1>1 DEF ListInv, ListTypes, Take, Steps
<1>4. 0 \in InList
  BY InListIsReach, ReachIsLeast DEF ListInv, ListTypes, ClosedUnder
<1>5. CallsInv'
  BY <1>1, <1>2, <1>4 DEF ListInv, ListTypes, CallsInv, Take, AtList
<1> QED
  BY <1>2, <1>3, <1>5 DEF ListInv

LEMMA WalkKeepsList == ASSUME NEW t \in Task, ListInv, Walk(t) PROVE ListInv'
<1>1. UNCHANGED <<next, added, freed, count, op, overlap>>
  BY DEF Walk, list
<1>2. LinksInv' /\ InList' = InList
  BY <1>1, LinksStay
<1>3. next[iter[t]] \in Element
  BY DEF ListInv, ListTypes
<1>4. ListTypes'
  BY <1>1, <1>3 DEF ListInv, ListTypes, Walk, Steps
<1>5. \A e \in InList : next[e] # 0 => next[e] \in InList
  BY InListIsReach, ReachIsLeast DEF ListInv, ListTypes, ClosedUnder
<1>6. \A u \in Task : AtList(u)' <=> AtList(u)
  BY DEF ListInv, ListTypes, Walk, AtList
<1>7. CASE pc' = [pc EXCEPT ![t] = "act"] /\ Stops(t) /\ UNCHANGED iter
  <2>1. op[t] = "add" => next[iter[t]] = 0
    BY <1>7 DEF Stops
  <2> QED
    BY <1>1, <1>2, <1>4, <1>6, <1>7, <2>1 DEF ListInv, ListTypes, CallsInv, Walk
<1>8. CASE iter' = [iter EXCEPT ![t] = next[iter[t]]] /\ ~Stops(t) /\ UNCHANGED pc
  <2>1. next[iter[t]] # 0
    BY <1>8 DEF Stops
  <2>2. overlap = "no" => next[iter[t]] \in InList
    BY <1>5, <2>1 DEF ListInv, CallsInv, Walk, AtList
  <2> QED
    BY <1>1, <1>2, <1>4, <1>6, <1>8, <2>2 DEF ListInv, ListTypes, CallsInv, Walk
<1> QED
  BY <1>7, <1>8 DEF Walk

\* A call that ends.
LEMMA DoneKeepsList ==
  ASSUME NEW t \in Task, ListInv, Done(t), UNCHANGED <<list, overlap>>
  PROVE  ListInv'
<1>1. UNCHANGED <<next, added, freed, count, overlap>>
  BY DEF list
<1>2. LinksInv' /\ InList' = InList
  BY <1>1, LinksStay
<1>3. 0 \in Element
  BY ButtonsAssumption DEF Element
<1>4. ListTypes'
  BY <1>1, <1>3 DEF ListInv, ListTypes, Done, Steps, Ops
<1>5. CallsInv'
  BY <1>1, <1>2 DEF ListInv, ListTypes, CallsInv, Done, AtList
<1> QED
  BY <1>2, <1>4, <1>5 DEF ListInv

LEMMA GiveKeepsList == ASSUME NEW t \in Task, ListInv, Give(t) PROVE ListInv'
<1>1. UNCHANGED <<list, overlap>> /\ UNCHANGED <<next, added, freed, count, overlap>>
  BY DEF Give, list
<1>2. CASE Done(t)
  BY <1>1, <1>2, DoneKeepsList
<1>3. CASE pc' = [pc EXCEPT ![t] = "read"] /\ UNCHANGED <<op, arg, want, iter>>
  <2>1. LinksInv' /\ InList' = InList
    BY <1>1, LinksStay
  <2>2. ListTypes'
    BY <1>1, <1>3 DEF ListInv, ListTypes, Steps
  <2>3. CallsInv'
    BY <1>1, <1>3, <2>1 DEF ListInv, ListTypes, CallsInv, AtList
  <2> QED
    BY <2>1, <2>2, <2>3 DEF ListInv
<1> QED
  BY <1>2, <1>3 DEF Give

\* The call that acts, and nobody else, is at the list.
LEMMA ActingCall ==
  ASSUME NEW t \in Task, ListInv, pc[t] = "act",
         pc' = [pc EXCEPT ![t] = "give"], UNCHANGED <<op, iter, overlap>>,
         overlap = "no" => iter[t] \in InList'
  PROVE  CallsInv'
<1>1. \A u \in Task : AtList(u)' <=> AtList(u)
  BY DEF ListInv, ListTypes, AtList
<1>2. overlap = "no" => \A u \in Task : AtList(u) => u = t
  BY DEF ListInv, CallsInv, AtList
<1>3. overlap = "no" => \A u \in Task : pc'[u] # "act"
  BY <1>2 DEF ListInv, ListTypes, AtList
<1> QED
  BY <1>1, <1>2, <1>3 DEF ListInv, ListTypes, CallsInv

LEMMA AddKeepsList ==
  ASSUME NEW t \in Task, ListInv, pc[t] = "act", op[t] = "add",
         added < MaxAdd, added' = added + 1, count' = count + 1,
         next' = [next EXCEPT ![iter[t]] = added + 1],
         UNCHANGED <<freed, overlap>>
  PROVE  /\ next' \in [Element -> Element] /\ added' \in Element /\ count' \in Int
         /\ LinksInv'
         /\ overlap = "no" => iter[t] \in InList'
<1> DEFINE i == iter[t]
           n == added + 1
<1>1. i \in Element /\ n \in Element /\ added \in Nat
  BY ButtonsAssumption DEF ListInv, ListTypes, Element
<1>2. next' \in [Element -> Element] /\ added' \in Element /\ count' \in Int
  BY <1>1 DEF ListInv, ListTypes
<1>3. ASSUME overlap = "no"
      PROVE  LinksInv' /\ i \in InList'
  <2>1. i \in InList /\ next[i] = 0 /\ next[n] = 0 /\ n # 0
    BY <1>1, <1>3 DEF ListInv, CallsInv, LinksInv, AtList
  <2>2. \A e \in InList : e <= added
    <3>1. 0 .. added \subseteq Element
      BY <1>1, ButtonsAssumption DEF Element
    <3>2. \A e \in Element : next[e] \in Nat /\ (next[e] # 0 => next[e] <= added)
      <4>1. \A e \in Element : next[e] \in Nat
        BY DEF ListInv, ListTypes, Element
      <4> QED
        BY <1>3, <4>1 DEF ListInv, LinksInv
    <3>3. ClosedUnder(0 .. added, next)
      BY <1>1, <3>1, <3>2 DEF ClosedUnder
    <3> QED
      <4>1. InList \subseteq 0 .. added
        BY <3>1, <3>3, InListIsReach, ReachIsLeast DEF ListInv, ListTypes
      <4> QED
        BY <1>1, <4>1
  <2>3. n \notin InList /\ n # i
    BY <1>1, <2>1, <2>2
  <2>4. InList' = InList \cup {n}
    BY <1>1, <2>1, <2>3, InListIsReach, LinkAdds DEF ListInv, ListTypes
  <2>5. \A e \in Element : next'[e] = IF e = i THEN n ELSE next[e]
    BY <1>1 DEF ListInv, ListTypes
  <2>6. Cardinality(InList') = Cardinality(InList) + 1 /\ Cardinality(InList) \in Nat
    BY <2>3, <2>4, InListIsReach, ReachIsFinite, FS_AddElement
  <2>7. \A e \in Element : next'[e] # 0 => e < next'[e] /\ next'[e] <= added'
    <3>1. \A e \in Element : e \in Nat /\ next[e] \in Nat
      BY DEF ListInv, ListTypes, Element
    <3>2. \A e \in Element : next[e] # 0 => e < next[e] /\ next[e] <= added
      BY <1>3 DEF ListInv, LinksInv
    <3>3. i <= added
      BY <2>1, <2>2
    <3> HIDE DEF i
    <3> QED
      BY <1>1, <2>5, <3>1, <3>2, <3>3
  <2>8. \A e \in Element : e > added' => next'[e] = 0
    BY <1>1, <1>3, <2>1, <2>2, <2>5 DEF ListInv, ListTypes, LinksInv, Element
  <2>9. \A e, f \in InList' : next'[e] = next'[f] /\ next'[e] # 0 => e = f
    <3>1. \A e \in InList : next[e] # n
      BY <1>1, <1>3 DEF ListInv, ListTypes, LinksInv, Element, InList
    <3>2. InList \subseteq Element
      BY DEF InList
    <3> QED
      BY <1>1, <1>3, <2>1, <2>3, <2>4, <2>5, <3>1, <3>2 DEF ListInv, LinksInv
  <2>10. (\A e \in freed' : e <= added') /\ InList' \cap freed' = {}
    BY <1>1, <1>3, <2>4 DEF ListInv, ListTypes, LinksInv, Element
  <2>11. count' = Cardinality(InList') - 1
    BY <1>3, <2>6 DEF ListInv, ListTypes, LinksInv
  <2> QED
    BY <2>1, <2>4, <2>7, <2>8, <2>9, <2>10, <2>11 DEF LinksInv
<1> QED
  BY <1>2, <1>3 DEF LinksInv

LEMMA DeleteKeepsList ==
  ASSUME NEW t \in Task, ListInv, pc[t] = "act",
         NEW d, d = next[iter[t]], d # 0,
         next' = [next EXCEPT ![iter[t]] = next[d]],
         freed' = freed \cup {d}, count' = count - 1,
         UNCHANGED <<added, overlap>>
  PROVE  /\ next' \in [Element -> Element] /\ freed' \in SUBSET Element /\ count' \in Int
         /\ LinksInv'
         /\ overlap = "no" => iter[t] \in InList'
<1> DEFINE i == iter[t]
<1>1. i \in Element /\ d \in Element /\ next[d] \in Element
  BY DEF ListInv, ListTypes
<1>2. next' \in [Element -> Element] /\ freed' \in SUBSET Element /\ count' \in Int
  BY <1>1 DEF ListInv, ListTypes
<1>3. ASSUME overlap = "no"
      PROVE  LinksInv' /\ i \in InList'
  <2>1. i \in InList
    BY <1>3 DEF ListInv, CallsInv, AtList
  <2>2. i < d /\ d <= added /\ (next[d] # 0 => d < next[d] /\ next[d] <= added)
    BY <1>1, <1>3 DEF ListInv, ListTypes, LinksInv
  <2>3. i # d /\ next[d] # d
    BY <1>1, <2>2 DEF Element
  <2>4. \A e \in InList : next[e] = d => e = i
    BY <1>3, <2>1 DEF ListInv, LinksInv
  <2>5. InList' = InList \ {d}
    BY <1>1, <2>1, <2>3, <2>4, InListIsReach, UnlinkRemoves DEF ListInv, ListTypes
  <2>6. d \in InList
    BY <2>1, InListIsReach, ReachIsLeast DEF ListInv, ListTypes, ClosedUnder
  <2>7. \A e \in Element : next'[e] = IF e = i THEN next[d] ELSE next[e]
    BY <1>1 DEF ListInv, ListTypes
  <2>8. Cardinality(InList') = Cardinality(InList) - 1 /\ Cardinality(InList) \in Nat
    <3>1. IsFiniteSet(InList) /\ Cardinality(InList) \in Nat
      BY InListIsReach, ReachIsFinite
    <3> QED
      BY <2>5, <2>6, <3>1, FS_RemoveElement
  <2>9. \A e \in Element : next'[e] # 0 => e < next'[e] /\ next'[e] <= added'
    BY <1>1, <1>3, <2>2, <2>7 DEF ListInv, ListTypes, LinksInv, Element
  <2>10. \A e \in Element : e > added' => next'[e] = 0
    BY <1>1, <1>3, <2>2, <2>7 DEF ListInv, ListTypes, LinksInv, Element
  <2>11. \A e, f \in InList' : next'[e] = next'[f] /\ next'[e] # 0 => e = f
    <3>1. InList \subseteq Element
      BY DEF InList
    <3>2. \A e, f \in InList : next[e] = next[f] /\ next[e] # 0 => e = f
      BY <1>3 DEF ListInv, LinksInv
    <3> QED
      BY <2>1, <2>5, <2>6, <2>7, <3>1, <3>2
  <2>12. (\A e \in freed' : e <= added') /\ InList' \cap freed' = {}
    BY <1>3, <2>2, <2>5 DEF ListInv, LinksInv
  <2>13. count' = Cardinality(InList') - 1
    BY <1>3, <2>8 DEF ListInv, ListTypes, LinksInv
  <2> QED
    BY <2>1, <2>3, <2>5, <2>9, <2>10, <2>11, <2>12, <2>13 DEF LinksInv
<1> QED
  BY <1>2, <1>3 DEF LinksInv

LEMMA ActKeepsList == ASSUME NEW t \in Task, ListInv, Act(t) PROVE ListInv'
<1>1. pc[t] = "act" /\ pc' = [pc EXCEPT ![t] = "give"] /\ UNCHANGED <<op, iter, overlap>>
  BY DEF Act
<1>2. pc' \in [Task -> Steps]
  BY <1>1 DEF ListInv, ListTypes, Steps
<1>3. CASE op[t] = "add" /\ Add(t) /\ UNCHANGED freed /\ added < MaxAdd /\ ~UNCHANGED list
  <2>1. /\ added' = added + 1 /\ count' = count + 1
        /\ next' = [next EXCEPT ![iter[t]] = added + 1]
    BY <1>3 DEF Add
  <2>2. /\ next' \in [Element -> Element] /\ added' \in Element /\ count' \in Int
        /\ LinksInv'
        /\ overlap = "no" => iter[t] \in InList'
    BY <1>1, <1>3, <2>1, AddKeepsList
  <2>3. CallsInv'
    BY <1>1, <2>2, ActingCall
  <2> QED
    BY <1>1, <1>2, <1>3, <2>2, <2>3 DEF ListInv, ListTypes
<1>4. CASE op[t] = "delete" /\ Delete(t) /\ ~UNCHANGED <<next, freed, count>>
  <2> DEFINE d == next[iter[t]]
  <2>1. /\ d # 0 /\ next' = [next EXCEPT ![iter[t]] = next[d]]
        /\ freed' = freed \cup {d} /\ count' = count - 1 /\ UNCHANGED added
    BY <1>4 DEF Delete
  <2>2. /\ next' \in [Element -> Element] /\ freed' \in SUBSET Element /\ count' \in Int
        /\ LinksInv'
        /\ overlap = "no" => iter[t] \in InList'
    BY <1>1, <2>1, DeleteKeepsList
  <2>3. CallsInv'
    BY <1>1, <2>2, ActingCall
  <2> QED
    BY <1>1, <1>2, <2>1, <2>2, <2>3 DEF ListInv, ListTypes
<1>5. CASE UNCHANGED <<next, added, freed, count>>
  <2>1. LinksInv' /\ InList' = InList
    BY <1>1, <1>5, LinksStay
  <2>2. overlap = "no" => iter[t] \in InList
    BY <1>1 DEF ListInv, CallsInv, AtList
  <2>3. CallsInv'
    BY <1>1, <2>1, <2>2, ActingCall
  <2> QED
    BY <1>1, <1>2, <1>5, <2>1, <2>3 DEF ListInv, ListTypes
<1> QED
  BY <1>3, <1>4, <1>5 DEF Act, Add, Delete, Presses, list

LEMMA ReadKeepsList == ASSUME NEW t \in Task, ListInv, Read(t) PROVE ListInv'
BY DoneKeepsList DEF Read

listvars == <<pc, op, iter, next, added, freed, count, overlap>>

LEMMA ListStutters == ListInv /\ UNCHANGED listvars => ListInv'
<1> SUFFICES ASSUME ListInv, UNCHANGED listvars PROVE ListInv'
  OBVIOUS
<1>1. LinksInv' /\ InList' = InList
  BY LinksStay DEF listvars
<1> QED
  BY <1>1 DEF ListInv, ListTypes, CallsInv, AtList, listvars

LEMMA NextKeepsList == ListInv /\ [ENext]_evars => ListInv'
<1> SUFFICES ASSUME ListInv, [ENext]_evars PROVE ListInv'
  OBVIOUS
<1>1. CASE \E t \in Task : Begin(t)
  BY <1>1, BeginKeepsList
<1>2. CASE \E t \in Task : Call(t)
  BY <1>2, TakeKeepsList, WalkKeepsList, ActKeepsList, GiveKeepsList, ReadKeepsList DEF Call
<1>3. CASE UNCHANGED listvars
  BY <1>3, ListStutters
<1> QED
  BY <1>1, <1>2, <1>3
  DEF ENext, Next, CallInit, buttonTask, evars, vars, calls, list, listvars

LEMMA InitMakesList == EInit => ListInv
<1> SUFFICES ASSUME EInit PROVE ListInv
  OBVIOUS
<1> USE ButtonsAssumption
<1>1. ListTypes
  BY DEF EInit, Init, ListTypes, Steps, Ops, Element
<1>2. \A e \in Element : next[e] = 0
  BY DEF EInit, Init
<1>3. InList = {0}
  <2>1. ClosedUnder({0}, next) /\ {0} \in SUBSET Element
    BY <1>2 DEF ClosedUnder, Element
  <2>2. 0 \in Reach(next) /\ Reach(next) \subseteq {0}
    BY <1>1, <2>1, ReachIsLeast DEF ListTypes, ClosedUnder
  <2> QED
    BY <2>2, InListIsReach
<1>4. Cardinality(InList) = 1
  BY <1>3, FS_Singleton
<1>5. CallsInv
  BY DEF EInit, Init, CallsInv, AtList
<1>6. LinksInv
  BY <1>2, <1>3, <1>4 DEF EInit, Init, LinksInv
<1> QED
  BY <1>1, <1>5, <1>6 DEF ListInv

\* Until two calls are at the list together, a call at the list is at an element
\* of it, no element of it has been freed, and button_count is its length
\* (buttons.c:65, 77, 94-103).
THEOREM ListStaysIntact == ESpec => []ListIsIntact
<1>1. ListInv => ListIsIntact
  BY DEF ListInv, CallsInv, LinksInv, ListIsIntact
<1> QED
  BY <1>1, InitMakesList, NextKeepsList, PTL DEF ESpec, evars
-----------------------------------------------------------------------------
(* The states. *)

\* Every state but the last one added has the number of the next, sm.head has
\* the first; the state added last is the last of the list.
StatesInv ==
  /\ _state_count \in 0 .. MaxStates /\ made = _state_count
  /\ states \in Seq(Nat)
  /\ \A i \in 1 .. Len(states) : 1 <= states[i] /\ states[i] <= _state_count
  /\ \A i, j \in 1 .. Len(states) : states[i] = states[j] => i = j
  /\ _state_count > 0 => Len(states) > 0 /\ states[Len(states)] = _state_count
  /\ _state_count = 0 => states = <<>>
  /\ _ID \in [0 .. MaxStates -> Nat]
  /\ \A s \in 0 .. MaxStates : _ID[s] = IF s < _state_count THEN s + 1 ELSE 0

\* The sequence without its i-th element, position by position.
LEMMA RemoveProps ==
  ASSUME NEW s \in Seq(Nat), NEW i \in 1 .. Len(s)
  PROVE  /\ SM!RemoveAt(s, i) \in Seq(Nat)
         /\ Len(SM!RemoveAt(s, i)) = Len(s) - 1
         /\ \A j \in 1 .. Len(s) - 1 : SM!RemoveAt(s, i)[j] = IF j < i THEN s[j] ELSE s[j + 1]
<1> DEFINE u == SubSeq(s, 1, i - 1)
           v == SubSeq(s, i + 1, Len(s))
<1>1. u \in Seq(Nat) /\ Len(u) = i - 1 /\ \A j \in 1 .. i - 1 : u[j] = s[j]
  BY SubSeqProperties
<1>2. /\ v \in Seq(Nat) /\ Len(v) = Len(s) - i
      /\ \A j \in 1 .. Len(s) - i : v[j] = s[i + j]
  BY SubSeqProperties
<1> HIDE DEF u, v
<1>3. /\ u \o v \in Seq(Nat) /\ Len(u \o v) = Len(u) + Len(v)
      /\ \A j \in 1 .. Len(u) + Len(v) : (u \o v)[j] = IF j <= Len(u) THEN u[j] ELSE v[j - Len(u)]
  BY <1>1, <1>2, ConcatProperties
<1>4. i \in Nat /\ Len(s) \in Nat /\ i <= Len(s) /\ i >= 1
  OBVIOUS
<1>5. Len(u \o v) = Len(s) - 1
  BY <1>1, <1>2, <1>3, <1>4
<1>6. ASSUME NEW j \in 1 .. Len(s) - 1
      PROVE  (u \o v)[j] = IF j < i THEN s[j] ELSE s[j + 1]
  <2>0. j \in 1 .. Len(u) + Len(v)
    BY <1>1, <1>2, <1>4
  <2>1. (u \o v)[j] = IF j <= i - 1 THEN u[j] ELSE v[j - (i - 1)]
    BY <1>1, <1>3, <2>0
  <2>2. CASE j < i
    BY <1>1, <1>4, <2>1, <2>2
  <2>3. CASE ~(j < i)
    <3>1. j - (i - 1) \in 1 .. Len(s) - i /\ i + (j - (i - 1)) = j + 1
      BY <1>4, <2>3
    <3> QED
      <4>1. ~(j <= i - 1)
        BY <1>4, <2>3
      <4>2. v[j - (i - 1)] = s[i + (j - (i - 1))]
        BY <1>2, <3>1
      <4> QED
        BY <2>1, <2>3, <3>1, <4>1, <4>2
  <2> QED
    BY <2>2, <2>3
<1> QED
  BY <1>3, <1>5, <1>6 DEF SM!RemoveAt, u, v

\* A number k + 1 is at the one place of state k.
LEMMA PlaceOfNumber ==
  ASSUME StatesInv, NEW k \in 1 .. MaxStates
  PROVE  /\ SM!Places(k) = {i \in 1 .. Len(states) : k <= _state_count /\ states[i] = k - 1}
         /\ \A i \in SM!Places(k) : SM!Places(k) = {i} /\ SM!Min(SM!Places(k)) = i
<1>1. DOMAIN states = 1 .. Len(states)
  BY DEF StatesInv
<1>2. \A i \in 1 .. Len(states) :
         states[i] \in 0 .. MaxStates /\ (_ID[states[i]] = k <=> k <= _state_count /\ states[i] = k - 1)
  BY StatesAssumption DEF StatesInv
<1>3. SM!Places(k) = {i \in 1 .. Len(states) : k <= _state_count /\ states[i] = k - 1}
  BY <1>1, <1>2 DEF SM!Places
<1>4. ASSUME NEW i \in SM!Places(k)
      PROVE  SM!Places(k) = {i} /\ SM!Min(SM!Places(k)) = i
  <2>1. SM!Places(k) = {i}
    BY <1>3, <1>4 DEF StatesInv
  <2>2. i \in Int
    BY <1>3, <1>4 DEF StatesInv
  <2>3. SM!Min({i}) = i
    BY <2>2 DEF SM!Min
  <2> QED
    BY <2>1, <2>3
<1> QED
  BY <1>3, <1>4

LEMMA AddKeepsStates == StatesInv /\ SM!addState => StatesInv'
<1> SUFFICES ASSUME StatesInv, SM!addState, ~UNCHANGED <<states, _ID, _state_count, made>>
             PROVE  StatesInv'
  BY DEF StatesInv
<1> DEFINE n == _state_count + 1
<1>1. /\ _state_count < MaxStates /\ _state_count' = n /\ made' = n /\ states' = Append(states, n)
      /\ _ID' = [_ID EXCEPT ![SM!Last(<<0>> \o states)] = n]
  BY DEF SM!addState, SM!sm, StatesInv
<1>2. n \in 1 .. MaxStates /\ _state_count \in Nat
  BY <1>1, StatesAssumption DEF StatesInv
<1>3. SM!Last(<<0>> \o states) = _state_count
  <2>1. <<0>> \in Seq(Nat) /\ Len(<<0>>) = 1 /\ <<0>>[1] = 0
    OBVIOUS
  <2>2. /\ Len(<<0>> \o states) = 1 + Len(states)
        /\ \A i \in 1 .. 1 + Len(states) :
             (<<0>> \o states)[i] = IF i <= 1 THEN <<0>>[i] ELSE states[i - 1]
    BY <2>1, ConcatProperties DEF StatesInv
  <2>3. CASE _state_count = 0
    BY <2>1, <2>2, <2>3 DEF SM!Last, StatesInv
  <2>4. CASE _state_count > 0
    BY <2>2, <2>4 DEF SM!Last, StatesInv
  <2> QED
    BY <1>2, <2>3, <2>4
<1>4. /\ states' \in Seq(Nat) /\ Len(states') = Len(states) + 1 /\ states'[Len(states) + 1] = n
      /\ \A i \in 1 .. Len(states) : states'[i] = states[i]
  BY <1>1, <1>2 DEF StatesInv
<1> HIDE DEF n
<1>5. /\ _ID' \in [0 .. MaxStates -> Nat]
      /\ \A s \in 0 .. MaxStates : _ID'[s] = IF s < _state_count' THEN s + 1 ELSE 0
  BY <1>1, <1>2, <1>3, StatesAssumption DEF StatesInv, n
<1>6. \A i \in 1 .. Len(states') : 1 <= states'[i] /\ states'[i] <= _state_count'
  BY <1>1, <1>2, <1>4 DEF StatesInv, n
<1>7. \A i, j \in 1 .. Len(states') : states'[i] = states'[j] => i = j
  <2>1. \A i \in 1 .. Len(states) : states'[i] # n
    BY <1>2, <1>4 DEF StatesInv, n
  <2>2. \A i \in 1 .. Len(states') : i = Len(states) + 1 \/ i \in 1 .. Len(states)
    BY <1>4 DEF StatesInv
  <2>3. \A i, j \in 1 .. Len(states) : states[i] = states[j] => i = j
    BY DEF StatesInv
  <2> QED
    BY <1>4, <2>1, <2>2, <2>3
<1> QED
  BY <1>1, <1>2, <1>4, <1>5, <1>6, <1>7 DEF StatesInv

LEMMA DeleteKeepsStates == StatesInv /\ SM!deleteState => StatesInv'
<1> SUFFICES ASSUME StatesInv, SM!deleteState, states' # states PROVE StatesInv'
  BY DEF StatesInv, SM!deleteState
<1>1. PICK id \in 0 .. MaxStates :
        /\ SM!findState(id) # 0 /\ id # 0
        /\ states' = SM!RemoveAt(states, SM!Min(SM!Places(id)))
  BY DEF SM!deleteState, SM!Without
<1>2. UNCHANGED <<_ID, _state_count, made>>
  BY DEF SM!deleteState
<1>3. id \in 1 .. MaxStates /\ SM!Places(id) # {}
  BY <1>1, StatesAssumption DEF SM!findState
<1>4. PICK p \in SM!Places(id) : TRUE
  BY <1>3
<1>5. /\ p \in 1 .. Len(states) /\ states[p] = id - 1 /\ id <= _state_count
      /\ states' = SM!RemoveAt(states, p)
  BY <1>1, <1>3, <1>4, PlaceOfNumber
<1>6. /\ states' \in Seq(Nat) /\ Len(states') = Len(states) - 1
      /\ \A j \in 1 .. Len(states) - 1 : states'[j] = IF j < p THEN states[j] ELSE states[j + 1]
  <2>1. states \in Seq(Nat)
    BY DEF StatesInv
  <2> QED
    BY <1>5, <2>1, RemoveProps
<1>6a. /\ Len(states) \in Nat /\ p \in Nat
       /\ \A j \in 1 .. Len(states') : j \in 1 .. Len(states) - 1 /\ j \in 1 .. Len(states)
                                        /\ j + 1 \in 1 .. Len(states)
  BY <1>5, <1>6 DEF StatesInv
<1>7. p # Len(states) /\ _state_count > 0
  BY <1>3, <1>5, StatesAssumption DEF StatesInv
<1>8. \A i \in 1 .. Len(states') : 1 <= states'[i] /\ states'[i] <= _state_count'
  BY <1>2, <1>6, <1>6a DEF StatesInv
<1>9. \A i, j \in 1 .. Len(states') : states'[i] = states'[j] => i = j
  <2> SUFFICES ASSUME NEW i \in 1 .. Len(states'), NEW j \in 1 .. Len(states'),
                      states'[i] = states'[j]
               PROVE  i = j
    OBVIOUS
  <2>1. \A m, n \in 1 .. Len(states) : states[m] = states[n] => m = n
    BY DEF StatesInv
  <2>2. (IF i < p THEN states[i] ELSE states[i + 1]) = (IF j < p THEN states[j] ELSE states[j + 1])
    BY <1>6, <1>6a
  <2>3. (IF i < p THEN i ELSE i + 1) = (IF j < p THEN j ELSE j + 1)
    BY <1>6a, <2>1, <2>2
  <2> QED
    BY <1>6a, <2>3
<1>10. Len(states') > 0 /\ states'[Len(states')] = _state_count'
  BY <1>2, <1>5, <1>6, <1>7 DEF StatesInv
<1> QED
  BY <1>2, <1>6, <1>7, <1>8, <1>9, <1>10 DEF StatesInv

\* The number that addState returns for a state finds, and deletes, the state
\* that the call before it added, for as long as that one is in the list; the
\* first number finds nothing.
NumbersAreShifted ==
  \A k \in 1 .. _state_count :
    SM!findState(k) = IF k - 1 \in SM!ToSet(states) THEN k - 1 ELSE 0

LEMMA InvMeansShifted == StatesInv => NumbersAreShifted
<1> SUFFICES ASSUME StatesInv PROVE NumbersAreShifted
  OBVIOUS
<1>1. ASSUME NEW k \in 1 .. _state_count
      PROVE  SM!findState(k) = IF k - 1 \in SM!ToSet(states) THEN k - 1 ELSE 0
  <2>1. k \in 1 .. MaxStates /\ k <= _state_count
    BY <1>1, StatesAssumption DEF StatesInv
  <2>2. SM!Places(k) = {i \in 1 .. Len(states) : states[i] = k - 1}
    BY <2>1, PlaceOfNumber
  <2>3. SM!ToSet(states) = {states[i] : i \in 1 .. Len(states)}
    BY DEF SM!ToSet, StatesInv
  <2>4. CASE SM!Places(k) = {}
    BY <2>2, <2>3, <2>4 DEF SM!findState
  <2>5. CASE SM!Places(k) # {}
    <3>1. PICK p \in SM!Places(k) : TRUE
      BY <2>5
    <3>2. SM!Min(SM!Places(k)) = p
      BY <2>1, <3>1, PlaceOfNumber
    <3> QED
      BY <2>2, <2>3, <2>5, <3>1, <3>2 DEF SM!findState
  <2> QED
    BY <2>4, <2>5
<1> QED
  BY <1>1 DEF NumbersAreShifted

\* A state is in the list after a step only if it was there or is new.
LEMMA ListOnlyGrowsByNew ==
  ASSUME StatesInv, StatesInv', SM!addState \/ SM!deleteState
  PROVE  /\ _state_count <= _state_count'
         /\ SM!ToSet(states)' \subseteq SM!ToSet(states) \cup {_state_count + 1}
<1>0. /\ SM!ToSet(states) = {states[i] : i \in 1 .. Len(states)}
      /\ SM!ToSet(states)' = {states'[i] : i \in 1 .. Len(states')}
  BY DEF SM!ToSet, StatesInv
<1>1. CASE UNCHANGED <<states, _state_count>>
  BY <1>1 DEF SM!ToSet, StatesInv
<1>2. CASE SM!addState /\ states' = Append(states, _state_count + 1) /\ _state_count' = _state_count + 1
  <2>1. /\ Len(states') = Len(states) + 1 /\ states'[Len(states) + 1] = _state_count + 1
        /\ \A i \in 1 .. Len(states) : states'[i] = states[i] /\ Len(states) \in Nat
    BY <1>2 DEF StatesInv
  <2>2. \A i \in 1 .. Len(states') : i = Len(states) + 1 \/ i \in 1 .. Len(states)
    BY <2>1 DEF StatesInv
  <2> QED
    BY <1>0, <1>2, <2>1, <2>2 DEF StatesInv
<1>3. CASE SM!deleteState /\ states' # states
  <2>1. PICK id \in 0 .. MaxStates :
          /\ SM!findState(id) # 0 /\ id # 0
          /\ states' = SM!RemoveAt(states, SM!Min(SM!Places(id)))
    BY <1>3 DEF SM!deleteState, SM!Without
  <2>2. id \in 1 .. MaxStates /\ SM!Places(id) # {}
    BY <2>1, StatesAssumption DEF SM!findState
  <2>3. PICK p \in SM!Places(id) : TRUE
    BY <2>2
  <2>4. p \in 1 .. Len(states) /\ states' = SM!RemoveAt(states, p) /\ states \in Seq(Nat)
    BY <2>1, <2>2, <2>3, PlaceOfNumber DEF StatesInv
  <2>5. /\ Len(states') = Len(states) - 1
        /\ \A j \in 1 .. Len(states) - 1 : states'[j] = IF j < p THEN states[j] ELSE states[j + 1]
    BY <2>4, RemoveProps
  <2>6. \A j \in 1 .. Len(states') : states'[j] \in {states[i] : i \in 1 .. Len(states)}
    <3>1. \A j \in 1 .. Len(states') : j \in 1 .. Len(states) /\ j + 1 \in 1 .. Len(states)
      BY <2>4, <2>5
    <3> QED
      BY <2>5, <3>1
  <2>7. _state_count' = _state_count
    BY <1>3 DEF SM!deleteState
  <2> QED
    BY <1>0, <2>6, <2>7 DEF StatesInv
<1> QED
  BY <1>1, <1>2, <1>3 DEF SM!addState, SM!deleteState, SM!sm, StatesInv

\* Numbers are never given away twice (sm.c:50, 73-81): through any calls of
\* addState and deleteState, for any number of states, a number finds the same
\* state until that is deleted, and nothing ever after.
THEOREM NumbersAreNotReused == ESpec => NumbersKeepMeaning
<1> DEFINE Kept == \A k \in 1 .. made : SM!findState(k)' \in {SM!findState(k), 0}
<1>1. EInit => StatesInv
  BY StatesAssumption DEF EInit, SM!Init, StatesInv
<1>2. StatesInv /\ [ENext]_evars => StatesInv'
  <2> SUFFICES ASSUME StatesInv, [ENext]_evars PROVE StatesInv'
    OBVIOUS
  <2>1. CASE SM!addState
    BY <2>1, AddKeepsStates
  <2>2. CASE SM!deleteState
    BY <2>2, DeleteKeepsStates
  <2>3. CASE UNCHANGED <<states, _ID, _state_count, made>>
    BY <2>3 DEF StatesInv
  <2> QED
    BY <2>1, <2>2, <2>3 DEF ENext, SM!Next, SM!statesHandlerTask, SM!sm, evars
<1>3. StatesInv /\ StatesInv' /\ [ENext]_evars => [Kept]_(SM!sm)
  <2> SUFFICES ASSUME StatesInv, StatesInv', SM!addState \/ SM!deleteState,
                      NEW k \in 1 .. _state_count
               PROVE  SM!findState(k)' \in {SM!findState(k), 0}
    BY DEF StatesInv, ENext, SM!Next, SM!statesHandlerTask, SM!sm, evars
  <2>1. /\ k \in 1 .. _state_count' /\ k - 1 # _state_count + 1
        /\ SM!ToSet(states)' \subseteq SM!ToSet(states) \cup {_state_count + 1}
    BY ListOnlyGrowsByNew DEF StatesInv
  <2>2. SM!findState(k) = IF k - 1 \in SM!ToSet(states) THEN k - 1 ELSE 0
    BY InvMeansShifted DEF NumbersAreShifted
  <2>3. NumbersAreShifted'
    <3>1. (StatesInv => NumbersAreShifted)'
      BY InvMeansShifted, PTL
    <3> QED
      BY <3>1
  <2>4. SM!findState(k)' = IF k - 1 \in SM!ToSet(states)' THEN k - 1 ELSE 0
    BY <2>1, <2>3 DEF NumbersAreShifted
  <2> QED
    BY <2>1, <2>2, <2>4
<1> HIDE DEF Kept
<1>4. [][Kept]_(SM!sm) => NumbersKeepMeaning
  BY DEF NumbersKeepMeaning, SM!NumbersKeepMeaning, Kept
<1> QED
  BY <1>1, <1>2, <1>3, <1>4, PTL DEF ESpec, evars
=============================================================================
