-------------------------- MODULE AiGovernorProofs --------------------------
(***************************************************************************)
(* Proofs about the ioctl driver and its application (AiGovernor), for any *)
(* number of processes, fields and calls.                                  *)
(***************************************************************************)
EXTENDS AiGovernor, TLAPS

\* What is registered at each step of AI_gov_ioctl_init, and how often.
HeldInv == /\ module = "out" => held = {}
           /\ module = "cdev_add" => held = {"region"}
           /\ module = "class_create" => held = {"region", "cdev"}
           /\ module = "device_create" => held = {"region", "cdev", "class"}
           /\ module = "in" => held = {"region", "cdev", "class", "device"}
           /\ module = "out" => regions = addFails
           /\ module # "out" => regions = addFails + 1
           /\ regions <= loads

\* Calls are made through open files, and those keep the module loaded.
FileInv == /\ file # {} => module = "in"
           /\ \A p \in Caller : call[p] # "none" => p \in file

\* The application has the node open, and no call under way, when it makes its own.
AppInv == /\ app \in DOMAIN AppCode => App \in file /\ call[App] = "none"
          /\ app = "start" => call[App] = "none"

\* A field that is not from the current batch is still to be written by every
\* call that writes, and there is one.
BatchInv == /\ \A p \in Writers : Source(p, call[p]) \in batch
            /\ batch # {} => \A f \in Field : settings[f] \notin batch
                               => Writers # {} /\ \A p \in Writers : at[p] <= f

\* An undisturbed GET has nobody writing beside it.
QuietInv == /\ quiet # {} => Writers = {}
            /\ \A p \in quiet : call[p] = "GET"

\* The inductive invariant.
Inv == /\ TypeOK /\ HeldInv /\ FileInv /\ AppInv /\ BatchInv /\ QuietInv
       /\ UndisturbedGet /\ AppOnlyReads
-----------------------------------------------------------------------------
\* The commands of the driver.
LEMMA Commands == DOMAIN DriverCode = {"GET", "CLR", "SET", "OTHER_FUNCT"}
BY DEF DriverCode

LEMMA AppCommands == DOMAIN AppCode = {"gp", "sp", "clr", "gv", "sv"}
BY DEF AppCode

LEMMA InitInv == Init => Inv
<1> SUFFICES ASSUME Init PROVE Inv
  OBVIOUS
<1>1. TypeOK
  BY GovernorAssumption DEF Init, TypeOK, Caller, Field, Value, DriverCode
<1>2. HeldInv /\ FileInv /\ QuietInv /\ UndisturbedGet
  BY DEF Init, HeldInv, FileInv, QuietInv, UndisturbedGet
<1>3. Writers = {}
  BY DEF Init, Writers, Writes
<1>4. BatchInv /\ AppOnlyReads /\ AppInv
  BY <1>3, AppCommands DEF Init, BatchInv, AppOnlyReads, AppInv, Caller
<1> QED
  BY <1>1, <1>2, <1>4 DEF Inv

\* Only GET of the driver's commands has a number that the application uses.
LEMMA CommonCode ==
  ASSUME NEW c \in DOMAIN DriverCode, NEW a \in DOMAIN AppCode, DriverCode[c] = AppCode[a]
  PROVE  c = "GET"
BY Commands, AppCommands DEF DriverCode, AppCode
-----------------------------------------------------------------------------
\* Loading and unloading.
LEMMA ModuleStep ==
  ASSUME Inv, AI_gov_ioctl_init \/ AI_gov_ioctl_exit
  PROVE  Inv'
<1> USE GovernorAssumption
<1>1. /\ UNCHANGED <<link, file, call, at, g, calls, quiet, app>>
      /\ \/ UNCHANGED <<settings, batch>>
         \/ /\ module = "device_create" /\ batch' = {}
            /\ settings' = [f \in Field |-> "zero"]
  BY DEF AI_gov_ioctl_init, AI_gov_ioctl_exit, alloc_chrdev_region, cdev_add, class_create,
         device_create, ioctls
<1>0. regions \in Nat /\ addFails \in Nat /\ loads \in 0 .. MaxLoads
  BY DEF Inv, TypeOK
<1>2. /\ HeldInv' /\ (file # {} => module' = "in")
      /\ module' \in {"out", "cdev_add", "class_create", "device_create", "in"}
      /\ addFails' \in Nat /\ loads' \in 0 .. MaxLoads
  <2>1. CASE alloc_chrdev_region
    BY <1>0, <2>1 DEF Inv, HeldInv, FileInv, alloc_chrdev_region
  <2>2. CASE cdev_add
    BY <1>0, <2>2 DEF Inv, HeldInv, FileInv, cdev_add
  <2>3. CASE class_create
    BY <1>0, <2>3 DEF Inv, HeldInv, FileInv, class_create
  <2>4. CASE device_create
    BY <1>0, <2>4 DEF Inv, HeldInv, FileInv, device_create
  <2>5. CASE AI_gov_ioctl_exit
    BY <1>0, <2>5 DEF Inv, HeldInv, FileInv, AI_gov_ioctl_exit
  <2> QED
    BY <2>1, <2>2, <2>3, <2>4, <2>5 DEF AI_gov_ioctl_init
<1>4. settings' \in [Field -> Value] /\ batch' \subseteq Value
  BY <1>1 DEF Inv, TypeOK, Value
<1>5. TypeOK'
  BY <1>0, <1>1, <1>2, <1>4 DEF Inv, TypeOK, HeldInv
<1>6. module = "device_create" => Writers = {} /\ quiet = {}
  BY DEF Inv, TypeOK, FileInv, QuietInv, Writers, Writes
<1>7. Writers' = Writers
  BY <1>1 DEF Writers
<1>8. FileInv' /\ AppInv' /\ QuietInv' /\ AppOnlyReads'
  BY <1>1, <1>2, <1>7 DEF Inv, FileInv, AppInv, QuietInv, AppOnlyReads
<1>9. BatchInv' /\ UndisturbedGet'
  BY <1>1, <1>6, <1>7 DEF Inv, BatchInv, UndisturbedGet
<1> QED
  BY <1>2, <1>5, <1>8, <1>9 DEF Inv
-----------------------------------------------------------------------------
\* Opening and closing, the link, and the application's main.
LEMMA FileStep ==
  ASSUME Inv, UNCHANGED <<driver, ioctls>>, link' \in {"yes", "no"}, file' \subseteq Caller,
         app' \in {"start", "called", "done", "crashed"} \cup DOMAIN AppCode,
         file' # {} => module = "in",
         \A p \in Caller : call[p] # "none" => p \in file',
         app' \in DOMAIN AppCode => App \in file' /\ call[App] = "none",
         app' = "start" => call[App] = "none"
  PROVE  Inv'
<1>1. UNCHANGED <<module, held, regions, addFails, loads, settings, call, at, g, calls, batch, quiet>>
  BY DEF driver, ioctls
<1>2. Writers' = Writers
  BY <1>1 DEF Writers
<1>3. TypeOK'
  BY <1>1 DEF Inv, TypeOK
<1>4. HeldInv' /\ FileInv' /\ AppInv' /\ QuietInv' /\ AppOnlyReads'
  BY <1>1, <1>2 DEF Inv, HeldInv, FileInv, AppInv, QuietInv, AppOnlyReads
<1>5. BatchInv' /\ UndisturbedGet'
  BY <1>1, <1>2 DEF Inv, BatchInv, UndisturbedGet
<1> QED
  BY <1>3, <1>4, <1>5 DEF Inv

LEMMA OpenCloseStep ==
  ASSUME Inv, \/ \E p \in Proc : Open(p) \/ Close(p)
              \/ Link \/ AppOpen \/ AppClose
  PROVE  Inv'
<1>1. link \in {"yes", "no"} /\ file \subseteq Caller
      /\ app \in {"start", "called", "done", "crashed"} \cup DOMAIN AppCode
      /\ AppInv /\ "done" \notin DOMAIN AppCode /\ "crashed" \notin DOMAIN AppCode
  BY AppCommands DEF Inv, TypeOK
<1>2. CASE \E p \in Proc : Open(p) \/ Close(p)
  <2>1. UNCHANGED <<driver, ioctls, link, app>> /\ file' \subseteq Caller
        /\ (file' # {} => module = "in") /\ \A p \in Caller : call[p] # "none" => p \in file'
    BY <1>1, <1>2 DEF Open, Close, Inv, FileInv, Caller
  <2>2. App \in file => App \in file'
    BY <1>2, GovernorAssumption DEF Open, Close
  <2> QED
    BY <1>1, <2>1, <2>2, FileStep DEF AppInv
<1>3. CASE Link
  <2>1. UNCHANGED <<driver, ioctls, file, app>> /\ link' = "yes"
    BY <1>3 DEF Link
  <2> QED
    BY <1>1, <2>1, FileStep DEF Inv, FileInv, AppInv
<1>4. CASE AppOpen
  <2>1. /\ UNCHANGED <<driver, ioctls, link>> /\ file' \subseteq Caller
        /\ app = "start"
        /\ app' = "done" \/ (app' \in DOMAIN AppCode /\ App \in file')
        /\ (file' # {} => module = "in") /\ \A p \in Caller : call[p] # "none" => p \in file'
    BY <1>1, <1>4 DEF AppOpen, Inv, FileInv, Caller
  <2> QED
    BY <1>1, <2>1, FileStep DEF AppInv
<1>5. CASE AppClose
  <2>1. /\ UNCHANGED <<driver, ioctls, link>> /\ file' \subseteq Caller
        /\ app' \in {"done", "crashed"}
        /\ (file' # {} => module = "in") /\ \A p \in Caller : call[p] # "none" => p \in file'
    BY <1>1, <1>5 DEF AppClose, Inv, FileInv, Caller
  <2> QED
    BY <1>1, <2>1, FileStep
<1> QED
  BY <1>2, <1>3, <1>4, <1>5
-----------------------------------------------------------------------------
\* The switch: a call begins, or is refused.
LEMMA EnterStep ==
  ASSUME Inv, NEW p \in Caller, NEW code, p \in file, call[p] = "none", Enter(p, code),
         UNCHANGED <<driver, link, file>>,
         app' = IF p = App THEN "called" ELSE app,
         \A c \in DOMAIN DriverCode : p = App /\ DriverCode[c] = code => c = "GET"
  PROVE  Inv'
<1> USE GovernorAssumption
<1>1. UNCHANGED <<module, held, regions, addFails, loads, settings, g>> /\ calls' \in 0 .. MaxCalls
  BY DEF driver, Enter, Inv, TypeOK
<1>0. app' \in {"start", "called", "done", "crashed"} \cup DOMAIN AppCode
  BY DEF Inv, TypeOK
<1>2. CASE UNCHANGED <<call, at, batch, quiet>>
  <2>1. Writers' = Writers
    BY <1>2 DEF Writers
  <2>2. TypeOK'
    BY <1>0, <1>1, <1>2 DEF Inv, TypeOK
  <2>3. HeldInv' /\ FileInv' /\ AppInv' /\ QuietInv' /\ AppOnlyReads'
    BY <1>1, <1>2, <2>1, AppCommands DEF Inv, HeldInv, FileInv, AppInv, QuietInv, AppOnlyReads
  <2>4. BatchInv' /\ UndisturbedGet'
    BY <1>1, <1>2, <2>1 DEF Inv, BatchInv, UndisturbedGet
  <2> QED
    BY <2>2, <2>3, <2>4 DEF Inv
<1>3. CASE ~UNCHANGED <<call, at, batch, quiet>>
  <2>1. PICK c \in DOMAIN DriverCode :
          /\ DriverCode[c] = code
          /\ call' = [call EXCEPT ![p] = c] /\ at' = [at EXCEPT ![p] = 1]
          /\ batch' = IF ~Writes(c) THEN batch
                      ELSE (IF Writers = {} THEN {} ELSE batch) \cup {Source(p, c)}
          /\ quiet' = IF Writes(c) THEN {}
                      ELSE IF c = "GET" /\ Writers = {} THEN quiet \cup {p} ELSE quiet
    BY <1>3 DEF Enter
  <2>2. /\ call \in [Caller -> {"none"} \cup DOMAIN DriverCode]
        /\ at \in [Caller -> 1 .. NFields + 1]
    BY DEF Inv, TypeOK
  <2>3. /\ call'[p] = c /\ at'[p] = 1
        /\ \A q \in Caller \ {p} : call'[q] = call[q] /\ at'[q] = at[q]
    BY <2>1, <2>2
  <2>4. Writers' = IF Writes(c) THEN Writers \cup {p} ELSE Writers
    BY <2>2, <2>3 DEF Writers, Writes
  <2>5. p \notin Writers /\ p \notin quiet
    BY DEF Writers, Writes, Inv, QuietInv
  <2>6. Source(p, c) \in Value /\ (Writes(c) => Source(p, c) # App)
    <3>1. Source(p, c) \in Value
      BY DEF Source, Value
    <3>2. ASSUME Writes(c), Source(p, c) = App PROVE FALSE
      BY <3>2, <2>1 DEF Source, Writes
    <3> QED
      BY <3>1, <3>2
  <2>7. TypeOK'
    <3>1. call' \in [Caller -> {"none"} \cup DOMAIN DriverCode]
      BY <2>1, <2>2
    <3>2. at' \in [Caller -> 1 .. NFields + 1]
      BY <2>1, <2>2
    <3>3. batch' \subseteq Value /\ quiet' \subseteq Caller
      BY <2>1, <2>6 DEF Inv, TypeOK
    <3> QED
      BY <1>0, <1>1, <3>1, <3>2, <3>3 DEF Inv, TypeOK
  <2>8. HeldInv' /\ FileInv' /\ AppInv'
    BY <1>1, <2>3, AppCommands DEF Inv, HeldInv, FileInv, AppInv, Caller
  <2>9. QuietInv'
    BY <2>1, <2>3, <2>4, <2>5, Commands DEF Inv, TypeOK, QuietInv, Writes
  <2>10. BatchInv'
    <3>1. \A q \in Writers' : Source(q, call'[q]) \in batch'
      BY <2>1, <2>3, <2>4, <2>5 DEF Inv, BatchInv, Writers
    <3>2. ASSUME batch' # {}, NEW f \in Field, settings[f] \notin batch'
          PROVE  Writers' # {} /\ \A q \in Writers' : at'[q] <= f
      BY <2>1, <2>3, <2>4, <2>5, <3>2 DEF Inv, BatchInv, Writers, Field
    <3> QED
      BY <1>1, <3>1, <3>2 DEF BatchInv
  <2>11. UndisturbedGet'
    BY <1>1, <2>1, <2>3, <2>5 DEF Inv, TypeOK, UndisturbedGet, Field
  <2>12. AppOnlyReads'
    BY <2>1, <2>3, <2>6 DEF Inv, AppOnlyReads, Caller, Writes
  <2> QED
    BY <2>7, <2>8, <2>9, <2>10, <2>11, <2>12 DEF Inv
<1> QED
  BY <1>2, <1>3
-----------------------------------------------------------------------------
\* GET copies a field to its local variable.
LEMMA LoadStep ==
  ASSUME Inv, NEW p \in Caller, Load(p)
  PROVE  Inv'
<1> USE GovernorAssumption
<1>1. /\ UNCHANGED <<module, held, regions, addFails, loads, link, file, settings, call, calls,
                     batch, quiet, app>>
      /\ call[p] = "GET" /\ at[p] \in Field
      /\ g' = [g EXCEPT ![p][at[p]] = settings[at[p]]] /\ at' = [at EXCEPT ![p] = @ + 1]
  BY DEF Load, driver
<1>2. /\ g \in [Caller -> [Field -> Value]] /\ settings \in [Field -> Value]
      /\ at \in [Caller -> 1 .. NFields + 1]
  BY DEF Inv, TypeOK
<1>3. g' \in [Caller -> [Field -> Value]] /\ at' \in [Caller -> 1 .. NFields + 1]
  BY <1>1, <1>2 DEF Field
<1>4. TypeOK'
  BY <1>1, <1>3 DEF Inv, TypeOK
<1>5. Writers' = Writers /\ p \notin Writers
  BY <1>1 DEF Writers, Writes
<1>6. \A q \in Writers : at'[q] = at[q]
  BY <1>1, <1>2, <1>5 DEF Writers
<1>7. HeldInv' /\ FileInv' /\ AppInv' /\ QuietInv' /\ AppOnlyReads'
  BY <1>1, <1>5 DEF Inv, HeldInv, FileInv, AppInv, QuietInv, AppOnlyReads
<1>8. BatchInv'
  BY <1>1, <1>5, <1>6 DEF Inv, BatchInv
<1>9. UndisturbedGet'
  <2>1. ASSUME NEW q \in quiet, call[q] = "GET", NEW f \in Field, f < at'[q]
        PROVE  g'[q][f] = settings[f]
    <3>1. q \in Caller
      BY DEF Inv, TypeOK
    <3>2. CASE q # p
      BY <1>1, <1>2, <2>1, <3>1, <3>2 DEF Inv, UndisturbedGet
    <3>3. CASE q = p
      BY <1>1, <1>2, <2>1, <3>1, <3>3 DEF Inv, UndisturbedGet, Field
    <3> QED
      BY <3>2, <3>3
  <2> QED
    BY <1>1, <2>1 DEF UndisturbedGet
<1> QED
  BY <1>4, <1>7, <1>8, <1>9 DEF Inv

\* CLR, SET and OTHER_FUNCT assign one field.
LEMMA StoreStep ==
  ASSUME Inv, NEW p \in Caller, Store(p)
  PROVE  Inv'
<1> USE GovernorAssumption
<1>1. /\ UNCHANGED <<module, held, regions, addFails, loads, link, file, call, g, calls,
                     batch, quiet, app>>
      /\ Writes(call[p]) /\ at[p] \in Field
      /\ settings' = [settings EXCEPT ![at[p]] = Source(p, call[p])]
      /\ at' = [at EXCEPT ![p] = @ + 1]
  BY DEF Store, driver
<1>2. /\ settings \in [Field -> Value] /\ at \in [Caller -> 1 .. NFields + 1]
      /\ batch \subseteq Value
  BY DEF Inv, TypeOK
<1>3. Writers' = Writers /\ p \in Writers
  BY <1>1 DEF Writers
<1>4. Source(p, call[p]) \in batch
  BY <1>3 DEF Inv, BatchInv
<1>5. settings' \in [Field -> Value] /\ at' \in [Caller -> 1 .. NFields + 1]
  BY <1>1, <1>2, <1>4 DEF Field
<1>6. TypeOK'
  BY <1>1, <1>5 DEF Inv, TypeOK
<1>7. HeldInv' /\ FileInv' /\ AppInv' /\ QuietInv' /\ AppOnlyReads'
  BY <1>1, <1>3 DEF Inv, HeldInv, FileInv, AppInv, QuietInv, AppOnlyReads
<1>8. BatchInv'
  <2>1. ASSUME NEW f \in Field, settings'[f] \notin batch, NEW q \in Writers
        PROVE  at'[q] <= f
    <3>1. f # at[p] /\ settings[f] \notin batch /\ q \in Caller
      BY <1>1, <1>2, <1>4, <2>1 DEF Writers
    <3>2. at[q] <= f /\ at[p] <= f
      BY <1>3, <1>4, <3>1 DEF Inv, BatchInv
    <3> QED
      BY <1>1, <1>2, <3>1, <3>2 DEF Field
  <2> QED
    BY <1>1, <1>3, <2>1 DEF Inv, BatchInv
<1>9. UndisturbedGet'
  BY <1>1, <1>3 DEF Inv, QuietInv, UndisturbedGet
<1> QED
  BY <1>6, <1>7, <1>8, <1>9 DEF Inv

\* A call returns: a write has then been over every field.
LEMMA ReturnStep ==
  ASSUME Inv, NEW p \in Caller, Return(p)
  PROVE  Inv'
<1> USE GovernorAssumption
<1>1. /\ UNCHANGED <<module, held, regions, addFails, loads, link, file, settings, at, g, calls,
                     batch, app>>
      /\ call[p] # "none" /\ at[p] = NFields + 1
      /\ call' = [call EXCEPT ![p] = "none"] /\ quiet' = quiet \ {p}
  BY DEF Return, driver
<1>2. call \in [Caller -> {"none"} \cup DOMAIN DriverCode]
  BY DEF Inv, TypeOK
<1>3. call'[p] = "none" /\ \A q \in Caller \ {p} : call'[q] = call[q]
  BY <1>1, <1>2
<1>4. Writers' = Writers \ {p}
  BY <1>3 DEF Writers, Writes
<1>5. TypeOK'
  <2>1. call' \in [Caller -> {"none"} \cup DOMAIN DriverCode]
    BY <1>1, <1>2
  <2> QED
    BY <1>1, <2>1 DEF Inv, TypeOK
<1>6. HeldInv' /\ FileInv' /\ AppInv'
  BY <1>1, <1>3 DEF Inv, HeldInv, FileInv, AppInv, Caller
<1>7. QuietInv' /\ UndisturbedGet' /\ AppOnlyReads'
  BY <1>1, <1>3, <1>4 DEF Inv, TypeOK, QuietInv, UndisturbedGet, AppOnlyReads, Caller
<1>8. BatchInv'
  <2>1. \A q \in Writers' : Source(q, call'[q]) \in batch
    BY <1>3, <1>4 DEF Inv, BatchInv, Writers
  <2>2. ASSUME batch # {}, NEW f \in Field, settings[f] \notin batch
        PROVE  Writers' # {} /\ \A q \in Writers' : at[q] <= f
    <3>1. Writers # {} /\ \A q \in Writers : at[q] <= f
      BY <2>2 DEF Inv, BatchInv
    <3>2. p \notin Writers
      BY <1>1, <3>1 DEF Field
    <3> QED
      BY <1>4, <3>1, <3>2
  <2> QED
    BY <1>1, <2>1, <2>2 DEF BatchInv
<1> QED
  BY <1>5, <1>6, <1>7, <1>8 DEF Inv
-----------------------------------------------------------------------------
LEMMA NextInv == Inv /\ [Next]_vars => Inv'
<1> SUFFICES ASSUME Inv, [Next]_vars PROVE Inv'
  OBVIOUS
<1>1. CASE AI_gov_ioctl_init \/ AI_gov_ioctl_exit
  BY <1>1, ModuleStep
<1>2. CASE \E p \in Caller : AI_gov_ioctl(p)
  BY <1>2, LoadStep, StoreStep, ReturnStep DEF AI_gov_ioctl
<1>3. ASSUME NEW p \in Proc, Ioctl(p) PROVE Inv'
  <2>1. PICK c \in DOMAIN DriverCode : Enter(p, DriverCode[c])
    BY <1>3 DEF Ioctl
  <2>2. /\ p \in file /\ call[p] = "none" /\ p \in Caller /\ p # App
        /\ UNCHANGED <<driver, link, file>>
        /\ app' = app
    BY <1>3, GovernorAssumption DEF Ioctl, Caller
  <2> QED
    BY <2>1, <2>2, EnterStep
<1>4. CASE AppIoctl
  <2>1. /\ app \in DOMAIN AppCode /\ Enter(App, AppCode[app]) /\ app' = "called"
        /\ UNCHANGED <<driver, link, file>> /\ App \in Caller
    BY <1>4 DEF AppIoctl, Caller
  <2>2. App \in file /\ call[App] = "none"
    BY <2>1 DEF Inv, AppInv
  <2>3. \A c \in DOMAIN DriverCode : DriverCode[c] = AppCode[app] => c = "GET"
    BY <2>1, CommonCode
  <2> QED
    BY <2>1, <2>2, <2>3, EnterStep
<1>5. CASE \/ \E p \in Proc : Open(p) \/ Close(p)
           \/ Link \/ AppOpen \/ AppClose
  BY <1>5, OpenCloseStep
<1>6. CASE UNCHANGED vars
  BY <1>6, FileStep DEF vars, Inv, FileInv, AppInv, TypeOK
<1> QED
  BY <1>1, <1>2, <1>3, <1>4, <1>5, <1>6 DEF Next
-----------------------------------------------------------------------------
LEMMA SpecInv == Spec => []Inv
BY InitInv, NextInv, PTL DEF Spec

\* Every variable keeps its type: in particular no more regions are registered
\* than there were attempts to load the module.
THEOREM TypeCorrect == Spec => []TypeOK
<1>1. Inv => TypeOK
  BY DEF Inv
<1> QED
  BY <1>1, SpecInv, PTL

\* Whatever calls of AI_gov_ioctl_init fail, in whatever order processes open,
\* call and close, unloading leaves nothing but the regions of failed cdev_add()s.
THEOREM NothingLeftRegistered == Spec => []CleanAfterUnload
<1>1. Inv => CleanAfterUnload
  BY DEF Inv, TypeOK, HeldInv, FileInv, CleanAfterUnload
<1> QED
  BY <1>1, SpecInv, PTL

\* Once the writes that overlapped are over, no field of current_AI_governor is
\* older than the first of them, however their assignments interleaved.
THEOREM SettingsFromLastWriters == Spec => []FieldsFromLastWriters
<1>1. Inv => FieldsFromLastWriters
  BY DEF Inv, BatchInv, FieldsFromLastWriters
<1> QED
  BY <1>1, SpecInv, PTL

\* What GET copies is current_AI_governor as long as no write overlaps it,
\* unloading and loading the module included.
THEOREM GetIsExact == Spec => []UndisturbedGet
<1>1. Inv => UndisturbedGet
  BY DEF Inv
<1> QED
  BY <1>1, SpecInv, PTL

\* The application's header shares one number with the driver's, that of GET:
\* it never changes the settings.
THEOREM ApplicationReads == Spec => []AppOnlyReads
<1>1. Inv => AppOnlyReads
  BY DEF Inv
<1> QED
  BY <1>1, SpecInv, PTL
=============================================================================
