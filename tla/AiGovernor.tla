----------------------------- MODULE AiGovernor -----------------------------
(***************************************************************************)
(* IOctl: the kernel module AI_governor_ioctl.c and the application        *)
(* AI_governor_app.c.                                                      *)
(*                                                                         *)
(* The driver's ioctl is unlocked: calls of several processes read and     *)
(* write current_AI_governor at the same time, field by field.  The        *)
(* application is compiled with a header of its own, whose command numbers *)
(* are not the driver's, and opens a device node that the driver does not  *)
(* create; someone has to make a link of that name.  Files keep the module *)
(* loaded.  The node appears with device_create(), so there are no calls   *)
(* before.                                                                 *)
(***************************************************************************)
EXTENDS Integers, FiniteSets

CONSTANTS Proc,      \* processes that use the driver's own header
          App,       \* the application's process
          NFields,   \* fields of AI_governor, in order; it has 5
          MaxCalls,  \* ioctl() calls
          MaxLoads   \* attempts to load the module

ASSUME GovernorAssumption == /\ App \notin Proc /\ App \notin {"clr", "other"}
                             /\ NFields \in Nat \ {0} /\ MaxCalls \in Nat /\ MaxLoads \in Nat

Caller == Proc \cup {App}
Field == 1 .. NFields

\* A value is known by where it comes from: SET copies its caller's values.
Value == {"zero", "clr", "other"} \cup Caller

VARIABLES module,    \* "out", the call that loading makes next, or "in"
          held,      \* what the module has registered
          regions,   \* registered device number regions, leaked ones included
          addFails,  \* failures of cdev_add() so far
          loads,     \* attempts to load the module so far
          link,      \* "yes" when the application's name for the node exists
          file,      \* callers that have the node open
          settings,  \* current_AI_governor
          call,      \* the command each caller's ioctl() is in, or "none"
          at,        \* the field it is at
          g,         \* its local AI_governor
          calls,     \* ioctl() calls so far
          app,       \* the application: its command, or how far it has got
          batch,     \* who has written since a moment at which nobody wrote
          quiet      \* callers whose GET no write has overlapped so far

driver == <<module, held, regions, addFails, loads>>
ioctls == <<settings, call, at, g, calls, batch, quiet>>
vars == <<driver, link, file, ioctls, app>>

Init == /\ module = "out" /\ held = {} /\ regions = 0 /\ addFails = 0 /\ loads = 0
        /\ link = "no" /\ file = {}
        /\ settings = [f \in Field |-> "zero"]
        /\ call = [p \in Caller |-> "none"]
        /\ at = [p \in Caller |-> 1]
        /\ g = [p \in Caller |-> [f \in Field |-> "zero"]]
        /\ calls = 0 /\ app = "start"
        /\ batch = {} /\ quiet = {}
-----------------------------------------------------------------------------
(* AI_gov_ioctl_init and AI_gov_ioctl_exit. *)

alloc_chrdev_region ==
  /\ module = "out" /\ loads < MaxLoads
  /\ loads' = loads + 1
  /\ \/ /\ module' = "cdev_add" /\ held' = {"region"} /\ regions' = regions + 1
     \/ UNCHANGED <<module, held, regions>>
  /\ UNCHANGED <<addFails, link, file, ioctls, app>>

\* On an error the region stays registered.
cdev_add == /\ module = "cdev_add"
            /\ \/ /\ module' = "class_create" /\ held' = held \cup {"cdev"}
                  /\ UNCHANGED addFails
               \/ /\ module' = "out" /\ held' = {}
                  /\ addFails' = addFails + 1
            /\ UNCHANGED <<regions, loads, link, file, ioctls, app>>

\* Mutant: the error path leaves the region to AI_gov_ioctl_exit.
class_create_Keeps ==
  /\ module = "class_create"
  /\ \/ /\ module' = "device_create" /\ held' = held \cup {"class"}
     \/ module' = "out" /\ held' = {}
  /\ UNCHANGED <<regions, addFails, loads, link, file, ioctls, app>>

class_create == /\ module = "class_create"
                /\ \/ /\ module' = "device_create" /\ held' = held \cup {"class"}
                      /\ UNCHANGED regions
                   \/ /\ module' = "out" /\ held' = held \ {"cdev", "region"}
                      /\ regions' = regions - 1
                /\ UNCHANGED <<addFails, loads, link, file, ioctls, app>>

\* A module that is loaded starts with its settings all zero.
device_create == /\ module = "device_create"
                 /\ \/ /\ module' = "in" /\ held' = held \cup {"device"}
                       /\ settings' = [f \in Field |-> "zero"]
                       /\ batch' = {}
                       /\ UNCHANGED regions
                    \/ /\ module' = "out" /\ held' = held \ {"class", "cdev", "region"}
                       /\ regions' = regions - 1
                       /\ UNCHANGED <<settings, batch>>
                 /\ UNCHANGED <<addFails, loads, link, file, call, at, g, calls, quiet, app>>

AI_gov_ioctl_exit == /\ module = "in" /\ file = {}
                     /\ module' = "out"
                     /\ held' = held \ {"device", "class", "cdev", "region"}
                     /\ regions' = regions - 1
                     /\ UNCHANGED <<addFails, loads, link, file, ioctls, app>>

AI_gov_ioctl_init == alloc_chrdev_region \/ cdev_add \/ class_create \/ device_create
-----------------------------------------------------------------------------
(* Command numbers: direction, number, and size of the argument's type. *)

DriverCode == [GET |-> <<"r", 1, 8>>, CLR |-> <<"none", 2, 0>>,
               SET |-> <<"w", 3, 8>>, OTHER_FUNCT |-> <<"none", 4, 0>>]

\* The application's command line options.
AppCode == [gp |-> <<"r", 1, 8>>, sp |-> <<"w", 2, 8>>, clr |-> <<"none", 3, 0>>,
            gv |-> <<"rw", 4, 8>>, sv |-> <<"w", 5, 8>>]
-----------------------------------------------------------------------------
(* AI_gov_ioctl. *)

Writes(c) == c \in {"CLR", "SET", "OTHER_FUNCT"}
Writers == {p \in Caller : Writes(call[p])}

\* What caller p's command writes.
Source(p, c) == IF c = "CLR" THEN "clr" ELSE IF c = "OTHER_FUNCT" THEN "other" ELSE p

\* Mutant: the switch tests the number alone, without direction and size.
Enter_NumberOnly(p, code) ==
  /\ calls < MaxCalls /\ calls' = calls + 1
  /\ \E c \in DOMAIN DriverCode :
       /\ DriverCode[c][2] = code[2]
       /\ call' = [call EXCEPT ![p] = c]
       /\ batch' = IF Writes(c) THEN batch \cup {Source(p, c)} ELSE batch
       /\ quiet' = IF c = "GET" /\ Writers = {} THEN quiet \cup {p} ELSE {}
  /\ at' = [at EXCEPT ![p] = 1]
  /\ UNCHANGED <<settings, g>>

\* The switch.  An unknown command returns -EINVAL; SET returns -EACCES if the
\* argument cannot be read.
Enter(p, code) ==
  /\ calls < MaxCalls /\ calls' = calls + 1
  /\ \/ \E c \in DOMAIN DriverCode :
          /\ DriverCode[c] = code
          /\ call' = [call EXCEPT ![p] = c]
          /\ at' = [at EXCEPT ![p] = 1]
          /\ batch' = IF ~Writes(c) THEN batch
                      ELSE (IF Writers = {} THEN {} ELSE batch) \cup {Source(p, c)}
          /\ quiet' = IF Writes(c) THEN {}
                      ELSE IF c = "GET" /\ Writers = {} THEN quiet \cup {p} ELSE quiet
     \/ /\ code \notin {DriverCode[c] : c \in DOMAIN DriverCode \ {"SET"}}
        /\ UNCHANGED <<call, at, batch, quiet>>
  /\ UNCHANGED <<settings, g>>

\* Mutant: memcpy() is given a size that is one field short.
Load_Short(p) == /\ call[p] = "GET" /\ at[p] \in Field
                 /\ g' = [g EXCEPT ![p][at[p]] = settings[at[p]]]
                 /\ at' = [at EXCEPT ![p] = IF @ + 1 = NFields THEN @ + 2 ELSE @ + 1]
                 /\ UNCHANGED <<driver, link, file, settings, call, calls, batch, quiet, app>>

\* GET's memcpy(), a field at a time.
Load(p) == /\ call[p] = "GET" /\ at[p] \in Field
           /\ g' = [g EXCEPT ![p][at[p]] = settings[at[p]]]
           /\ at' = [at EXCEPT ![p] = @ + 1]
           /\ UNCHANGED <<driver, link, file, settings, call, calls, batch, quiet, app>>

\* Mutant: SET leaves out the last field.
Store_NoPhase(p) ==
  /\ Writes(call[p]) /\ at[p] \in Field
  /\ settings' = IF call[p] = "SET" /\ at[p] = NFields THEN settings
                 ELSE [settings EXCEPT ![at[p]] = Source(p, call[p])]
  /\ at' = [at EXCEPT ![p] = @ + 1]
  /\ UNCHANGED <<driver, link, file, call, g, calls, batch, quiet, app>>

Store(p) == /\ Writes(call[p]) /\ at[p] \in Field
            /\ settings' = [settings EXCEPT ![at[p]] = Source(p, call[p])]
            /\ at' = [at EXCEPT ![p] = @ + 1]
            /\ UNCHANGED <<driver, link, file, call, g, calls, batch, quiet, app>>

\* GET's copy_to_user(), with -EACCES if it fails, and the return.
Return(p) == /\ call[p] # "none" /\ at[p] = NFields + 1
             /\ call' = [call EXCEPT ![p] = "none"]
             /\ quiet' = quiet \ {p}
             /\ UNCHANGED <<driver, link, file, settings, at, g, calls, batch, app>>

AI_gov_ioctl(p) == Load(p) \/ Store(p) \/ Return(p)
-----------------------------------------------------------------------------
(* Callers. *)

\* A process that knows the driver.
Open(p) == /\ module = "in" /\ p \notin file
           /\ file' = file \cup {p}
           /\ UNCHANGED <<driver, link, ioctls, app>>

Ioctl(p) == /\ p \in file /\ call[p] = "none"
            /\ \E c \in DOMAIN DriverCode : Enter(p, DriverCode[c])
            /\ UNCHANGED <<driver, link, file, app>>

Close(p) == /\ p \in file /\ call[p] = "none"
            /\ file' = file \ {p}
            /\ UNCHANGED <<driver, link, ioctls, app>>

\* The administrator gives the driver's node the application's name.
Link == /\ link = "no" /\ link' = "yes"
        /\ UNCHANGED <<driver, file, ioctls, app>>

\* The application's main: the command line, and open().
AppOpen == /\ app = "start"
           /\ \/ /\ link = "yes" /\ module = "in"
                 /\ app' \in DOMAIN AppCode
                 /\ file' = file \cup {App}
              \/ app' = "done" /\ UNCHANGED file
           /\ UNCHANGED <<driver, link, ioctls>>

\* get_phase, set_phase and the others make one ioctl() each.
AppIoctl == /\ app \in DOMAIN AppCode
            /\ Enter(App, AppCode[app])
            /\ app' = "called"
            /\ UNCHANGED <<driver, link, file>>

\* The result is printed and the node closed.  GET_VARIABLES has overwritten the
\* stack behind get_phase's variable; the end of the process closes the file too.
AppClose == /\ app = "called" /\ call[App] = "none"
            /\ app' \in {"done", "crashed"}
            /\ file' = file \ {App}
            /\ UNCHANGED <<driver, link, ioctls>>

Next == \/ AI_gov_ioctl_init \/ AI_gov_ioctl_exit
        \/ \E p \in Caller : AI_gov_ioctl(p)
        \/ \E p \in Proc : Open(p) \/ Ioctl(p) \/ Close(p)
        \/ Link \/ AppOpen \/ AppIoctl \/ AppClose

Spec == Init /\ [][Next]_vars
-----------------------------------------------------------------------------
(* Properties. *)

\* Types.
TypeOK == /\ module \in {"out", "cdev_add", "class_create", "device_create", "in"}
          /\ held \subseteq {"region", "cdev", "class", "device"}
          /\ {regions, addFails, loads} \subseteq 0 .. MaxLoads /\ calls \in 0 .. MaxCalls
          /\ file \subseteq Caller /\ quiet \subseteq Caller /\ batch \subseteq Value
          /\ settings \in [Field -> Value] /\ g \in [Caller -> [Field -> Value]]
          /\ call \in [Caller -> {"none"} \cup DOMAIN DriverCode]
          /\ at \in [Caller -> 1 .. NFields + 1]
          /\ link \in {"yes", "no"}
          /\ app \in {"start", "called", "done", "crashed"} \cup DOMAIN AppCode

\* When nobody writes, every field is from one of the calls that wrote last, at
\* the same time: settings of several callers may be mixed, but none is older,
\* and after a write that no other overlapped all fields are its own.
FieldsFromLastWriters == (Writers = {} /\ batch # {}) => \A f \in Field : settings[f] \in batch

\* A GET that no write overlaps returns the settings as they are.
UndisturbedGet == \A p \in quiet : call[p] = "GET"
                    => \A f \in Field : f < at[p] => g[p][f] = settings[f]

\* Nothing outlives the module but a device number region for each cdev_add()
\* that failed; every other error path of AI_gov_ioctl_init releases what was
\* registered before, and so does the exit.
CleanAfterUnload == /\ regions = addFails + IF "region" \in held THEN 1 ELSE 0
                    /\ module = "out" => held = {}
                    /\ file # {} => held = {"region", "cdev", "class", "device"}

\* Only the application's -gp has a number that the driver knows, and there it
\* is GET_VARIABLES: whatever its command line, the application changes nothing.
AppOnlyReads == call[App] \in {"none", "GET"} /\ App \notin batch
=============================================================================
