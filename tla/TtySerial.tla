----------------------------- MODULE TtySerial -----------------------------
(***************************************************************************)
(* tty_serial/src/main.c: a serial port whose SIGIO handler reads one byte *)
(* per signal.                                                             *)
(*                                                                         *)
(* The port buffers what arrives from the moment it is opened, but raises  *)
(* SIGIO only once the descriptor is asynchronous and has an owner, one    *)
(* for each burst of bytes the driver hands over; at most one SIGIO is     *)
(* pending and it is blocked while its handler runs.                       *)
(***************************************************************************)
EXTENDS Integers, Sequences

CONSTANTS Burst,      \* most bytes that arrive at once
          MaxBytes    \* bytes that arrive in all

VARIABLES step,       \* main's next step, "sleep", or "exited"
          fd,         \* the port: "none", "open", "closed"
          handler,    \* "yes" while serial_handler runs
          pending,    \* 1 when a SIGIO is pending
          buffered,   \* bytes that can be read
          arrived,    \* bytes that have arrived
          printed,    \* bytes printed
          unsignalled \* bytes that arrived without a SIGIO of their own

vars == <<step, fd, handler, pending, buffered, arrived, printed, unsignalled>>

\* Mutant: the port is made asynchronous before the handler is installed.
SetUp_AsyncFirst == <<"open", "tcgetattr", "tcsetattr", "fcntl", "sigaction">>

\* main's steps, in order; each can fail but the last, whose fcntl() calls are
\* not checked.
SetUp == <<"open", "tcgetattr", "tcsetattr", "sigaction", "fcntl">>

Init == /\ step = "open" /\ fd = "none"
        /\ handler = "no"
        /\ pending = 0
        /\ buffered = 0 /\ arrived = 0 /\ printed = 0 /\ unsignalled = 0
-----------------------------------------------------------------------------
(* main. *)

Start == /\ handler = "no"
         /\ \E i \in DOMAIN SetUp :
              /\ step = SetUp[i]
              /\ step' = IF i = Len(SetUp) THEN "sleep" ELSE SetUp[i + 1]
         /\ fd' = "open"
         /\ UNCHANGED <<handler, pending, buffered, arrived, printed, unsignalled>>

\* A failure ends main; the port is closed if it was opened.
Fail == /\ handler = "no"
        /\ step \in {"open", "tcgetattr", "tcsetattr", "sigaction"}
        /\ step' = "exited"
        /\ fd' = IF fd = "open" THEN "closed" ELSE fd
        /\ UNCHANGED <<handler, pending, buffered, arrived, printed, unsignalled>>

main == Start \/ Fail

\* main has taken this step and goes on.
Past(call) == \/ step = "sleep"
              \/ \E i, j \in DOMAIN SetUp : i < j /\ SetUp[i] = call /\ SetUp[j] = step
-----------------------------------------------------------------------------
(* The port. *)

\* SIGIO is raised if the port is asynchronous and none is pending.
Arrive(n) == /\ fd = "open"
             /\ arrived + n <= MaxBytes
             /\ arrived' = arrived + n
             /\ buffered' = buffered + n
             /\ \/ /\ Past("fcntl") /\ pending = 0
                   /\ pending' = 1
                   /\ unsignalled' = unsignalled + n - 1
                \/ /\ ~Past("fcntl") \/ pending = 1
                   /\ unsignalled' = unsignalled + n
                   /\ UNCHANGED pending
             /\ UNCHANGED <<step, fd, handler, printed>>
-----------------------------------------------------------------------------
(* serial_handler. *)

Deliver == /\ Past("sigaction") /\ handler = "no"
           /\ pending = 1
           /\ pending' = 0
           /\ handler' = "yes"
           /\ UNCHANGED <<step, fd, buffered, arrived, printed, unsignalled>>

\* The bytes one read() of one byte gets: the port is non-blocking.
Got == IF buffered > 0 THEN 1 ELSE 0

\* Mutant: the test of read()'s result is the wrong way round.
Read_Unprinted == /\ handler = "yes"
                  /\ buffered' = buffered - Got
                  /\ handler' = "no"
                  /\ UNCHANGED <<step, fd, pending, arrived, printed, unsignalled>>

\* One read(): the byte, if there is one, is printed.
Read == /\ handler = "yes"
        /\ buffered' = buffered - Got
        /\ printed' = printed + Got
        /\ handler' = "no"
        /\ UNCHANGED <<step, fd, pending, arrived, unsignalled>>

serial_handler == Deliver \/ Read

Next == main \/ serial_handler \/ \E n \in 1 .. Burst : Arrive(n)

\* The process runs and takes its signals.
Fairness == WF_vars(main) /\ WF_vars(serial_handler)

Spec == Init /\ [][Next]_vars /\ Fairness
-----------------------------------------------------------------------------
(* Properties. *)

InHandler == IF handler = "yes" THEN 1 ELSE 0

\* Types; the port is open exactly while main uses it.
TypeOK == /\ step \in {"open", "tcgetattr", "tcsetattr", "sigaction", "fcntl", "sleep", "exited"}
          /\ fd \in {"none", "open", "closed"}
          /\ fd = "open" <=> step \notin {"open", "exited"}
          /\ handler \in {"yes", "no"}
          /\ pending \in {0, 1}
          /\ arrived \in 0 .. MaxBytes
          /\ {buffered, printed, unsignalled} \subseteq 0 .. MaxBytes

\* What a SIGIO can rely on: there is a handler for it, whose absence would end
\* the process (main.c:70 comes before main.c:81), and each pending SIGIO and
\* each running handler has a byte of its own in the port, whatever the other
\* handlers have read, so that the one read() of main.c:20 never comes back
\* empty-handed.
SignalFindsHandlerAndByte == /\ pending = 1 => Past("sigaction")
                             /\ pending + InHandler <= buffered

\* The handler always finds a byte and prints it: in the end all but the
\* unsignalled bytes are printed.
SignalledArePrinted == <>[](step = "exited" \/ printed + unsignalled = arrived)
=============================================================================
