--------------------------- MODULE MCSigioReaders ---------------------------
(***************************************************************************)
(* The two programs that answer SIGIO in one process with one descriptor,  *)
(* side by side: async_UDP, whose handler reads until nothing is left, and *)
(* tty_serial, whose handler reads once.                                   *)
(***************************************************************************)
EXTENDS AsyncUdp

CONSTANTS Burst, MaxBytes

VARIABLES portStep, fd, portHandler, portPending, buffered, portArrived, printed, unsignalled

port == <<portStep, fd, portHandler, portPending, buffered, portArrived, printed, unsignalled>>

Tty == INSTANCE TtySerial WITH step <- portStep, handler <- portHandler,
                               pending <- portPending, arrived <- portArrived

RInit == Init /\ Tty!Init

RNext == \/ Next /\ UNCHANGED port
         \/ Tty!Next /\ UNCHANGED vars

RSpec == RInit /\ [][RNext]_<<vars, port>> /\ Fairness /\ Tty!Fairness

\* TtySerial's SignalFindsHandlerAndByte.
SignalFindsHandlerAndByte == Tty!SignalFindsHandlerAndByte

\* TtySerial's SignalledArePrinted.
SignalledArePrinted == Tty!SignalledArePrinted
=============================================================================
