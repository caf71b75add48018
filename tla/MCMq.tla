-------------------------------- MODULE MCMq --------------------------------
(***************************************************************************)
(* The two servers with message queues: MqThread, which this module        *)
(* extends, and MqSignal, with a specification of its own here.  They are  *)
(* two programs: in a behaviour of SigSpec what only MqThread has stays as *)
(* it is.  The variables with the same meaning and initial value are       *)
(* shared.                                                                 *)
(***************************************************************************)
EXTENDS MqThread

VARIABLES setup, failed, pending, lost, handler, queue, masked, client, mq2,
          names, closers     \* MqSignal's linked and closing

Sig == INSTANCE MqSignal WITH linked <- names, closing <- closers

threadOnly == <<linked, threads, sender, target, closing>>

SigSpec == /\ Init /\ Sig!Init
           /\ [][Sig!Next /\ UNCHANGED threadOnly]_<<Sig!vars, threadOnly>>
           /\ Sig!Fairness

\* MqSignal's OneNotification.
OneNotification == Sig!OneNotification

\* MqSignal's MuteForEver.
MuteForEver == Sig!MuteForEver

\* MqSignal's CloseEnds.
SignalCloseEnds == Sig!CloseEnds
=============================================================================
