SPECIFICATION Spec
CONSTANTS
  N = 4
  MaxSpurious = 2
INVARIANTS PrintOrder NoLostWakeup
PROPERTY Termination
