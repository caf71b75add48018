SPECIFICATION Spec
CONSTANTS NConns = 2
          MaxMsg = 2
INVARIANTS NoneLeftBehind LocksHaveHolders StuckOnlyOnOpening CrashOnlyAtQuit
PROPERTY QuitEnds
CHECK_DEADLOCK FALSE
