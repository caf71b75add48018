SPECIFICATION SigSpec
CONSTANTS
  NQueues = 2
  MaxMsg = 2
  MaxLeft = 1
INVARIANT OneNotification
PROPERTIES MuteForEver SignalCloseEnds
CHECK_DEADLOCK FALSE
