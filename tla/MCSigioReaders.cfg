SPECIFICATION RSpec
CONSTANTS MaxMsg = 5
          RcvBuf = 3
          Burst = 3
          MaxBytes = 6
INVARIANTS NoneLeftBehind SignalFindsHandlerAndByte
PROPERTIES SocketIsRead SignalledArePrinted
CHECK_DEADLOCK FALSE
