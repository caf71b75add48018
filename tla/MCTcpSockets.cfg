SPECIFICATION SockSpec
CONSTANTS Client = {c1, c2}
          NoSock = NoSock
          MaxAccept = 2
          BufLen = 3
          MaxBytes = 2
          Backlog = 1
          MaxSend = 0
          MaxFail = 0
          MaxNoThread = 0
          MaxMsg = 0
          RcvBuf = 1
          Burst = 1
INVARIANTS NeverAnEarlierConnection EveryByteOnce
PROPERTY ClientAnswered
CHECK_DEADLOCK FALSE
