SPECIFICATION TcpSpec
CONSTANTS Client = {c1, c2, c3}
          Backlog = 2
          MaxSend = 2
          MaxFail = 1
          MaxNoThread = 0
          NoSock = NoSock
          MaxAccept = 0
          BufLen = 3
          MaxMsg = 0
          RcvBuf = 1
          Burst = 1
          MaxBytes = 0
INVARIANTS SilentOnlyAfterLoss NothingUnread
PROPERTY HandlerReturns
