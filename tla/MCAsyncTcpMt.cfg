SPECIFICATION MtSpec
CONSTANTS Client = {c1, c2}
          Backlog = 2
          MaxSend = 2
          MaxFail = 1
          MaxNoThread = 1
          NoSock = NoSock
          MaxAccept = 0
          BufLen = 3
          MaxMsg = 0
          RcvBuf = 1
          Burst = 1
          MaxBytes = 0
INVARIANTS NoConnectionBehind AnsweredBeforeClose
PROPERTY ConnectionsAreServed
