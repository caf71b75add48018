SPECIFICATION ESpec
CONSTANTS Task = {t1, t2}
          None = None
          Ident = {1}
          MaxAdd = 2
          MaxTasks = 2
          MaxStates = 5
INVARIANTS SoleUserOfList ListIsIntact LockComesBack
PROPERTY NumbersKeepMeaning
CHECK_DEADLOCK FALSE
