SPECIFICATION Spec
CONSTANTS Proc = {p1, p2}
          App = App
          NFields = 2
          MaxCalls = 3
          MaxLoads = 2
INVARIANTS FieldsFromLastWriters UndisturbedGet CleanAfterUnload AppOnlyReads
CHECK_DEADLOCK FALSE
