SPECIFICATION Spec
CONSTANTS
  NQueues = 2
  MaxMsg = 2
  MaxLeft = 2
INVARIANTS OneHandlerPerQueue TokenKept
PROPERTIES DeafForEver CloseEnds
