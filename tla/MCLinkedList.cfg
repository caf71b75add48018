SPECIFICATION Spec
CONSTANTS
  Item = {a, b, c}
  head = head
  NULL = NULL
SYMMETRY Symmetric
INVARIANT ForwardOrder
PROPERTY AddTailPlace
CHECK_DEADLOCK FALSE
