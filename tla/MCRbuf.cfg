SPECIFICATION Spec
CONSTANTS
  Item <- MCItem
  Zero = "zero"
  size = 3
  SizeMod = 8
INVARIANT SizeIsLength
PROPERTIES ImplementsFifo
CHECK_DEADLOCK FALSE
