SPECIFICATION Spec
CONSTANTS
  BuffSize = 4
  FifoLen = 2
  Byte = {0, 1}
INVARIANT SpaceIsRemaining
