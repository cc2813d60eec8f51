SPECIFICATION Spec
CONSTANTS
  Size = 4
  Byte = {0, 1, 2}
  Zero = 0
PROPERTY FifoSpec
