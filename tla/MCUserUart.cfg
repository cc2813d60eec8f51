SPECIFICATION FairSpec
CONSTANTS
  MaxLen = 9
  Timeout = 2
  Capacity = 3
  Patience = 2
  MaxLost = 1
  Frames <- MCFrames
INVARIANTS TypeOK InStep
PROPERTIES DeliversFrames Resynchronises
