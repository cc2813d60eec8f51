SPECIFICATION QueueSpec
CONSTANTS
  QUEUE_BUFFER_SIZE = 10
  MaxLen = 5
  Msg <- MCMsg
INVARIANT StartsAtBegin
PROPERTIES WholeMessages RoomNeeded
