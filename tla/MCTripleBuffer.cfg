SPECIFICATION BufferFairSpec
CONSTANTS
  Chunks <- MCChunks
  MaxPublish = 4
INVARIANTS ExclusiveSlots WholeRead LatestKept
PROPERTIES NewerOnly ImplementsMailbox Delivered
CHECK_DEADLOCK FALSE
