SPECIFICATION FairSpec
CONSTANTS
  MaxThreads = 3
  MaxPackets = 3
  Throws = TRUE
INVARIANTS TerminatesOnlyAfterThrow ConnectedIsServed
PROPERTIES StopCompletes Delivered
CHECK_DEADLOCK FALSE
