SPECIFICATION FairSpec
CONSTANTS
  MaxConn = 3
  Throws = TRUE
INVARIANTS NeverJoinable ConnectedIsLive
PROPERTIES StopCompletes FinishedIsReaped
CHECK_DEADLOCK FALSE
