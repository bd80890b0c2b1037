CONSTANTS
  Components <- MCComponents
  Calls <- MCCalls
  MaxWrites = 3
SPECIFICATION FairWamSpec
INVARIANT LatestDelivered
PROPERTY NodeAndPluginAgree
CHECK_DEADLOCK FALSE
