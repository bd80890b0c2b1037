SPECIFICATION FairSpec
CONSTANTS
  MaxNodes = 2
  MaxEdits = 2
  MaxMessages = 2
INVARIANTS MessagesInOrder MessagesArrive
PROPERTIES NoStaleParam EventuallyAgree
CHECK_DEADLOCK FALSE
