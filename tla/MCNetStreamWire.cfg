SPECIFICATION FairWireSpec
CONSTANTS
  Header = 2
  Floats <- MCFloats
  FloatBytes = 2
  InFlight = 5
  Transient = FALSE
  Gpu = FALSE
INVARIANTS PublishedIsSent
PROPERTIES AllArrive
CHECK_DEADLOCK FALSE
