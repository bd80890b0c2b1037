SPECIFICATION RingSpec
CONSTANTS
  Cap = 4
  Wrap = 8
  Unit = 2
  MaxBytes = 16
INVARIANT WholeFloats
PROPERTY ImplementsQueue
CHECK_DEADLOCK FALSE
