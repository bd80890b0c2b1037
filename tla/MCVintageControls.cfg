CONSTANTS
  Params = 2
  Instances = 2
  Value <- MCValue
  RangeInit <- Low
  Programs <- MCPrograms
  MaxChanges = 2
SPECIFICATION ControlsFairSpec
INVARIANT HeldDuringBlock
PROPERTY EventuallyCurrent
