CONSTANTS
  Param = {gain, mix}
  Value = {low, mid, high}
  MemberDefault = low
  RangeInit = high
  InChannels = 2
  OutChannels = 2
  Setup <- MCSetup
SPECIFICATION Spec
INVARIANTS SameControls ValuesKept ReadyToProcess
