CONSTANTS
  Param <- Fields
  Value <- MCValue
  MemberDefault = 0
  RangeInit = 1
  DefaultIn = 2
  DefaultOut = 2
  Channels <- OneOrThree
  Setup <- MCSetup
  BusPorts = FALSE
  One = 8
  Top <- MCTop
  Ints <- IntField
  Given <- MCGiven
SPECIFICATION Spec
INVARIANTS ValuesKept OnlyLoadsDivide ControllerFollows
