CONSTANTS
  Param <- MCParam
  Value <- MCValue
  MemberDefault = 1
  RangeInit = 1
  Smoothed <- MCSmoothed
  Asker = "channels"
  Shapes <- MCShapes
  Counts <- MCCounts
  Lengths <- MCLengths
  BufferSize = 1
  MaxEdits = 2
SPECIFICATION FairSpec
INVARIANTS PreparedOrPending PortsAgree ReportsAgree
PROPERTIES QuietTick EventuallySettled
