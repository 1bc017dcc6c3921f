\* The decoder alone: one run that meets a broken frame, then Reset.
SPECIFICATION Spec
CONSTANTS
  Parts = {"decoder"}
  Expected = {c0}
  Stray = c9
  MaxFileBytes = 1
  MaxStarts = 0
  MaxMessages = 0
  MaxFaults = 0
  BatchFragments = 2
  Gate = 1
  Gap = 2
  StaleTime = 5
  MaxStarted = 1
  MaxReceived = 2
  MaxOddities = 1
  MaxFrameBytes = 16
  RawCh = 2
  ItemBucketMax = 1
  Streams <- MCStreams
  MaxItems = 0
  CommandLines <- MCCommands
  IdxMod = 10
  MaxSends = 18
  MaxChunks = 8
  MaxLaps = 3
  MaxTime = 3
INVARIANTS ResetRecovers
CHECK_DEADLOCK FALSE
