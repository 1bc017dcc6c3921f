\* Any one fault of each kind, then nothing but run/start.
SPECIFICATION FairSpec
CONSTANTS
  NReceivers = 1
  ArmAttempts = 1
  MaxStops = 0
  MaxLost = 1
  MaxErrors = 1
  MaxRestarts = 0
  MaxCrashes = 1
  MaxFaults = 3
  MaxOperator = 1
INVARIANT StartedRunsAreClosed
PROPERTY StartRecovers
CHECK_DEADLOCK FALSE
