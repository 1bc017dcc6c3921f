\* Two runs one after the other, every Stop followed by Reset as the controller does.
SPECIFICATION FairSpec
CONSTANTS
  QueueFrames = 1
  BatchMax = 2
  MaxRuns = 2
  MaxConns = 1
  MaxFrames = 2
  MaxRead = 1
  MaxHeartbeats = 0
  MaxFailures = 0
  AllowRearm = FALSE
INVARIANTS LossesReported NoThreadLeak
PROPERTIES ResetReturns StopDeliversEos
