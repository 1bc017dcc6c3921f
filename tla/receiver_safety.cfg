\* One run over two connections, with overflow, a send failure, Stop and Reset at any moment.
SPECIFICATION Spec
CONSTANTS
  QueueFrames = 1
  BatchMax = 2
  MaxRuns = 1
  MaxConns = 2
  MaxFrames = 3
  MaxRead = 2
  MaxHeartbeats = 1
  MaxFailures = 1
  AllowRearm = FALSE
INVARIANTS NoFrameMislaid GapsMarkLosses EosClosesRun EosPlaced
