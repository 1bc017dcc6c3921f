\* A reopened link, evictions of the retry queue, a cut batch, four late replies; a
\* line a second and a read timeout of a second and a half, in half seconds.
SPECIFICATION Spec
CONSTANTS
  Parts = {"threads", "influx", "instrument", "env"}
  ScValues <- MCValues
  ScSetups <- MCSetups
  EventQueue = 2
  RetryLimit = 2
  MaxPollErrors = 2
  LogEvery = 1
  MaxScClock = 1
  MaxReports = 1
  IxQueue = 1
  IxBatch = 3
  IxBufferMax = 4
  MaxIxPolls = 3
  MaxIxFaults = 2
  InMaxErrors = 5
  InTries = 2
  Lossy = {"bronkhorst", "bronkhorst2"}
  MaxLate = 4
  MaxOps = 6
  LinePeriod = 2
  ReadTimeout = 3
  MaxIdentLines = 3
  MaxLine = 2
  EnvErrors = 2
  EnvSeqs = 3
  MaxWire = 3
  MaxUpsets = 2
INVARIANTS  PointsSound ReadingsSound
 
CHECK_DEADLOCK FALSE
