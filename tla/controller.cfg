\* The run counter, the logbook, the parameter set and daq.toml, one at a time.
SPECIFICATION Spec
CONSTANTS
  Parts = {"counter", "logbook", "params", "store", "config"}
  MaxRun = 4
  MaxStarts = 4
  MaxSets = 2
  MaxCrashes = 2
  MaxIoErrors = 1
  RunNumbers = {1, 2}
  MaxAppends = 4
  MaxTorn = 1
  ChannelIds = {0, 1}
  MaxParts = 2
  Sorted = TRUE
  Sets = {"p", "q"}
  MaxTokens = 2
  MaxPuts = 3
  MaxRuns = 1
  MaxStoreFaults = 2
  CoboIds = {0, 1, 2}
  MaxCobos = 2
  MaxDevices = 2
INVARIANTS NumbersSound  RunsDocRight StoreSound SettingsSound
CHECK_DEADLOCK FALSE
