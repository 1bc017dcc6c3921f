\* Two expected sources of up to four fragments and one that is not expected; two
\* clients of a ring and queues small enough to overflow; three buckets.
SPECIFICATION Spec
CONSTANTS
  ExpectedKeys = {0, 1}
  UnexpectedKeys = {2}
  Scripts <- MCScripts
  Strays <- MCStrays
  kRestartMinIdx = 1
  kRestartMinTimeGap = 3
  BuildTimeout = 1
  Clients = {c1, c2}
  JsonQueue = 2
  LiveQueue = 1
  Statuses <- MCStatuses
  HubSetups <- MCHubSetups
  Publishers = {root_sink, slowctl}
  MaxPublished = 4
  MaxRestarts = 1
  NBuckets = 3
  PedLo = 0
  PedHi = 1
  Adc = {0, 4}
  Means = {2, 3}
  AGET_PER_ASAD = 2
  RAW_CH_PER_AGET = 2
  FpnChannels = {1}
  WAVEFORM_LEN = 3
  BASELINE_END = 2
  WAVEFORM_BASELINE_CELLS = 1
  ADC_FULL_SCALE = 3
  FIT_MAX_ABS_AMP_MV = 2
  Jobs <- MCJobs
INVARIANTS   DerivedDataSound
SYMMETRY Alike
CHECK_DEADLOCK FALSE
