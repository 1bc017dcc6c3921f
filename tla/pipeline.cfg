\* Two sources and a stray one; two Starts of the graw-writer, one of the decoder;
\* every stream of up to two frames or damaged headers, and of three without the oversized
\* one, in every split; replays of up to three laps over ten event indices.
SPECIFICATION Spec
CONSTANTS
  Parts = {"graw", "decoder", "mfm", "replay"}
  Expected = {c0, c1}
  Stray = c9
  MaxFileBytes = 1
  MaxStarts = 2
  MaxMessages = 3
  MaxFaults = 1
  BatchFragments = 2
  Gate = 1
  Gap = 2
  StaleTime = 5
  MaxStarted = 1
  MaxReceived = 4
  MaxOddities = 1
  MaxFrameBytes = 16
  RawCh = 2
  ItemBucketMax = 1
  Streams <- MCStreams
  MaxItems = 8
  CommandLines <- MCCommands
  IdxMod = 10
  MaxSends = 18
  MaxChunks = 8
  MaxLaps = 3
  MaxTime = 3
INVARIANTS FilesSound ClosingSound FragmentsSound OwnEosNeedsAll RunsStaySeparate FramingSound SamplesInPlace ReplaySound
PROPERTIES ImplementsArchive PipelineEnds
CHECK_DEADLOCK FALSE
