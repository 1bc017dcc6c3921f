\* A device or slowctl that stalls past the deadlines.
SPECIFICATION RequestsSpec
CONSTANTS
  Parts = {"power"}
  MaxRequests = 1
  MaxEccFaults = 0
  MaxRequestId = 3
  Damages = {0}
  Requests = {p1}
  MaxStarts = 1
  MaxCrashes = 0
  Nobody = Nobody
PROPERTY HvOnlyWhenIdle
CHECK_DEADLOCK FALSE
