\* Two ECC requests, two faults, request ids that wrap after three; two power
\* requests, a run and a death of the controller.
SPECIFICATION RequestsSpec
CONSTANTS
  Parts = {"bridge", "ice", "power"}
  MaxRequests = 2
  MaxEccFaults = 2
  MaxRequestId = 3
  Damages = {0, 1, 2, 32, 255}
  Requests = {p1, p2}
  MaxStarts = 1
  MaxCrashes = 1
  Nobody = Nobody
INVARIANTS ActionsOnce BytesReadBack OneInFlight
PROPERTIES SwitchOnlyWhenIdle RequestsAnswered
CHECK_DEADLOCK FALSE
