\* Two receivers; two of: a lost command, a component in Error, one restarted, a
\* death of the controller.
SPECIFICATION Spec
CONSTANTS
  NReceivers = 2
  ArmAttempts = 2
  MaxStops = 1
  MaxLost = 1
  MaxErrors = 1
  MaxRestarts = 1
  MaxCrashes = 1
  MaxFaults = 2
  MaxOperator = 0
INVARIANTS TakingSound UndoSound EosClosedMeansSent
CHECK_DEADLOCK FALSE
