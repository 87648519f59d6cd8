SPECIFICATION Spec
CONSTANTS
  numWorkers = 2
  WorkerPathExists = TRUE
  MaxCommands = 2
  MaxDeaths = 2
  MaxStartFailures = 0
INVARIANT RequestsInFrame
CHECK_DEADLOCK FALSE
