SPECIFICATION FairSpec
CONSTANTS
  numWorkers = 2
  WorkerPathExists = FALSE
  MaxCommands = 1
  MaxDeaths = 1
  MaxStartFailures = 0
PROPERTY DeadAreReplaced
CHECK_DEADLOCK FALSE
