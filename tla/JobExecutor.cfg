SPECIFICATION FairSpec
CONSTANTS
  numWorkers = 2
  WorkerPathExists = TRUE
  MaxCommands = 2
  MaxDeaths = 2
  MaxStartFailures = 1
INVARIANTS
  TypeOK
  LiveNotFlagged
  InFrame
  FdsOwn
  AnswersMatch
  DeathIsKnown
  PipesEmpty
PROPERTIES
  CommandEnds
  ShutdownEnds
CHECK_DEADLOCK FALSE
