SPECIFICATION MCSpec
CONSTANTS
  NumOfWorkers = 2
  dirfilesize = 3
  Contents = {"ok", "bad", "endless"}
  MaxDeaths = 1
  MaxStartFailures = 1
  Scripts <- MCScripts
  EarlyScripts <- MCEarlyScripts
  MaxConnections = 2
  CommandSize = 3
  ArgSize = 3
  BUFFER_SIZE = 2
  MaxWords = 2
  MaxText = 2
  Inputs <- MCInputs
INVARIANTS
  ChannelTypeOK
  SharesAreWhole
  ReadyMeansParsed
  AnswerIsOwn
  PassesAgree
  IndexIsExact
  CountsMatch
PROPERTIES
  StartEnds
  CommandsEnd
  ParseEnds
CHECK_DEADLOCK FALSE
