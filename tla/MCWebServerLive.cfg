SPECIFICATION FairSpec
CONSTANTS
  t1 = t1
  t2 = t2
  Threads = {t1, t2}
  Nobody = Nobody
  Conns <- LiveConns
  CommandConns <- FewCommandConns
  NoConn = NoConn
  Chunks <- FewChunks
  Outcomes <- LiveOutcomes
  Silent = {"b"}
  MaxCommand = 2
  AcceptMayFail = TRUE
  MaxSpurious = 0
PROPERTIES
  RequestsServed
  CommandsAccepted
  ShutdownEnds
CHECK_DEADLOCK FALSE
