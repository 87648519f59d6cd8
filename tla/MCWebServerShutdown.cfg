SPECIFICATION FairSpec
CONSTANTS
  t1 = t1
  t2 = t2
  Threads = {t1, t2}
  Nobody = Nobody
  Conns <- MCConns
  CommandConns <- StopCommandConns
  NoConn = NoConn
  Chunks <- StopChunks
  Outcomes <- MCOutcomes
  Silent = {}
  MaxCommand = 2
  AcceptMayFail = FALSE
  MaxSpurious = 0
PROPERTY ThreadsTerminate
CHECK_DEADLOCK FALSE
