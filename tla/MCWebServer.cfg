SPECIFICATION Spec
CONSTANTS
  t1 = t1
  t2 = t2
  t3 = t3
  Threads = {t1, t2, t3}
  Nobody = Nobody
  Conns <- MCConns
  CommandConns <- MCCommandConns
  NoConn = NoConn
  Chunks <- MCChunks
  Outcomes <- MCOutcomes
  Silent = {}
  MaxCommand = 2
  AcceptMayFail = TRUE
  MaxSpurious = 1
SYMMETRY ThreadSymmetry
INVARIANTS
  TypeOK
  NoIdleThread
  StatsConsistent
  CommandIsOwn
PROPERTY ImplementsServeInOrder
CHECK_DEADLOCK FALSE
