SPECIFICATION Spec
CONSTANTS
  t1 = t1
  t2 = t2
  t3 = t3
  Threads = {t1, t2, t3}
  Nobody = Nobody
  Monitor = Monitor
  Urls <- MCUrls
  Keys <- MCKeys
  KeyOf <- MCKeyOf
  Kind <- MCKind
  Links <- MCLinks
  DirOf <- MCDirOf
  Start = "/s"
  MayFail = {"p"}
  MaySilence = {"p"}
  MayStop = {"SHUTDOWN", "accept"}
  MaxSpurious = 1
  MaxStray = 1
SYMMETRY ThreadSymmetry
INVARIANTS
  TypeOK
  FinishedMeansIdle
  CrawlComplete
  EachPageOnce
  NoIdleWorker
  JobExecutorAgreement
  TeardownSafe
  JobGetsWholeSite
PROPERTIES
  StaysFinished
  ImplementsCrawlPages
CHECK_DEADLOCK FALSE
