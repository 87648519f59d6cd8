SPECIFICATION FairSpec
CONSTANTS
  t1 = t1
  t2 = t2
  Threads = {t1, t2}
  Nobody = Nobody
  Monitor = Monitor
  Urls <- MCUrls
  Keys <- MCKeys
  KeyOf <- MCKeyOf
  Kind <- MCKind
  Links <- MCLinks
  DirOf <- MCDirOf
  Start = "/s"
  MayFail = {"p"}
  MaySilence = {"p"}
  MayStop = {"SHUTDOWN", "accept"}
  MaxSpurious = 1
  MaxStray = 1
PROPERTIES
  CrawlEnds
  MonitorEnds
  MainExits
CHECK_DEADLOCK FALSE
