SPECIFICATION Spec
CONSTANTS
  t1 = t1
  t2 = t2
  Threads = {t1, t2}
  Nobody = Nobody
  Monitor = Monitor
  Urls <- MCUrls
  Keys <- MCKeys
  KeyOf <- MCKeyOf
  Kind <- MCKind
  Links <- MCLinks
  DirOf <- MCDirOf
  Start = "/s"
  MayFail = {}
  MaySilence = {}
  MayStop = {"SHUTDOWN"}
  MaxSpurious = 0
  MaxStray = 0
INVARIANT MonitorIsNotified
CHECK_DEADLOCK FALSE
