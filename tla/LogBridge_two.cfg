\* Two clusters at the same time.
CONSTANTS
  c1 = c1  c2 = c2  t1 = t1  t2 = t2
  None = None
  EventLoop = EventLoop
  Clusters <- TwoClusters
  IOThreads <- OneThread
  MaxLogs = 1
  SocketCap = 1
  Serial = FALSE
  KeepsLogger = FALSE
  LoopLogs = FALSE
SPECIFICATION SafeSpec
INVARIANTS CatchesLog
CHECK_DEADLOCK FALSE
