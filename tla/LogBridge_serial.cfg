\* Clusters created one after the other, some of which fail to be created and
\* stay behind; callbacks that raise; sockets that two bytes fill.
CONSTANTS
  c1 = c1  c2 = c2  t1 = t1  t2 = t2
  None = None
  EventLoop = EventLoop
  Clusters <- TwoClusters
  IOThreads <- TwoThreads
  MaxLogs = 4
  SocketCap = 2
  Serial = TRUE
  KeepsLogger = FALSE
  LoopLogs = FALSE
SPECIFICATION Spec
INVARIANTS CatchesLog MessagesCovered RegisteredIsAlive
PROPERTIES EveryMessageTaken
CHECK_DEADLOCK FALSE
