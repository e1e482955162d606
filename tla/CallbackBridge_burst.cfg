\* Two calls answered at once in one iteration of the loop, and a socket that
\* one byte fills (a real one holds a few hundred).
CONSTANTS
  r1 = r1  r2 = r2  r3 = r3  t1 = t1  t2 = t2
  EventLoop = EventLoop
  NoRequest = NoRequest
  Requests <- TwoRequests
  IOThreads <- TwoThreads
  SocketCap = 1
  Early <- TwoRequests
  MayDestroy = FALSE
SPECIFICATION Spec
PROPERTIES QueuedIsHandled
CHECK_DEADLOCK FALSE
