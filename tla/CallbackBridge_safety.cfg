\* Three calls, two driver threads, answers before and after registration,
\* cancellation, destroy at any moment; the socket has room for a byte of every
\* call.
CONSTANTS
  r1 = r1  r2 = r2  r3 = r3  t1 = t1  t2 = t2
  EventLoop = EventLoop
  NoRequest = NoRequest
  Requests <- ThreeRequests
  IOThreads <- TwoThreads
  SocketCap = 3
  Early <- ThreeRequests
  MayDestroy = TRUE
SPECIFICATION Spec
INVARIANTS NoLostWakeup RefPerPlace ResultIsReady
PROPERTIES SettlesOnce ImplementsCall EveryAwaitEnds EveryRefDropped ImplementsLiveCall
CHECK_DEADLOCK FALSE
