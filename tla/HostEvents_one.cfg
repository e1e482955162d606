\* The only session of a cluster connects while four host events arrive; the
\* cluster may be destroyed at any moment.
CONSTANTS
  s1 = s1
  Listener = Listener
  Bridge = Bridge
  Sessions <- OneSession
  MaxEvents = 4
  SocketCap = 2
  MayDestroy = TRUE
SPECIFICATION Spec
INVARIANTS NeverPopsEmpty ReportedInOrder HostBeforeSession
PROPERTIES EverythingArrives
CHECK_DEADLOCK FALSE
