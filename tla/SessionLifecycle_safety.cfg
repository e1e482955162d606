\* One task connects, three others execute, set the keyspace and close.
CONSTANTS
  a = a  b = b  c = c  d = d  ks1 = ks1  ks2 = ks2
  NoKeyspace = NoKeyspace
  Tasks <- FourTasks
  Keyspaces <- TwoKeyspaces
  SerialUse = TRUE
SPECIFICATION Spec
INVARIANTS TerminatedIsQuiet KeyspaceAgrees
PROPERTIES NothingAfterClose EveryCoroutineEnds CloseTerminates
CHECK_DEADLOCK FALSE
