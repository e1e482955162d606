SPECIFICATION ScriptSpec
CONSTANTS
  None = None
  Contents <- MCHard
  Metas = {m1}
  MaxVersions = 1
CHECK_DEADLOCK FALSE
INVARIANTS
  RecreatesKeyspace
