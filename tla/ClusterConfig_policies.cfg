SPECIFICATION ConfigSpec
CONSTANTS
  None = None
  Unset = Unset
  Varied = {"constant_reconnect", "round_robin"}
  Profiles <- MCProfiles
  MaxCalls = 1
CHECK_DEADLOCK FALSE
INVARIANTS PoliciesAsAsked
