\* Two processes that start, create and recreate the tables, with two faults.
SPECIFICATION SchemaSpec
CONSTANTS
  p1 = p1
  p2 = p2
  None = None
  Procs <- TwoProcs
  Names <- OneName
  Passwords = {"1234"}
  DefaultRole <- OneDefault
  MaxFaults = 2
INVARIANTS SchemaInv
PROPERTIES HealsWhatItNotices HealedWhenReady
CHECK_DEADLOCK FALSE
