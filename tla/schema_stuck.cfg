\* No process crashes and PostgreSQL does not stop: it is only up later than the processes.
SPECIFICATION SchemaSpec
CONSTANTS
  p1 = p1
  p2 = p2
  None = None
  Procs <- TwoProcs
  Names <- OneName
  Passwords = {"1234"}
  DefaultRole <- OneDefault
  MaxFaults = 0
PROPERTIES Recovers
CHECK_DEADLOCK FALSE
