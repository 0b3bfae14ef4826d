\* One process, two accounts, two requests of administrators and two faults.
SPECIFICATION Spec
CONSTANTS
  p1 = p1
  None = None
  Procs <- OneProc
  Names <- TwoNames
  Passwords = {"1234"}
  DefaultRole <- OneDefault
  MaxFaults = 2
  TTL = 1
  Minutes = {5}
  DefaultMinutes = 60
  MaxTime = 2
  MaxWrites = 2
INVARIANTS IInv RightsLapse
PROPERTIES RestartApplies
CHECK_DEADLOCK FALSE
