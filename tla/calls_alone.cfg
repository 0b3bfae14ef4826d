\* One process, two reservations, one fault, a listing of one row: what the job calls, that it calls, and when.
SPECIFICATION FairWatch
CONSTANTS
  r1 = r1
  r2 = r2
  p1 = p1
  None = None
  Res <- TwoRes
  Procs <- OneProc
  Configured <- OneProc
  Times <- TwoTimes
  Lead = 1
  Slack = 1
  Limit = 1
  Prompt = TRUE
  MaxTime = 2
  MaxFaults = 1
  MaxResets = 0
INVARIANTS CalledTheSameMinute
PROPERTIES JobCallsOnlyOpen NobodyForgotten
