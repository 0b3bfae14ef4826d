\* Two processes side by side, as in a rolling update, with crashes, exceptions and lost replies.
SPECIFICATION Spec
CONSTANTS
  r1 = r1
  p1 = p1
  p2 = p2
  None = None
  Res <- OneRes
  Procs <- TwoProcs
  Configured <- TwoProcs
  Times <- ThreeTimes
  Lead = 1
  Slack = 1
  Limit = 1
  Prompt = FALSE
  MaxTime = 3
  MaxFaults = 2
  MaxResets = 1
SYMMETRY SymProcs
INVARIANTS NoRedialWithoutCause IInv
PROPERTIES NeverTooEarly ConfirmedAfterRinging LedgerSpec
