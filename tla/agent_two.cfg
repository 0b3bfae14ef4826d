\* Two chat sessions of one process and every kind of fault: they stay apart.
SPECIFICATION Spec
CONSTANTS
  s1 = s1
  s2 = s2
  p1 = p1
  i1 = i1
  i2 = i2
  f1 = f1
  f2 = f2
  Stray = Stray
  Garbled = Garbled
  Blank = Blank
  None = None
  Sessions <- TwoSessions
  Voice <- NoVoice
  Procs <- OneProc
  Fields <- OneField
  Ids <- OneId
  Faulty <- AllFaults
  Said <- ChatSaid
  Given <- SomeGiven
SYMMETRY SymSessions
INVARIANTS IInv
PROPERTIES FieldsKept DeskSpec
