\* A telephone call: queries that raise, turns that raise or die at any point, answers that come.
SPECIFICATION FairSpec
CONSTANTS
  s1 = s1
  s2 = s2
  p1 = p1
  i1 = i1
  i2 = i2
  f1 = f1
  f2 = f2
  Stray = Stray
  Garbled = Garbled
  Blank = Blank
  None = None
  Sessions <- OneSession
  Voice <- OneSession
  Procs <- OneProc
  Fields <- TwoFields
  Ids <- TwoIds
  Faulty <- CallFaults
  Said <- CallSaid
  Given <- NoneGiven
INVARIANTS CallBooksOnce
PROPERTIES DeskSpec CollectingEnds
