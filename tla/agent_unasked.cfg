\* After a booking: a message that asks for nothing.
SPECIFICATION Spec
CONSTANTS
  s1 = s1
  s2 = s2
  p1 = p1
  i1 = i1
  i2 = i2
  f1 = f1
  f2 = f2
  Stray = Stray
  Garbled = Garbled
  Blank = Blank
  None = None
  Sessions <- OneSession
  Voice <- NoVoice
  Procs <- OneProc
  Fields <- OneField
  Ids <- TwoIds
  Faulty <- NoFaults
  Said <- CallSaid
  Given <- NoneGiven
PROPERTIES BooksWhenAsked
