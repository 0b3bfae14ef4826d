\* One dashboard against everybody else, one reservation, two requests, one form.
SPECIFICATION FairSpec
CONSTANTS
  d1 = d1
  f1 = f1
  None = None
  Pages <- OnePage
  Ids <- OneId
  PageSize = 1
  Requests <- TwoRequests
  Forms <- OneForm
  OtherRows <- Seats
  MaxRev = 2
INVARIANTS IInv OverrulesOnlyUnseen OwnWritesShown
PROPERTIES OrderSpec NewIsShown
CHECK_DEADLOCK FALSE
