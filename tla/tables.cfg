\* One dashboard beside other clients of the API: two tables, two reservations, requests that fail.
SPECIFICATION Spec
CONSTANTS
  b1 = b1
  t1 = t1
  t2 = t2
  g1 = g1
  g2 = g2
  Browsers <- OneBrowser
  Tables <- TwoTables
  Guests <- TwoGuests
  Seats <- SmallAndLarge
  Size <- Couples
  Hour <- SameHour
  Picky <- OnePicky
  Likes <- LikesLarge
  Lossy = TRUE
  None = None
INVARIANTS IInv OneTable
PROPERTIES NeverTakesSeen SeatingSpec
