\* One editor, left and reopened with and without permission; a table and a zone, two saves.
SPECIFICATION Spec
CONSTANTS
  e1 = e1
  t1 = t1
  zone1 = zone1
  large = large
  small = small
  four = four
  s1 = s1
  s2 = s2
  Tabs <- OneTab
  Ids <- TwoIds
  KindOf <- Kind
  Places <- OnePlace
  Sizes <- TwoSizes
  Standard <- StandardSize
  Labels <- OneLabel
  DefaultLabel <- SameLabel
  Settings <- TwoSettings
  Usual = four
  DefaultPlan <- NothingDrawn
  Saves <- TwoSaves
  None = None
INVARIANTS IInv SavedComesBack DropsOnlyRemoved
PROPERTIES RegisterSpec
CHECK_DEADLOCK FALSE
