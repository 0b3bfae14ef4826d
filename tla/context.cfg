\* A session of eight messages whose checkpoint may be unreadable twice, under each strategy.
SPECIFICATION Spec
CONSTANTS
  Limit = 11
  Strategies <- AllStrategies
  Recent = 3
  TopN = 2
  MaxInput = 10
  MaxTok = 4
  Prompt <- ThePrompt
  Inputs <- SomeInputs
  Replies <- SomeReplies
  MaxLen = 8
  MaxFaults = 2
INVARIANTS IInv GuestIsHeard WindowFits SemanticIsTop
PROPERTIES EvictedStaysEvicted
CHECK_DEADLOCK FALSE
