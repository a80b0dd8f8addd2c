SPECIFICATION FairSpec
CONSTANTS
  IntBits = 8
  NameOrder <- MCNameOrder
  Goals <- MCGoals
  Items <- MCItems
  Tokens <- MCTokens
  MaxText = 7
  MaxComments = 2
  MaxSize = 3
  MaxOps = 4
INVARIANTS RoundTrip AcceptedIsWritten
PROPERTIES ParseEnds
CHECK_DEADLOCK FALSE
