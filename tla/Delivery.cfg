SPECIFICATION FairSpec
CONSTANTS
  Msgs = 5
  Wanted = {1, 2, 4, 5}
  Refused = {5}
  FileBlocks = 5
  Early = FALSE
  MaxBacklog = 3
  SenderDeaths = 2
  EngineDeaths = 2
INVARIANT OffsetNotAhead
PROPERTIES ImplementsFeed Delivered
CHECK_DEADLOCK FALSE
