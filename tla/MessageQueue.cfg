SPECIFICATION FairSpec
CONSTANTS
  Lens = {2, 4, 5}
  BlockMax = 5
  FileMax = 11
  MaxWrites = 4
  MaxSeeks = 1
  MaxDeaths = 1
INVARIANTS LogIntact RepairFinds NoneSkipped
PROPERTIES ReaderSafe ReaderAdvances
CHECK_DEADLOCK FALSE
