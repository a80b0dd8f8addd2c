SPECIFICATION Spec
CONSTANTS
  Base = 32
  Counts <- MCCounts
  Keys = {1, 2, 3}
  Buckets = 2
  HeadMax = 2
  WaterLine = 1
  CellSize = 7
  LinkHead = 4
  Lens = {0, 3, 99}
  MaxSets <- MCMaxSets
INVARIANTS PoolSound ListsComplete NoFreedLink AnswerRuns DumpComplete
CHECK_DEADLOCK FALSE
