SPECIFICATION Spec
CONSTANTS
  CellsPerFile = 3
  DatMax = 3
  FileBits = 2
  Bits = 3
  Milestone = 2
  Lens = {1, 2}
  MaxLists = 5
  MaxBuilds = 2
  MaxDeaths = 1
INVARIANTS FindsAll SurvivesDeath IteratesAll
CHECK_DEADLOCK FALSE
