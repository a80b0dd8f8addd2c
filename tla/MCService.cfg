SPECIFICATION Spec
CONSTANTS
  Kinds = {"message", "big", "empty"}
  Fds = {1, 2}
  Workers = {w1, w2}
  MaxConns = 2
  MaxReqs = 2
SYMMETRY Symmetry
INVARIANTS OneOwner AckedIsQueued QueueIsWhatWasSent NoneOversleeps
CHECK_DEADLOCK FALSE
