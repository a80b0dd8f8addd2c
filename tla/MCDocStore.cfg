SPECIFICATION Spec
CONSTANTS
  Docs = {d1, d2, big}
  Outer = {d1, d2}
  Fields = {f, g}
  LastField = g
  NoDoc = NoDoc
  MaxInner = 5
  MaxMsgs = 3
  MaxDeaths = 1
SYMMETRY Symmetry
INVARIANTS Converged AttrsExact OneVersion
CHECK_DEADLOCK FALSE
