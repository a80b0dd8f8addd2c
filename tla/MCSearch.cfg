SPECIFICATION Spec
CONSTANTS
  WordBits = 6
  OffBits = 3
  SumBits = 6
  PostFields <- MCPostFields
  KeyOps <- MCKeyOps
  Docs <- MCDocs
  Requests <- MCRequests
  MaxDocs = 4
  Keep = 3
  BufCells = 3
INVARIANTS PostingsExact AnswerExact LibraryExact
CHECK_DEADLOCK FALSE
