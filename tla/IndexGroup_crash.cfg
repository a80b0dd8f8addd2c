SPECIFICATION Spec
CONSTANTS
  a = a
  b = b
  NoTerm = NoTerm
  Terms <- MCTerms
  TermsOf <- MCTermsOf3
  Msgs = 3
  Results = {"OK"}
  MaxList = 20
  MaxCrash = 2
INVARIANT Durable
PROPERTY CheckPointMonotone
CHECK_DEADLOCK FALSE
