SPECIFICATION Spec
CONSTANTS
  a = a
  b = b
  NoTerm = NoTerm
  Terms <- MCTerms
  TermsOf <- MCTermsOf3
  Msgs = 3
  Results = {"OK", "NEARLY_FULL", "FULL"}
  MaxList = 8
  MaxCrash = 1
INVARIANT Durable
CHECK_DEADLOCK FALSE
