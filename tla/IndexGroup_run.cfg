SPECIFICATION FairSpecRun
CONSTANTS
  a = a
  b = b
  NoTerm = NoTerm
  Terms <- MCTerms
  TermsOf <- MCTermsOfRun
  Msgs = 3
  Results = {"OK", "NEARLY_FULL", "FULL"}
  MaxList = 2
  MaxCrash = 0
INVARIANTS TypeOK Layered Day2Exclusive Searchable
PROPERTIES ImplementsStore DumpHappens HisMergeHappens
CHECK_DEADLOCK FALSE
