SPECIFICATION FairSpec
CONSTANTS
  Cases <- MCCases
  Odd <- AnyOdd
INVARIANTS TypeOK FindsAll WholeValues CalledOnce
PROPERTIES ProcedureEnds
CHECK_DEADLOCK FALSE
