SPECIFICATION FairSpec
CONSTANTS
  Cases <- MCCases
  Odd <- LastHandle
PROPERTIES EveryProcedureEnds
CHECK_DEADLOCK FALSE
