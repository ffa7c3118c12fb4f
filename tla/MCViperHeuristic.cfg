CONSTANTS
  NTxns = 3
  StrongSession = TRUE
  Histories <- MCHists
SPECIFICATION HSpec
PROPERTIES
  ImplementsAlgorithm5
  GetsVerdict
