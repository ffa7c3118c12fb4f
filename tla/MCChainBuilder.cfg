CONSTANTS
  NTxns = 4
  StrongSession = TRUE
  Histories <- MCHists
SPECIFICATION BSpec
INVARIANTS
  BTypeOK
  FindChainSucceeds
  ChainsPartitionWriters
  ChainsFollowReads
PROPERTY
  CyclicRejectJustified
