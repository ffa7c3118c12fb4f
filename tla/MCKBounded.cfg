CONSTANTS
  NTxns = 3
  KnownGraphs = {}
  PolyGraphs <- MCPolyGraphs
SPECIFICATION KSpec
INVARIANTS
  KTypeOK
  RejectsUnpruned
PROPERTY
  ImplementsDirect
