CONSTANTS
  NTxns = 3
  StrongSession = FALSE
  Histories <- SeenOrder
SPECIFICATION ASpec
INVARIANT
  AppendAcceptedIsSI
