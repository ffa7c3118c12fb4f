CONSTANTS
  NTxns = 3
  StrongSession = TRUE
  Histories <- MCHists
SPECIFICATION ASpec
INVARIANTS
  AppendAcceptedOrderIsSI
  AppendRejectedIsNotSI
  AppendCrashIsNotSI
