CONSTANTS
  NTxns = 2
  StrongSession = FALSE
  Histories <- NullReads
SPECIFICATION VSpec
INVARIANT
  AcceptedIsSI
