CONSTANTS
  NTxns = 2
  StrongSession = FALSE
  Histories <- InsertThenRead
SPECIFICATION VSpec
INVARIANT
  AcceptedIsSI
