CONSTANTS
  NTxns = 2
  StrongSession = FALSE
  Histories <- FailedUpsert
SPECIFICATION VSpec
INVARIANT
  RejectedIsNotSI
