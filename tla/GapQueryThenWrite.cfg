CONSTANTS
  NTxns = 2
  StrongSession = FALSE
  Histories <- QueryThenWrite
SPECIFICATION VSpec
INVARIANT
  RejectedIsNotSI
