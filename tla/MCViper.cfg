CONSTANTS
  NTxns = 3
  StrongSession = FALSE
  Histories <- MCHists
SPECIFICATION VSpec
INVARIANTS
  CrashIsNotSI
  AcceptedIsSI
  RejectedIsNotSI
