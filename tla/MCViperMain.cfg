CONSTANTS
  NTxns = 3
  StrongSession = TRUE
  Histories = {}
  MONO_BV_WIDTH = 3
  CommandLines <- MCCommandLines
SPECIFICATION MSpec
INVARIANTS
  AcceptedLogsAreSI
  RejectedLogsAreNotSI
  IdsAreIndices
  SessionsAreFiles
