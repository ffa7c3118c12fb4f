CONSTANTS
  NTxns = 3
  KnownGraphs <- MCKnownGraphs
SPECIFICATION TopoSpec
INVARIANTS
  TopoTypeOK
  RanksAreTopological
  RejectIsCycle
  FallbackIsNeeded
PROPERTY
  TopoTerminates
