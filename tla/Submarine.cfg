\* The submarine driver under crashes, failed writes, lost replies and reorgs.
SPECIFICATION FairSpec
CONSTANTS
  MaxU32 = 1000
  CLIENT_CLAIM_WINDOW = 1
  PROVIDER_MIN_CLAIM_WINDOW = 1
  CLAIM_ABORT_MARGIN = 1
  FUNDING_GRACE = 1
  MaxFinalCltv = 100
  Params <- MCParams
  FINALITY_DEPTH = 2
  NodeCltvDefault = 20
  MaxHeight = 5
  MaxFaults = 4
PROPERTIES
  ImplementsAtomicSwap
  PreimageLeavesClaimWindow
  AttemptedSwapEnds
CHECK_DEADLOCK FALSE
