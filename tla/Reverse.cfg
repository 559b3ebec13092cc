\* The reverse driver under crashes, failed writes, lost replies and reorgs.
SPECIFICATION LiveSpec
CONSTANTS
  MaxU32 = 1000
  CLIENT_CLAIM_WINDOW = 0
  PROVIDER_MIN_CLAIM_WINDOW = 1
  CLAIM_ABORT_MARGIN = 0
  FUNDING_GRACE = 0
  MaxFinalCltv = 100
  Params <- MCParams
  FINALITY_DEPTH = 2
  MAX_DRIVER_RETRIES = 1
  LnDeltas = {4, 20}
  MaxHeight = 5
  MaxFaults = 3
  SettleIdempotent = TRUE
  DoubtEndsInTime = TRUE
INVARIANTS
  TerminalMeansBuried
PROPERTIES
  ImplementsAtomicSwap
  FundedSwapEnds
CHECK_DEADLOCK FALSE
