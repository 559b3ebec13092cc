\* Runs and re-runs of the client's reverse driver under every fault.
SPECIFICATION FairSpec
CONSTANTS
  MaxU32 = 1000
  CLIENT_CLAIM_WINDOW = 1
  PROVIDER_MIN_CLAIM_WINDOW = 1
  CLAIM_ABORT_MARGIN = 1
  FUNDING_GRACE = 1
  MaxFinalCltv = 100
  Timeout = 4
  FINALITY_DEPTH = 2
  MaxHeight = 5
  MaxFaults = 2
  AnswersUnknown = TRUE
INVARIANTS
  PaidIsNotRefunded
PROPERTIES
  NoSecondPayment
  EveryRunEnds
CHECK_DEADLOCK FALSE
