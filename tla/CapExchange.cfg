\* One signed swap across a rotation, with one fault among the keys and one loss.
SPECIFICATION FairCapSpec
CONSTANTS
  Tools = {t1}
  CapQuotes = {q1}
  MaxGeneration = 2
  MaxKeyFaults = 1
  MaxLosses = 1
INVARIANTS
  ContractStands
PROPERTIES
  SwapReachesClient
CHECK_DEADLOCK FALSE
