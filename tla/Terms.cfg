\* Terms of a mainnet client with providers from default to degenerate, and the gates
\* of both legs at every height of the swap that follows; and two slots for the polls
\* of three peers.
SPECIFICATION TermsOrPollSpec
CONSTANTS
  MaxU32 = 10000
  CLIENT_CLAIM_WINDOW = 18
  PROVIDER_MIN_CLAIM_WINDOW = 18
  CLAIM_ABORT_MARGIN = 6
  FUNDING_GRACE = 6
  MaxFinalCltv = 2016
  ParamChoices <- MCParamChoices
  AcceptHeights <- MCAcceptHeights
  ExtraDeltas = {0, 10}
  Amounts = {2800, 100000}
  Estimates = {0, 8}
  fee_rate_sat_vb = 1
  base_fee_sat = 0
  fee_ppm = 2000
  min_amount_sat = 1000
  max_amount_sat = 1000000
  MIN_AMOUNT_FEE_MULTIPLE = 10
  invoice_expiry = 12
  UnitsPerBlock = 2
  min_final_cltv = 18
  MIN_CONFIRMATIONS = 2
  MAX_REQUIRED_CONFIRMATIONS = 12
  max_fee_bps = 1050
  max_total_sat = 10000000
  MAX_QUOTE_VALIDITY = 12
  fund_within_secs = 300
  MAX_FUND_WITHIN_SECS = 3600
  ACCEPT_TIMEOUT_SLACK_BLOCKS = 6
  ClientParams <- MCClientParams
  Policies <- MCPolicies
  MaxOffers = 2
  Lags = {0, 6, 7}
  MaxTime = 2
  RaceParams <- MCRaceParams
  RaceAccept = 1000
  MaxRaceValue = 4000
  AfterTimeout = 1
  Markets <- MCMarkets
  RivalRates = {4}
  FINALITY_DEPTH = 2
  MAX_TRACKED_OUR_SPENDS = 3
  MaxFaults = 1
  Polled = {1, 2, 3}
  max_in_flight = 2
  poll_timeout = 1
  Intervals = {1}
  PEER_REFRESH = 1
  MaxInstant = 2
  MaxBells = 2
INVARIANTS
  PromptFundingIsPaid
  HonestTermsAreTaken
  LossIsReal
  SweepCanBeBuilt
  EveryPeerHasItsTurn
CHECK_DEADLOCK FALSE
