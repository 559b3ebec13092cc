\* Admissions, drivers and restarts against the limits and the wallet.
SPECIFICATION Spec
CONSTANTS
  alice = alice
  bob = bob
  a1 = a1
  a2 = a2
  b1 = b1
  Swaps = {a1, a2, b1}
  Reverse = {a1, b1}
  Peers = {alice, bob}
  PeerOf <- MCPeerOf
  AmountOf <- MCAmountOf
  ClaimOf <- MCClaimOf
  max_concurrent_swaps = 2
  max_concurrent_per_peer = 2
  max_total_exposure_sat = 3
  max_exposure_per_peer_sat = 2
  max_new_swaps_per_peer_per_hour = 1
  min_onchain_reserve_sat = 1
  Handlers = {h1}
  Resumer = resumer
  Hashes = {x1, x2}
  MAX_TRACKED_QUOTES = 2
  None = None
  Balances = {5, 6}
SYMMETRY MCSymmetry
INVARIANTS
  LiveSwapIsDriven
  ExposureIsBounded
  WalletCovers
  QuoteIsSingleUse
