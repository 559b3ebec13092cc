\* Requests of two accounts through a client that keeps one owner; one swap at each
\* kind of node; two fundings from each kind of wallet; one swap record; two wake grants
\* for one swap; a listing of three swaps by one who owns two of them, a page each.
SPECIFICATION ServicesSpec
CONSTANTS
  o1 = o1
  o2 = o2
  k1 = k1
  k2 = k2
  r1 = r1
  r2 = r2
  r3 = r3
  s1 = s1
  s2 = s2
  w1 = w1
  w2 = w2
  Owners = {o1, o2}
  Keys = {k1, k2}
  Icann = {o2}
  Requests = {r1, r2, r3}
  Grants <- MCGrants
  Skew <- MCSkew
  Owner <- MCOwner
  Key <- MCKey
  MAX_CONCURRENT_LOOKUPS = 2
  MAX_OWNERS_PER_CLIENT = 1
  AUTHORIZATION_LIFETIME = 2
  MaxSkew = 1
  MaxClock = 4
  MaxFaults = 2
  Deltas = {0, 2}
  NodeDelta = 1
  ATTEMPTS = 2
  MaxUpsets = 2
  Purses = {"bdk", "lnd", "beignet"}
  Payees = {s1, s2}
  MaxMishaps = 3
  MaxWrites = 3
  MaxAccidents = 2
  WakeGrant = {w1, w2}
  NoGrant = NoGrant
  MaxSpoils = 2
  Swaps = {1, 2, 3}
  Owned = {1, 2}
  Reversed = {1, 3}
  Keyed = {1, 2, 3}
  PAGE = 1
  MAX_LIST_PAGES = 2
INVARIANTS
  AuthorizedWhileWaiting
  AnswersAreTrue
  FundsAreAccountedFor
  SavedStays
  
  RestoreIsWhole
CHECK_DEADLOCK FALSE
