\* One swap's acceptance and final reply: sends, retries, retention, cleanup and repair.
SPECIFICATION FairDeliverySpec
CONSTANTS
  accept = accept
  final = final
  quote = quote
  swap = swap
  Resources = {accept, final}
  Scopes = {quote, swap}
  ScopeOf <- MCScopeOf
  Accept = accept
  Final = final
  DeliveryScopes <- MCDeliveryScopes
  MAX_ENTRIES = 2
  MAX_DELAY = 1
  MAX_BATCH = 2
  Refreshers = {"delivery"}
  RECOVERY_GRACE = 1
  MAX_CLOCK = 1
  MAX_FAULTS = 1
  MAX_REOPENS = 1
  FAILURES_UNTIL = 1
INVARIANTS
  NothingOrphaned
  FinalReplyKept
PROPERTIES
  PreparedIsPublished
  SettledIsCleaned
