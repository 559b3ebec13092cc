\* Two peers that share the room of one worker between two pending messages, and one
\* other registration; a crash, failed write, read or handler, and an eviction.
SPECIFICATION FairInboxSpec
CONSTANTS
  p1 = p1
  p2 = p2
  m1 = m1
  m2 = m2
  m3 = m3
  m4 = m4
  Peers = {p1, p2}
  Messages = {m1, m2, m3, m4}
  Sender <- MCSender
  Invalid = {m2}
  Bodyless = {m4}
  Admissions = {m3}
  MAX_REGISTERED_PEERS = 2
  MAX_PENDING = 2
  MAX_PENDING_PER_PEER = 1
  per_peer_capacity = 1
  capacity = 1
  max_handlers = 1
  MaxInboxFaults = 1
  MaxEvictions = 1
  MaxStrangers = 1
INVARIANT
  AcknowledgedMeansHandled
PROPERTY
  PublishedIsHandled
