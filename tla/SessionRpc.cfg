\* Two requests of one client with room for one connection, one other stream
\* at a time, and one fault.
SPECIFICATION FairRpcSpec
CONSTANTS
  c1 = c1
  r1 = r1
  r2 = r2
  Clients = {c1}
  Requests = {r1, r2}
  ClientOf <- MCClient
  Versions <- MCVersions
  MAX_CONNECTIONS = 1
  MAX_SESSION_STREAMS = 2
  MaxOthers = 1
  MaxRpcFaults = 1
INVARIANT
  ResultIsTrue
PROPERTY
  PermitsComeBack
CHECK_DEADLOCK FALSE
