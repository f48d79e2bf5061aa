SPECIFICATION FairEitherSpec
CONSTANTS
  p1 = p1
  p2 = p2
  c1 = c1
  c2 = c2
  c3 = c3
  m1 = m1
  m2 = m2
  None = None
  Processes = {p1, p2}
  Clients = {c1, c2, c3}
  Home <- Homes
  Messages = {1, 2}
  Sender <- Senders
  MaxFaults = 1
  MaxStops = 1
  Conns = {c1, c2, c3}
  Ip <- Addresses
  MaxPerIp = 1
  Casts = {m1, m2}
  BadCasts = {m2}
  MaxCancels = 1
INVARIANTS BothTypeOK OnceInOrder LocalHubHolds
PROPERTY PublishingWorks
CHECK_DEADLOCK FALSE
