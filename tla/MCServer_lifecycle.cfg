\* Two connections with channels, the shutdown, and an accept loop that may fail.
CONSTANTS
  c1 = c1
  c2 = c2
  i1 = i1
  k1 = k1
  ac1 = ac1
  None = None
  PeerIP <- MCPeerIP
  KeyOf <- MCKeyOf
  AccountOf <- MCAccountOf
  Conns = {c1, c2}
  Limit <- MCLimit
  ProxyProtocol = TRUE
  MaxChannels = 2
  AcceptFails = TRUE
SPECIFICATION FairSpec
INVARIANTS
  SlotsBalanced
  UnauthenticatedBounded
  ReturnLeavesNothing
PROPERTIES
  HandshakesEnd
  DrainedShutdownCompletes
