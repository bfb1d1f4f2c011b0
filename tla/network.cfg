SPECIFICATION MCSpec
CONSTANTS
  Parts = {"sync", "permanent", "automatic", "inv", "tables", "local", "transport"}
  pa = pa  pb = pb  pc = pc  NoPeer = NoPeer
  Peers = {pa, pb, pc}
  Faulty = {pb}
  FullNodes = {pa, pb, pc}
  Block <- MCBlock
  Parent <- MCParent
  Bad = {5}
  PeerTip <- MCPeerTip
  CurrentFrom = 3
  MaxHeaders = 2
  maxInFlightBlocks = 2
  minInFlightBlocks = 1
  MaxFaults = 2
INVARIANTS
  
  
  AddressesSound
  TransportSound
PROPERTIES
  QueuedNotForgotten
CHECK_DEADLOCK FALSE
