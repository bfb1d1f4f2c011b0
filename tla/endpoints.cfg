SPECIFICATION Spec
CONSTANTS
  Parts = {"output", "negotiation", "stall", "loops", "serving", "shutdown", "download", "notify", "websocket", "lifecycle", "reconnect", "posts", "requests"}
  ad1 = ad1  n1 = n1  NoJob = NoJob
INVARIANTS
  PeersSound
  ClientsSound
PROPERTIES
  ToldInOrder
CHECK_DEADLOCK FALSE
