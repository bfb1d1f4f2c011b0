SPECIFICATION Spec
CONSTANTS
  Block = {"G", "a1", "a2", "c2", "b1", "b2", "b3"}
  Genesis = "G"
  Heavy = {"b2"}
  Parent <- MCParent
  Ancestors <- MCAncestors
  Height <- MCHeight
  WorkSum <- MCWorkSum
  Checkpoint = "G"
  MaybeBad = {"a2", "b1", "b2"}
  Sync = sync
  Rpc = {}
  NoThread = nobody
  RpcCalls = {"invalidate", "reconsider"}
  Announced = {"a1", "b1"}
  Sources = {"submit"}
  OneCaller = TRUE
  DbMayFail = FALSE
  MayCrash = FALSE
CHECK_DEADLOCK FALSE
INVARIANTS
  IndexClosed
  RestartFindsChain
  BestChainSound
  HeaviestChain
  InvalidForCause

  
