SPECIFICATION Spec
CONSTANTS
  Block = {"G", "a1", "a2", "b1"}
  Genesis = "G"
  Heavy = {"b1"}
  Parent <- MCParent
  Ancestors <- MCAncestors
  Height <- MCHeight
  WorkSum <- MCWorkSum
  Checkpoint = "G"
  MaybeBad = {"a2"}
  Sync = sync
  Rpc = {r1}
  NoThread = nobody
  RpcCalls = {"invalidate", "reconsider"}
  Announced = {"a1", "b1"}
  Sources = {"peer"}
  OneCaller = FALSE
  DbMayFail = TRUE
  MayCrash = TRUE
CHECK_DEADLOCK FALSE
INVARIANTS
  BestChainObeysRules
  RestartFindsChain

  

