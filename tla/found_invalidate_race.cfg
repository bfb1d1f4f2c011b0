SPECIFICATION Spec
CONSTANTS
  Block = {"G", "a1", "b1", "b2"}
  Genesis = "G"
  Heavy = {}
  Parent <- MCParent
  Ancestors <- MCAncestors
  Height <- MCHeight
  WorkSum <- MCWorkSum
  Checkpoint = "G"
  MaybeBad = {}
  Sync = sync
  Rpc = {r1}
  NoThread = nobody
  RpcCalls = {"invalidate", "reconsider"}
  Announced = {}
  Sources = {"submit"}
  OneCaller = FALSE
  DbMayFail = FALSE
  MayCrash = FALSE
CHECK_DEADLOCK FALSE
INVARIANTS
  BestChainSound
