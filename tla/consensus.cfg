SPECIFICATION MCSpec
CONSTANTS
  Parts = {"orphans", "view", "votes", "speedy", "headers", "clock", "blocks", "values", "locks", "scripts", "validator", "proofs"}
  NoData = NoData
  Block <- MCBlock
  Genesis = "g"
  Parent <- MCParent
  None = None
  MaxOrphanBlocks = 2
INVARIANTS
  PoolAlmostBounded
  HeaderChainSound
  BlocksSound
  ScriptsSound
  CoinbaseProofsSound
PROPERTIES
  OpcodesAsDocumented
CHECK_DEADLOCK FALSE
