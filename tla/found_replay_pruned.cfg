SPECIFICATION MCSpec
CONSTANTS
  Parts = {"utxo"}
  Block = {"G", "a1", "a2", "a3", "b2", "b3"}
  Genesis = "G"
  Parent <- MCParent
  Ancestors <- MCAncestors
  Height <- MCHeight
  Coin = {"u", "v", "w", "x", "y"}
  Creates <- MCCreates
  Spends <- MCSpends
  Thread = {t1}
  None = none
  OneCaller = TRUE
  MayPrune = TRUE
  MayCrash = TRUE
  DbMayFail = FALSE
CHECK_DEADLOCK FALSE
INVARIANTS
  BlocksSinceFlushKept
