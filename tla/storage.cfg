SPECIFICATION MCSpec
CONSTANTS
  Parts = {"utxo", "utxo_failures", "ffldb", "immutable", "mutable", "buckets", "files", "indexes", "upgrade"}
  Block = {"G", "a1", "a2", "a3", "b2", "b3"}
  Genesis = "G"
  Parent <- MCParent
  Ancestors <- MCAncestors
  Height <- MCHeight
  Coin = {"u", "v", "w", "x", "y"}
  Creates <- MCCreates
  Spends <- MCSpends
  Thread = {t1}
  None = none
  OneCaller = TRUE
  MayPrune = FALSE
  MayCrash = TRUE
  DbMayFail = FALSE
INVARIANTS
  DiskConsistent
  ReplaySound
  DatabaseSound
  StoredDataExact
PROPERTIES
  ImplementsUtxoSet
  IteratorsFollow
CHECK_DEADLOCK FALSE
