SPECIFICATION MCSpec
CONSTANTS
    Parts = {"pool", "policy", "fees", "still", "moving", "miner", "polls", "switches", "stratum"}
    n1 = n1  n2 = n2  NoJob = NoJob
    None = None
    Tx <- MCTx
    Name = {n1, n2}
    NameCoins <- MCNameCoins
    Proof <- MCProof
    Tag = {0, 1}
    Info <- MCInfo
    ProofInfo <- MCProofInfo
    Coins <- MCCoins
    Offers <- MCOffers
    Currents = {TRUE}
    MaxHeight = 2
    MaxOrphanTxs = 2
    MaxMempoolSize = 10
    MaxMempoolAncestors = 3
    MaxReplacementEvictions = 2
    MinRelayTxFee = 1
CHECK_DEADLOCK FALSE
INVARIANTS
    NoDoubleSpend PoolConnects PoolIndexed FeesSound 
PROPERTIES
    PoolStepsSound
