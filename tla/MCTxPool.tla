----------------------------- MODULE MCTxPool -----------------------------
(***************************************************************************)
(* The mempool, and what works from it: the policy of relaying, the fee    *)
(* estimator, block templates, the CPU miner, the long polls of            *)
(* getblocktemplate, and the Stratum server.                               *)
(*                                                                         *)
(* The pool has five kinds of senders: a wallet that bumps fees, peers     *)
(* whose transactions arrive out of order, a name owner who updates it     *)
(* repeatedly, two who open the same name, and claimants.                  *)
(*                                                                         *)
(* part says which component takes the steps of a behaviour; a component's *)
(* variables are the first of the slots x1, x2, ...                        *)
(***************************************************************************)
EXTENDS TxPool, TLC

CONSTANTS Parts, n1, n2, NoJob

VARIABLES part, x1, x2, x3, x4, x5, x6, x7, x8, x9, x10, x11

-----------------------------------------------------------------------------
\* The pool.
coin(i) == <<"coin", i>>
MCCoins == {coin(i) : i \in 1..3}
MCNameCoins == (n1 :> {coin(1)}) @@ (n2 :> {})

Plain(in, outs, size, fee, signals) ==
    [in |-> in, outs |-> outs, size |-> size, fee |-> fee, signals |-> signals,
     act |-> <<>>, named |-> FALSE, from |-> 1, until |-> 9,
     sane |-> TRUE, standard |-> TRUE, small |-> TRUE, large |-> FALSE]
Named(in, outs, act, until) ==
    [Plain(in, outs, 2, 2, FALSE) EXCEPT
       !.act = act, !.named = TRUE, !.until = until]

\* c replaces a, its child b, or d; kid and rival spend the same output of par,
\* heir needs kid; upd1 to upd3 update n1, side spends the change of the first;
\* two open n2; bid's period ends.
MCInfo ==
    [a |-> Plain({coin(1)}, 1, 5, 2, TRUE),
     b |-> Plain({<<"a", 1>>}, 1, 3, 1, FALSE),
     c |-> Plain({coin(1), coin(2)}, 1, 5, 9, FALSE),
     d |-> Plain({coin(2)}, 1, 5, 1, TRUE),
     par |-> Plain({coin(1)}, 2, 3, 2, FALSE),
     kid |-> Plain({<<"par", 1>>}, 1, 3, 2, FALSE),
     rival |-> Plain({<<"par", 1>>, <<"par", 2>>}, 1, 3, 0, FALSE),
     heir |-> Plain({<<"kid", 1>>, coin(2)}, 1, 3, 2, FALSE),
     upd1 |-> Named({coin(1)}, 2, n1 :> 1, 9),
     upd2 |-> Named({<<"upd1", 1>>}, 1, n1 :> 1, 9),
     upd3 |-> Named({<<"upd2", 1>>}, 1, n1 :> 1, 9),
     side |-> Plain({<<"upd1", 2>>}, 1, 3, 2, FALSE),
     open |-> Named({coin(2)}, 2, n2 :> 1, 9),
     open2 |-> Named({coin(3)}, 1, n2 :> 1, 9),
     bid |-> Named({coin(1)}, 1, <<>>, 1)]
MCTx == DOMAIN MCInfo

Pf(kind, key, witness, fee, until) ==
    [kind |-> kind, key |-> key, witness |-> witness, size |-> 4,
     fee |-> fee, from |-> 1, until |-> until]
MCProofInfo ==
    [claim1 |-> Pf("claim", n1, 1, 1, 1),
     claim2 |-> Pf("claim", n2, 2, 2, 1),
     drop1 |-> Pf("airdrop", 7, 3, 1, 9)]
MCProof == DOMAIN MCProofInfo

Blk(txs) == [txs |-> txs, proofs |-> {}]
Replacing == [txs |-> {"a", "b", "c", "d"}, proofs |-> {},
              blocks |-> {Blk(<<"a">>), Blk(<<"c">>), Blk(<<"d">>), Blk(<<"a", "d">>)}]
MCOffers ==
    { Replacing,
      [txs |-> {"par", "kid", "rival", "heir"}, proofs |-> {},
       blocks |-> {Blk(<<"par">>), Blk(<<"kid">>)}],
      [txs |-> {"upd1", "upd2", "upd3", "side"}, proofs |-> {},
       blocks |-> {Blk(<<"upd1">>), Blk(<<"upd2">>)}],
      [txs |-> {"open", "open2", "bid"}, proofs |-> {},
       blocks |-> {Blk(<<"open">>), Blk(<<"open2">>)}],
      [txs |-> {"a", "d"}, proofs |-> {"claim1", "claim2", "drop1"},
       blocks |-> {Blk(<<>>), [txs |-> <<"a">>, proofs |-> {"drop1"}]}] }

-----------------------------------------------------------------------------
\* Relaying: inputs and outputs of every class and edge, one rule broken at a time.
TIn(cl, w, s, sc) == [class |-> cl, witness |-> w, sigOps |-> s, script |-> sc]
NoScript == [class |-> "none", nsigs |-> 0]
PayToKey == TIn("p2wpkh", <<65, 33>>, 0, NoScript)
PolicyIns ==
    {PayToKey, TIn("p2wpkh", <<>>, 0, NoScript), TIn("p2wpkh", <<65>>, 0, NoScript),
     TIn("p2wsh", <<65, 35>>, 0, [class |-> "pubkey", nsigs |-> 1]),
     TIn("p2wsh", <<65, 33, 25>>, 0, [class |-> "pubkeyhash", nsigs |-> 1]),
     TIn("p2wsh", <<0, 65, 65, 105>>, 0, [class |-> "multisig", nsigs |-> 2]),
     TIn("p2wsh", <<65, 65, 105>>, 0, [class |-> "multisig", nsigs |-> 2]),
     TIn("p2wsh", <<81, 10>>, 0, [class |-> "other", nsigs |-> 0]),
     TIn("p2wsh", <<1, 3601>>, 0, [class |-> "other", nsigs |-> 0]),
     TIn("unknown", [i \in 1..101 |-> 1], 0, NoScript),
     TIn("unknown", <<80>>, 0, NoScript), TIn("p2sh", <<>>, 15, NoScript),
     TIn("p2sh", <<>>, 16, NoScript), TIn("nonstandard", <<>>, 0, NoScript)}
TOut(v, h, c, val, cl, nk, ns) ==
    [version |-> v, hashLen |-> h, covenant |-> c, value |-> val, class |-> cl,
     nkeys |-> nk, nsigs |-> ns, size |-> 32]
ToKey(cov, val) == TOut(0, 20, cov, val, "p2wpkh", 0, 0)
PolicyOuts ==
    {ToKey("none", 297), ToKey("none", 296), ToKey("none", 2), ToKey("update", 0),
     TOut(0, 21, "none", 900, "nonstandard", 0, 0), TOut(0, 32, "unknown", 900, "p2wsh", 0, 0),
     TOut(5, 20, "none", 900, "unknown", 0, 0), TOut(31, 10, "none", 0, "nulldata", 0, 0)}
WithInsOuts(is, os) ==
    [version |-> 0, final |-> TRUE, weight |-> 800, stripped |-> 100, outs |-> os, ins |-> is,
     fee |-> 10, highPriority |-> TRUE, sigCost |-> [err |-> FALSE, cost |-> 1],
     locksMet |-> TRUE, scriptsValid |-> TRUE]
GoodTx == WithInsOuts(<<PayToKey>>, <<ToKey("none", 297)>>)
PolicyTxs ==
    << {WithInsOuts(<<PayToKey>>, os) : os \in (PolicyOuts \X PolicyOuts) \cup {<<>>}},
       {WithInsOuts(is, <<ToKey("none", 297)>>) : is \in PolicyIns \X PolicyIns},
       {[GoodTx EXCEPT !.version = 2], [GoodTx EXCEPT !.final = FALSE],
        [GoodTx EXCEPT !.weight = 400001], [GoodTx EXCEPT !.stripped = 64],
        [GoodTx EXCEPT !.fee = 0, !.highPriority = FALSE],
        [GoodTx EXCEPT !.fee = 0, !.weight = 200000], [GoodTx EXCEPT !.sigCost.cost = 100],
        [GoodTx EXCEPT !.sigCost.err = TRUE], [GoodTx EXCEPT !.locksMet = FALSE],
        [GoodTx EXCEPT !.scriptsValid = FALSE],
        [GoodTx EXCEPT !.outs = <<TOut(0, 32, "none", 297, "multisig", 3, 2)>>],
        [GoodTx EXCEPT !.outs = <<TOut(0, 32, "none", 297, "multisig", 4, 2)>>]} >>

TP == INSTANCE TxPolicy WITH
      Topics <- {"rules", "limit"}, TxSets <- PolicyTxs, MinRelayTxFee <- 1000,
      MaxDoo <- 2000, IntMax <- 2097151, Kilo <- 1000,
      FeeSizes <- {0, 1, 2, 99, 500, 1999, 2001, 4195, 8390},
      Rates <- {0, 1, 10, 999, 1000, 1001}, MaxSigOpCostPerTx <- 50, FreeLimit <- 8,
      Sizes <- {3, 6}, Testers <- {"ta"}, MaxTime <- 2, MaxRelays <- 3,
      MaxTests <- 2,
      topic <- x1, tx <- x2, verdict <- x3, penny <- x4, last <- x5, now <- x6,
      tester <- x7, relayed <- x8, used <- x9

\* Estimates over two blocks, from three transactions.
FE == INSTANCE FeeEstimator WITH
      Txs <- 1..3, feeRate <- <<3, 1, 4>>, estimateFeeDepth <- 2,
      estimateFeeBinSize <- 2, estimateFeeMaxReplacements <- 1, maxRollback <- 2,
      minRegisteredBlocks <- 2, MaxBlockTxs <- 2, MaxHeight <- 4, MaxMoves <- 5,
      MaxStarts <- 1,
      est <- x1, smRef <- x2, chain <- x3, saved <- x4, used <- x5, panic <- x6

-----------------------------------------------------------------------------
\* Block templates: t3 spends t1 and t2, t4 stands alone.  All their rates,
\* weights, lock times and verdicts on a chain that stands still; then a chain
\* that moves, and coinbase proofs.
TemplateTxs == {"t1", "t2", "t3", "t4"}
Spends == [t1 |-> {"o1"}, t2 |-> {"o2"}, t3 |-> {"t1", "t2"}, t4 |-> {"o3"}]
PoolTx(t, rate, w, sig, lock, ok) ==
    [ins |-> Spends[t], rate |-> rate, w |-> w, sig |-> sig, lock |-> lock, seq |-> 0, ok |-> ok]
StillPools ==
    << { [t \in TemplateTxs |-> PoolTx(t, f[t][1], f[t][2], 1, 0, TRUE)] :
            f \in [TemplateTxs -> {0, 2, 3} \X {2, 4}] },
       { [t \in TemplateTxs |-> PoolTx(t, f[t], 2, f[t], IF t = z THEN 2 ELSE 0, t # y)] :
            f \in [TemplateTxs -> {1, 2}], z \in TemplateTxs, y \in TemplateTxs } >>
MovingPools ==
    << { [t \in TemplateTxs |-> PoolTx(t, 2, 2, 1, IF t = z THEN 1 ELSE 0, TRUE)] :
            z \in {"t1", "t3", "t4"} } >>
TPf(k, f, w, key) == [kind |-> k, fee |-> f, w |-> w, key |-> key]
PooledProofs ==
    { <<TPf("claim", 1, 1, 1), TPf("claim", 3, 2, 2), TPf("airdrop", 2, 1, 1), TPf("airdrop", 2, 2, 3)>>,
      <<TPf("claim", 2, 1, 1), TPf("claim", 2, 1, 1), TPf("claim", 4, 1, 2), TPf("airdrop", 9, 7, 3)>>,
      <<>> }

TSS == INSTANCE TemplateSelect WITH
      Txs <- TemplateTxs, Coins <- {"o1", "o2", "o3"}, CoinValue <- 2,
      TxSets <- StillPools, ProofLists <- {<<>>}, BlockMaxWeight <- 9,
      BlockMinWeight <- 5, BlockPrioritySize <- 5, TxMinFreeFee <- 1,
      MinHighPriority <- 1, MaxSigOps <- 5, maxCoinbaseProofsPerType <- 1,
      HeaderWeight <- 1, MaxHeight <- 3, MaxEvents <- 0,
      tx <- x1, proofs <- x2, chain <- x3, pool <- x4, events <- x5, gen <- x6

TSM == INSTANCE TemplateSelect WITH
      Txs <- TemplateTxs, Coins <- {"o1", "o2", "o3"}, CoinValue <- 2,
      TxSets <- MovingPools, ProofLists <- PooledProofs, BlockMaxWeight <- 9,
      BlockMinWeight <- 5, BlockPrioritySize <- 5, TxMinFreeFee <- 1,
      MinHighPriority <- 1, MaxSigOps <- 5, maxCoinbaseProofsPerType <- 1,
      HeaderWeight <- 1, MaxHeight <- 3, MaxEvents <- 2,
      tx <- x1, proofs <- x2, chain <- x3, pool <- x4, events <- x5, gen <- x6

\* Two RPC clients of the miner, three worker goroutines.
CM == INSTANCE CpuMiner WITH
      Callers <- {"ca", "cb"},
      CommandsOf <- [ca |-> {"setgen", "stop"}, cb |-> {"stop", "hashes", "generate"}],
      Workers <- {"w1", "w2", "w3"}, Limits <- {1, 2}, Prompt <- TRUE, MaxTip <- 2,
      MaxCalls <- 2, NoOne <- "no one",
      mtx <- x1, miner <- x2, ctl <- x3, quit <- x4, run <- x5, wk <- x6, mon <- x7,
      submit <- x8, tip <- x9, call <- x10

\* Two long polls each; and a tip that invalidateblock may move.
GW == INSTANCE GbtWork WITH
      Pollers <- {"p1", "p2"}, MaxBlocks <- 2, MaxTime <- 2, Regenerate <- 0,
      MaxTxs <- 1, MaxPolls <- 2, Switching <- FALSE, SideBlocks <- TRUE,
      tip <- x1, blocks <- x2, poolAt <- x3, txs <- x4, now <- x5, lock <- x6,
      st <- x7, chans <- x8, pend <- x9, poll <- x10, switched <- x11

GS == INSTANCE GbtWork WITH
      Pollers <- {"p1", "p2"}, MaxBlocks <- 2, MaxTime <- 1, Regenerate <- 0,
      MaxTxs <- 1, MaxPolls <- 1, Switching <- TRUE, SideBlocks <- TRUE,
      tip <- x1, blocks <- x2, poolAt <- x3, txs <- x4, now <- x5, lock <- x6,
      st <- x7, chans <- x8, pend <- x9, poll <- x10, switched <- x11

SR == INSTANCE Stratum WITH
      Conns <- {"c1", "c2"}, Shares <- {"k1"}, Solutions <- {"k1"},
      maxJobsPerPrevBlock <- 1, MaxTips <- 2, MaxMoves <- 0, MaxJobs <- 2,
      NoJob <- NoJob,
      tip <- x1, moves <- x2, jobs <- x3, jobSeq <- x4, loop <- x5, client <- x6,
      server <- x7, held <- x8, accepted <- x9

-----------------------------------------------------------------------------
\* Only the pool's own behaviours tell the offers apart.
PoolInit == Init /\ (part # "pool" => offer = Replacing)

\* A variable that the acting component does not have holds NoValue.
NoValue == 0

Idle11 == x11 = NoValue
Idle10 == x10 = NoValue /\ Idle11
Idle9 == x9 = NoValue /\ Idle10
Idle8 == x8 = NoValue /\ Idle9
Idle7 == x7 = NoValue /\ Idle8
Idle6 == x6 = NoValue /\ Idle7
Idle5 == x5 = NoValue /\ Idle6
Idle4 == x4 = NoValue /\ Idle5
Idle3 == x3 = NoValue /\ Idle4
Idle2 == x2 = NoValue /\ Idle3
Idle1 == x1 = NoValue /\ Idle2

PoolPart == /\ part = "pool" /\ Next
            /\ UNCHANGED <<part, x1, x2, x3, x4, x5, x6, x7, x8, x9, x10, x11>>
PolicyPart == /\ part = "policy" /\ TP!TpNext
              /\ UNCHANGED <<part, x10, x11, vars>>
FeesPart == /\ part = "fees" /\ FE!FeNext
            /\ UNCHANGED <<part, x7, x8, x9, x10, x11, vars>>
StillPart == /\ part = "still" /\ TSS!TsNext
             /\ UNCHANGED <<part, x7, x8, x9, x10, x11, vars>>
MovingPart == /\ part = "moving" /\ TSM!TsNext
              /\ UNCHANGED <<part, x7, x8, x9, x10, x11, vars>>
MinerPart == /\ part = "miner" /\ CM!CmNext
             /\ UNCHANGED <<part, x11, vars>>
PollsPart == /\ part = "polls" /\ GW!GwNext
             /\ UNCHANGED <<part, vars>>
SwitchesPart == /\ part = "switches" /\ GS!GwNext
                /\ UNCHANGED <<part, vars>>
StratumPart == /\ part = "stratum" /\ SR!SrNext
               /\ UNCHANGED <<part, x10, x11, vars>>

MCInit ==
  /\ part \in Parts
  /\ PoolInit
  /\ \/ part = "pool" /\ Idle1
     \/ part = "policy" /\ TP!TpInit /\ Idle10
     \/ part = "fees" /\ FE!FeInit /\ Idle7
     \/ part = "still" /\ TSS!TsInit /\ Idle7
     \/ part = "moving" /\ TSM!TsInit /\ Idle7
     \/ part = "miner" /\ CM!CmInit /\ Idle11
     \/ part = "polls" /\ GW!GwInit
     \/ part = "switches" /\ GS!GwInit
     \/ part = "stratum" /\ SR!SrInit /\ Idle10

MCNext == PoolPart \/ PolicyPart \/ FeesPart \/ StillPart \/ MovingPart \/ MinerPart
  \/ PollsPart \/ SwitchesPart \/ StratumPart

mcvars == <<part, x1, x2, x3, x4, x5, x6, x7, x8, x9, x10, x11, vars>>

MCSpec == MCInit /\ [][MCNext]_mcvars

-----------------------------------------------------------------------------
\* PoolSpendable and NamesApply of TxPool.
PoolConnects == PoolSpendable /\ NamesApply

\* NameIndexExact, OrphansIndexed, ProofsIndexed and MemoryExact of TxPool.
PoolIndexed == NameIndexExact /\ OrphansIndexed /\ ProofsIndexed /\ MemoryExact

\* MemoryLimited of TxPool and RollbackRestores of FeeEstimator: no call leaves
\* the pool above its limit, and no rollback loses an observed transaction.
PoolStepsSound ==
    [][(part = "pool" => MemoryStep) /\ (part = "fees" => FE!RollbackStep)]_mcvars

\* EstimatorSound of FeeEstimator and PolicySound of TxPolicy.
FeesSound ==
    /\ part = "fees" => FE!EstimatorSound
    /\ part = "policy" => TP!PolicySound

\* TemplatesSound and ProofsBest of TemplateSelect, MinerObeys of CpuMiner,
\* PollersNotForgotten of GbtWork and SharesSound of Stratum.
MiningSound ==
    /\ part = "still" => TSS!TemplatesSound /\ TSS!ProofsBest
    /\ part = "moving" => TSM!TemplatesSound /\ TSM!ProofsBest
    /\ part = "miner" => CM!MinerObeys
    /\ part = "polls" => GW!PollersNotForgotten
    /\ part = "switches" => GS!PollersNotForgotten
    /\ part = "stratum" => SR!SharesSound
=============================================================================
