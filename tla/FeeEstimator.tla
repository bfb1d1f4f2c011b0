----------------------------- MODULE FeeEstimator -----------------------------
(***************************************************************************)
(* The fee estimator (mempool/estimatefee.go) and the three places that    *)
(* hold a reference to it: the pool, which shows it new transactions, the  *)
(* sync manager, which registers and rolls back blocks and replaces an     *)
(* estimator that reports an error (netsync/manager.go), and the RPC       *)
(* server, which asks it.  Each method runs under the estimator's mutex    *)
(* and is one step.                                                        *)
(*                                                                         *)
(* The order of a block's transactions and the bin entry that makes room   *)
(* are random in the code and chosen here.                                 *)
(***************************************************************************)
EXTENDS Integers, Sequences, FiniteSets, SequencesExt, Functions

CONSTANTS
    Txs, feeRate,           \* transactions and their rates
    estimateFeeDepth, estimateFeeBinSize, estimateFeeMaxReplacements,
    maxRollback, minRegisteredBlocks,
    MaxBlockTxs, MaxHeight, MaxMoves, MaxStarts   \* bounds

VARIABLES
    est,     \* the estimators: 1 is the pool's and the RPC server's
    smRef,   \* the one the sync manager uses
    chain,   \* the blocks connected, each a set of transactions with a serial
    saved,   \* the state in the database, or Nothing
    used,    \* [moves, starts]
    panic    \* a rollback met the state it panics on

feVars == <<est, smRef, chain, saved, used, panic>>

UnminedHeight == 2147483647
Nothing == <<>>
Bins == 0 .. estimateFeeDepth - 1
Height == Len(chain)

NewFeeEstimator ==
    [lkh |-> UnminedHeight, num |-> 0, obs |-> <<>>, bin |-> [k \in Bins |-> <<>>],
     dropped |-> <<>>, cached |-> Nothing, before |-> <<>>]

FeInit ==
    /\ est = [e \in 1 .. 2 |-> NewFeeEstimator]
    /\ smRef = 1 /\ chain = <<>> /\ saved = Nothing
    /\ used = [moves |-> 0, starts |-> 0]
    /\ panic = FALSE

(***************************************************************************)
(* ObserveTransaction, from the pool: nothing before the first block is    *)
(* known, and nothing for a transaction observed already.                  *)
(***************************************************************************)
ObserveTransaction(e, t) ==
    IF e.lkh = UnminedHeight \/ t \in DOMAIN e.obs THEN e
    ELSE [e EXCEPT !.obs = (t :> [at |-> Height, mined |-> UnminedHeight]) @@ @]

First == CHOOSE t \in Txs : \A x \in Txs : t <= x

OnChain == UNION {chain[i].txs : i \in DOMAIN chain}

\* Transactions arrive in the order of their numbers.
Observe == \E t \in Txs \ OnChain :
    /\ \A x \in Txs : x < t => x \in DOMAIN est[1].obs \cup OnChain
    /\ est' = [est EXCEPT ![1] = ObserveTransaction(@, t)]
    /\ est' # est
    /\ UNCHANGED <<smRef, chain, saved, used, panic>>

-------------------------------------------------------------------------------
(***************************************************************************)
(* RegisterBlock: one transaction of the block.  acc holds the estimator,  *)
(* the replacements per bin, what was dropped and whether it failed.       *)
(***************************************************************************)
Binned(bin, o, count, drop) ==
    IF Len(bin) = estimateFeeBinSize
    THEN LET l == estimateFeeBinSize - count
         IN  [[bin EXCEPT ![drop] = bin[l]] EXCEPT ![l] = o]
    ELSE Append(bin, o)

\* The rooms the random drop chooses from: not those of this block.
Rooms(count) == 1 .. estimateFeeBinSize - count

Place(acc, t, height, drop) ==
    LET e == acc.e
        o == e.obs[t]
        k == height - o.at - 1
        count == acc.counts[k] + 1
    IN  IF acc.err \/ t \notin DOMAIN e.obs THEN acc
        ELSE IF o.mined # UnminedHeight THEN [acc EXCEPT !.err = TRUE]
        ELSE IF k \notin Bins THEN acc
        ELSE IF acc.counts[k] = estimateFeeMaxReplacements THEN acc
        ELSE [acc EXCEPT
                !.e.obs[t].mined = height,
                !.e.bin[k] = Binned(@, t, count, drop),
                !.counts[k] = count,
                !.out = IF Len(e.bin[k]) = estimateFeeBinSize
                        THEN Append(@, e.bin[k][drop]) ELSE @]

(***************************************************************************)
(* Transactions that were not mined for too long leave "observed"; those   *)
(* that were mined stay.  The dropped entries are kept for the last        *)
(* maxRollback blocks.                                                     *)
(***************************************************************************)
TooLong(o, height) == o.mined = UnminedHeight /\ height - o.at >= estimateFeeDepth

Aged(obs, height) ==
    Restrict(obs, {t \in DOMAIN obs : ~TooLong(obs[t], height)})

Remember(list, x) ==
    IF Len(list) = maxRollback THEN Append(Tail(list), x) ELSE Append(list, x)

BinSets(e) == [k \in Bins |-> Range(e.bin[k])]

RECURSIVE Placed(_, _, _, _)
Placed(acc, order, drops, height) ==
    IF order = <<>> THEN acc
    ELSE Placed(Place(acc, Head(order), height, Head(drops)), Tail(order), Tail(drops), height)

RegisterBlock(e, block, order, drops, height) ==
    IF e.lkh # UnminedHeight /\ height # e.lkh + 1
    THEN [err |-> TRUE, e |-> [e EXCEPT !.cached = Nothing]]
    ELSE LET e0 == [e EXCEPT !.lkh = height, !.num = @ + 1, !.cached = Nothing]
             acc == Placed([e |-> e0, counts |-> [k \in Bins |-> 0], out |-> <<>>, err |-> FALSE],
                           order, drops, height)
         IN  IF acc.err THEN [err |-> TRUE, e |-> acc.e]
             ELSE [err |-> FALSE,
                   e |-> [acc.e EXCEPT
                       !.obs = Aged(@, height),
                       !.dropped = IF maxRollback = 0 THEN @
                                   ELSE Remember(@, [hash |-> block, txs |-> acc.out]),
                       !.before = IF maxRollback = 0 THEN @ ELSE Remember(@, BinSets(e))]]

(***************************************************************************)
(* The block connected notification: register the block with the sync      *)
(* manager's estimator, and replace that one when it fails.                *)
(***************************************************************************)
Pending == (DOMAIN est[1].obs \cup {First}) \ OnChain

Connect == \E txs \in SUBSET Pending :
    /\ Cardinality(txs) <= MaxBlockTxs
    /\ Height < MaxHeight /\ used.moves < MaxMoves /\ ~panic
    /\ LET block == [serial |-> used.moves, txs |-> txs]
           e == est[smRef]
           seen == txs \cap DOMAIN e.obs
       IN  \E order \in SetToSeqs(seen),
              drops \in [1 .. Cardinality(seen) -> 1 .. estimateFeeBinSize] :
             LET r == RegisterBlock(e, block, order, drops, Height + 1)
             IN  /\ \A i \in DOMAIN order : LET k == Height - e.obs[order[i]].at IN
                        drops[i] \in Rooms(1 + Cardinality({j \in 1 .. i - 1 :
                                               Height - e.obs[order[j]].at = k}))
                 /\ IF r.err
                    THEN /\ smRef' = 2
                         /\ est' = [[est EXCEPT ![smRef] = r.e] EXCEPT ![2] = NewFeeEstimator]
                    ELSE /\ est' = [est EXCEPT ![smRef] = r.e]
                         /\ UNCHANGED smRef
                 /\ chain' = Append(chain, block)
    /\ used' = [used EXCEPT !.moves = @ + 1]
    /\ UNCHANGED <<saved, panic>>

-------------------------------------------------------------------------------
(***************************************************************************)
(* rollback: the dropped entries go back where entries of the last block   *)
(* are, bin by bin from where the previous one stopped; the entries of the *)
(* last block that remain are taken out.                                   *)
(***************************************************************************)
RECURSIVE NextOf(_, _, _, _)
NextOf(e, bin, height, i) ==
    IF i > Len(bin) THEN 0
    ELSE IF e.obs[bin[i]].mined = height THEN i
    ELSE NextOf(e, bin, height, i + 1)

RECURSIVE PutBack(_, _, _, _)
PutBack(e, txs, height, counters) ==
    IF txs = <<>> THEN [ok |-> TRUE, e |-> e, counters |-> counters]
    ELSE LET o == e.obs[Head(txs)]
             k == o.mined - o.at - 1
             i == NextOf(e, e.bin[k], height, counters[k])
         IN  IF i = 0 THEN [ok |-> FALSE, e |-> e, counters |-> counters]
             ELSE PutBack([e EXCEPT !.obs[e.bin[k][i]].mined = UnminedHeight,
                                    !.bin[k][i] = Head(txs)],
                          Tail(txs), height, [counters EXCEPT ![k] = i + 1])

Removed(e, height, counters) ==
    LET Gone(k) == {i \in DOMAIN e.bin[k] :
                       i >= counters[k] /\ e.obs[e.bin[k][i]].mined = height}
        txs == UNION {{e.bin[k][i] : i \in Gone(k)} : k \in Bins}
    IN  [e EXCEPT !.bin = [k \in Bins |-> SelectSeq(@[k], LAMBDA t : t \notin txs)],
                  !.obs = [t \in DOMAIN @ |-> IF t \in txs
                              THEN [@[t] EXCEPT !.mined = UnminedHeight] ELSE @[t]]]

rollback_KeepsCache(e) ==
    LET r == PutBack(e, Last(e.dropped).txs, e.lkh, [k \in Bins |-> 1])
    IN  IF ~r.ok THEN r
        ELSE [r EXCEPT !.e = [Removed(r.e, e.lkh, r.counters) EXCEPT
                 !.dropped = Front(@), !.before = Front(@),
                 !.num = @ - 1, !.lkh = @ - 1]]

rollback(e) ==
    LET r == PutBack(e, Last(e.dropped).txs, e.lkh, [k \in Bins |-> 1])
    IN  IF ~r.ok THEN r
        ELSE [r EXCEPT !.e = [Removed(r.e, e.lkh, r.counters) EXCEPT
                 !.dropped = Front(@), !.before = Front(@), !.cached = Nothing,
                 !.num = @ - 1, !.lkh = @ - 1]]

(***************************************************************************)
(* Rollback: every block registered since the given one is rolled back; an *)
(* unknown block is an error, which the caller drops.                      *)
(***************************************************************************)
RECURSIVE Rollback(_, _)
Rollback(e, block) ==
    IF \A i \in DOMAIN e.dropped : e.dropped[i].hash # block THEN [ok |-> TRUE, e |-> e]
    ELSE LET r == rollback(e)
         IN  IF ~r.ok \/ Last(e.dropped).hash = block THEN r
             ELSE Rollback(r.e, block)

Disconnect ==
    /\ chain # <<>> /\ used.moves < MaxMoves /\ ~panic
    /\ LET r == Rollback(est[smRef], Last(chain))
       IN  /\ est' = [est EXCEPT ![smRef] = r.e]
           /\ panic' = ~r.ok
    /\ chain' = Front(chain)
    /\ used' = [used EXCEPT !.moves = @ + 1]
    /\ UNCHANGED <<smRef, saved>>

-------------------------------------------------------------------------------
(***************************************************************************)
(* estimateFee over the rates of all bins, highest first: the middle of    *)
(* the places that the transactions confirmed in that many blocks take.    *)
(***************************************************************************)
RECURSIVE SumTo(_, _)
SumTo(e, k) == IF k < 0 THEN 0 ELSE Len(e.bin[k]) + SumTo(e, k - 1)

Rates(e) ==
    SortSeq(FlattenSeq([i \in 1 .. estimateFeeDepth |->
                [j \in 1 .. Len(e.bin[i - 1]) |-> feeRate[e.bin[i - 1][j]]]]),
            LAMBDA x, y : x > y)

feeIndex(e, n) ==
    LET lo == SumTo(e, n - 2)
        hi == lo + Len(e.bin[n - 1]) - 1
        mid == (lo + (IF hi < lo THEN lo ELSE hi)) \div 2
        len == Len(Rates(e))
    IN  IF mid >= len THEN len - 1 ELSE mid

estimates(e) == [n \in 1 .. estimateFeeDepth |->
    IF Rates(e) = <<>> THEN 0 ELSE Rates(e)[feeIndex(e, n) + 1]]

(***************************************************************************)
(* EstimateFee, from the RPC server: the estimates are cached.             *)
(***************************************************************************)
EstimateFee ==
    /\ est[1].num >= minRegisteredBlocks
    /\ est[1].cached = Nothing
    /\ est' = [est EXCEPT ![1].cached = estimates(est[1])]
    /\ UNCHANGED <<smRef, chain, saved, used, panic>>

(***************************************************************************)
(* server.Stop saves the RPC server's estimator, and the next start        *)
(* restores and deletes it, unless its height is not the chain's.  Save    *)
(* numbers the observed transactions and writes bins and dropped lists as  *)
(* numbers, so all of them have to be observed.  A crash saves nothing.    *)
(***************************************************************************)
Save == /\ saved = Nothing /\ used.starts < MaxStarts
        /\ saved' = [est[1] EXCEPT !.cached = Nothing]
        /\ UNCHANGED <<est, smRef, chain, used, panic>>

RestoreFeeEstimator(d) ==
    IF \A k \in Bins : Range(d.bin[k]) \subseteq DOMAIN d.obs THEN d ELSE NewFeeEstimator

Restart ==
    /\ used.starts < MaxStarts
    /\ used' = [used EXCEPT !.starts = @ + 1]
    /\ LET back == saved # Nothing /\ saved.lkh = Height
       IN  est' = <<IF back THEN RestoreFeeEstimator(saved) ELSE NewFeeEstimator,
                    NewFeeEstimator>>
    /\ smRef' = 1 /\ saved' = Nothing
    /\ UNCHANGED <<chain, panic>>

FeNext == Observe \/ Connect \/ Disconnect \/ EstimateFee \/ Save \/ Restart

FeSpec == FeInit /\ [][FeNext]_feVars

-------------------------------------------------------------------------------
Known(e) == UNION {Range(e.bin[k]) : k \in Bins} \cup
            UNION {Range(e.dropped[i].txs) : i \in DOMAIN e.dropped}

(***************************************************************************)
(* Property: through any blocks registered and rolled back, a rollback     *)
(* never panics; a transaction is in one bin at most, the one of the       *)
(* blocks it took to confirm; no bin overflows; whatever a bin or a        *)
(* dropped list names is still observed, so it can be saved; the cached    *)
(* estimates are those of the present bins, and asking for more blocks     *)
(* never costs more.                                                       *)
(***************************************************************************)
EstimatorSound ==
    /\ ~panic
    /\ \A i \in 1 .. 2 : LET e == est[i] IN
        /\ Known(e) \subseteq DOMAIN e.obs
        /\ Len(e.dropped) <= maxRollback /\ e.num >= Len(e.dropped)
        /\ \A k \in Bins :
               /\ Len(e.bin[k]) <= estimateFeeBinSize
               /\ \A j \in DOMAIN e.bin[k] : LET o == e.obs[e.bin[k][j]] IN
                      o.mined # UnminedHeight /\ o.mined - o.at - 1 = k /\ o.mined <= e.lkh
        /\ \A k, l \in Bins : \A x \in DOMAIN e.bin[k], y \in DOMAIN e.bin[l] :
               e.bin[k][x] = e.bin[l][y] => k = l /\ x = y
        /\ e.cached # Nothing =>
               /\ e.cached = estimates(e)
               /\ \A n \in 2 .. estimateFeeDepth : e.cached[n] <= e.cached[n - 1]

\* Rolling blocks back leaves every bin with the transactions it had before the
\* first of them was registered, the ones dropped to make room included.
RollbackStep ==
    \A i \in 1 .. 2 :
        (Len(est'[i].dropped) < Len(est[i].dropped) /\ used'.starts = used.starts
            /\ smRef' = smRef) =>
            BinSets(est'[i]) = est[i].before[Len(est'[i].dropped) + 1]
RollbackRestores == [][RollbackStep]_feVars
===============================================================================
