----------------------------- MODULE BlockRules -----------------------------
(***************************************************************************)
(* What a block may spend and create: the sanity, context and connection   *)
(* checks of validate.go over a utxo view (utxoviewpoint.go), the spend    *)
(* journal, and a reorganization, which is judged on one view shared by    *)
(* all its blocks while the chain's outputs stay as they are, and only     *)
(* then carried out.  A transaction is its own hash, so an outpoint is a   *)
(* transaction and an index.  Names, airdrops and scripts are the other    *)
(* modules' subject; the value a coinbase's proofs conjure is an input.    *)
(***************************************************************************)
EXTENDS Integers, Sequences, FiniteSets, FiniteSetsExt, SequencesExt

CONSTANTS baseSubsidy, SubsidyReductionInterval, CoinbaseMaturity, MaxDoo, TxStart,
          MaxBlockSigOpsCost, BlockSpacing, LockTimeMultiplier,
          SeqChoices,    \* relative locks: [kind |-> "off" | "blocks" | "time", n |-> Nat]
          LockChoices,   \* absolute locks: [kind |-> "none" | "height" | "time", n |-> Nat]
          Shapes,        \* what a transaction pays: "all", "fee", "over", "burn"
          Extras,        \* what a coinbase claims above its due
          Conjured,      \* what its proofs conjure
          MaxIns, MaxTxs, MaxHeight, MaxLength  \* MaxLength: leaves of a merkle tree

VARIABLES chain,  \* the best chain's blocks, from height 1
          utxo,   \* its unspent outputs
          undo,   \* the spend journal: the outputs each block spent, in order
          pre     \* a reorganization being judged, or NoPre

brVars == <<chain, utxo, undo, pre>>

NoPre == [chain |-> <<>>, view |-> <<>>, kept |-> -1]
NoEntry == [value |-> 0, height |-> 0, cb |-> FALSE, spent |-> TRUE, none |-> TRUE]
Entry(out, height, cb) == [value |-> out.value, height |-> height, cb |-> cb, spent |-> FALSE, none |-> FALSE]
SumOf(s) == FoldLeft(LAMBDA acc, x : acc + x, 0, s)
OutValue(tx) == SumOf([i \in DOMAIN tx.outs |-> tx.outs[i].value])
MedianAt(h) == BlockSpacing * h   \* CalcPastMedianTime of the block at h

-----------------------------------------------------------------------------
(* The view: outpoints looked up so far, their entries kept when spent. *)

Lookup(view, op) == IF op \in DOMAIN view THEN view[op] ELSE NoEntry
Put(view, op, e) == [o \in DOMAIN view \cup {op} |-> IF o = op THEN e ELSE view[o]]
IsCoinBase(tx) == tx.ins = <<>>

RECURSIVE AddFrom(_, _, _, _)
AddFrom(view, tx, height, i) ==
    IF i > Len(tx.outs) THEN view
    ELSE AddFrom(IF tx.outs[i].burnt THEN view
                 ELSE Put(view, [tx |-> tx, i |-> i], Entry(tx.outs[i], height, IsCoinBase(tx))), tx, height, i + 1)
AddTxOuts(view, tx, height) == AddFrom(view, tx, height, 1)

\* Inputs made earlier in the block come from it, the others from the chain
\* unless the view already has them.
RECURSIVE FetchFrom(_, _, _, _)
FetchFrom(view, block, height, ops) ==
    IF ops = <<>> THEN view
    ELSE LET op == Head(ops).op
             later == Head(ops).at
             inFlight == \E j \in 1..(later - 1) : block[j] = op.tx
         IN FetchFrom(IF inFlight THEN AddTxOuts(view, op.tx, height)
                      ELSE IF op \in DOMAIN view THEN view
                      ELSE Put(view, op, IF op \in DOMAIN utxo THEN utxo[op] ELSE NoEntry),
                      block, height, Tail(ops))
Spends(block) == FlattenSeq([j \in DOMAIN block |-> [k \in DOMAIN block[j].ins |-> [op |-> block[j].ins[k].op, at |-> j]]])
fetchInputUtxos(view, block, height) == FetchFrom(view, block, height, Spends(block))

RECURSIVE SpendAll(_, _)
SpendAll(view, ins) ==
    IF ins = <<>> THEN view
    ELSE SpendAll(Put(view, Head(ins).op, [Lookup(view, Head(ins).op) EXCEPT !.spent = TRUE]), Tail(ins))
connectTransaction(view, tx, height) == AddTxOuts(SpendAll(view, tx.ins), tx, height)
StxosOf(view, tx) == [i \in DOMAIN tx.ins |-> Lookup(view, tx.ins[i].op)]

\* Backwards: what a transaction made is spent, then what it spent is back.
RECURSIVE UnmakeFrom(_, _, _, _)
UnmakeFrom(view, tx, height, i) ==
    IF i > Len(tx.outs) THEN view
    ELSE LET op == [tx |-> tx, i |-> i]
             e == IF op \in DOMAIN view /\ ~view[op].none THEN view[op] ELSE Entry(tx.outs[i], height, IsCoinBase(tx))
         IN UnmakeFrom(IF tx.outs[i].burnt THEN view ELSE Put(view, op, [e EXCEPT !.spent = TRUE]), tx, height, i + 1)
RECURSIVE RestoreFrom(_, _, _, _)
RestoreFrom(view, tx, stxos, k) ==
    IF k = 0 THEN view
    ELSE RestoreFrom(Put(view, tx.ins[k].op, [stxos[Len(stxos)] EXCEPT !.spent = FALSE]), tx, Front(stxos), k - 1)
UnmadeThenRestored(view, tx, height, stxos) == RestoreFrom(UnmakeFrom(view, tx, height, 1), tx, stxos, Len(tx.ins))
RECURSIVE disconnectTransactions(_, _, _, _)
disconnectTransactions(view, block, height, stxos) ==
    IF block = <<>> THEN view
    ELSE LET tx == Last(block) IN
         disconnectTransactions(UnmadeThenRestored(view, tx, height, stxos), Front(block), height,
                                SubSeq(stxos, 1, Len(stxos) - Len(tx.ins)))

\* commit, and the cache below it: spent entries go, the others are kept.
Committed(set, view) ==
    LET live == { op \in DOMAIN set \cup DOMAIN view : op \in DOMAIN view => ~view[op].spent } IN
    [op \in live |-> IF op \in DOMAIN view THEN view[op] ELSE set[op]]

-----------------------------------------------------------------------------
(* The checks. *)

CalcBlockSubsidy(height) == baseSubsidy \div 2^(height \div SubsidyReductionInterval)

SequenceLockOf(view, tx, height) ==
    LET blocks == { i \in DOMAIN tx.ins : tx.ins[i].seq.kind = "blocks" }
        times == { i \in DOMAIN tx.ins : tx.ins[i].seq.kind = "time" }
        at(i) == Lookup(view, tx.ins[i].op).height
    IN [height |-> Max({-1} \cup { at(i) + tx.ins[i].seq.n - 1 : i \in blocks }),
        seconds |-> Max({-1} \cup { MedianAt(Max({at(i) - 1, 0})) + tx.ins[i].seq.n * LockTimeMultiplier - 1 : i \in times })]
SequenceLockActive(lock, height, median) == lock.seconds < median /\ lock.height < height

IsFinalizedTransaction(tx, height, median) ==
    \/ IsCoinBase(tx) \/ tx.lock.kind = "none"
    \/ tx.lock.kind = "height" /\ tx.lock.n < height
    \/ tx.lock.kind = "time" /\ tx.lock.n * LockTimeMultiplier < median
    \/ \A i \in DOMAIN tx.ins : tx.ins[i].seq.kind = "max"

CheckTransactionSanity(tx) ==
    /\ tx.outs # <<>> /\ OutValue(tx) <= MaxDoo
    /\ \A i, j \in DOMAIN tx.ins : tx.ins[i].op = tx.ins[j].op => i = j

\* The block's first transaction is its coinbase; no transaction is in it twice.
checkBlockSanity(block) ==
    /\ IsCoinBase(block[1]) /\ \A j \in 2..Len(block) : ~IsCoinBase(block[j])
    /\ \A j \in DOMAIN block : CheckTransactionSanity(block[j])
    /\ \A j, k \in DOMAIN block : block[j] = block[k] => j = k

checkTransactionStart(block, height) == height < TxStart => Len(block) = 1 /\ Len(block[1].outs) = 1

checkBlockContext(block, height) ==
    /\ checkTransactionStart(block, height)
    /\ \A j \in DOMAIN block : IsFinalizedTransaction(block[j], height, MedianAt(height - 1))
    /\ block[1].lock.n = height

GetSigOpCost(view, tx) == IF \E i \in DOMAIN tx.ins : Lookup(view, tx.ins[i].op).spent THEN -1 ELSE Len(tx.ins)

Matured_Short(e, height) == e.cb => height - e.height >= CoinbaseMaturity - 1
Matured(e, height) == e.cb => height - e.height >= CoinbaseMaturity

\* The fee, or -1 when the inputs are not spendable or not enough.
CheckTransactionInputs(view, tx, height) ==
    LET in == SumOf([i \in DOMAIN tx.ins |-> Lookup(view, tx.ins[i].op).value]) IN
    IF IsCoinBase(tx) THEN 0
    ELSE IF \/ \E i \in DOMAIN tx.ins : LET e == Lookup(view, tx.ins[i].op) IN e.spent \/ ~Matured(e, height)
            \/ in > MaxDoo \/ in < OutValue(tx)
    THEN -1 ELSE in - OutValue(tx)

checkCoinbaseValue(tx, height, fees) ==
    /\ CalcBlockSubsidy(height) + fees + tx.conjured <= MaxDoo
    /\ OutValue(tx) <= CalcBlockSubsidy(height) + fees + tx.conjured

RECURSIVE ConnectFrom(_, _, _, _)
ConnectFrom(view, txs, height, fees) ==
    IF txs = <<>> THEN [view |-> view, fees |-> fees]
    ELSE LET fee == CheckTransactionInputs(view, Head(txs), height) IN
         IF fee < 0 THEN [view |-> view, fees |-> -1]
         ELSE ConnectFrom(connectTransaction(view, Head(txs), height), Tail(txs), height, fees + fee)

\* The whole of checkConnectBlock: the view after the block, or no view.
Refused == [ok |-> FALSE, view |-> <<>>]
checkConnectBlock(view, block, height) ==
    LET fetched == fetchInputUtxos(view, block, height)
        costs == [j \in DOMAIN block |-> GetSigOpCost(fetched, block[j])]
        done == ConnectFrom(fetched, block, height, 0)
    IN IF (\E j \in DOMAIN costs : costs[j] < 0) \/ SumOf(costs) > MaxBlockSigOpsCost THEN Refused
       ELSE IF done.fees < 0 \/ (done.fees >= 0 /\ ~checkCoinbaseValue(block[1], height, done.fees)) THEN Refused
       ELSE IF \E j \in DOMAIN block : ~SequenceLockActive(SequenceLockOf(done.view, block[j], height), height,
                                                           MedianAt(height - 1))
       THEN Refused ELSE [ok |-> TRUE, view |-> done.view]

Acceptable(view, block, height) ==
    IF checkBlockSanity(block) /\ checkBlockContext(block, height) THEN checkConnectBlock(view, block, height)
    ELSE Refused

-----------------------------------------------------------------------------
(* Blocks to offer on top of a chain: any coins of it, spent or not, and
   those of the block's earlier transactions. *)

OutsOf(tx) == { [tx |-> tx, i |-> i] : i \in DOMAIN tx.outs }
Coins(blocks) == UNION { UNION { OutsOf(blocks[h][j]) : j \in DOMAIN blocks[h] } : h \in DOMAIN blocks }
Pay(ins, shape, lock) ==
    LET total == SumOf([i \in DOMAIN ins |-> ins[i].op.tx.outs[ins[i].op.i].value])
        v == CASE shape = "fee" -> Max({total - 1, 0}) [] shape = "over" -> total + 1 [] OTHER -> total
    IN [ins |-> ins, outs |-> <<[value |-> v, burnt |-> shape = "burn"]>>, lock |-> lock, conjured |-> 0]
TxsOver(coins) ==
    { Pay(ins, shape, lock) : shape \in Shapes, lock \in LockChoices,
                              ins \in UNION { [1..n -> { [op |-> c, seq |-> s] : c \in coins, s \in SeqChoices }] : n \in 1..MaxIns } }
CoinbaseFor(height, extra, conjured) ==
    [ins |-> <<>>, outs |-> <<[value |-> CalcBlockSubsidy(height) + extra + conjured, burnt |-> FALSE]>>,
     lock |-> [kind |-> "height", n |-> height], conjured |-> conjured]
RECURSIVE TailsOver(_, _)
TailsOver(coins, n) ==
    {<<>>} \cup (IF n = 0 THEN {}
                 ELSE UNION { { <<tx>> \o rest : rest \in TailsOver(coins \cup OutsOf(tx), n - 1) } : tx \in TxsOver(coins) })
BlocksOn(blocks) ==
    UNION { LET cb == CoinbaseFor(Len(blocks) + 1, x, c) IN
            { <<cb>> \o txs : txs \in TailsOver(Coins(blocks) \cup OutsOf(cb), MaxTxs) } : x \in Extras, c \in Conjured }

-----------------------------------------------------------------------------
StxosFrom(block, view) ==   \* connectTransactions' spent outputs, in order
    FlattenSeq([j \in DOMAIN block |-> [k \in DOMAIN block[j].ins |-> [Lookup(view, block[j].ins[k].op) EXCEPT !.spent = FALSE]]])

Connect ==
    /\ pre = NoPre /\ Len(chain) < MaxHeight
    /\ \E block \in BlocksOn(chain) :
          LET got == Acceptable(<<>>, block, Len(chain) + 1) IN
          /\ got.ok
          /\ chain' = Append(chain, block) /\ utxo' = Committed(utxo, got.view)
          /\ undo' = Append(undo, StxosFrom(block, got.view))
    /\ UNCHANGED pre

\* The judgement of a reorganization: blocks go from the shared view, others
\* come.
PreDisconnect ==
    LET now == IF pre = NoPre THEN [chain |-> chain, view |-> <<>>, kept |-> Len(chain)] ELSE pre
        h == Len(now.chain)
        fetched == fetchInputUtxos(now.view, now.chain[h], h)
    IN /\ h > 0 /\ now.kept = h
       /\ pre' = [chain |-> Front(now.chain), kept |-> h - 1,
                  view |-> disconnectTransactions(fetched, now.chain[h], h, undo[h])]
       /\ UNCHANGED <<chain, utxo, undo>>

PreConnect ==
    /\ pre # NoPre /\ Len(pre.chain) <= Len(chain) /\ Len(pre.chain) < MaxHeight
    /\ \E block \in BlocksOn(pre.chain) :
          LET got == Acceptable(pre.view, block, Len(pre.chain) + 1) IN
          /\ got.ok /\ (Len(pre.chain) = pre.kept => block # chain[pre.kept + 1])
          /\ pre' = [pre EXCEPT !.chain = Append(@, block), !.view = got.view]
    /\ UNCHANGED <<chain, utxo, undo>>

\* A block of the branch is refused, or carried out: back by the journal, and
\* forward through the outputs' cache.
Abandon == pre # NoPre /\ pre' = NoPre /\ UNCHANGED <<chain, utxo, undo>>

RECURSIVE Back(_, _)
Back(set, h) ==
    IF h = pre.kept THEN set
    ELSE Back(Committed(set, disconnectTransactions(<<>>, chain[h], h, undo[h])), h - 1)
RECURSIVE Forward(_, _, _)
Forward(set, journal, h) ==
    IF h > Len(pre.chain) THEN [utxo |-> set, undo |-> journal]
    ELSE LET block == pre.chain[h]
             step(acc, tx) == [view |-> connectTransaction(acc.view, tx, h),
                               stxos |-> acc.stxos \o StxosOf(acc.view, tx)]
             end == FoldLeft(step, [view |-> set, stxos |-> <<>>], block)
         IN Forward(Committed(<<>>, end.view), Append(journal, end.stxos), h + 1)
CarryOut ==
    /\ pre # NoPre /\ Len(pre.chain) > Len(chain)
    /\ LET done == Forward(Back(utxo, Len(chain)), SubSeq(undo, 1, pre.kept), pre.kept + 1) IN
       utxo' = done.utxo /\ undo' = done.undo
    /\ chain' = pre.chain /\ pre' = NoPre

BrInit == chain = <<>> /\ utxo = <<>> /\ undo = <<>> /\ pre = NoPre
BrNext == Connect \/ PreDisconnect \/ PreConnect \/ Abandon \/ CarryOut
BrSpec == BrInit /\ [][BrNext]_brVars

-----------------------------------------------------------------------------
(* The merkle tree commits to a block's transactions, an odd node paired with
   the hash of nothing. *)

Paired(left) == <<"empty">>
RECURSIVE Level(_)
Level(nodes) ==
    IF nodes = <<>> THEN <<>>
    ELSE IF Len(nodes) = 1 THEN << <<"node", nodes[1], Paired(nodes[1])>> >>
    ELSE << <<"node", nodes[1], nodes[2]>> >> \o Level(SubSeq(nodes, 3, Len(nodes)))
RECURSIVE RootOf(_)
RootOf(nodes) == IF Len(nodes) = 1 THEN nodes[1] ELSE RootOf(Level(nodes))
CalcMerkleRoot(txs) == IF txs = <<>> THEN <<"empty">> ELSE RootOf([i \in DOMAIN txs |-> <<"leaf", txs[i]>>])

-----------------------------------------------------------------------------
(* Properties. *)

\* The outputs of a list of blocks by definition: made by one of their
\* transactions, not burnt, and no input of any of them.
Unspent(blocks) ==
    { op \in Coins(blocks) : /\ ~op.tx.outs[op.i].burnt
                             /\ \A h \in DOMAIN blocks : \A j \in DOMAIN blocks[h] :
                                   \A i \in DOMAIN blocks[h][j].ins : blocks[h][j].ins[i].op # op }
MadeAt(blocks, op) == CHOOSE h \in DOMAIN blocks : \E j \in DOMAIN blocks[h] : blocks[h][j] = op.tx
EntryIn(blocks, op) == Entry(op.tx.outs[op.i], MadeAt(blocks, op), IsCoinBase(op.tx))

\* After any blocks connected and any reorganizations, the outputs kept are the
\* chain's unspent ones, each with its height and coinbase mark; and while a
\* reorganization is judged, the view over them says the same of the branch.
ViewsExact ==
    /\ utxo = [op \in Unspent(chain) |-> EntryIn(chain, op)]
    /\ pre # NoPre => Committed(utxo, pre.view) = [op \in Unspent(pre.chain) |-> EntryIn(pre.chain, op)]

\* No chain accepted holds more than its subsidies and proofs made, spends a
\* coin twice or before it is mature, or ignores a lock.
MoneyConserved(blocks) ==
    LET ops == Unspent(blocks)
        fees(op) == op.tx.outs[op.i].value
        made == SumOf([h \in DOMAIN blocks |-> CalcBlockSubsidy(h) + blocks[h][1].conjured])
    IN MapThenSumSet(fees, ops) <= made
SpendsAllowed(blocks) ==
    \A h \in DOMAIN blocks : \A j \in DOMAIN blocks[h] : \A i \in DOMAIN blocks[h][j].ins :
        LET in == blocks[h][j].ins[i]
            made == MadeAt(blocks, in.op)
        IN /\ \A h2 \in DOMAIN blocks : \A j2 \in DOMAIN blocks[h2] : \A i2 \in DOMAIN blocks[h2][j2].ins :
                 blocks[h2][j2].ins[i2].op = in.op => <<h2, j2, i2>> = <<h, j, i>>
           /\ IsCoinBase(in.op.tx) => h - made >= CoinbaseMaturity
           /\ in.seq.kind = "blocks" => h - made >= in.seq.n
           /\ in.seq.kind = "time" => MedianAt(h - 1) - MedianAt(Max({made - 1, 0})) >= in.seq.n * LockTimeMultiplier
ChainsHonest ==
    /\ MoneyConserved(chain) /\ SpendsAllowed(chain)
    /\ pre # NoPre => MoneyConserved(pre.chain) /\ SpendsAllowed(pre.chain)

\* Different lists of transactions have different merkle roots.
MerkleInjective ==
    \A s, t \in UNION { [1..n -> {1, 2}] : n \in 0..MaxLength } : CalcMerkleRoot(s) = CalcMerkleRoot(t) => s = t
====
