--------------------------- MODULE TemplateSelect ---------------------------
(***************************************************************************)
(* NewBlockTemplate (mining/mining.go): the coinbase proofs, the scan of   *)
(* the pool's transactions, the selection by priority and then by fee, and *)
(* the final check against the chain, while blocks come and go and the     *)
(* pool changes.  A transaction has one output, named as the transaction;  *)
(* the hash of a tip is the chain up to it, and a chain is the sequence of *)
(* the sets of transactions its blocks mine.                               *)
(***************************************************************************)
EXTENDS Integers, Sequences, FiniteSets, FiniteSetsExt, SequencesExt

CONSTANTS Txs, Coins, CoinValue,   \* transactions; confirmed outputs and their values
          TxSets,                  \* a sequence of sets of functions Txs -> attributes
          ProofLists,              \* lists of coinbase proofs the pool may hold
          BlockMaxWeight, BlockMinWeight, BlockPrioritySize, TxMinFreeFee, MinHighPriority,
          MaxSigOps, maxCoinbaseProofsPerType, HeaderWeight,
          MaxHeight, MaxEvents

VARIABLES tx,       \* each transaction: [ins, rate, w, sig, lock, seq, ok]
          proofs,   \* the pool's proofs: [kind, fee, w, key]
          chain, pool, events, gen

tsVars == <<tx, proofs, chain, pool, events, gen>>

-----------------------------------------------------------------------------
(* The chain and the pool. *)

MinedBy(c) == UNION { c[i] : i \in DOMAIN c }
Unspent(c) == (Coins \cup MinedBy(c)) \ UNION { tx[t].ins : t \in MinedBy(c) }

\* IsFinalizedTransaction by height; relative locks are looked at when a block
\* is checked, not here.
Final(t, height) == tx[t].lock < height

\* What checkConnectBlock asks of the transactions of a block on chain c, in
\* their order.
Spends(c, blk, i) == tx[blk[i]].ins \subseteq (Unspent(c) \cup { blk[j] : j \in 1..(i - 1) })
Connects(c, blk) ==
    LET height == Len(c) + 1 IN
    /\ \A i \in DOMAIN blk : /\ Spends(c, blk, i) /\ Final(blk[i], height)
                             /\ tx[blk[i]].seq < height /\ tx[blk[i]].ok
    /\ \A i, j \in DOMAIN blk : i # j => blk[i] # blk[j] /\ tx[blk[i]].ins \cap tx[blk[j]].ins = {}

-----------------------------------------------------------------------------
(* Coinbase proofs. *)

ProofAt(i) == proofs[i]
coinbaseProofRate(i) == (ProofAt(i).fee * 1000) \div ProofAt(i).w

\* Best rate first, in the pool's order among equals.
Before(i, j) == coinbaseProofRate(i) > coinbaseProofRate(j)
                \/ (coinbaseProofRate(i) = coinbaseProofRate(j) /\ i < j)

\* One kind: as many as allowed, no witness twice, skipping what does not fit.
RECURSIVE addCandidates(_, _, _, _)
addCandidates(cand, chosen, weight, added) ==
    IF cand = {} \/ added >= maxCoinbaseProofsPerType THEN [chosen |-> chosen, weight |-> weight]
    ELSE LET i    == CHOOSE k \in cand : \A m \in cand \ {k} : Before(k, m)
             fits == (\A k \in chosen : ProofAt(k).key # ProofAt(i).key) /\ weight + ProofAt(i).w < BlockMaxWeight
         IN  IF fits THEN addCandidates(cand \ {i}, chosen \cup {i}, weight + ProofAt(i).w, added + 1)
             ELSE addCandidates(cand \ {i}, chosen, weight, added)
OfKind(k) == { i \in DOMAIN proofs : ProofAt(i).kind = k }
selectCoinbaseProofs ==
    LET claims == addCandidates(OfKind("claim"), {}, HeaderWeight, 0)
    IN  addCandidates(OfKind("airdrop"), claims.chosen, claims.weight, 0)
FeesOf(chosen) == FoldSet(LAMBDA i, n : ProofAt(i).fee + n, 0, chosen)

-----------------------------------------------------------------------------
(* The generator. *)

NoGen == [pc |-> "idle", best |-> <<>>, todo |-> {}, source |-> {}, ready |-> {}, needs |-> [t \in Txs |-> {}],
          prio |-> [t \in Txs |-> 0], view |-> {}, byFee |-> FALSE, block |-> <<>>, weight |-> 0, sig |-> 0,
          fees |-> 0, chosen |-> {}, quiet |-> TRUE]

NextHeight == Len(gen.best) + 1

\* The tip, the coinbase and its proofs.
Begin ==
    /\ gen.pc = "idle"
    /\ LET sel == selectCoinbaseProofs IN
       gen' = [NoGen EXCEPT !.pc = "descs", !.best = chain, !.chosen = sel.chosen, !.weight = sel.weight,
                            !.fees = FeesOf(sel.chosen), !.byFee = BlockPrioritySize = 0]
    /\ UNCHANGED <<tx, proofs, chain, pool, events>>

MiningDescs ==
    /\ gen.pc = "descs" /\ gen' = [gen EXCEPT !.pc = "scan", !.source = pool, !.todo = pool]
    /\ UNCHANGED <<tx, proofs, chain, pool, events>>

CalcPriority(t, found) ==
    FoldSet(LAMBDA o, n : n + CoinValue * NextHeight, 0, found \cap Coins) \div tx[t].w

\* One transaction of the pool: its inputs are looked up in the chain of this
\* moment, those not there must be outputs of pooled transactions.
Scan(t) ==
    /\ gen.pc = "scan" /\ t \in gen.todo
    /\ LET found   == tx[t].ins \cap Unspent(chain)
           missing == tx[t].ins \ found
           rest    == [gen EXCEPT !.todo = @ \ {t}]
       IN  gen' = IF ~Final(t, NextHeight) \/ ~(missing \subseteq pool) THEN rest
                  ELSE [rest EXCEPT !.needs[t] = missing, !.prio[t] = CalcPriority(t, found),
                                    !.view = @ \cup found,
                                    !.ready = IF missing = {} THEN @ \cup {t} ELSE @,
                                    !.todo = @ \ {t}]
    /\ UNCHANGED <<tx, proofs, chain, pool, events>>
ScanDone ==
    /\ gen.pc = "scan" /\ gen.todo = {} /\ gen' = [gen EXCEPT !.pc = "choose"]
    /\ UNCHANGED <<tx, proofs, chain, pool, events>>

txPQByPriority(t, u) == gen.prio[t] > gen.prio[u] \/ (gen.prio[t] = gen.prio[u] /\ tx[t].rate > tx[u].rate)
txPQByFee(t, u) == tx[t].rate > tx[u].rate \/ (tx[t].rate = tx[u].rate /\ gen.prio[t] > gen.prio[u])
First(t) == \A u \in gen.ready : IF gen.byFee THEN ~txPQByFee(u, t) ELSE ~txPQByPriority(u, t)

\* Those that waited for t alone.
Released(t) == { u \in Txs : gen.needs[u] = {t} }

TooHeavy(t) == gen.weight + tx[t].w >= BlockMaxWeight
TooManySigOps(t) == gen.sig + tx[t].sig > MaxSigOps
TooCheap(t) == gen.byFee /\ tx[t].rate < TxMinFreeFee /\ gen.weight + tx[t].w >= BlockMinWeight
\* The high-priority area ends here.
Switches(t) == ~gen.byFee /\ (gen.weight + tx[t].w >= BlockPrioritySize \/ gen.prio[t] <= MinHighPriority)
PutBack(t) == gen.weight + tx[t].w > BlockPrioritySize \/ gen.prio[t] < MinHighPriority

Add(t, g) ==
    IF ~(tx[t].ins \subseteq g.view) \/ ~tx[t].ok THEN g   \* CheckTransactionInputs, scripts, names
    ELSE [g EXCEPT !.block = Append(@, t), !.weight = @ + tx[t].w, !.sig = @ + tx[t].sig,
                   !.fees = @ + (tx[t].rate * tx[t].w), !.view = (@ \ tx[t].ins) \cup {t},
                   !.ready = @ \cup Released(t), !.needs = [u \in Txs |-> @[u] \ {t}]]

Choose(t) ==
    /\ gen.pc = "choose" /\ t \in gen.ready /\ First(t)
    /\ LET popped == [gen EXCEPT !.ready = @ \ {t}] IN
       gen' = IF TooHeavy(t) \/ TooManySigOps(t) \/ TooCheap(t) THEN popped
              ELSE IF Switches(t)
                   THEN IF PutBack(t) THEN [gen EXCEPT !.byFee = TRUE]
                        ELSE Add(t, [popped EXCEPT !.byFee = TRUE])
                   ELSE Add(t, popped)
    /\ UNCHANGED <<tx, proofs, chain, pool, events>>
Chosen ==
    /\ gen.pc = "choose" /\ gen.ready = {} /\ gen' = [gen EXCEPT !.pc = "check"]
    /\ UNCHANGED <<tx, proofs, chain, pool, events>>

CheckConnectBlockTemplate == chain = gen.best /\ Connects(chain, gen.block)
Check ==
    /\ gen.pc = "check"
    /\ gen' = [gen EXCEPT !.pc = IF CheckConnectBlockTemplate THEN "made" ELSE "failed"]
    /\ UNCHANGED <<tx, proofs, chain, pool, events>>

-----------------------------------------------------------------------------
(* What happens meanwhile. *)

Disturbed == gen' = [gen EXCEPT !.quiet = FALSE]
\* The node's chain has moved on and the pool with it.
Connect(S) ==
    /\ events < MaxEvents /\ events' = events + 1 /\ Len(chain) < MaxHeight
    /\ S \subseteq pool /\ \E blk \in SetToSeqs(S) : Connects(chain, blk)
    /\ chain' = Append(chain, S) /\ pool' = pool \ S
    /\ Disturbed /\ UNCHANGED <<tx, proofs>>
\* A block is detached: its transactions go back to the pool.
Disconnect ==
    /\ events < MaxEvents /\ events' = events + 1 /\ chain # <<>>
    /\ chain' = Front(chain) /\ pool' = pool \cup Last(chain)
    /\ Disturbed /\ UNCHANGED <<tx, proofs>>
\* A transaction that could be in the next block, after those of the pool.
Arrive(t) ==
    /\ events < MaxEvents /\ events' = events + 1
    /\ t \notin pool \cup MinedBy(chain)
    /\ tx[t].ins \subseteq Unspent(chain) \cup pool /\ \A u \in pool : tx[u].ins \cap tx[t].ins = {}
    /\ Final(t, Len(chain) + 1) /\ tx[t].seq < Len(chain) + 1
    /\ pool' = pool \cup {t} /\ Disturbed /\ UNCHANGED <<tx, proofs, chain>>

TsInit ==
    /\ \E i \in DOMAIN TxSets : tx \in TxSets[i]
    /\ proofs \in ProofLists
    /\ chain = <<{}>> /\ pool = { t \in Txs : Final(t, 2) /\ tx[t].seq < 2 } /\ events = 0 /\ gen = NoGen

TsNext ==
    \/ Begin \/ MiningDescs \/ ScanDone \/ Chosen \/ Check \/ Disconnect
    \/ \E t \in Txs : Scan(t) \/ Choose(t) \/ Arrive(t)
    \/ \E S \in SUBSET Txs : Connect(S)

TsSpec == TsInit /\ [][TsNext]_tsVars

-----------------------------------------------------------------------------
(* Properties. *)

\* What NewBlockTemplate returns is a block that connects to the tip it names,
\* within the weight, with the proofs' and transactions' fees in the coinbase
\* and no proof twice; with nothing happening meanwhile it never fails; and
\* then nothing was left out of it that could still have gone in: a pooled
\* transaction that is missing spends what the block does not provide, is
\* refused by a rule, pays too little, or is too large for what is left.
TemplatesSound ==
    /\ gen.pc = "made" =>
          /\ gen.weight < BlockMaxWeight /\ gen.sig <= MaxSigOps
          /\ gen.fees = FeesOf(gen.chosen) + FoldSeq(LAMBDA t, n : n + (tx[t].rate * tx[t].w), 0, gen.block)
          /\ \A i, j \in gen.chosen : i # j => ProofAt(i).key # ProofAt(j).key
          /\ \A i \in DOMAIN gen.block : \A o \in tx[gen.block[i]].ins :
                \/ o \in Unspent(gen.best)
                \/ \E j \in 1..(i - 1) : gen.block[j] = o
    /\ gen.pc = "failed" => ~gen.quiet
    /\ gen.pc = "made" /\ gen.quiet =>
          \A t \in gen.source \ Range(gen.block) :
             \/ ~(tx[t].ins \subseteq Unspent(gen.best) \cup Range(gen.block))
             \/ ~tx[t].ok \/ tx[t].lock >= NextHeight
             \/ tx[t].rate < TxMinFreeFee
             \/ gen.weight + tx[t].w >= BlockMaxWeight \/ gen.sig + tx[t].sig > MaxSigOps

\* The coinbase proofs are the best paying ones: none that was passed over pays
\* a better rate than a chosen one of its kind it could have replaced.
ProofsBest ==
    gen.pc = "descs" =>
       \A i \in gen.chosen, j \in DOMAIN proofs \ gen.chosen :
          ProofAt(i).kind = ProofAt(j).kind /\ coinbaseProofRate(j) > coinbaseProofRate(i) =>
             \/ \E k \in gen.chosen : ProofAt(k).key = ProofAt(j).key
             \/ ProofAt(j).w > ProofAt(i).w
====
