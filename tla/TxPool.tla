------------------------------- MODULE TxPool -------------------------------
(***************************************************************************)
(* The transaction pool (mempool/mempool.go) with the part of the sync     *)
(* manager that keeps it in step with the chain (netsync/manager.go,       *)
(* handleBlockchainNotification).                                          *)
(*                                                                         *)
(* The sync manager's block handler takes peers' blocks and transactions   *)
(* one at a time.  It commits a block and, with the chain lock released,   *)
(* runs the notification, which calls the pool several times and takes the *)
(* pool's lock for each call.  RPC clients call ProcessTransaction and     *)
(* AddCoinbaseProof at any moment between those calls, and a peer's exit   *)
(* drops its orphans.  "mp" is the pool's state under its lock, "ntfn" the *)
(* place of the block handler in the notification, and "job" the loop of   *)
(* processOrphans, which holds the lock over several attempts: when it is  *)
(* an RPC client's, the chain may move under it.                           *)
(*                                                                         *)
(* A transaction is a model value; what the pool reads of it is in Info.   *)
(* Its one "size" stands for its memory usage and for its virtual size.    *)
(* RejectReplacement is off, as by default, and amounts are far below      *)
(* MaxDoo, where the code clamps them.                                     *)
(***************************************************************************)
EXTENDS Naturals, FiniteSets, Sequences, FiniteSetsExt, SequencesExt,
        FiniteSetTheorems, TLAPS

CONSTANTS
    Tx,                       \* transactions, by hash
    Name,                     \* name hashes
    Proof,                    \* claim and airdrop proofs, by hash
    Tag,                      \* orphan tags: peers, and 0 for the RPC server
    Info,                     \* what the pool reads of a transaction
    ProofInfo,                \* and of a proof
    Coins,                    \* outputs confirmed before the first block
    NameCoins,                \* those of them that hold each name
    Offers,                   \* each behaviour's senders know one of these
    Currents,                 \* values sm.current() may have at a connect
    MaxHeight,                \* bound on the blocks connected at once
    MaxOrphanTxs, MaxMempoolSize, MaxMempoolAncestors,
    MaxReplacementEvictions, MinRelayTxFee,
    None

ASSUME TxPoolAssumption ==
    /\ None \notin Tx
    /\ {MaxHeight, MaxOrphanTxs, MaxMempoolSize, MaxMempoolAncestors,
        MaxReplacementEvictions, MinRelayTxFee} \subseteq Nat
    /\ Currents \subseteq BOOLEAN
    /\ \A t \in Tx : Info[t].size \in Nat \ {0}

VARIABLES
    offer,      \* [txs, proofs, blocks] of this behaviour
    chain,      \* the blocks on the main chain
    mp,         \* the fields of TxPool guarded by mp.mtx
    job,        \* the processOrphans loop that holds mp.mtx, or None
    ntfn,       \* the notification being delivered
    checked     \* proofs validated by AddCoinbaseProof, not yet inserted

vars == <<offer, chain, mp, job, ntfn, checked>>

-----------------------------------------------------------------------------
(* Transactions and the chain they are judged against.                     *)

Outs(t) == {<<t, i>> : i \in 1..Info[t].outs}
OutsOf(S) == UNION {Outs(t) : t \in S}
InsOf(S) == UNION {Info[t].in : t \in S}
OutPoint == Coins \cup OutsOf(Tx)
Without(f, S) == [x \in DOMAIN f \ S |-> f[x]]

\* Names the transaction's outputs mutate, each with the output's index.
mutableNameActions(t) == DOMAIN Info[t].act
NameOut(t, n) == <<t, Info[t].act[n]>>
NameOuts(n) ==
    NameCoins[n] \cup
    {NameOut(t, n) : t \in {u \in Tx : n \in mutableNameActions(u)}}
txSpendsTransaction(t, u) == Info[t].in \cap Outs(u) # {}

BlockTxs(b) == ToSet(b.txs)
ChainTxs == UNION {BlockTxs(chain[h]) : h \in DOMAIN chain}
Utxo == (Coins \cup OutsOf(ChainTxs)) \ InsOf(ChainTxs)
NextHeight == Len(chain) + 1
MinedProofs == UNION {chain[h].proofs : h \in DOMAIN chain}
SpentPositions == {ProofInfo[p].key :
                     p \in {q \in MinedProofs : ProofInfo[q].kind = "airdrop"}}

-----------------------------------------------------------------------------
(* The pool's maps.                                                        *)

\* S and all that is reached from it in at most "steps" steps.
Closure(Step(_), S, steps) ==
    LET grow[k \in 0..steps] ==
          IF k = 0 THEN S ELSE UNION {{t} \cup Step(t) : t \in grow[k - 1]}
    IN  grow[steps]

Children(m, S) ==
    {m.outpoints[o] : o \in DOMAIN m.outpoints \cap OutsOf(S)}
txDescendants(m, S) ==
    LET Step(t) == Children(m, {t})
    IN  Closure(Step, Children(m, S), Cardinality(m.pool))

Parents(m, S) == {p \in m.pool : Outs(p) \cap InsOf(S) # {}}
txAncestors(m, t) ==
    LET Step(u) == Parents(m, {u})
    IN  Closure(Step, Parents(m, {t}), Cardinality(m.pool))

hasUnconfirmedParent(m, t) == Parents(m, {t}) # {}

TxUsage(S) == MapThenSumSet(LAMBDA t : Info[t].size, S)
ProofUsage(S) == MapThenSumSet(LAMBDA p : ProofInfo[p].size, S)
subtractMemoryUsage(m, usage) ==
    IF usage >= m.memoryUsage THEN 0 ELSE m.memoryUsage - usage

\* The pool transactions that mutate n through an output no other pool
\* transaction spends: what rebuildNameOperationIndex looks for.
Tips(m, n) ==
    {t \in m.pool : /\ n \in mutableNameActions(t)
                    /\ NameOut(t, n) \notin DOMAIN m.outpoints}

\* Mutant: a departed entry is deleted and never rebuilt.
removeNameOperationIndexes_NoRebuild(m, gone) ==
    [n \in {x \in DOMAIN m.nameActions : m.nameActions[x] \notin gone} |->
       m.nameActions[n]]

\* The index after some transactions left: an entry that named one of them is
\* rebuilt.  NameIndexExact says there is at most one tip to find.
removeNameOperationIndexes(m, gone) ==
    [n \in {x \in DOMAIN m.nameActions :
              m.nameActions[x] \notin gone \/ Tips(m, x) # {}} |->
       IF m.nameActions[n] \notin gone THEN m.nameActions[n]
       ELSE CHOOSE t \in Tips(m, n) : TRUE]

\* Transactions R leave the pool, without their redeemers.
Discard(m, R) ==
    LET gone == R \cap m.pool
        m1 == [m EXCEPT !.pool = @ \ gone,
                        !.outpoints = Without(@, InsOf(gone)),
                        !.memoryUsage = subtractMemoryUsage(m, TxUsage(gone))]
    IN  [m1 EXCEPT !.nameActions = removeNameOperationIndexes(m1, gone)]

\* removeTransaction(tx, true) follows the outputs of tx even when tx itself is
\* not in the pool.
removeTransaction(m, S, removeRedeemers) ==
    Discard(m, S \cup (IF removeRedeemers THEN txDescendants(m, S) ELSE {}))

addTransaction(m, t) ==
    [m EXCEPT
       !.pool = @ \cup {t},
       !.memoryUsage = @ + Info[t].size,
       !.outpoints = [o \in DOMAIN @ \cup Info[t].in |->
                        IF o \in Info[t].in THEN t ELSE @[o]],
       !.nameActions = [n \in DOMAIN @ \cup mutableNameActions(t) |->
                          IF n \in mutableNameActions(t) THEN t ELSE @[n]]]

-----------------------------------------------------------------------------
(* The orphan pool.                                                        *)

OrphanChildren(m, S) ==
    UNION {m.orphansByPrev[o] : o \in DOMAIN m.orphansByPrev \cap OutsOf(S)}
OrphanRedeemers(m, S) ==
    LET Step(t) == OrphanChildren(m, {t})
    IN  Closure(Step, S, Cardinality(DOMAIN m.orphans))

\* Nothing happens for a transaction that is not an orphan; its redeemers go
\* with it only when asked for.
removeOrphan(m, S, removeRedeemers) ==
    LET out == S \cap DOMAIN m.orphans
        gone == IF removeRedeemers THEN OrphanRedeemers(m, out) ELSE out
        left == [o \in DOMAIN m.orphansByPrev |-> m.orphansByPrev[o] \ gone]
    IN  [m EXCEPT !.orphans = Without(@, gone),
                  !.orphansByPrev =
                      Without(left, {o \in DOMAIN left : left[o] = {}})]

removeOrphanDoubleSpends(m, S) ==
    removeOrphan(m, UNION {m.orphansByPrev[o] :
                             o \in DOMAIN m.orphansByPrev \cap InsOf(S)}, TRUE)

\* What limitNumOrphans may leave: any orphans may have expired by the time of
\* the scan (with their redeemers), then one is evicted if the pool is full.
limitNumOrphans(m) ==
    LET scanned == {removeOrphan(m, X, TRUE) : X \in SUBSET DOMAIN m.orphans}
        Evict(s) ==
          IF Cardinality(DOMAIN s.orphans) + 1 <= MaxOrphanTxs THEN {s}
          ELSE {removeOrphan(s, {t}, FALSE) : t \in DOMAIN s.orphans}
    IN  UNION {Evict(s) : s \in scanned}

addOrphan(m, t, tag) ==
    IF MaxOrphanTxs = 0 THEN {m}
    ELSE {[s EXCEPT
             !.orphans = [u \in DOMAIN @ \cup {t} |->
                            IF u = t THEN tag ELSE @[u]],
             !.orphansByPrev =
                 [o \in DOMAIN @ \cup Info[t].in |->
                    (IF o \in DOMAIN @ THEN @[o] ELSE {}) \cup
                    (IF o \in Info[t].in THEN {t} ELSE {})]]
            : s \in limitNumOrphans(m)}

-----------------------------------------------------------------------------
(* Acceptance of one transaction.                                          *)

signalsReplacement(m, t) ==
    \E u \in {t} \cup txAncestors(m, t) : Info[u].signals

\* An output spent by a pool transaction that does not signal replacement.
checkPoolDoubleSpend(m, t) ==
    \A o \in Info[t].in \cap DOMAIN m.outpoints :
        signalsReplacement(m, m.outpoints[o])

txConflicts(m, t) ==
    LET direct == {m.outpoints[o] : o \in Info[t].in \cap DOMAIN m.outpoints}
    IN  direct \cup txDescendants(m, direct)

FeePerKB(t) == (Info[t].fee * 1000) \div Info[t].size
calcMinRequiredTxRelayFee(t) ==
    LET scaled == (Info[t].size * MinRelayTxFee) \div 1000
    IN  IF scaled = 0 THEN MinRelayTxFee ELSE scaled

validateReplacement(m, t, C) ==
    /\ Cardinality(C) <= MaxReplacementEvictions
    /\ txAncestors(m, t) \cap C = {}
    /\ \A c \in C : FeePerKB(t) > FeePerKB(c)
    /\ Info[t].fee >= MapThenSumSet(LAMBDA c : Info[c].fee, C)
                        + calcMinRequiredTxRelayFee(t)
    /\ \A p \in Parents(m, {t}) : Outs(p) \cap InsOf(C) # {}

checkAncestorLimit(m, t) ==
    Cardinality(txAncestors(m, t)) + 1 <= MaxMempoolAncestors

checkNameOperationConflicts(m, t, C) ==
    \A n \in mutableNameActions(t) \cap DOMAIN m.nameActions :
        m.nameActions[n] \in C \cup {t} \/ txSpendsTransaction(t, m.nameActions[n])

\* Whether a name transaction applies to the name view of the chain with the
\* pool transactions S replayed: within its window of heights, with its inputs
\* there, and opening only a name that nobody holds or opens.
NameApplies(S, t) ==
    /\ NextHeight \in Info[t].from..Info[t].until
    /\ Info[t].in \subseteq Utxo \cup OutsOf(S)
    /\ \A n \in mutableNameActions(t) :
         Info[t].in \cap NameOuts(n) = {} =>
           /\ NameOuts(n) \cap Utxo = {}
           /\ \A u \in S \ {t} : n \in mutableNameActions(u) =>
                                    Info[u].in \cap NameOuts(n) # {}

hasNameCovenant(t) == Info[t].named
InvalidNames(S) == {t \in S : hasNameCovenant(t) /\ ~NameApplies(S, t)}
checkTransactionNames(m, t, C) ==
    hasNameCovenant(t) =>
        InvalidNames(m.pool \ C) = {} /\ NameApplies(m.pool \ C, t)

\* "waived" is the verdict of the priority check and of the penny limiter on a
\* transaction that pays less than the relay fee.  A large one is not excused,
\* not even when it comes back from a disconnected block.
validateRelayFeeMet(t, isNew, waived) ==
    \/ Info[t].fee >= calcMinRequiredTxRelayFee(t)
    \/ ~Info[t].large /\ (~isNew \/ waived)

\* checkMempoolAcceptance: "error", "missing" or "ok".
Acceptance(m, t, isNew, rejectDupOrphans, waived) ==
    LET C == txConflicts(m, t)
    IN  IF \/ t \in m.pool
           \/ rejectDupOrphans /\ t \in DOMAIN m.orphans
           \/ ~Info[t].sane
           \/ ~checkPoolDoubleSpend(m, t)
           \/ Outs(t) \cap Utxo # {}
        THEN "error"
        ELSE IF ~(Info[t].in \subseteq Utxo \cup OutsOf(m.pool))
        THEN "missing"
        ELSE IF /\ checkAncestorLimit(m, t)
                /\ C # {} => validateReplacement(m, t, C)
                /\ checkNameOperationConflicts(m, t, C)
                /\ checkTransactionNames(m, t, C)
                /\ Info[t].standard
                /\ validateRelayFeeMet(t, isNew, waived)
        THEN "ok"
        ELSE "error"

\* Mutant: the replaced stay in the pool.
Accept_KeepsReplaced(m, t) == addTransaction(m, t)

\* maybeAcceptTransaction once accepted: the replaced leave, t enters.
Accept(m, t) ==
    addTransaction(removeTransaction(m, txConflicts(m, t), FALSE), t)

-----------------------------------------------------------------------------
(* Limits on the pool's memory.                                            *)

\* The sets that a loop over C in increasing order may take before "Use", the
\* usage once a set is gone, has come down to the target.  Ties are broken by
\* age and hash, which the model leaves open.
Evictions(C, Leq(_, _), Use(_), target) ==
    {E \in SUBSET C :
       /\ \A a \in E, b \in C \ E : Leq(a, b)
       /\ E = C \/ Use(E) <= target
       /\ E # {} => \E x \in E : /\ \A a \in E : Leq(a, x)
                                 /\ Use(E \ {x}) > target}

\* The comparison's result is not positive.
compareFeeRate(feeA, sizeA, feeB, sizeB) == feeA * sizeB <= feeB * sizeA

\* A root counts at its package's rate when its descendants raise it.
txEvictionCandidate(m, t) ==
    LET own == [fee |-> Info[t].fee, size |-> Info[t].size]
        S == {t} \cup txDescendants(m, {t})
        package == [fee |-> MapThenSumSet(LAMBDA u : Info[u].fee, S),
                    size |-> TxUsage(S)]
    IN  IF compareFeeRate(package.fee, package.size, own.fee, own.size)
        THEN own ELSE package

Roots(m) == {t \in m.pool : ~hasUnconfirmedParent(m, t)}

EvictTxs(m, target) ==
    LET Rate(t) == txEvictionCandidate(m, t)
        Leq(a, b) == compareFeeRate(Rate(a).fee, Rate(a).size,
                                    Rate(b).fee, Rate(b).size)
        Gone(E) == E \cup txDescendants(m, E)
        Use(E) == subtractMemoryUsage(m, TxUsage(Gone(E) \cap m.pool))
    IN  {Discard(m, Gone(E)) : E \in Evictions(Roots(m), Leq, Use, target)}

\* removeCoinbaseProofAt for each of a set: the later entries move down and
\* the position index follows them.
removeCoinbaseProofs(m, P) ==
    LET gone == P \cap ToSet(m.coinbaseProofs)
        list == SelectSeq(m.coinbaseProofs, LAMBDA p : p \notin gone)
        Drop(index) == Without(index, {k \in DOMAIN index : index[k] \in gone})
        wit == {ProofInfo[p].witness : p \in gone}
    IN  [m EXCEPT
           !.coinbaseProofs = list,
           !.memoryUsage = subtractMemoryUsage(m, ProofUsage(gone)),
           !.byWitness =
               [w \in DOMAIN @ \ wit |->
                  CHOOSE i \in DOMAIN list : ProofInfo[list[i]].witness = w],
           !.coinbaseClaims = Drop(@),
           !.coinbaseAirdrops = Drop(@)]

EvictProofs(m, kind, target) ==
    LET C == {p \in ToSet(m.coinbaseProofs) : ProofInfo[p].kind = kind}
        Leq(a, b) == compareFeeRate(ProofInfo[a].fee, ProofInfo[a].size,
                                    ProofInfo[b].fee, ProofInfo[b].size)
        Use(E) == subtractMemoryUsage(m, ProofUsage(E))
    IN  {removeCoinbaseProofs(m, E) : E \in Evictions(C, Leq, Use, target)}

\* Mutant: only transactions are evicted.
limitMempoolSize_TxsOnly(m, fresh) ==
    LET target == MaxMempoolSize - (MaxMempoolSize \div 10)
    IN  IF m.memoryUsage <= MaxMempoolSize THEN {m} ELSE EvictTxs(m, target)

\* What limitMempoolSize may leave.  When the scan is due any packages may have
\* reached the expiry age, but for the roots this call has just added.  Above
\* the limit, packages are evicted down to 90% of it, then claims, then airdrops.
limitMempoolSize(m, fresh) ==
    LET target == MaxMempoolSize - (MaxMempoolSize \div 10)
        scanned == {removeTransaction(m, X, TRUE) :
                      X \in SUBSET (Roots(m) \ fresh)}
        Shrink(s) ==
          IF s.memoryUsage <= MaxMempoolSize THEN {s}
          ELSE UNION {UNION {EvictProofs(c, "airdrop", target) :
                               c \in EvictProofs(s1, "claim", target)} :
                        s1 \in EvictTxs(s, target)}
    IN  UNION {Shrink(s) : s \in scanned}

-----------------------------------------------------------------------------
(* Calls of the pool.  Each holds mp.mtx from beginning to end: it needs   *)
(* the lock, which a processOrphans loop keeps while "job" is not None.    *)

Unlocked == job = None
Idle == ntfn.at = "idle"
\* The block handler is between two messages.
HandlerFree == Idle /\ (job # None => job.call = "rpc")

\* The outputs that processOrphans still has to look at: those that some
\* orphan redeems.
Settle(m, queue) ==
    LET k == SelectInSeq(queue, LAMBDA o : o \in DOMAIN m.orphansByPrev)
    IN  IF k = 0 THEN <<>> ELSE SubSeq(queue, k, Len(queue))
OutsQueue(t) == [i \in 1..Info[t].outs |-> <<t, i>>]

processOrphans(call, m, t) ==
    /\ mp' = m
    /\ job' = [call |-> call, tx |-> t, queue |-> Settle(m, OutsQueue(t)),
               tried |-> {}, accepted |-> {}]

\* A transaction of a peer, through the block handler, or of an RPC client (tag
\* 0), who may not add an orphan.
ProcessTransaction(t, tag, waived) ==
    LET res == Acceptance(mp, t, TRUE, TRUE, waived)
    IN  /\ Unlocked
        /\ tag # 0 => HandlerFree
        /\ t \in offer.txs
        /\ CASE res = "ok" ->
                  processOrphans(IF tag = 0 THEN "rpc" ELSE "peer", Accept(mp, t), t)
             [] res = "missing" ->
                  /\ tag # 0 /\ Info[t].small
                  /\ mp' \in addOrphan(mp, t, tag)
                  /\ UNCHANGED job
             [] OTHER -> FALSE
        /\ UNCHANGED <<offer, chain, ntfn, checked>>

\* One attempt of the loop at an orphan that redeems the first output of the
\* queue.  A rejected orphan goes with its redeemers and ends the attempts on
\* this output; so does an accepted one, whose own outputs join the queue.
TryOrphan(o, waived) ==
    LET res == Acceptance(mp, o, TRUE, FALSE, waived)
        out == Head(job.queue)
        rest == Tail(job.queue)
        others == mp.orphansByPrev[out] \ (job.tried \cup {o})
        rejected == removeOrphan(mp, {o}, TRUE)
        accepted == removeOrphan(Accept(mp, o), {o}, FALSE)
    IN  /\ job # None
        /\ job.queue # <<>>
        /\ o \in mp.orphansByPrev[out] \ job.tried
        /\ \/ /\ res = "missing"
              /\ job' = IF others # {}
                        THEN [job EXCEPT !.tried = @ \cup {o}]
                        ELSE [job EXCEPT !.queue = Settle(mp, rest), !.tried = {}]
              /\ UNCHANGED mp
           \/ /\ res = "error"
              /\ mp' = rejected
              /\ job' = [job EXCEPT !.queue = Settle(rejected, rest), !.tried = {}]
           \/ /\ res = "ok"
              /\ mp' = accepted
              /\ job' = [job EXCEPT
                           !.queue = Settle(accepted, rest \o OutsQueue(o)),
                           !.tried = {}, !.accepted = @ \cup {o}]
        /\ UNCHANGED <<offer, chain, ntfn, checked>>

\* The end of processOrphans, and of the call it belongs to.  Only
\* ProcessTransaction goes on to limit the pool's size.
FinishOrphans ==
    LET m == removeOrphanDoubleSpends(mp, {job.tx} \cup job.accepted)
    IN  /\ job # None
        /\ job.queue = <<>>
        /\ job' = None
        /\ IF job.call \in {"rpc", "peer"}
           THEN /\ mp' \in limitMempoolSize(m, {job.tx} \cup job.accepted)
                /\ UNCHANGED ntfn
           ELSE /\ mp' = m
                /\ ntfn' = [ntfn EXCEPT !.i = @ + 1, !.at = "remove"]
        /\ UNCHANGED <<offer, chain, checked>>

\* The server drops the orphans of a peer that left.
RemoveOrphansByTag(tag) ==
    LET tagged == {t \in DOMAIN mp.orphans : mp.orphans[t] = tag}
    IN  /\ Unlocked
        /\ tagged # {}
        /\ mp' = removeOrphan(mp, tagged, TRUE)
        /\ UNCHANGED <<offer, chain, job, ntfn, checked>>

-----------------------------------------------------------------------------
(* Claim and airdrop proofs.                                               *)

\* validateCoinbaseProofForHeight finds nothing to prune the proof for.
proofEligible(p) ==
    /\ NextHeight \in ProofInfo[p].from..ProofInfo[p].until
    /\ ProofInfo[p].kind = "airdrop" => ProofInfo[p].key \notin SpentPositions

\* AddCoinbaseProof validates the proof before it takes the lock.
validateCoinbaseProofAdmission(p) ==
    /\ p \in offer.proofs \ checked
    /\ proofEligible(p)
    /\ ProofInfo[p].kind = "claim" => ProofInfo[p].until = NextHeight
    /\ checked' = checked \cup {p}
    /\ UNCHANGED <<offer, chain, mp, job, ntfn>>

ProofIndex(m, p) ==
    IF ProofInfo[p].kind = "claim" THEN m.coinbaseClaims ELSE m.coinbaseAirdrops

\* A proof already there is put back in its place; another proof with its
\* witness, its name or its position is an error.
InsertableProof(m, p) ==
    \/ p \in ToSet(m.coinbaseProofs)
    \/ /\ ProofInfo[p].witness \notin DOMAIN m.byWitness
       /\ ProofInfo[p].key \notin DOMAIN ProofIndex(m, p)

WithProof(m, p) ==
    IF p \in ToSet(m.coinbaseProofs) THEN m
    ELSE LET Index(index) == [k \in DOMAIN index \cup {ProofInfo[p].key} |->
                                IF k = ProofInfo[p].key THEN p ELSE index[k]]
             m1 == [m EXCEPT
                      !.coinbaseProofs = Append(@, p),
                      !.memoryUsage = @ + ProofInfo[p].size,
                      !.byWitness =
                          [w \in DOMAIN @ \cup {ProofInfo[p].witness} |->
                             IF w = ProofInfo[p].witness
                             THEN Len(m.coinbaseProofs) + 1 ELSE @[w]]]
         IN  IF ProofInfo[p].kind = "claim"
             THEN [m1 EXCEPT !.coinbaseClaims = Index(@)]
             ELSE [m1 EXCEPT !.coinbaseAirdrops = Index(@)]

AddCoinbaseProof(p) ==
    /\ Unlocked
    /\ p \in checked
    /\ checked' = checked \ {p}
    /\ IF InsertableProof(mp, p)
       THEN mp' \in limitMempoolSize(WithProof(mp, p), {})
       ELSE UNCHANGED mp
    /\ UNCHANGED <<offer, chain, job, ntfn>>

Ineligible(m) == {p \in ToSet(m.coinbaseProofs) : ~proofEligible(p)}

\* The miner asks for the proofs of the next block; ineligible ones go.
CoinbaseProofs ==
    /\ Unlocked
    /\ Ineligible(mp) # {}
    /\ mp' = removeCoinbaseProofs(mp, Ineligible(mp))
    /\ UNCHANGED <<offer, chain, job, ntfn, checked>>

-----------------------------------------------------------------------------
(* The chain, and the notifications its goroutine delivers.                *)

IdleAfter(type) == [type |-> type, block |-> None, i |-> 0, at |-> "idle"]
NotifiedTx == ntfn.block.txs[ntfn.i]
MoreTxs == ntfn.i <= Len(ntfn.block.txs)

\* A block the chain accepts on its tip.
CanConnect(b) ==
    /\ BlockTxs(b) \cap ChainTxs = {}
    /\ \A i \in DOMAIN b.txs :
         LET before == {b.txs[j] : j \in 1..(i - 1)}
         IN  /\ Info[b.txs[i]].in \subseteq
                  (Utxo \cup OutsOf(before)) \ InsOf(before)
             /\ hasNameCovenant(b.txs[i]) => NameApplies(before, b.txs[i])
    /\ \A p \in b.proofs : proofEligible(p)

\* The chain commits a block and starts its notification.  The sync manager
\* ignores it when it is not current.
ConnectBlock(b, current) ==
    /\ HandlerFree
    /\ Len(chain) < MaxHeight
    /\ CanConnect(b)
    /\ chain' = Append(chain, b)
    /\ ntfn' = IF current
               THEN [type |-> "connected", block |-> b, i |-> 1, at |-> "proofs"]
               ELSE IdleAfter("ignored")
    /\ UNCHANGED <<offer, mp, job, checked>>

DisconnectBlock ==
    /\ HandlerFree
    /\ chain # <<>>
    /\ chain' = Front(chain)
    /\ ntfn' = [type |-> "disconnected", block |-> Last(chain), i |-> 1,
                at |-> "names"]
    /\ UNCHANGED <<offer, mp, job, checked>>

\* Mutant: the redeemers of a double spend stay.
RemoveDoubleSpends_NotRecursive(m, t) ==
    removeTransaction(m, {m.outpoints[o] :
        o \in Info[t].in \cap DOMAIN m.outpoints} \ {t}, FALSE)

RemoveDoubleSpends(m, t) ==
    removeTransaction(m, {m.outpoints[o] :
        o \in Info[t].in \cap DOMAIN m.outpoints} \ {t}, TRUE)

\* For each name the index is followed to the next tip until it names no
\* transaction, t, or one that spends t.  The lock is held throughout, so what
\* the loops take leaves at once.
RemoveNameConflicts(m, t) ==
    LET Conflict(s, n) ==
          {c \in {s.nameActions[x] : x \in {n} \cap DOMAIN s.nameActions} :
             c # t /\ ~txSpendsTransaction(c, t)}
        Follow(n, s) ==
          LET loop[k \in 0..Cardinality(Tx)] ==
                IF k = 0 THEN s
                ELSE LET r == loop[k - 1]
                     IN  removeTransaction(r, Conflict(r, n), TRUE)
          IN  loop[Cardinality(Tx)]
        left == FoldSet(Follow, m, mutableNameActions(t))
    IN  Discard(m, m.pool \ left.pool)

PruneInvalidNameTransactions(m) ==
    removeTransaction(m, InvalidNames(m.pool), TRUE)

\* One call of the handler for a connected block on the pool.
Calls(m) ==
    CASE ntfn.at = "proofs" -> removeCoinbaseProofs(m, ntfn.block.proofs)
      [] ntfn.at = "remove" -> removeTransaction(m, {NotifiedTx}, FALSE)
      [] ntfn.at = "double" -> RemoveDoubleSpends(m, NotifiedTx)
      [] ntfn.at = "names" -> RemoveNameConflicts(m, NotifiedTx)
      [] ntfn.at = "orphan" -> removeOrphan(m, {NotifiedTx}, FALSE)

FollowedBy == [proofs |-> "remove", remove |-> "double", double |-> "names",
               names |-> "orphan", orphan |-> "process"]

ConnectedCall ==
    /\ Unlocked
    /\ ntfn.type = "connected"
    /\ ntfn.at \in DOMAIN FollowedBy
    /\ ntfn.at = "proofs" \/ MoreTxs
    /\ mp' = Calls(mp)
    /\ ntfn' = [ntfn EXCEPT !.at = FollowedBy[@]]
    /\ UNCHANGED <<offer, chain, job, checked>>

ConnectedOrphans ==
    /\ Unlocked
    /\ ntfn.type = "connected" /\ ntfn.at = "process"
    /\ processOrphans("block", mp, NotifiedTx)
    /\ UNCHANGED <<offer, chain, ntfn, checked>>

ConnectedPrune ==
    /\ Unlocked
    /\ ntfn.type = "connected"
    /\ \/ /\ ntfn.at = "remove" /\ ~MoreTxs
          /\ mp' = PruneInvalidNameTransactions(mp)
          /\ ntfn' = [ntfn EXCEPT !.at = "prune"]
       \/ /\ ntfn.at = "prune"
          /\ mp' = removeCoinbaseProofs(mp, Ineligible(mp))
          /\ ntfn' = IdleAfter("connected")
    /\ UNCHANGED <<offer, chain, job, checked>>

\* MaybeAcceptTransaction returns an error when the limit evicts the very
\* transaction it accepted, and none when parents are missing.
DisconnectedAccept ==
    LET res == Acceptance(mp, NotifiedTx, FALSE, TRUE, TRUE)
        next == [ntfn EXCEPT !.i = @ + 1, !.at = "names"]
    IN  /\ ntfn.at = "accept"
        /\ \/ /\ res = "ok"
              /\ mp' \in limitMempoolSize(Accept(mp, NotifiedTx), {NotifiedTx})
              /\ ntfn' = IF NotifiedTx \in mp'.pool THEN next
                         ELSE [ntfn EXCEPT !.at = "drop"]
           \/ /\ res = "missing"
              /\ ntfn' = next
              /\ UNCHANGED mp
           \/ /\ res = "error"
              /\ ntfn' = [ntfn EXCEPT !.at = "drop"]
              /\ UNCHANGED mp

Disconnected ==
    /\ Unlocked
    /\ ntfn.type = "disconnected"
    /\ \/ /\ ntfn.at = "names" /\ MoreTxs
          /\ mp' = RemoveNameConflicts(mp, NotifiedTx)
          /\ ntfn' = [ntfn EXCEPT !.at = "accept"]
       \/ DisconnectedAccept
       \/ /\ ntfn.at = "drop"
          /\ mp' = removeTransaction(mp, {NotifiedTx}, TRUE)
          /\ ntfn' = [ntfn EXCEPT !.i = @ + 1, !.at = "names"]
       \/ /\ ntfn.at = "names" /\ ~MoreTxs
          /\ ntfn' = IdleAfter("disconnected")
          /\ UNCHANGED mp
    /\ UNCHANGED <<offer, chain, job, checked>>

-----------------------------------------------------------------------------
EmptyPool ==
    [pool |-> {}, outpoints |-> <<>>, nameActions |-> <<>>, memoryUsage |-> 0,
     orphans |-> <<>>, orphansByPrev |-> <<>>, coinbaseProofs |-> <<>>,
     byWitness |-> <<>>, coinbaseClaims |-> <<>>, coinbaseAirdrops |-> <<>>]

Init ==
    /\ offer \in Offers
    /\ chain = <<>>
    /\ mp = EmptyPool
    /\ job = None
    /\ ntfn = IdleAfter("connected")
    /\ checked = {}

Loop ==
    \/ \E o \in Tx, waived \in BOOLEAN : TryOrphan(o, waived)
    \/ FinishOrphans

Next ==
    \/ \E t \in Tx, tag \in Tag, waived \in BOOLEAN :
         ProcessTransaction(t, tag, waived)
    \/ Loop
    \/ \E tag \in Tag : RemoveOrphansByTag(tag)
    \/ \E p \in Proof : validateCoinbaseProofAdmission(p)
    \/ \E p \in Proof : AddCoinbaseProof(p)
    \/ CoinbaseProofs
    \/ \E b \in offer.blocks, current \in Currents : ConnectBlock(b, current)
    \/ DisconnectBlock
    \/ ConnectedCall
    \/ ConnectedOrphans
    \/ ConnectedPrune
    \/ Disconnected

Spec == Init /\ [][Next]_vars

-----------------------------------------------------------------------------
(* Properties.                                                             *)

\* Types of the pool's maps (an output that no orphan spends has no entry in the
\* index of orphans) and of the places of the goroutines.
TypeOK ==
    /\ mp.pool \subseteq Tx
    /\ DOMAIN mp.outpoints \subseteq OutPoint
    /\ \A o \in DOMAIN mp.outpoints : mp.outpoints[o] \in Tx
    /\ DOMAIN mp.nameActions \subseteq Name
    /\ \A n \in DOMAIN mp.nameActions : mp.nameActions[n] \in Tx
    /\ DOMAIN mp.orphans \subseteq Tx
    /\ \A o \in DOMAIN mp.orphansByPrev : mp.orphansByPrev[o] \in SUBSET Tx \ {{}}
    /\ mp.memoryUsage \in Nat
    /\ ToSet(mp.coinbaseProofs) \subseteq Proof
    /\ job # None => job.tx \in Tx /\ ToSet(job.queue) \subseteq OutPoint
    /\ ntfn.at \in DOMAIN FollowedBy \cup
                     {"idle", "process", "prune", "accept", "drop"}
    /\ checked \subseteq Proof

\* Whatever the order of acceptances, replacements, evictions and blocks, the
\* outpoint index is exactly the inputs of the pool's transactions: no two of
\* them spend the same output and no entry is left behind.
NoDoubleSpend ==
    /\ DOMAIN mp.outpoints = InsOf(mp.pool)
    /\ \A t \in mp.pool : \A o \in Info[t].in : mp.outpoints[o] = t

\* Between notifications every input of a pool transaction is an unspent output
\* of the chain or of another pool transaction, and no pool transaction is
\* already in the chain: nothing in the pool is unminable.  This needs a current
\* node and blocks in which no transaction spends another of the same block: a
\* disconnect forgets the dependents of a transaction whose parent it lost.
PoolSpendable ==
    Idle => \A t \in mp.pool :
              /\ Info[t].in \subseteq Utxo \cup OutsOf(mp.pool)
              /\ t \notin ChainTxs

\* The name index names, for every name the pool mutates, the one transaction
\* at the end of the pool's chain of changes to that name.
NameIndexExact ==
    \A n \in Name :
       LET changes == {t \in mp.pool : n \in mutableNameActions(t)}
       IN  IF changes = {} THEN n \notin DOMAIN mp.nameActions
           ELSE /\ n \in DOMAIN mp.nameActions
                /\ Tips(mp, n) = {mp.nameActions[n]}

\* Once a connected block has been handled, and until the chain moves again,
\* the pool's name transactions all apply together to the next block.
NamesApply ==
    Idle /\ ntfn.type = "connected" => InvalidNames(mp.pool) = {}

\* The orphan pool keeps its bound, its index by output is exact, and a
\* transaction is never an orphan and in the pool at once.
OrphansIndexed ==
    /\ Cardinality(DOMAIN mp.orphans) <= MaxOrphanTxs
    /\ DOMAIN mp.orphansByPrev = InsOf(DOMAIN mp.orphans)
    /\ \A o \in DOMAIN mp.orphansByPrev :
         mp.orphansByPrev[o] = {t \in DOMAIN mp.orphans : o \in Info[t].in}
    /\ DOMAIN mp.orphans \cap mp.pool = {}

\* The memory estimate is the sum over what the pool holds, whatever was
\* replaced, evicted or shifted in between.
MemoryExact ==
    mp.memoryUsage = TxUsage(mp.pool) + ProofUsage(ToSet(mp.coinbaseProofs))

\* The three indexes of the proofs agree with the list after any sequence of
\* insertions, evictions and removals from the middle of it.
ProofsIndexed ==
    LET Keys(kind) == {ProofInfo[p].key : p \in
                         {q \in ToSet(mp.coinbaseProofs) : ProofInfo[q].kind = kind}}
    IN  /\ DOMAIN mp.byWitness =
             {ProofInfo[p].witness : p \in ToSet(mp.coinbaseProofs)}
        /\ \A i \in DOMAIN mp.coinbaseProofs :
             /\ mp.byWitness[ProofInfo[mp.coinbaseProofs[i]].witness] = i
             /\ LET p == mp.coinbaseProofs[i]
                IN  ProofIndex(mp, p)[ProofInfo[p].key] = p
        /\ DOMAIN mp.coinbaseClaims = Keys("claim")
        /\ DOMAIN mp.coinbaseAirdrops = Keys("airdrop")

\* ProcessTransaction (with all the orphans it brought in), AddCoinbaseProof and
\* MaybeAcceptTransaction return with the memory estimate within the limit.
\* Only the orphans that a connected block sets free may exceed it.
MemoryStep ==
    LET ends == job # None /\ job' = None /\ job.call # "block"
        grows == job' = None /\ mp'.memoryUsage > mp.memoryUsage
    IN  ends \/ grows => mp'.memoryUsage <= MaxMempoolSize
MemoryLimited == [][MemoryStep]_vars

-----------------------------------------------------------------------------
(* Proofs of NoDoubleSpend and OrphansIndexed.  The inductive invariant is  *)
(* PoolInv: both of them, of a record with the fields of the pool.          *)

USE ZenonT(60)

\* A pool is a record of these ten fields.
Fields == {"pool", "outpoints", "nameActions", "memoryUsage", "orphans",
           "orphansByPrev", "coinbaseProofs", "byWitness", "coinbaseClaims",
           "coinbaseAirdrops"}
Shape(m) == DOMAIN m = Fields

\* NoDoubleSpend and OrphansIndexed of any pool.
SpendsExact(m) ==
    /\ DOMAIN m.outpoints = InsOf(m.pool)
    /\ \A t \in m.pool : \A o \in Info[t].in : m.outpoints[o] = t

OrphansExact(m) ==
    /\ IsFiniteSet(DOMAIN m.orphans)
    /\ Cardinality(DOMAIN m.orphans) <= MaxOrphanTxs
    /\ DOMAIN m.orphansByPrev = InsOf(DOMAIN m.orphans)
    /\ \A o \in DOMAIN m.orphansByPrev :
         m.orphansByPrev[o] = {t \in DOMAIN m.orphans : o \in Info[t].in}

Apart(m) == DOMAIN m.orphans \cap m.pool = {}

PoolInv(m) == Shape(m) /\ SpendsExact(m) /\ OrphansExact(m) /\ Apart(m)

\* d is m after transactions left its pool, or proofs its list.
Shrunk(m, d) ==
    /\ Shape(d) /\ SpendsExact(d)
    /\ d.pool \subseteq m.pool
    /\ d.orphans = m.orphans
    /\ d.orphansByPrev = m.orphansByPrev

-----------------------------------------------------------------------------
\* What Discard does to the fields the invariant is about.
LEMMA DiscardFields ==
    ASSUME NEW m, NEW R, Shape(m)
    PROVE  LET d == Discard(m, R)
           IN  /\ Shape(d)
               /\ d.pool = m.pool \ R
               /\ d.outpoints = Without(m.outpoints, InsOf(R \cap m.pool))
               /\ d.orphans = m.orphans
               /\ d.orphansByPrev = m.orphansByPrev
BY SMTT(30) DEF Discard, Shape, Fields

\* Transactions that leave take exactly their own entries of the spend index with
\* them, because no other transaction of the pool spends the same outputs.
LEMMA DiscardShrinks ==
    ASSUME NEW m, NEW R, Shape(m), SpendsExact(m)
    PROVE  Shrunk(m, Discard(m, R)) /\ Discard(m, R).pool = m.pool \ R
<1> DEFINE d == Discard(m, R)
<1>1. /\ Shape(d)
      /\ d.pool = m.pool \ R
      /\ d.outpoints = Without(m.outpoints, InsOf(R \cap m.pool))
      /\ d.orphans = m.orphans
      /\ d.orphansByPrev = m.orphansByPrev
  BY DiscardFields
<1> HIDE DEF d
<1>2. ASSUME NEW o, o \in InsOf(m.pool) \ InsOf(R \cap m.pool)
      PROVE  o \in InsOf(m.pool \ R)
  BY <1>2 DEF InsOf
<1>3. ASSUME NEW t \in m.pool \ R, NEW o \in Info[t].in
      PROVE  o \in DOMAIN m.outpoints \ InsOf(R \cap m.pool)
  BY SMTT(30) DEF InsOf, SpendsExact
<1>4. DOMAIN d.outpoints = InsOf(d.pool)
  <2>1. DOMAIN d.outpoints = DOMAIN m.outpoints \ InsOf(R \cap m.pool)
    BY <1>1 DEF Without
  <2>2. \A o : o \in InsOf(m.pool \ R) =>
                 o \in DOMAIN m.outpoints \ InsOf(R \cap m.pool)
    BY <1>3 DEF InsOf
  <2> QED
    BY <1>1, <1>2, <2>1, <2>2 DEF SpendsExact
<1>5. \A t \in d.pool : \A o \in Info[t].in : d.outpoints[o] = t
  BY <1>1, <1>3 DEF Without, SpendsExact
<1> QED
  BY <1>1, <1>4, <1>5 DEF Shrunk, SpendsExact, d

\* Shrinking twice is shrinking.
LEMMA ShrunkTrans ==
    ASSUME NEW m, NEW d, NEW e, Shrunk(m, d), Shrunk(d, e)
    PROVE  Shrunk(m, e)
BY DEF Shrunk

\* With or without the redeemers, removal only discards.
LEMMA RemoveTransactionShrinks ==
    ASSUME NEW m, NEW S, NEW r, Shape(m), SpendsExact(m)
    PROVE  Shrunk(m, removeTransaction(m, S, r))
BY DiscardShrinks DEF removeTransaction

\* Removing coinbase proofs touches neither the transactions nor the orphans.
LEMMA ProofsShrink ==
    ASSUME NEW m, NEW P, Shape(m), SpendsExact(m)
    PROVE  Shrunk(m, removeCoinbaseProofs(m, P))
<1> DEFINE d == removeCoinbaseProofs(m, P)
<1>1. /\ Shape(d)
      /\ d.pool = m.pool
      /\ d.outpoints = m.outpoints
      /\ d.orphans = m.orphans
      /\ d.orphansByPrev = m.orphansByPrev
  BY SMTT(30) DEF removeCoinbaseProofs, Shape, Fields
<1> QED
  BY <1>1 DEF Shrunk, SpendsExact

\* Whatever the loops over the name index find, they only discard.
LEMMA NameConflictsShrink ==
    ASSUME NEW m, NEW t, Shape(m), SpendsExact(m)
    PROVE  Shrunk(m, RemoveNameConflicts(m, t))
<1>1. PICK R : RemoveNameConflicts(m, t) = Discard(m, R)
  BY DEF RemoveNameConflicts, FoldSet, MapThenFoldSet
<1>2. Shrunk(m, Discard(m, R))
  BY DiscardShrinks
<1> QED
  BY <1>1, <1>2

\* Expiry and eviction only discard transactions and remove proofs.
LEMMA LimitShrinks ==
    ASSUME NEW m, NEW fresh, NEW d \in limitMempoolSize(m, fresh),
           Shape(m), SpendsExact(m)
    PROVE  Shrunk(m, d)
<1>1. ASSUME NEW s, NEW target, NEW e \in EvictTxs(s, target),
             Shape(s), SpendsExact(s)
      PROVE  Shrunk(s, e)
  <2>1. PICK R : e = Discard(s, R)
    BY DEF EvictTxs, Evictions
  <2>2. Shrunk(s, Discard(s, R))
    BY <1>1, DiscardShrinks
  <2> QED
    BY <2>1, <2>2
<1>2. ASSUME NEW s, NEW kind, NEW target, NEW e \in EvictProofs(s, kind, target),
             Shape(s), SpendsExact(s)
      PROVE  Shrunk(s, e)
  <2>1. \E P : e = removeCoinbaseProofs(s, P)
    BY DEF EvictProofs, Evictions
  <2> QED
    BY <1>2, <2>1, ProofsShrink
<1> DEFINE target == MaxMempoolSize - (MaxMempoolSize \div 10)
           Shrink(s) ==
             IF s.memoryUsage <= MaxMempoolSize THEN {s}
             ELSE UNION {UNION {EvictProofs(c, "airdrop", target) :
                                  c \in EvictProofs(s1, "claim", target)} :
                           s1 \in EvictTxs(s, target)}
           scanned == {removeTransaction(m, X, TRUE) :
                         X \in SUBSET (Roots(m) \ fresh)}
<1>3. d \in UNION {Shrink(s) : s \in scanned}
  BY DEF limitMempoolSize
<1>4. \A s \in scanned : Shrunk(m, s)
  BY RemoveTransactionShrinks
<1> HIDE DEF target, Shrink, scanned
<1> PICK s \in scanned : d \in Shrink(s)
  BY <1>3
<1>5. \/ d = s
      \/ \E s1 \in EvictTxs(s, target) :
           \E c \in EvictProofs(s1, "claim", target) :
             d \in EvictProofs(c, "airdrop", target)
  <2>1. CASE s.memoryUsage <= MaxMempoolSize
    BY <2>1 DEF Shrink
  <2>2. CASE ~(s.memoryUsage <= MaxMempoolSize)
    <3>1. d \in UNION {UNION {EvictProofs(c, "airdrop", target) :
                               c \in EvictProofs(s1, "claim", target)} :
                        s1 \in EvictTxs(s, target)}
      BY <2>2 DEF Shrink
    <3> QED
      BY <3>1, SMTT(30)
  <2> QED
    BY <2>1, <2>2
<1>6. ASSUME NEW s1 \in EvictTxs(s, target),
             NEW c \in EvictProofs(s1, "claim", target),
             d \in EvictProofs(c, "airdrop", target)
      PROVE  Shrunk(m, d)
  <2>1. Shape(s) /\ SpendsExact(s)
    BY <1>4 DEF Shrunk
  <2>2. Shrunk(s, s1) /\ Shape(s1) /\ SpendsExact(s1)
    BY <1>1, <2>1 DEF Shrunk
  <2>3. Shrunk(s1, c) /\ Shape(c) /\ SpendsExact(c)
    <3>1. Shrunk(s1, c)
      BY <1>2, <2>2
    <3> QED
      BY <3>1 DEF Shrunk
  <2>4. Shrunk(c, d)
    BY <1>2, <1>6, <2>3
  <2> QED
    BY <1>4, <2>2, <2>3, <2>4, ShrunkTrans
<1> QED
  BY <1>4, <1>5, <1>6

\* A pool that shrinks keeps the invariant.
LEMMA ShrunkKeepsInv ==
    ASSUME NEW m, NEW d, PoolInv(m), Shrunk(m, d)
    PROVE  PoolInv(d)
BY DEF PoolInv, Shrunk, OrphansExact, Apart

-----------------------------------------------------------------------------
\* A transaction whose inputs nobody in the pool spends can be added.
LEMMA AddTransaction ==
    ASSUME NEW m, NEW t, Shape(m), SpendsExact(m),
           Info[t].in \cap DOMAIN m.outpoints = {}
    PROVE  LET d == addTransaction(m, t)
           IN  /\ Shape(d) /\ SpendsExact(d)
               /\ d.pool = m.pool \cup {t}
               /\ d.orphans = m.orphans
               /\ d.orphansByPrev = m.orphansByPrev
<1> DEFINE d == addTransaction(m, t)
           ops == [o \in DOMAIN m.outpoints \cup Info[t].in |->
                     IF o \in Info[t].in THEN t ELSE m.outpoints[o]]
<1>1. /\ Shape(d)
      /\ d.pool = m.pool \cup {t}
      /\ d.outpoints = ops
      /\ d.orphans = m.orphans
      /\ d.orphansByPrev = m.orphansByPrev
  BY SMTT(30) DEF addTransaction, Shape, Fields
<1>2. DOMAIN ops = InsOf(m.pool \cup {t})
  BY SMTT(30) DEF SpendsExact, InsOf
<1>3. ASSUME NEW u \in m.pool \cup {t}, NEW o \in Info[u].in
      PROVE  ops[o] = u
  <2>1. CASE o \in Info[t].in
    <3>1. ops[o] = t
      BY <2>1
    <3>2. u \notin m.pool \/ u = t
      BY SMTT(30), <2>1 DEF SpendsExact, InsOf
    <3> QED
      BY <3>1, <3>2
  <2>2. CASE o \notin Info[t].in
    <3>1. u \in m.pool /\ o \in DOMAIN m.outpoints
      BY <2>2 DEF SpendsExact, InsOf
    <3> QED
      BY <2>2, <3>1 DEF SpendsExact
  <2> QED
    BY <2>1, <2>2
<1> HIDE DEF d, ops
<1>4. SpendsExact(d)
  BY <1>1, <1>2, <1>3 DEF SpendsExact
<1> QED
  BY <1>1, <1>4 DEF d

\* Acceptance first discards everything that spends an input of t.
LEMMA AcceptKeeps ==
    ASSUME NEW m, NEW t, Shape(m), SpendsExact(m)
    PROVE  LET d == Accept(m, t)
           IN  /\ Shape(d) /\ SpendsExact(d)
               /\ d.pool \subseteq m.pool \cup {t}
               /\ d.orphans = m.orphans
               /\ d.orphansByPrev = m.orphansByPrev
<1> DEFINE C == txConflicts(m, t)
           s == Discard(m, C \cup {})
<1>1. /\ Shrunk(m, s)
      /\ s.pool = m.pool \ C
  BY DiscardShrinks
<1>2. Accept(m, t) = addTransaction(s, t)
  BY DEF Accept, removeTransaction
<1>3. \A o \in Info[t].in \cap DOMAIN m.outpoints : m.outpoints[o] \in C
  BY DEF txConflicts
<1> HIDE DEF C, s
<1>4. ASSUME NEW o \in Info[t].in, o \in DOMAIN s.outpoints
      PROVE  FALSE
  <2>1. PICK u \in m.pool \ C : o \in Info[u].in
    BY SMTT(30), <1>1, <1>4 DEF Shrunk, SpendsExact, InsOf
  <2>2. o \in DOMAIN m.outpoints /\ m.outpoints[o] = u
    BY <2>1 DEF SpendsExact, InsOf
  <2> QED
    BY <1>3, <2>1, <2>2
<1>5. Info[t].in \cap DOMAIN s.outpoints = {}
  BY <1>4
<1>6. Shape(s) /\ SpendsExact(s)
  BY <1>1 DEF Shrunk
<1> QED
  BY SMTT(30), <1>1, <1>2, <1>5, <1>6, AddTransaction DEF Shrunk

-----------------------------------------------------------------------------
\* removeOrphan keeps the index of orphans exact: an output without an orphan
\* that redeems it loses its entry.
LEMMA RemoveOrphanKeeps ==
    ASSUME NEW m, NEW S, NEW r, Shape(m), OrphansExact(m)
    PROVE  LET d == removeOrphan(m, S, r)
           IN  /\ Shape(d) /\ OrphansExact(d)
               /\ d.pool = m.pool
               /\ d.outpoints = m.outpoints
               /\ DOMAIN d.orphans \subseteq DOMAIN m.orphans
               /\ r = FALSE => DOMAIN d.orphans = DOMAIN m.orphans \ S
<1> DEFINE d == removeOrphan(m, S, r)
           out == S \cap DOMAIN m.orphans
           gone == IF r THEN OrphanRedeemers(m, out) ELSE out
           left == [o \in DOMAIN m.orphansByPrev |-> m.orphansByPrev[o] \ gone]
           kept == Without(left, {o \in DOMAIN left : left[o] = {}})
           rest == DOMAIN m.orphans \ gone
<1>1. r = FALSE => gone = out
  OBVIOUS
<1>2. d = [m EXCEPT !.orphans = Without(@, gone), !.orphansByPrev = kept]
  BY DEF removeOrphan
<1> HIDE DEF gone, kept
<1>3. /\ Shape(d)
      /\ d.pool = m.pool
      /\ d.outpoints = m.outpoints
      /\ d.orphans = Without(m.orphans, gone)
      /\ d.orphansByPrev = kept
  BY <1>2, SMTT(30) DEF Shape, Fields
<1> HIDE DEF d
<1>4. DOMAIN d.orphans = rest
  BY <1>3 DEF Without
<1>5. \A o \in DOMAIN m.orphansByPrev :
         left[o] = {t \in rest : o \in Info[t].in}
  BY DEF OrphansExact
<1>6. DOMAIN kept = {o \in DOMAIN m.orphansByPrev : left[o] # {}}
  BY DEF kept, Without
<1>7. \A o \in DOMAIN kept : kept[o] = left[o]
  BY DEF kept, Without
<1>8. DOMAIN kept = InsOf(rest)
  <2> HIDE DEF left
  <2>1. ASSUME NEW o \in DOMAIN kept
        PROVE  o \in InsOf(rest)
    BY <1>5, <1>6 DEF InsOf
  <2>2. ASSUME NEW o \in InsOf(rest)
        PROVE  o \in DOMAIN kept
    <3>1. PICK t \in rest : o \in Info[t].in
      BY <2>2 DEF InsOf
    <3>2. o \in DOMAIN m.orphansByPrev
      BY <3>1 DEF InsOf, OrphansExact
    <3> QED
      BY <1>5, <1>6, <3>1, <3>2
  <2> QED
    BY <2>1, <2>2
<1>9. \A o \in DOMAIN kept : kept[o] = {t \in rest : o \in Info[t].in}
  BY <1>5, <1>6, <1>7
<1>10. IsFiniteSet(rest) /\ Cardinality(rest) <= MaxOrphanTxs
  <2>1. IsFiniteSet(rest) /\ Cardinality(rest) <= Cardinality(DOMAIN m.orphans)
    BY FS_Subset DEF OrphansExact
  <2>2. Cardinality(DOMAIN m.orphans) \in Nat /\ Cardinality(rest) \in Nat
    BY <2>1, FS_CardinalityType DEF OrphansExact
  <2>3. MaxOrphanTxs \in Nat
    BY TxPoolAssumption
  <2>4. Cardinality(DOMAIN m.orphans) <= MaxOrphanTxs
    BY DEF OrphansExact
  <2> HIDE DEF rest
  <2> QED
    BY <2>1, <2>2, <2>3, <2>4, SMTT(30)
<1>11. OrphansExact(d)
  BY <1>3, <1>4, <1>8, <1>9, <1>10 DEF OrphansExact
<1>12. r = FALSE => rest = DOMAIN m.orphans \ S
  BY <1>1
<1> QED
  BY <1>3, <1>4, <1>11, <1>12 DEF d

\* Removing orphans keeps the invariant.
LEMMA RemoveOrphanKeepsInv ==
    ASSUME NEW m, NEW S, NEW r, PoolInv(m)
    PROVE  PoolInv(removeOrphan(m, S, r))
<1> DEFINE d == removeOrphan(m, S, r)
<1>1. /\ Shape(d) /\ OrphansExact(d)
      /\ d.pool = m.pool
      /\ d.outpoints = m.outpoints
      /\ DOMAIN d.orphans \subseteq DOMAIN m.orphans
  BY RemoveOrphanKeeps DEF PoolInv
<1> HIDE DEF d
<1> QED
  BY <1>1 DEF PoolInv, SpendsExact, Apart, d

\* limitNumOrphans leaves room for one more orphan.
LEMMA LimitNumOrphans ==
    ASSUME NEW m, NEW s \in limitNumOrphans(m), PoolInv(m), MaxOrphanTxs # 0
    PROVE  /\ PoolInv(s)
           /\ s.pool = m.pool
           /\ DOMAIN s.orphans \subseteq DOMAIN m.orphans
           /\ Cardinality(DOMAIN s.orphans) + 1 <= MaxOrphanTxs
<1>1. PICK X \in SUBSET DOMAIN m.orphans :
         LET e == removeOrphan(m, X, TRUE)
         IN  \/ s = e /\ Cardinality(DOMAIN e.orphans) + 1 <= MaxOrphanTxs
             \/ /\ ~(Cardinality(DOMAIN e.orphans) + 1 <= MaxOrphanTxs)
                /\ \E t \in DOMAIN e.orphans : s = removeOrphan(e, {t}, FALSE)
  BY DEF limitNumOrphans
<1> DEFINE e == removeOrphan(m, X, TRUE)
<1>2. /\ PoolInv(e)
      /\ e.pool = m.pool
      /\ DOMAIN e.orphans \subseteq DOMAIN m.orphans
  BY RemoveOrphanKeepsInv, RemoveOrphanKeeps DEF PoolInv
<1>3. \/ s = e /\ Cardinality(DOMAIN e.orphans) + 1 <= MaxOrphanTxs
      \/ /\ ~(Cardinality(DOMAIN e.orphans) + 1 <= MaxOrphanTxs)
         /\ \E t \in DOMAIN e.orphans : s = removeOrphan(e, {t}, FALSE)
  BY <1>1
<1> HIDE DEF e
<1>4. CASE s = e /\ Cardinality(DOMAIN e.orphans) + 1 <= MaxOrphanTxs
  BY <1>2, <1>4
<1>5. ASSUME NEW t \in DOMAIN e.orphans, s = removeOrphan(e, {t}, FALSE)
      PROVE  /\ PoolInv(s)
             /\ s.pool = m.pool
             /\ DOMAIN s.orphans \subseteq DOMAIN m.orphans
             /\ Cardinality(DOMAIN s.orphans) + 1 <= MaxOrphanTxs
  <2>1. PoolInv(s)
    BY <1>2, <1>5, RemoveOrphanKeepsInv
  <2>2. /\ s.pool = e.pool
        /\ DOMAIN s.orphans = DOMAIN e.orphans \ {t}
    <3>1. Shape(e) /\ OrphansExact(e)
      BY <1>2 DEF PoolInv
    <3> QED
      BY <1>5, <3>1, RemoveOrphanKeeps
  <2>3. IsFiniteSet(DOMAIN e.orphans) /\ Cardinality(DOMAIN e.orphans) <= MaxOrphanTxs
    BY <1>2 DEF PoolInv, OrphansExact
  <2>4. Cardinality(DOMAIN e.orphans \ {t}) = Cardinality(DOMAIN e.orphans) - 1
    BY <2>3, FS_RemoveElement
  <2>5. Cardinality(DOMAIN e.orphans) \in Nat /\ MaxOrphanTxs \in Nat
    BY <2>3, FS_CardinalityType, TxPoolAssumption
  <2>6. Cardinality(DOMAIN s.orphans) + 1 <= MaxOrphanTxs
    BY <2>2, <2>3, <2>4, <2>5, SMTT(30)
  <2> QED
    BY <1>2, <2>1, <2>2, <2>6
<1> QED
  BY <1>3, <1>4, <1>5

\* An orphan that is neither in the pool nor an orphan yet can be added.
LEMMA AddOrphanKeeps ==
    ASSUME NEW m, NEW t, NEW tag, NEW d \in addOrphan(m, t, tag),
           PoolInv(m), t \notin m.pool, t \notin DOMAIN m.orphans
    PROVE  PoolInv(d)
<1>1. CASE MaxOrphanTxs = 0
  BY <1>1 DEF addOrphan
<1>2. CASE MaxOrphanTxs # 0
  <2> DEFINE Orphans(s) == [u \in DOMAIN s.orphans \cup {t} |->
                              IF u = t THEN tag ELSE s.orphans[u]]
             ByPrev(s) == [o \in DOMAIN s.orphansByPrev \cup Info[t].in |->
                             (IF o \in DOMAIN s.orphansByPrev
                              THEN s.orphansByPrev[o] ELSE {}) \cup
                             (IF o \in Info[t].in THEN {t} ELSE {})]
  <2>1. PICK s \in limitNumOrphans(m) :
           d = [s EXCEPT !.orphans = Orphans(s), !.orphansByPrev = ByPrev(s)]
    BY <1>2 DEF addOrphan
  <2>2. /\ PoolInv(s)
        /\ s.pool = m.pool
        /\ DOMAIN s.orphans \subseteq DOMAIN m.orphans
        /\ Cardinality(DOMAIN s.orphans) + 1 <= MaxOrphanTxs
    BY <1>2, LimitNumOrphans
  <2> DEFINE orphans == Orphans(s)
             byPrev == ByPrev(s)
             all == DOMAIN s.orphans \cup {t}
  <2>3. d = [s EXCEPT !.orphans = orphans, !.orphansByPrev = byPrev]
    BY <2>1
  <2>4. DOMAIN orphans = all
    OBVIOUS
  <2>5. DOMAIN byPrev = DOMAIN s.orphansByPrev \cup Info[t].in
    OBVIOUS
  <2>6. \A o \in DOMAIN byPrev :
           byPrev[o] = (IF o \in DOMAIN s.orphansByPrev
                        THEN s.orphansByPrev[o] ELSE {}) \cup
                       (IF o \in Info[t].in THEN {t} ELSE {})
    OBVIOUS
  <2> HIDE DEF orphans, byPrev
  <2>7. /\ Shape(d)
        /\ d.pool = s.pool
        /\ d.outpoints = s.outpoints
        /\ d.orphans = orphans
        /\ d.orphansByPrev = byPrev
    BY <2>2, <2>3, SMTT(30) DEF PoolInv, Shape, Fields
  <2>8. DOMAIN byPrev = InsOf(all)
    BY SMTT(30), <2>2, <2>5 DEF PoolInv, OrphansExact, InsOf
  <2>9. ASSUME NEW o \in DOMAIN byPrev
        PROVE  byPrev[o] = {u \in all : o \in Info[u].in}
    <3>1. (IF o \in DOMAIN s.orphansByPrev THEN s.orphansByPrev[o] ELSE {})
            = {u \in DOMAIN s.orphans : o \in Info[u].in}
      <4>1. CASE o \in DOMAIN s.orphansByPrev
        BY <2>2, <4>1 DEF PoolInv, OrphansExact
      <4>2. CASE o \notin DOMAIN s.orphansByPrev
        BY <2>2, <4>2 DEF PoolInv, OrphansExact, InsOf
      <4> QED
        BY <4>1, <4>2
    <3>2. (IF o \in Info[t].in THEN {t} ELSE {}) = {u \in {t} : o \in Info[u].in}
      OBVIOUS
    <3> QED
      BY <2>6, <2>9, <3>1, <3>2
  <2>10. IsFiniteSet(all) /\ Cardinality(all) = Cardinality(DOMAIN s.orphans) + 1
    BY <2>2, FS_AddElement DEF PoolInv, OrphansExact
  <2>11. OrphansExact(d)
    BY <2>2, <2>4, <2>7, <2>8, <2>9, <2>10 DEF OrphansExact
  <2>12. Apart(d)
    BY <2>2, <2>4, <2>7 DEF Apart, PoolInv
  <2>13. SpendsExact(d)
    BY <2>2, <2>7 DEF SpendsExact, PoolInv
  <2> QED
    BY <2>7, <2>11, <2>12, <2>13 DEF PoolInv
<1> QED
  BY <1>1, <1>2

-----------------------------------------------------------------------------
\* Accepting a transaction that is no orphan keeps the invariant.
LEMMA AcceptKeepsInv ==
    ASSUME NEW m, NEW t, PoolInv(m), t \notin DOMAIN m.orphans
    PROVE  PoolInv(Accept(m, t))
BY SMTT(30), AcceptKeeps DEF PoolInv, OrphansExact, Apart

\* So does accepting an orphan that then leaves the orphans.
LEMMA AcceptOrphanKeepsInv ==
    ASSUME NEW m, NEW t, PoolInv(m)
    PROVE  PoolInv(removeOrphan(Accept(m, t), {t}, FALSE))
<1> DEFINE s == Accept(m, t)
           d == removeOrphan(s, {t}, FALSE)
<1>1. /\ Shape(s) /\ SpendsExact(s)
      /\ s.pool \subseteq m.pool \cup {t}
      /\ s.orphans = m.orphans
      /\ s.orphansByPrev = m.orphansByPrev
  BY AcceptKeeps DEF PoolInv
<1> HIDE DEF s
<1>2. OrphansExact(s)
  BY <1>1 DEF PoolInv, OrphansExact
<1>3. /\ Shape(d) /\ OrphansExact(d)
      /\ d.pool = s.pool
      /\ d.outpoints = s.outpoints
      /\ DOMAIN d.orphans = DOMAIN s.orphans \ {t}
  BY <1>1, <1>2, RemoveOrphanKeeps
<1> HIDE DEF d
<1>4. SpendsExact(d)
  BY <1>1, <1>3 DEF SpendsExact
<1>5. Apart(d)
  BY <1>1, <1>3 DEF Apart, PoolInv
<1> QED
  BY <1>3, <1>4, <1>5 DEF PoolInv, d, s

\* checkMempoolAcceptance refuses a transaction of the pool and, when told to
\* reject duplicate orphans, an orphan.
LEMMA Verdict ==
    ASSUME NEW m, NEW t, NEW isNew, NEW waived,
           Acceptance(m, t, isNew, TRUE, waived) # "error"
    PROVE  t \notin m.pool /\ t \notin DOMAIN m.orphans
BY DEF Acceptance

\* The pool starts empty.
LEMMA EmptyPoolInv == PoolInv(EmptyPool)
<1>1. Shape(EmptyPool)
  BY SMTT(30) DEF Shape, Fields, EmptyPool
<1>2. /\ EmptyPool.pool = {}
      /\ DOMAIN EmptyPool.outpoints = {}
      /\ DOMAIN EmptyPool.orphans = {}
      /\ DOMAIN EmptyPool.orphansByPrev = {}
  BY SMTT(30) DEF EmptyPool
<1>3. MaxOrphanTxs \in Nat /\ Cardinality({}) = 0 /\ IsFiniteSet({})
  BY TxPoolAssumption, FS_EmptySet
<1>4. Cardinality({}) <= MaxOrphanTxs
  BY <1>3, SMTT(30)
<1> QED
  BY <1>1, <1>2, <1>3, <1>4 DEF PoolInv, SpendsExact, OrphansExact, Apart, InsOf

\* The limit on memory keeps the invariant.
LEMMA LimitKeepsInv ==
    ASSUME NEW m, NEW fresh, NEW d \in limitMempoolSize(m, fresh), PoolInv(m)
    PROVE  PoolInv(d)
BY LimitShrinks, ShrunkKeepsInv DEF PoolInv

\* So does every removal that the notifications call for.
LEMMA RemovalsKeepInv ==
    ASSUME NEW m, PoolInv(m)
    PROVE  /\ \A S, r : PoolInv(removeTransaction(m, S, r))
           /\ \A P : PoolInv(removeCoinbaseProofs(m, P))
           /\ \A t : PoolInv(RemoveNameConflicts(m, t))
           /\ \A t : PoolInv(RemoveDoubleSpends(m, t))
BY RemoveTransactionShrinks, ProofsShrink, NameConflictsShrink, ShrunkKeepsInv
   DEF PoolInv, RemoveDoubleSpends

\* And the insertion of a proof.
LEMMA WithProofKeepsInv ==
    ASSUME NEW m, NEW p, PoolInv(m)
    PROVE  PoolInv(WithProof(m, p))
<1> DEFINE d == WithProof(m, p)
<1>1. /\ Shape(d)
      /\ d.pool = m.pool
      /\ d.outpoints = m.outpoints
      /\ d.orphans = m.orphans
      /\ d.orphansByPrev = m.orphansByPrev
  BY SMTT(30) DEF WithProof, PoolInv, Shape, Fields
<1> HIDE DEF d
<1> QED
  BY SMTT(30), <1>1 DEF PoolInv, SpendsExact, OrphansExact, Apart, d

\* Every step of every goroutine keeps the invariant.
LEMMA StepKeepsInv ==
    ASSUME PoolInv(mp), [Next]_vars
    PROVE  PoolInv(mp')
<1>1. ASSUME NEW t \in Tx, NEW tag \in Tag, NEW waived \in BOOLEAN,
             ProcessTransaction(t, tag, waived)
      PROVE  PoolInv(mp')
  <2> DEFINE res == Acceptance(mp, t, TRUE, TRUE, waived)
  <2>1. \/ res = "ok" /\ mp' = Accept(mp, t)
        \/ res = "missing" /\ mp' \in addOrphan(mp, t, tag)
    BY <1>1 DEF ProcessTransaction, processOrphans
  <2>2. res # "error"
    BY <2>1
  <2>3. t \notin mp.pool /\ t \notin DOMAIN mp.orphans
    BY <2>2, Verdict
  <2> QED
    BY <2>1, <2>3, AcceptKeepsInv, AddOrphanKeeps
<1>2. ASSUME NEW o \in Tx, NEW waived \in BOOLEAN, TryOrphan(o, waived)
      PROVE  PoolInv(mp')
  <2>1. \/ mp' = mp
        \/ mp' = removeOrphan(mp, {o}, TRUE)
        \/ mp' = removeOrphan(Accept(mp, o), {o}, FALSE)
    BY <1>2 DEF TryOrphan
  <2> QED
    BY <2>1, RemoveOrphanKeepsInv, AcceptOrphanKeepsInv
<1>3. CASE FinishOrphans
  <2> DEFINE m == removeOrphanDoubleSpends(mp, {job.tx} \cup job.accepted)
  <2>1. PoolInv(m)
    BY RemoveOrphanKeepsInv DEF removeOrphanDoubleSpends
  <2>2. \/ mp' \in limitMempoolSize(m, {job.tx} \cup job.accepted)
        \/ mp' = m
    BY <1>3 DEF FinishOrphans
  <2> QED
    BY <2>1, <2>2, LimitKeepsInv
<1>4. ASSUME NEW tag \in Tag, RemoveOrphansByTag(tag)
      PROVE  PoolInv(mp')
  BY <1>4, RemoveOrphanKeepsInv DEF RemoveOrphansByTag
<1>5. ASSUME NEW p \in Proof, AddCoinbaseProof(p)
      PROVE  PoolInv(mp')
  <2>1. mp' = mp \/ mp' \in limitMempoolSize(WithProof(mp, p), {})
    BY <1>5 DEF AddCoinbaseProof
  <2> QED
    <3>1. PoolInv(WithProof(mp, p))
      BY WithProofKeepsInv
    <3> QED
      BY <2>1, <3>1, LimitKeepsInv
<1>6. CASE CoinbaseProofs \/ ConnectedPrune
  BY <1>6, RemovalsKeepInv
     DEF CoinbaseProofs, ConnectedPrune, PruneInvalidNameTransactions
<1>7. CASE ConnectedCall
  <2>1. mp' = Calls(mp) /\ ntfn.at \in DOMAIN FollowedBy
    BY <1>7 DEF ConnectedCall
  <2>2. ntfn.at \in {"proofs", "remove", "double", "names", "orphan"}
    BY <2>1, SMTT(30) DEF FollowedBy
  <2>3. \/ mp' = removeCoinbaseProofs(mp, ntfn.block.proofs)
        \/ mp' = removeTransaction(mp, {NotifiedTx}, FALSE)
        \/ mp' = RemoveDoubleSpends(mp, NotifiedTx)
        \/ mp' = RemoveNameConflicts(mp, NotifiedTx)
        \/ mp' = removeOrphan(mp, {NotifiedTx}, FALSE)
    BY <2>1, <2>2 DEF Calls
  <2> QED
    BY <2>3, RemovalsKeepInv, RemoveOrphanKeepsInv
<1>8. CASE Disconnected
  <2>1. CASE DisconnectedAccept
    <3> DEFINE res == Acceptance(mp, NotifiedTx, FALSE, TRUE, TRUE)
    <3>1. \/ mp' = mp
          \/ /\ res = "ok"
             /\ mp' \in limitMempoolSize(Accept(mp, NotifiedTx), {NotifiedTx})
      BY <2>1 DEF DisconnectedAccept
    <3>2. res = "ok" => NotifiedTx \notin DOMAIN mp.orphans
      BY Verdict
    <3>3. res = "ok" => PoolInv(Accept(mp, NotifiedTx))
      BY <3>2, AcceptKeepsInv
    <3> QED
      BY <3>1, <3>3, LimitKeepsInv
  <2>2. \/ DisconnectedAccept
        \/ mp' = mp
        \/ mp' = RemoveNameConflicts(mp, NotifiedTx)
        \/ mp' = removeTransaction(mp, {NotifiedTx}, TRUE)
    BY <1>8 DEF Disconnected
  <2> QED
    BY <2>1, <2>2, RemovalsKeepInv
<1>9. CASE \/ \E p \in Proof : validateCoinbaseProofAdmission(p)
           \/ \E b \in offer.blocks, current \in Currents : ConnectBlock(b, current)
           \/ DisconnectBlock
           \/ ConnectedOrphans
           \/ UNCHANGED vars
  BY <1>9 DEF validateCoinbaseProofAdmission, ConnectBlock, DisconnectBlock,
              ConnectedOrphans, processOrphans, vars
<1> QED
  BY <1>1, <1>2, <1>3, <1>4, <1>5, <1>6, <1>7, <1>8, <1>9 DEF Next, Loop

\* For every set of transactions, limits and order of submissions, replacements,
\* evictions, blocks and reorganizations: mp.outpoints is exactly the inputs of
\* the pool, so no two transactions of the pool spend the same output.
THEOREM PoolNeverDoubleSpends == Spec => []NoDoubleSpend
<1>1. Init => PoolInv(mp)
  BY EmptyPoolInv DEF Init
<1>2. PoolInv(mp) /\ [Next]_vars => PoolInv(mp)'
  BY StepKeepsInv
<1>3. PoolInv(mp) => NoDoubleSpend
  BY DEF PoolInv, SpendsExact, NoDoubleSpend
<1> QED
  BY <1>1, <1>2, <1>3, PTL DEF Spec

\* Likewise the orphan pool keeps its bound, its index by output is exact, and
\* no transaction is an orphan and in the pool at once, also while a loop of
\* processOrphans is half way.
THEOREM OrphansAlwaysIndexed == Spec => []OrphansIndexed
<1>1. Init => PoolInv(mp)
  BY EmptyPoolInv DEF Init
<1>2. PoolInv(mp) /\ [Next]_vars => PoolInv(mp)'
  BY StepKeepsInv
<1>3. PoolInv(mp) => OrphansIndexed
  BY DEF PoolInv, OrphansExact, Apart, OrphansIndexed
<1> QED
  BY <1>1, <1>2, <1>3, PTL DEF Spec
=============================================================================
