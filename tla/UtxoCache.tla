------------------------------- MODULE UtxoCache -------------------------------
(***************************************************************************)
(* The utxo cache between the chain and the database: what connecting and  *)
(* disconnecting blocks do to it, when it is written, and how the set is   *)
(* rebuilt after a crash.                                                  *)
(*                                                                         *)
(* chainLock is held while a block is connected or disconnected, except    *)
(* for the notification between the database update of connectBlock and    *)
(* its closing flush: `pending` holds the block of that flush.  Which      *)
(* blocks to connect is BlockChain's choice; here any child of the tip may *)
(* be.  Byte sizes are abstracted: the cache may be full at any time.      *)
(***************************************************************************)
EXTENDS Integers, FiniteSets, TLAPS

CONSTANTS
  Block, Genesis, Parent, Ancestors, Height,
  Coin,         \* the spendable outputs
  Creates,      \* Creates[b]: the spendable outputs of the transactions of b
  Spends,       \* Spends[b]: the outputs its inputs refer to
  Thread,       \* the callers of the chain
  None,
  OneCaller,    \* TRUE: nobody runs in the window of another caller
  MayPrune,     \* is a prune target set?
  MayCrash,     \* may the process die?
  DbMayFail     \* may a database transaction fail?

\* The outputs created and not spent by a branch.
UtxoAt(b) ==
  {c \in Coin : /\ \E a \in Ancestors[b] : c \in Creates[a]
               /\ \A a \in Ancestors[b] : c \notin Spends[a]}

ASSUME TreeAssumption ==
  /\ Genesis \in Block
  /\ Parent \in [Block \ {Genesis} -> Block]
  /\ Ancestors \in [Block -> SUBSET Block]
  /\ Ancestors[Genesis] = {Genesis}
  /\ \A b \in Block \ {Genesis} :
       /\ Ancestors[b] = {b} \cup Ancestors[Parent[b]]
       /\ b \notin Ancestors[Parent[b]]
  /\ \A b \in Block : Genesis \in Ancestors[b]
  /\ \A b \in Block : \A a \in Ancestors[b] :
       Ancestors[a] \subseteq Ancestors[b] /\ (a = b \/ Height[a] < Height[b])
  /\ Height \in [Block -> Nat]

\* The blocks are valid: an output is created once on a branch, and spent at
\* most once, after or in the block that creates it.
ASSUME CoinAssumption ==
  /\ Creates \in [Block -> SUBSET Coin]
  /\ Spends \in [Block -> SUBSET Coin]
  /\ Creates[Genesis] = {} /\ Spends[Genesis] = {}
  /\ \A b \in Block \ {Genesis} :
       /\ Spends[b] \subseteq UtxoAt(Parent[b]) \cup Creates[b]
       /\ \A a \in Ancestors[Parent[b]] :
            Creates[b] \cap (Creates[a] \cup Spends[a]) = {}

ASSUME ConfigAssumption ==
  /\ None \notin Block
  /\ OneCaller \in BOOLEAN /\ MayPrune \in BOOLEAN
  /\ MayCrash \in BOOLEAN /\ DbMayFail \in BOOLEAN

VARIABLES
  cache,      \* cachedEntries: the entry of each output
  lastFlush,  \* lastFlushHash
  db,         \* the utxo set bucket
  dbTip,      \* the best state in the database
  dbFlushed,  \* the utxo state consistency hash in the database
  pruned,     \* blocks whose data and spend journal are deleted
  mode,       \* "run", "replay" while starting, "down" when starting failed
  at,         \* the block the set in memory is at: the tip, when running
  pending     \* the block whose closing flush a caller still has to do

vars == <<cache, lastFlush, db, dbTip, dbFlushed, pruned, mode, at, pending>>

\* absent: no entry; nil: known not to be in the database; clean: as in the
\* database; fresh: unspent and never written; spent: in the database, spent.
Entry == {"absent", "nil", "clean", "fresh", "spent"}

Empty == [c \in Coin |-> "absent"]

Init ==
  /\ cache = Empty
  /\ lastFlush = Genesis
  /\ db = {}
  /\ dbTip = Genesis
  /\ dbFlushed = Genesis
  /\ pruned = {}
  /\ mode = "run"
  /\ at = Genesis
  /\ pending = [t \in Thread |-> None]

(***************************************************************************)
(* The cache.                                                              *)
(***************************************************************************)

\* fetchEntries: a miss is looked up in the database, and cached either way.
FetchEntry(c) ==
  IF cache[c] # "absent" THEN cache[c]
  ELSE IF c \in db THEN "clean" ELSE "nil"

\* addTxIn: a fresh entry is dropped, another is kept to delete it on disk.
SpendEntry(e) == IF e = "fresh" THEN "absent" ELSE "spent"

\* addTxIn fails on an input that is nowhere.
MissingInput(b) == \E c \in Spends[b] \ Creates[b] : FetchEntry(c) = "nil"

\* connectTransactions: addTxOut makes a fresh entry whatever was there.
ConnectTransactions(b) ==
  [c \in Coin |-> IF c \in Creates[b]
                  THEN IF c \in Spends[b] THEN SpendEntry("fresh") ELSE "fresh"
                  ELSE IF c \in Spends[b] THEN SpendEntry(FetchEntry(c))
                  ELSE cache[c]]

\* connectTransactions gives up at a transaction with a missing input: those
\* before it are in the cache.
PartOfTransactions(b) ==
  {[c \in Coin |-> IF c \in done THEN ConnectTransactions(b)[c] ELSE cache[c]] :
     done \in SUBSET (Creates[b] \cup Spends[b])}

\* writeCache: nil and spent entries are deleted, fresh ones are put.
WriteCache(ca) ==
  {c \in Coin : ca[c] = "fresh" \/ (c \in db /\ ca[c] \notin {"nil", "spent"})}

\* flush when it does write: the cache is left empty.
Flush(ca, best) ==
  /\ db' = WriteCache(ca)
  /\ dbFlushed' = best
  /\ lastFlush' = best
  /\ cache' = Empty

NoFlush(ca) ==
  /\ cache' = ca
  /\ UNCHANGED <<db, dbFlushed, lastFlush>>

\* A flush whose database transaction is rolled back.
FlushRolledBack(best) ==
  /\ cache' = Empty
  /\ lastFlush' = best
  /\ UNCHANGED <<db, dbFlushed>>

(***************************************************************************)
(* Connecting and disconnecting blocks.                                    *)
(***************************************************************************)
MayCall(t) ==
  /\ mode = "run" /\ pending[t] = None
  /\ OneCaller => \A u \in Thread : pending[u] = None

\* What PruneBlocks may delete when b is connected: the oldest files, so with a
\* block its ancestors, and never the newest file: b and what builds on it.
PruneChoices(b) ==
  IF MayPrune
  THEN {d \in SUBSET {x \in Block \ pruned : b \notin Ancestors[x]} :
          \A x \in d : Ancestors[x] \subseteq d \cup pruned}
  ELSE {{}}

\* Mutant: the lowest deleted height is compared.
FlushNeededAfterPrune_Lowest(deleted) ==
  deleted # {} /\ \A x \in deleted : Height[x] >= Height[lastFlush]

\* flushNeededAfterPrune: the last flush is at or below a deleted block.
FlushNeededAfterPrune(deleted) ==
  \E x \in deleted : Height[x] >= Height[lastFlush]

\* The transactions go to the cache, then connectBlock updates the database.
ConnectBlock(t, b) ==
  /\ MayCall(t) /\ Parent[b] = at /\ b \notin pruned
  /\ ~MissingInput(b)
  /\ \E deleted \in PruneChoices(b) :
       /\ pruned' = pruned \cup deleted
       /\ IF FlushNeededAfterPrune(deleted)
          THEN Flush(ConnectTransactions(b), b)
          ELSE NoFlush(ConnectTransactions(b))
  /\ dbTip' = b /\ at' = b
  /\ pending' = [pending EXCEPT ![t] = b]
  /\ UNCHANGED mode

\* The closing flush of connectBlock, after the notification.
FlushIfNeeded(t) ==
  /\ mode = "run" /\ pending[t] # None
  /\ pending' = [pending EXCEPT ![t] = None]
  /\ \/ NoFlush(cache)
     \/ pending[t] # lastFlush /\ Flush(cache, pending[t])
     \/ DbMayFail /\ pending[t] # lastFlush /\ FlushRolledBack(pending[t])
  /\ UNCHANGED <<dbTip, pruned, mode, at>>

\* A connect that fails: on a missing input, or in the database after the
\* transactions, and perhaps the flush of a prune, went through.
ConnectFails(t, b) ==
  /\ MayCall(t) /\ Parent[b] = at /\ b \notin pruned
  /\ \/ MissingInput(b) /\ \E part \in PartOfTransactions(b) : NoFlush(part)
     \/ DbMayFail /\ ~MissingInput(b) /\ NoFlush(ConnectTransactions(b))
     \/ DbMayFail /\ ~MissingInput(b) /\ MayPrune /\ FlushRolledBack(b)
  /\ UNCHANGED <<dbTip, pruned, mode, at, pending>>

\* Mutant: the view is written over a cache that was not flushed.
DisconnectBlock_NoFlush(t) ==
  /\ MayCall(t) /\ at # Genesis /\ at \notin pruned /\ Parent[at] \notin pruned
  /\ db' = (db \cup Spends[at]) \ Creates[at]
  /\ dbTip' = Parent[at] /\ at' = Parent[at]
  /\ UNCHANGED <<cache, lastFlush, dbFlushed, pruned, mode, pending>>

\* Mutant: the flush is recorded at the block being disconnected.
DisconnectBlock_OldState(t) ==
  /\ MayCall(t) /\ at # Genesis /\ at \notin pruned /\ Parent[at] \notin pruned
  /\ db' = (WriteCache(cache) \cup Spends[at]) \ Creates[at]
  /\ cache' = Empty
  /\ dbTip' = Parent[at] /\ at' = Parent[at]
  /\ dbFlushed' = at /\ lastFlush' = at
  /\ UNCHANGED <<pruned, mode, pending>>

\* disconnectBlock: the cache is written and, in the same transaction, the view
\* that restores what the block spent and removes what it created.
DisconnectBlock(t) ==
  /\ MayCall(t) /\ at # Genesis /\ at \notin pruned /\ Parent[at] \notin pruned
  /\ db' = (WriteCache(cache) \cup Spends[at]) \ Creates[at]
  /\ cache' = Empty
  /\ dbTip' = Parent[at] /\ at' = Parent[at]
  /\ dbFlushed' = Parent[at] /\ lastFlush' = Parent[at]
  /\ UNCHANGED <<pruned, mode, pending>>

DisconnectFails(t) ==
  /\ DbMayFail
  /\ MayCall(t) /\ at # Genesis /\ at \notin pruned /\ Parent[at] \notin pruned
  /\ FlushRolledBack(Parent[at])
  /\ UNCHANGED <<dbTip, pruned, mode, at, pending>>

\* FetchUtxoEntry and FetchUtxoView, under the read lock.
FetchEntries(c) ==
  /\ mode = "run"
  /\ cache' = [cache EXCEPT ![c] = FetchEntry(c)]
  /\ UNCHANGED <<lastFlush, db, dbTip, dbFlushed, pruned, mode, at, pending>>

\* The periodic flush after a block, and the flush of a clean shutdown.
FlushUtxoCache ==
  /\ mode = "run"
  /\ OneCaller => \A u \in Thread : pending[u] = None
  /\ Flush(cache, at) \/ (DbMayFail /\ FlushRolledBack(at))
  /\ UNCHANGED <<dbTip, pruned, mode, at, pending>>

(***************************************************************************)
(* The process dies, and InitConsistentState replays blocks.               *)
(***************************************************************************)

\* FindFork: where the branch of the last flush meets the best chain.
IsFork(f) ==
  /\ f \in Ancestors[dbFlushed] \cap Ancestors[dbTip]
  /\ \A g \in Ancestors[dbFlushed] \cap Ancestors[dbTip] : Height[g] <= Height[f]

Crash ==
  /\ MayCrash
  /\ cache' = Empty
  /\ lastFlush' = None
  /\ pending' = [t \in Thread |-> None]
  /\ mode' = "replay"
  /\ \E f \in Block : IsFork(f) /\ at' = f
  /\ UNCHANGED <<db, dbTip, dbFlushed, pruned>>

ReplayBlock ==
  /\ mode = "replay"
  /\ \E b \in Ancestors[dbTip] \ {Genesis} :
       /\ Parent[b] = at
       /\ IF b \in pruned \/ MissingInput(b)
          THEN /\ mode' = "down"
               /\ UNCHANGED <<cache, lastFlush, db, dbFlushed, at>>
          ELSE /\ \/ NoFlush(ConnectTransactions(b))
                  \/ Flush(ConnectTransactions(b), b)
               /\ at' = b
               /\ UNCHANGED mode
  /\ UNCHANGED <<dbTip, pruned, pending>>

\* The last flush is taken to be at the tip, flushed or not.
ReplayDone ==
  /\ mode = "replay" /\ at = dbTip
  /\ mode' = "run"
  /\ lastFlush' = dbTip
  /\ UNCHANGED <<cache, db, dbTip, dbFlushed, pruned, at, pending>>

Next ==
  \/ \E t \in Thread : \/ \E b \in Block \ {Genesis} : \/ ConnectBlock(t, b)
                                                      \/ ConnectFails(t, b)
                       \/ FlushIfNeeded(t)
                       \/ DisconnectBlock(t)
                       \/ DisconnectFails(t)
  \/ \E c \in Coin : FetchEntries(c)
  \/ FlushUtxoCache
  \/ Crash
  \/ ReplayBlock
  \/ ReplayDone

Spec == Init /\ [][Next]_vars

(***************************************************************************)
(* Properties.                                                             *)
(***************************************************************************)
TypeOK ==
  /\ cache \in [Coin -> Entry]
  /\ lastFlush \in Block \cup {None}
  /\ db \subseteq Coin
  /\ dbTip \in Block /\ dbFlushed \in Block /\ at \in Block
  /\ pruned \subseteq Block
  /\ mode \in {"run", "replay", "down"}
  /\ pending \in [Thread -> Block \cup {None}]

\* What a reader is told: the cache before the database.
Effective ==
  {c \in Coin : cache[c] \in {"clean", "fresh"} \/ (cache[c] = "absent" /\ c \in db)}

\* Nobody reads while the node starts or is down.
Promised == IF mode = "run" THEN Effective ELSE UtxoAt(dbTip)

Abs == INSTANCE UtxoSet WITH tip <- dbTip, utxo <- Promised

\* A reader sees exactly the outputs of the best chain, block by block, whatever
\* is cached, flushed, lost in a crash and replayed.
ImplementsUtxoSet == Abs!Spec

\* The bucket on disk is the set at the block the consistency hash names, so a
\* crash at any moment leaves something to replay from.
DiskConsistent == db = UtxoAt(dbFlushed)

\* The last flush is on the best chain: the replay of InitConsistentState only
\* connects blocks (utxocache.go:657, 665).
ReplayStartsOnChain == dbFlushed \in Ancestors[dbTip]

\* Every block since the last flush is still stored (utxocache.go:728).
BlocksSinceFlushKept == \A b \in Ancestors[dbTip] \ Ancestors[dbFlushed] : b \notin pruned

\* As long as lastFlushHash names the block of the last flush, flushNeededAfterPrune
\* flushes before a prune takes a block that a replay would need.
ReplayPossible == mode = "run" /\ lastFlush = dbFlushed => BlocksSinceFlushKept

(***************************************************************************)
(* Proofs for every block tree and every set of outputs.                   *)
(*                                                                         *)
(* With one caller at a time the last flush stays on the best chain, even  *)
(* when database transactions fail and the process dies (ChainInv).  When  *)
(* no transaction fails the cache over the database is the set at `at` for *)
(* each output (SetInv), so readers see UtxoSet.                           *)
(***************************************************************************)

\* A leaf that names no prover is for the SMT solver.
USE SMTT(60)

(***************************************************************************)
(* Branches.                                                               *)
(***************************************************************************)

\* Connecting a block spends its inputs from, and adds its outputs to, the set.
LEMMA ConnectStep ==
  ASSUME NEW b \in Block \ {Genesis}
  PROVE  /\ Parent[b] \in Block
         /\ UtxoAt(b) = (UtxoAt(Parent[b]) \cup Creates[b]) \ Spends[b]
         /\ Spends[b] \ Creates[b] \subseteq UtxoAt(Parent[b])
         /\ \A a \in Ancestors[Parent[b]] : Creates[b] \cap UtxoAt(a) = {}
<1>1. Parent[b] \in Block
  BY TreeAssumption
<1>2. Spends[b] \ Creates[b] \subseteq UtxoAt(Parent[b])
  BY CoinAssumption
<1>3. \A a \in Ancestors[Parent[b]] : Creates[b] \cap UtxoAt(a) = {}
  <2> SUFFICES ASSUME NEW a \in Ancestors[Parent[b]], NEW c \in Creates[b],
                      c \in UtxoAt(a)
               PROVE  FALSE
    OBVIOUS
  <2>1. PICK x \in Ancestors[a] : c \in Creates[x]
    BY DEF UtxoAt
  <2>2. x \in Ancestors[Parent[b]]
    BY <1>1, TreeAssumption
  <2> QED BY <2>1, <2>2, CoinAssumption
<1>4. UtxoAt(b) = (UtxoAt(Parent[b]) \cup Creates[b]) \ Spends[b]
  <2>1. Ancestors[b] = {b} \cup Ancestors[Parent[b]]
    BY TreeAssumption
  <2>2. \A a \in Ancestors[Parent[b]] : Creates[b] \cap Spends[a] = {}
    BY CoinAssumption
  <2>3. ASSUME NEW c PROVE c \in UtxoAt(b) <=>
                            c \in (UtxoAt(Parent[b]) \cup Creates[b]) \ Spends[b]
    BY <2>1, <2>2, CoinAssumption DEF UtxoAt
  <2> QED BY <2>3
<1> QED BY <1>1, <1>2, <1>3, <1>4

\* Disconnecting a block restores what it spent and removes what it created.
LEMMA DisconnectStep ==
  ASSUME NEW b \in Block \ {Genesis}
  PROVE  UtxoAt(Parent[b]) = (UtxoAt(b) \cup Spends[b]) \ Creates[b]
<1>1. Parent[b] \in Ancestors[Parent[b]]
  <2>1. Parent[b] \in Block
    BY TreeAssumption
  <2> QED BY <2>1, TreeAssumption
<1> QED BY <1>1, ConnectStep

\* The branch of a block is that of its parent and the block.
LEMMA ParentBranch ==
  ASSUME NEW b \in Block \ {Genesis}
  PROVE  b \in Ancestors[b] /\ Ancestors[Parent[b]] \subseteq Ancestors[b]
BY TreeAssumption

\* A block is on its own branch, and a block below it has only older ancestors.
LEMMA Branch ==
  ASSUME NEW b \in Block
  PROVE  /\ b \in Ancestors[b]
         /\ Ancestors[b] \subseteq Block
         /\ \A a \in Ancestors[b] : Ancestors[a] \subseteq Ancestors[b]
  BY TreeAssumption

LEMMA UtxoAtGenesis == UtxoAt(Genesis) = {}
  BY TreeAssumption, CoinAssumption DEF UtxoAt

(***************************************************************************)
(* Types.                                                                  *)
(***************************************************************************)

\* The entries a connect leaves are entries.
LEMMA EntryTypes ==
  ASSUME TypeOK, NEW b \in Block
  PROVE  /\ Empty \in [Coin -> Entry]
         /\ ConnectTransactions(b) \in [Coin -> Entry]
         /\ \A p \in PartOfTransactions(b) : p \in [Coin -> Entry]
         /\ \A c \in Coin : FetchEntry(c) \in Entry
<1>1. \A c \in Coin : FetchEntry(c) \in Entry
  BY DEF TypeOK, FetchEntry, Entry
<1>2. ConnectTransactions(b) \in [Coin -> Entry]
  BY <1>1 DEF ConnectTransactions, SpendEntry, TypeOK, Entry
<1>3. \A p \in PartOfTransactions(b) : p \in [Coin -> Entry]
  BY <1>2 DEF PartOfTransactions, TypeOK
<1> QED BY <1>1, <1>2, <1>3 DEF Empty, Entry

\* Every variable keeps its type, whatever fails and whoever interleaves.
THEOREM TypeCorrect == Spec => []TypeOK
<1>1. Init => TypeOK
  BY TreeAssumption DEF Init, TypeOK, Empty, Entry
<1>2. TypeOK /\ [Next]_vars => TypeOK'
  <2> SUFFICES ASSUME TypeOK, [Next]_vars PROVE TypeOK'
    OBVIOUS
  <2> USE DEF TypeOK
  <2>1. ASSUME NEW t \in Thread, NEW b \in Block \ {Genesis}, ConnectBlock(t, b)
        PROVE  TypeOK'
    <3>1. PICK deleted \in PruneChoices(b) :
            /\ pruned' = pruned \cup deleted
            /\ IF FlushNeededAfterPrune(deleted)
               THEN Flush(ConnectTransactions(b), b)
               ELSE NoFlush(ConnectTransactions(b))
      BY <2>1 DEF ConnectBlock
    <3>2. deleted \subseteq Block
      BY DEF PruneChoices
    <3> QED BY <2>1, <3>1, <3>2, EntryTypes
            DEF ConnectBlock, Flush, NoFlush, WriteCache
  <2>2. ASSUME NEW t \in Thread, NEW b \in Block \ {Genesis}, ConnectFails(t, b)
        PROVE  TypeOK'
    BY <2>2, EntryTypes DEF ConnectFails, NoFlush, FlushRolledBack
  <2>3. ASSUME NEW t \in Thread, FlushIfNeeded(t) PROVE TypeOK'
    BY <2>3, EntryTypes, TreeAssumption
       DEF FlushIfNeeded, Flush, NoFlush, FlushRolledBack, WriteCache
  <2>4. ASSUME NEW t \in Thread, DisconnectBlock(t) PROVE TypeOK'
    <3>1. Parent[at] \in Block /\ Spends[at] \subseteq Coin
      BY <2>4, TreeAssumption, CoinAssumption DEF DisconnectBlock
    <3> QED BY <2>4, <3>1, EntryTypes DEF DisconnectBlock, WriteCache
  <2>5. ASSUME NEW t \in Thread, DisconnectFails(t) PROVE TypeOK'
    <3>1. Parent[at] \in Block
      BY <2>5, TreeAssumption DEF DisconnectFails
    <3> QED BY <2>5, <3>1, EntryTypes DEF DisconnectFails, FlushRolledBack
  <2>6. ASSUME NEW c \in Coin, FetchEntries(c) PROVE TypeOK'
    BY <2>6, EntryTypes, TreeAssumption DEF FetchEntries
  <2>7. CASE FlushUtxoCache
    BY <2>7, EntryTypes, TreeAssumption
       DEF FlushUtxoCache, Flush, FlushRolledBack, WriteCache
  <2>8. CASE Crash
    BY <2>8, EntryTypes, TreeAssumption DEF Crash
  <2>9. CASE ReplayBlock
    <3>1. PICK b \in Ancestors[dbTip] \ {Genesis} :
            /\ Parent[b] = at
            /\ IF b \in pruned \/ MissingInput(b)
               THEN /\ mode' = "down"
                    /\ UNCHANGED <<cache, lastFlush, db, dbFlushed, at>>
               ELSE /\ \/ NoFlush(ConnectTransactions(b))
                       \/ Flush(ConnectTransactions(b), b)
                    /\ at' = b
                    /\ UNCHANGED mode
      BY <2>9 DEF ReplayBlock
    <3>2. b \in Block
      BY Branch
    <3> QED BY <2>9, <3>1, <3>2, EntryTypes DEF ReplayBlock, Flush, NoFlush, WriteCache
  <2>10. CASE ReplayDone
    BY <2>10 DEF ReplayDone
  <2>11. CASE UNCHANGED vars
    BY <2>11, ZenonT(60) DEF vars
  <2> HIDE DEF TypeOK
  <2> QED BY <2>1, <2>2, <2>3, <2>4, <2>5, <2>6, <2>7, <2>8, <2>9, <2>10, <2>11 DEF Next
<1> QED BY <1>1, <1>2, PTL DEF Spec

(***************************************************************************)
(* The last flush stays on the best chain.                                 *)
(***************************************************************************)

\* A caller in its window waits to flush the tip; a replay is on its way there.
ChainInv ==
  /\ TypeOK
  /\ ReplayStartsOnChain
  /\ mode = "run" => at = dbTip
  /\ mode = "replay" => at \in Ancestors[dbTip]
  /\ \A t \in Thread : pending[t] # None => mode = "run" /\ pending[t] = at

\* With one caller at a time ChainInv is inductive.
LEMMA ChainStep ==
  ASSUME OneCaller, ChainInv, TypeOK', [Next]_vars
  PROVE  ChainInv'
<1> USE DEF ChainInv, TypeOK, ReplayStartsOnChain
<1>1. ASSUME NEW t \in Thread, NEW b \in Block \ {Genesis}, ConnectBlock(t, b)
      PROVE  ChainInv'
  <2>1. dbTip = at /\ mode = "run" /\ mode' = mode /\ dbTip' = b /\ at' = b
    BY <1>1 DEF ConnectBlock, MayCall
  <2>2. dbFlushed' \in {dbFlushed, b}
    BY <1>1 DEF ConnectBlock, Flush, NoFlush
  <2>3. dbFlushed' \in Ancestors[b]
    BY <1>1, <2>1, <2>2, TreeAssumption DEF ConnectBlock
  <2>4. \A u \in Thread : pending[u] = None
    BY <1>1 DEF ConnectBlock, MayCall
  <2>5. \A u \in Thread : pending'[u] # None => pending'[u] = b
    BY <1>1, <2>4 DEF ConnectBlock
  <2> QED BY <2>1, <2>3, <2>5
<1>2. ASSUME NEW t \in Thread, NEW b \in Block \ {Genesis}, ConnectFails(t, b)
      PROVE  ChainInv'
  BY <1>2 DEF ConnectFails, NoFlush, FlushRolledBack
<1>3. ASSUME NEW t \in Thread, FlushIfNeeded(t) PROVE ChainInv'
  <2>1. dbFlushed' \in {dbFlushed, dbTip}
    BY <1>3 DEF FlushIfNeeded, Flush, NoFlush, FlushRolledBack
  <2>2. \A u \in Thread : pending'[u] # None => pending'[u] = pending[u]
    BY <1>3 DEF FlushIfNeeded
  <2> QED BY <1>3, <2>1, <2>2, Branch DEF FlushIfNeeded
<1>4. ASSUME NEW t \in Thread, DisconnectBlock(t) PROVE ChainInv'
  <2>1. Parent[at] \in Block
    BY <1>4, TreeAssumption DEF DisconnectBlock
  <2>2. \A u \in Thread : pending[u] = None
    BY <1>4 DEF DisconnectBlock, MayCall
  <2> QED BY <1>4, <2>1, <2>2, Branch DEF DisconnectBlock, MayCall
<1>5. ASSUME NEW t \in Thread, DisconnectFails(t) PROVE ChainInv'
  BY <1>5 DEF DisconnectFails, FlushRolledBack
<1>6. ASSUME NEW c \in Coin, FetchEntries(c) PROVE ChainInv'
  BY <1>6, ZenonT(60) DEF FetchEntries
<1>7. CASE FlushUtxoCache
  <2>1. dbFlushed' \in {dbFlushed, dbTip}
    BY <1>7 DEF FlushUtxoCache, Flush, FlushRolledBack
  <2> QED BY <1>7, <2>1, Branch DEF FlushUtxoCache
<1>8. CASE Crash
  BY <1>8 DEF Crash, IsFork
<1>9. CASE ReplayBlock
  <2>1. PICK b \in Ancestors[dbTip] \ {Genesis} :
          \/ mode' = "down" /\ UNCHANGED dbFlushed
          \/ at' = b /\ mode' = mode /\ dbFlushed' \in {dbFlushed, b}
    BY <1>9, ZenonT(60) DEF ReplayBlock, Flush, NoFlush
  <2>2. mode = "replay" /\ UNCHANGED <<dbTip, pending>>
    BY <1>9 DEF ReplayBlock
  <2> QED BY <2>1, <2>2
<1>10. CASE ReplayDone
  BY <1>10, ZenonT(60) DEF ReplayDone
<1>11. CASE UNCHANGED vars
  BY <1>11 DEF vars
<1> HIDE DEF ChainInv, TypeOK, ReplayStartsOnChain
<1> QED BY <1>1, <1>2, <1>3, <1>4, <1>5, <1>6, <1>7, <1>8, <1>9, <1>10, <1>11 DEF Next

\* With one caller at a time InitConsistentState finds the last flush on the
\* best chain after a crash at any moment, even if flushes were rolled back.
THEOREM ReplayAlwaysStartsOnChain == OneCaller /\ Spec => []ReplayStartsOnChain
<1>1. Init => ChainInv
  BY TreeAssumption, ConfigAssumption, Branch
     DEF Init, ChainInv, TypeOK, ReplayStartsOnChain, Empty, Entry
<1>2. OneCaller /\ TypeOK' /\ ChainInv /\ [Next]_vars => ChainInv'
  BY ChainStep
<1>3. ChainInv => ReplayStartsOnChain
  BY DEF ChainInv
<1>4. CASE OneCaller
  BY <1>1, <1>2, <1>3, <1>4, TypeCorrect, PTL DEF Spec
<1> QED BY <1>4

(***************************************************************************)
(* What readers see.                                                       *)
(***************************************************************************)

\* The entry of an output against the database and the set at `at`.
CoinOK(c) ==
  /\ cache[c] = "absent" => (c \in db <=> c \in UtxoAt(at))
  /\ cache[c] = "nil" => c \notin db /\ c \notin UtxoAt(at)
  /\ cache[c] = "clean" => c \in db /\ c \in UtxoAt(at)
  /\ cache[c] = "fresh" => c \notin db /\ c \in UtxoAt(at)
  /\ cache[c] = "spent" => c \in db /\ c \notin UtxoAt(at)

SetInv ==
  /\ ChainInv
  /\ DiskConsistent
  /\ mode # "down" => dbFlushed \in Ancestors[at] /\ \A c \in Coin : CoinOK(c)

\* Writing a correct cache leaves the set at `at` on disk.
LEMMA WriteOK ==
  ASSUME SetInv, mode # "down"
  PROVE  WriteCache(cache) = UtxoAt(at)
<1>1. UtxoAt(at) \subseteq Coin
  BY DEF UtxoAt
<1>2. \A c \in Coin : c \in WriteCache(cache) <=> c \in UtxoAt(at)
  BY DEF WriteCache, SetInv, CoinOK, ChainInv, TypeOK, Entry
<1> QED BY <1>1, <1>2 DEF WriteCache

\* What connecting a child of `at` does to the entries.
LEMMA ConnectOK ==
  ASSUME SetInv, mode # "down", NEW b \in Block \ {Genesis}, Parent[b] = at
  PROVE  /\ ~MissingInput(b)
         /\ \A c \in Coin : LET e == ConnectTransactions(b)[c] IN
              /\ e = "absent" => (c \in db <=> c \in UtxoAt(b))
              /\ e = "nil" => c \notin db /\ c \notin UtxoAt(b)
              /\ e = "clean" => c \in db /\ c \in UtxoAt(b)
              /\ e = "fresh" => c \notin db /\ c \in UtxoAt(b)
              /\ e = "spent" => c \in db /\ c \notin UtxoAt(b)
         /\ WriteCache(ConnectTransactions(b)) = UtxoAt(b)
<1> DEFINE ct == ConnectTransactions(b)
<1>1. \A c \in Coin : CoinOK(c) /\ cache[c] \in Entry
  BY DEF SetInv, ChainInv, TypeOK
<1>2. /\ UtxoAt(b) = (UtxoAt(at) \cup Creates[b]) \ Spends[b]
      /\ Spends[b] \ Creates[b] \subseteq UtxoAt(at)
      /\ Creates[b] \cap UtxoAt(at) = {}
      /\ Creates[b] \cap db = {}
  <2>1. at \in Block /\ at \in Ancestors[at] /\ dbFlushed \in Ancestors[at]
    BY Branch DEF SetInv, ChainInv, TypeOK
  <2> QED BY <2>1, ConnectStep DEF SetInv, DiskConsistent
<1>3. ~MissingInput(b)
  BY <1>1, <1>2, CoinAssumption, ZenonT(60) DEF MissingInput, FetchEntry, CoinOK
<1>4. ASSUME NEW c \in Coin
      PROVE  /\ ct[c] \in Entry
             /\ ct[c] = "absent" => (c \in db <=> c \in UtxoAt(b))
             /\ ct[c] = "nil" => c \notin db /\ c \notin UtxoAt(b)
             /\ ct[c] = "clean" => c \in db /\ c \in UtxoAt(b)
             /\ ct[c] = "fresh" => c \notin db /\ c \in UtxoAt(b)
             /\ ct[c] = "spent" => c \in db /\ c \notin UtxoAt(b)
  <2>1. CASE c \in Creates[b]
    BY <1>2, <2>1, ZenonT(60) DEF ConnectTransactions, SpendEntry, Entry
  <2>2. CASE c \notin Creates[b] /\ c \in Spends[b]
    BY <1>1, <1>2, <2>2, ZenonT(60) DEF ConnectTransactions, SpendEntry, FetchEntry, CoinOK, Entry
  <2>3. CASE c \notin Creates[b] /\ c \notin Spends[b]
    BY <1>1, <1>2, <2>3 DEF ConnectTransactions, CoinOK
  <2> QED BY <2>1, <2>2, <2>3, ZenonT(60)
<1>5. WriteCache(ct) = UtxoAt(b)
  <2> HIDE DEF ct
  <2>1. \A c \in Coin : c \in WriteCache(ct) <=> c \in UtxoAt(b)
    BY <1>4, ZenonT(60) DEF WriteCache, Entry
  <2> QED BY <2>1 DEF WriteCache, UtxoAt
<1> QED BY <1>3, <1>4, <1>5, ZenonT(60)

\* With one caller at a time and no failed transaction SetInv is inductive.
LEMMA SetStep ==
  ASSUME OneCaller, ~DbMayFail, SetInv, ChainInv', [Next]_vars
  PROVE  SetInv'
<1> USE DEF SetInv, DiskConsistent
<1>a. at \in Block /\ dbTip \in Block /\ dbFlushed \in Block /\ cache \in [Coin -> Entry]
  BY DEF ChainInv, TypeOK
<1>1. ASSUME NEW t \in Thread, NEW b \in Block \ {Genesis}, ConnectBlock(t, b)
      PROVE  SetInv'
  <2>1. mode = "run" /\ Parent[b] = at /\ at' = b
    BY <1>1, ZenonT(60) DEF ConnectBlock, MayCall
  <2>2. \/ Flush(ConnectTransactions(b), b)
        \/ NoFlush(ConnectTransactions(b))
    BY <1>1 DEF ConnectBlock
  <2>3. b \in Ancestors[b] /\ Ancestors[at] \subseteq Ancestors[b]
    BY <2>1, ParentBranch, ZenonT(60)
  <2>4. CASE Flush(ConnectTransactions(b), b)
    BY <2>1, <2>3, <2>4, ConnectOK, ZenonT(60) DEF Flush, Empty, CoinOK
  <2>5. CASE NoFlush(ConnectTransactions(b))
    BY <2>1, <2>3, <2>5, ConnectOK DEF NoFlush, CoinOK
  <2> QED BY <2>2, <2>4, <2>5, ZenonT(60)
<1>2. ASSUME NEW t \in Thread, NEW b \in Block \ {Genesis}, ConnectFails(t, b)
      PROVE  SetInv'
  BY <1>2, ConnectOK, ZenonT(60) DEF ConnectFails, MayCall
<1>3. ASSUME NEW t \in Thread, FlushIfNeeded(t) PROVE SetInv'
  <2>1. mode = "run" /\ mode' = mode /\ at' = at /\ pending[t] = at
    BY <1>3, ZenonT(60) DEF FlushIfNeeded, ChainInv
  <2>2. NoFlush(cache) \/ Flush(cache, at)
    BY <1>3, <2>1, ZenonT(60) DEF FlushIfNeeded
  <2>3. CASE NoFlush(cache)
    BY <2>1, <2>3, ZenonT(60) DEF NoFlush, CoinOK
  <2>4. CASE Flush(cache, at)
    BY <1>a, <2>1, <2>4, WriteOK, Branch, ZenonT(60) DEF Flush, Empty, CoinOK
  <2> QED BY <2>2, <2>3, <2>4, ZenonT(60)
<1>4. ASSUME NEW t \in Thread, DisconnectBlock(t) PROVE SetInv'
  <2>1. at \in Block \ {Genesis} /\ mode = "run"
    BY <1>4, <1>a DEF DisconnectBlock, MayCall
  <2>2. Parent[at] \in Ancestors[Parent[at]]
    BY <2>1, ConnectStep, Branch
  <2>3. db' = UtxoAt(Parent[at])
    BY <1>4, <2>1, WriteOK, DisconnectStep, ZenonT(60) DEF DisconnectBlock
  <2> QED BY <1>4, <2>2, <2>3 DEF DisconnectBlock, Empty, CoinOK
<1>5. ASSUME NEW t \in Thread, DisconnectFails(t) PROVE SetInv'
  BY <1>5 DEF DisconnectFails
<1>6. ASSUME NEW c \in Coin, FetchEntries(c) PROVE SetInv'
  <2>1. mode = "run" /\ UNCHANGED <<db, dbFlushed, mode, at>>
    BY <1>6 DEF FetchEntries
  <2>2. cache' = [cache EXCEPT ![c] = FetchEntry(c)]
    BY <1>6, ZenonT(60) DEF FetchEntries
  <2>3. ASSUME NEW d \in Coin PROVE CoinOK(d)'
    BY <1>a, <2>1, <2>2, ZenonT(60) DEF CoinOK, FetchEntry
  <2> QED BY <2>1, <2>3
<1>7. CASE FlushUtxoCache
  <2>1. mode = "run" /\ mode' = mode /\ at' = at /\ Flush(cache, at)
    BY <1>7 DEF FlushUtxoCache
  <2> QED BY <1>a, <2>1, WriteOK, Branch DEF Flush, Empty, CoinOK
<1>8. CASE Crash
  <2>1. PICK f \in Block : IsFork(f) /\ at' = f
    BY <1>8, ZenonT(60) DEF Crash
  <2>2. dbFlushed \in Ancestors[dbFlushed] \cap Ancestors[dbTip]
    BY <1>a, Branch DEF ChainInv, ReplayStartsOnChain
  <2>3. f = dbFlushed
    <3>1. f \in Ancestors[dbFlushed] /\ Height[dbFlushed] <= Height[f]
      BY <2>1, <2>2 DEF IsFork
    <3>2. Height[f] \in Nat /\ Height[dbFlushed] \in Nat
      BY <1>a, TreeAssumption
    <3>3. f = dbFlushed \/ Height[f] < Height[dbFlushed]
      BY <1>a, <3>1, TreeAssumption, ZenonT(60)
    <3> QED BY <3>1, <3>2, <3>3
  <2> QED BY <1>8, <2>1, <2>2, <2>3, ZenonT(60) DEF Crash, Empty, CoinOK
<1>9. CASE ReplayBlock
  <2>1. PICK b \in Ancestors[dbTip] \ {Genesis} :
          /\ Parent[b] = at
          /\ IF b \in pruned \/ MissingInput(b)
             THEN /\ mode' = "down"
                  /\ UNCHANGED <<cache, lastFlush, db, dbFlushed, at>>
             ELSE /\ \/ NoFlush(ConnectTransactions(b))
                     \/ Flush(ConnectTransactions(b), b)
                  /\ at' = b
                  /\ UNCHANGED mode
    BY <1>9, ZenonT(60) DEF ReplayBlock
  <2>2. b \in Block \ {Genesis} /\ mode = "replay"
    BY <1>9, <1>a, Branch DEF ReplayBlock
  <2>3. b \in Ancestors[b] /\ Ancestors[at] \subseteq Ancestors[b]
    BY <2>1, <2>2, ParentBranch, ZenonT(60)
  <2>4. CASE b \in pruned
    BY <2>1, <2>4, ZenonT(60)
  <2>5. CASE b \notin pruned /\ NoFlush(ConnectTransactions(b))
    BY <2>1, <2>2, <2>3, <2>5, ConnectOK, ZenonT(60) DEF NoFlush, CoinOK
  <2>6. CASE b \notin pruned /\ Flush(ConnectTransactions(b), b)
    BY <2>1, <2>2, <2>3, <2>6, ConnectOK, ZenonT(60) DEF Flush, Empty, CoinOK
  <2> QED BY <2>1, <2>2, <2>4, <2>5, <2>6, ConnectOK, ZenonT(60)
<1>10. CASE ReplayDone
  BY <1>10, ZenonT(60) DEF ReplayDone, CoinOK
<1>11. CASE UNCHANGED vars
  BY <1>11 DEF vars, CoinOK
<1> QED BY <1>1, <1>2, <1>3, <1>4, <1>5, <1>6, <1>7, <1>8, <1>9, <1>10, <1>11, ZenonT(60) DEF Next

\* SetInv holds in every state.
LEMMA SetAlways == OneCaller /\ ~DbMayFail /\ Spec => []SetInv
<1>1. Init => SetInv
  BY TreeAssumption, ConfigAssumption, Branch, UtxoAtGenesis
     DEF Init, SetInv, ChainInv, DiskConsistent, CoinOK, TypeOK, ReplayStartsOnChain,
         Empty, Entry
<1>2. OneCaller /\ TypeOK' /\ SetInv /\ [Next]_vars => ChainInv'
  BY ChainStep DEF SetInv
<1>3. OneCaller /\ ~DbMayFail /\ ChainInv' /\ SetInv /\ [Next]_vars => SetInv'
  BY SetStep
<1>4. CASE OneCaller /\ ~DbMayFail
  BY <1>1, <1>2, <1>3, <1>4, TypeCorrect, PTL DEF Spec
<1> QED BY <1>4, ZenonT(60)

\* What is on disk is the set at the block of the consistency hash, so a crash
\* at any moment leaves a state the replay can start from.
THEOREM DiskAlwaysConsistent == OneCaller /\ ~DbMayFail /\ Spec => []DiskConsistent
<1>1. SetInv => DiskConsistent
  BY DEF SetInv
<1> QED BY <1>1, SetAlways, PTL

\* The set the readers are promised is the one of the best chain.
LEMMA PromisedOK == ASSUME SetInv PROVE Promised = UtxoAt(dbTip)
<1>1. CASE mode = "run"
  <2>1. at = dbTip /\ UtxoAt(at) \subseteq Coin
    BY <1>1 DEF SetInv, ChainInv, UtxoAt
  <2>2. \A c \in Coin : c \in Effective <=> c \in UtxoAt(at)
    BY <1>1, ZenonT(60) DEF Effective, SetInv, CoinOK, ChainInv, TypeOK, Entry
  <2> QED BY <1>1, <2>1, <2>2 DEF Promised, Effective
<1> QED BY <1>1 DEF Promised

\* The best chain moves by a block at a time or not at all.
LEMMA TipStep ==
  ASSUME ChainInv, [Next]_vars
  PROVE  \/ dbTip' = dbTip
         \/ \E b \in Block \ {Genesis} : Parent[b] = dbTip /\ dbTip' = b
         \/ dbTip # Genesis /\ dbTip' = Parent[dbTip]
<1>1. ASSUME NEW t \in Thread, NEW b \in Block \ {Genesis}, ConnectBlock(t, b)
      PROVE  Parent[b] = dbTip /\ dbTip' = b
  BY <1>1 DEF ConnectBlock, MayCall, ChainInv
<1>2. ASSUME NEW t \in Thread, DisconnectBlock(t)
      PROVE  dbTip # Genesis /\ dbTip' = Parent[dbTip]
  BY <1>2 DEF DisconnectBlock, MayCall, ChainInv
<1> QED BY <1>1, <1>2, ZenonT(60) DEF Next, vars, ConnectFails, FlushIfNeeded, DisconnectFails,
           FetchEntries, FlushUtxoCache, Crash, ReplayBlock, ReplayDone

\* Cache, database, flushes, crashes and replays together implement UtxoSet:
\* FetchUtxoEntry answers from the unspent outputs of the best chain.
THEOREM CacheImplementsUtxoSet == OneCaller /\ ~DbMayFail /\ Spec => ImplementsUtxoSet
<1>1. Init => Abs!Init
  BY ZenonT(60) DEF Init, Abs!Init, Promised, Effective, Empty
<1>2. SetInv /\ SetInv' /\ [Next]_vars => [Abs!Next]_<<dbTip, Promised>>
  <2> SUFFICES ASSUME SetInv, SetInv', [Next]_vars
               PROVE  [Abs!Next]_<<dbTip, Promised>>
    OBVIOUS
  <2>1. Promised = UtxoAt(dbTip)
    BY PromisedOK
  <2>2. Promised' = UtxoAt(dbTip')
    <3>1. CASE mode' = "run"
      <4>1. at' = dbTip' /\ UtxoAt(at') \subseteq Coin
        BY <3>1, ZenonT(60) DEF SetInv, ChainInv, UtxoAt
      <4>2. \A c \in Coin : c \in Effective' <=> c \in UtxoAt(at')
        BY <3>1, ZenonT(60) DEF Effective, SetInv, CoinOK, ChainInv, TypeOK, Entry
      <4> QED BY <3>1, <4>1, <4>2 DEF Promised, Effective
    <3> QED BY <3>1 DEF Promised
  <2>3. dbTip \in Block /\ ChainInv
    BY DEF SetInv, ChainInv, TypeOK
  <2>4. CASE dbTip' = dbTip
    BY <2>1, <2>2, <2>4, ZenonT(60)
  <2>5. ASSUME NEW b \in Block \ {Genesis}, Parent[b] = dbTip, dbTip' = b
        PROVE  Abs!Next
    BY <2>1, <2>2, <2>5, ConnectStep, ZenonT(60) DEF Abs!Next, Abs!Connect
  <2>6. CASE dbTip # Genesis /\ dbTip' = Parent[dbTip]
    BY <2>1, <2>2, <2>3, <2>6, DisconnectStep DEF Abs!Next, Abs!Disconnect
  <2> QED BY <2>3, <2>4, <2>5, <2>6, TipStep
<1> QED BY <1>1, <1>2, SetAlways, PTL DEF Spec, ImplementsUtxoSet, Abs!Spec

================================================================================
