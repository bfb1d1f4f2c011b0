------------------------------ MODULE MCStorage ------------------------------
(***************************************************************************)
(* What the node keeps on disk: the utxo cache, the block database with    *)
(* its cache, treaps, buckets and open files, the serialized chain state   *)
(* and its upgrades, and the optional indexes.                             *)
(*                                                                         *)
(* part says which component takes the steps of a behaviour; a component's *)
(* variables are the first of the slots x1, x2, ...                        *)
(***************************************************************************)
EXTENDS UtxoCache, Sequences, TLC

CONSTANTS Parts

VARIABLES part, x1, x2, x3, x4, x5, x6, x7, x8, x9, x10, x11

-----------------------------------------------------------------------------
(***************************************************************************)
(* Instances of UtxoCache for TLC.                                         *)
(*                                                                         *)
(*              +- a2 -- a3      a1 creates u, v                           *)
(*    G -- a1 --+                a2 spends u; creates w and, spent in the  *)
(*              +- b2 -- b3         same block, x                          *)
(*                               a3 spends v and w                         *)
(*                               b2 carries the transaction that makes w   *)
(*                               b3 spends w and v, creates y              *)
(***************************************************************************)
MasterParent == [a1 |-> "G", a2 |-> "a1", a3 |-> "a2", b2 |-> "a1", b3 |-> "b2"]

MCParent == [b \in Block \ {Genesis} |-> MasterParent[b]]

MCAncestors ==
  LET anc[b \in Block] == IF b = Genesis THEN {b} ELSE {b} \cup anc[MCParent[b]]
  IN  anc

MCHeight == [b \in Block |-> Cardinality(MCAncestors[b]) - 1]

MCCreates ==
  [b \in Block |-> CASE b = "a1" -> {"u", "v"} [] b = "a2" -> {"w", "x"}
                     [] b = "b2" -> {"w"} [] b = "b3" -> {"y"} [] OTHER -> {}]

MCSpends ==
  [b \in Block |-> CASE b = "a2" -> {"u", "x"} [] b = "a3" -> {"v", "w"}
                     [] b = "b2" -> {"u"} [] b = "b3" -> {"w", "v"} [] OTHER -> {}]

\* The utxo cache when transactions of the database fail and blocks are pruned.
FewBlocks == Block \ {"a3"}

UF == INSTANCE UtxoCache WITH
      Block <- FewBlocks, Genesis <- Genesis,
      Parent <- [b \in FewBlocks \ {Genesis} |-> Parent[b]],
      Ancestors <- [b \in FewBlocks |-> Ancestors[b]],
      Height <- [b \in FewBlocks |-> Height[b]], Coin <- Coin,
      Creates <- [b \in FewBlocks |-> Creates[b]],
      Spends <- [b \in FewBlocks |-> Spends[b]], Thread <- Thread, None <- None,
      OneCaller <- TRUE, MayPrune <- TRUE, MayCrash <- TRUE, DbMayFail <- TRUE,
      cache <- x1, lastFlush <- x2, db <- x3, dbTip <- x4, dbFlushed <- x5,
      pruned <- x6, mode <- x7, at <- x8, pending <- x9

\* Two blocks that fill a file each, one reader, a fault and a crash.
FD == INSTANCE Ffldb WITH
      Blocks <- {"b1", "b2"}, BlocksPerFile <- 1, TargetFiles <- 1,
      Readers <- {"r1"}, MaxTxs <- 2, MaxFaults <- 1, MaxCrashes <- 1,
      Threads <- {}, maxOpenFiles <- 0, MaxFiles <- 0, MaxReads <- 0,
      disk <- x1, ldb <- x2, cache <- x3, wc <- x4, w <- x5, r <- x6,
      pruneLock <- x7, st <- x8, hist <- x9, used <- x10, wcur <- 0, wcLock <- 0,
      obf <- 0, obfLock <- 0, lru <- 0, hd <- 0, th <- 0, wpc <- 0

\* Treaps of up to three keys under both priorities.
TI == INSTANCE DbBuckets WITH
      Width <- 0, MaxBuckets <- 0, Keys <- 1..3, Sizes <- {0, 1},
      Priorities <- {1, 2}, MaxNodes <- 12, MaxVersions <- 3, MaxOps <- 4,
      Kinds <- {"immutable"},
      kind <- x1, h <- x2, t <- x3, held <- x4, it <- x5, ops <- x6, snap <- 0,
      removed <- 0, cur <- 0, lastID <- 0, tree <- 0

TM == INSTANCE DbBuckets WITH
      Width <- 0, MaxBuckets <- 0, Keys <- 1..3, Sizes <- {0}, Priorities <- {1, 2},
      MaxNodes <- 12, MaxVersions <- 3, MaxOps <- 4, Kinds <- {"mutable"},
      kind <- x1, h <- x2, t <- x3, held <- x4, it <- x5, ops <- x6, snap <- 0,
      removed <- 0, cur <- 0, lastID <- 0, tree <- 0

\* A cursor over the snapshot and the pending keys; the tree of buckets.
BK == INSTANCE DbBuckets WITH
      Keys <- 1..3, Sizes <- {0}, Priorities <- {1, 2}, MaxNodes <- 6,
      MaxVersions <- 1, MaxOps <- 4, Kinds <- {"cursor", "buckets"}, Width <- 2,
      MaxBuckets <- 2,
      kind <- x1, h <- x2, t <- x3, held <- x4, it <- x5, ops <- x6, snap <- x7,
      removed <- x8, cur <- x9, lastID <- x10, tree <- x11

\* Two threads, one open file allowed.
BF == INSTANCE Ffldb WITH
      Threads <- {"ga", "gb"}, maxOpenFiles <- 1, MaxFiles <- 3, MaxReads <- 2,
      Blocks <- {}, BlocksPerFile <- 0, TargetFiles <- 0, Readers <- {},
      MaxTxs <- 0, MaxFaults <- 0, MaxCrashes <- 0,
      wcur <- x1, wcLock <- x2, obf <- x3, obfLock <- x4, lru <- x5, hd <- x6,
      th <- x7, wpc <- x8, disk <- 0, ldb <- 0, cache <- 0, wc <- 0, w <- 0, r <- 0,
      pruneLock <- 0, st <- 0, hist <- 0, used <- 0

\* Genesis "g", the branch "ba" - "bb" and the block "bc".  A transaction of ba is
\* in bc too.  The addresses share their hash and differ in version and length.
Addr(v, n) == [version |-> v, len |-> n, hash |-> 1]
A0 == Addr(0, 20)
A1 == Addr(1, 32)
A2 == Addr(2, 32)
A3 == Addr(40, 32)
Mined(i, a) == [id |-> <<"cb", i>>, ins |-> <<>>, outs |-> <<a>>]
Shared == [id |-> <<"t", 0>>, ins |-> <<A0>>, outs |-> <<A1, A2>>]
IndexedTxs == [g |-> <<Mined(0, A0)>>, ba |-> <<Mined(1, A1), Shared>>, bb |-> <<Mined(2, A1)>>,
               bc |-> <<Mined(3, A2), Shared, [id |-> <<"u", 0>>, ins |-> <<A2, A3>>, outs |-> <<A1>>]>>]

IM == INSTANCE IndexManager WITH
      Topics <- {"chain", "levels", "unconfirmed"},
      Blocks <- {"g", "ba", "bb", "bc"}, NoBlock <- "none",
      Parent <- [g |-> "none", ba |-> "g", bb |-> "ba", bc |-> "g"],
      TxsOf <- IndexedTxs, Addrs <- {A0, A1, A2, A3}, Increment <- 2,
      MaxDeletions <- 2, MaxEntries <- 16, MaxStarts <- 3, MaxMoves <- 3,
      MaxFaults <- 1, PruneAllowed <- TRUE, level0MaxEntries <- 2, NumLevels <- 5,
      topic <- x1, db <- x2, chain <- x3, proc <- x4, used <- x5, lv <- x6,
      unconf <- x7

\* The values that are stored and read back, and the old databases to upgrade.

CC == INSTANCE DbUpgrade WITH Group <- 8, ValidX <- {1, 2}, Topics <- 0, Values <- 0,
        JournalOf <- 0, OldTxs <- 0, MaxUtxos <- 0, Trees <- 0, ZeroHash <- 0, MaxStarts <- 0,
        MaxMoves <- 0, topic <- 0, item <- 0, journal <- 0, disk <- 0, proc <- 0, used <- 0

Byte(b) == CC!Byte(b)
D(x, w) == CC!Data(x, w)

Addresses == {[version |-> 0, hash |-> D(1, 20)], [version |-> 0, hash |-> D(2, 32)],
              [version |-> 16, hash |-> D(3, 2)], [version |-> 17, hash |-> D(4, 40)],
              CC!NoAddress}

\* Items of the sizes at which the length prefix grows.
Covenants == {CC!NoCovenant,
              [type |-> 3, items |-> <<D(7, 32), D(0, 0), D(8, 252)>>],
              [type |-> 7, items |-> <<D(7, 32), D(9, 253), D(5, 585)>>]}

\* Amounts that compress in each of the ways compressTxOutAmount has.
Amounts == {0, 1, 9, 10, 99, 101, 1000, 12345678, 50000000, 100000000, 1000000000, 2000000000}

Output(a, c, m, h, b) ==
  [amount |-> m, address |-> a, covenant |-> c, pkScript |-> CC!txOutPkScript(a),
   height |-> h, coinbase |-> b]

Outputs == {Output(a, c, m, h, b) :
              a \in Addresses, c \in Covenants, m \in Amounts, h \in {0, 35}, b \in BOOLEAN}

\* Scripts of every kind that compressScript tells apart.
Scripts ==
  {<<>>, <<Byte(81)>>,
   <<Byte(0), Byte(20), D(1, 20)>>, <<Byte(0), Byte(32), D(2, 32)>>, <<Byte(96), Byte(2), D(3, 2)>>,
   <<Byte(118), Byte(169), Byte(20), D(1, 20), Byte(136), Byte(172)>>,
   <<Byte(169), Byte(20), D(1, 20), Byte(135)>>,
   <<Byte(33), Byte(3), D(1, 32), Byte(172)>>, <<Byte(33), Byte(2), D(9, 32), Byte(172)>>}
  \cup {<<Byte(65), Byte(4), D(1, 32), D(y, 32), Byte(172)>> : y \in {2, 3, 5}}

OldOutputs ==
  {[amount |-> m, address |-> CC!addressFromPkScript(s).v, covenant |-> CC!NoCovenant,
    pkScript |-> s, height |-> h, coinbase |-> b] :
     m \in Amounts, s \in Scripts, h \in {0, 35}, b \in BOOLEAN}

oa == Output([version |-> 0, hash |-> D(1, 20)], CC!NoCovenant, 50, 3, TRUE)
ob == Output([version |-> 1, hash |-> D(2, 32)], CC!NoCovenant, 1000, 0, FALSE)
oc == Output([version |-> 17, hash |-> D(2, 32)], [type |-> 3, items |-> <<D(7, 32)>>],
                   7, 9, FALSE)

Of(kind, S) == {[kind |-> kind, v |-> v] : v \in S}

StoredItems ==
  <<Of("utxo", Outputs), Of("utxoV2", OldOutputs),
    Of("stxos", {<<>>, <<oa>>, <<ob, oa>>, <<oa, oc, ob>>}),
    Of("best", {[hash |-> 1, height |-> 5, totalTxns |-> 9, workSum |-> n] : n \in {0, 1, 15, 16, 300}}),
    Of("row", {[header |-> 3, status |-> 5]})>>

\* The outputs each block of a journal spends.
Journals == <<<<oa, ob>>, <<ob>>, <<>>>>

P(n, m) == [amount |-> m, pkScript |-> <<Byte(0), Byte(20), D(n, 20)>>]
Q(n, m) == [amount |-> m, pkScript |-> <<Byte(81), Byte(32), D(n, 32)>>]
Tx(h, b, f) == [height |-> h, coinbase |-> b, outs |-> f]

\* Utxo sets of version 1: one entry for a transaction, its outputs in a bitmap.
OldSets ==
  {(1 :> Tx(2, TRUE, 0 :> P(1, 50))) @@ (2 :> Tx(9, FALSE, f)) @@ (3 :> Tx(0, FALSE, g)) :
     f \in {1 :> Q(2, 7), 2 :> P(2, 0), (0 :> P(1, 1)) @@ (10 :> Q(1, 20))},
     g \in {(0 :> P(1, 1)) @@ (1 :> Q(1, 3)), 17 :> P(2, 9), (2 :> P(2, 9)) @@ (9 :> P(2, 100))}}

\* The block trees of up to four blocks, as the parent of each block.
BlockTrees ==
  {t \in UNION {[1..n -> 0..n] : n \in 1..4} :
     t[1] = 0 /\ \A i \in DOMAIN t : t[i] < i /\ (i > 1 => t[i] > 0)}

\* Encoding each stored value, and upgrading old databases.
UP == INSTANCE DbUpgrade WITH
      Group <- 8, ValidX <- {1, 2},
      Topics <- {"store", "journal", "utxos", "index"}, Values <- StoredItems,
      JournalOf <- Journals, OldTxs <- OldSets, MaxUtxos <- 2, Trees <- BlockTrees,
      ZeroHash <- 0, MaxStarts <- 3, MaxMoves <- 4,
      topic <- x1, item <- x2, journal <- x3, disk <- x4, proc <- x5, used <- x6

-----------------------------------------------------------------------------
\* A variable that the acting component does not have holds NoValue.
NoValue == 0

Idle11 == x11 = NoValue
Idle10 == x10 = NoValue /\ Idle11
Idle9 == x9 = NoValue /\ Idle10
Idle8 == x8 = NoValue /\ Idle9
Idle7 == x7 = NoValue /\ Idle8
Idle6 == x6 = NoValue /\ Idle7
Idle5 == x5 = NoValue /\ Idle6
Idle4 == x4 = NoValue /\ Idle5
Idle3 == x3 = NoValue /\ Idle4
Idle2 == x2 = NoValue /\ Idle3
Idle1 == x1 = NoValue /\ Idle2

UtxoPart == /\ part = "utxo" /\ Next
            /\ UNCHANGED <<part, x1, x2, x3, x4, x5, x6, x7, x8, x9, x10, x11>>
UtxoFailuresPart == /\ part = "utxo_failures" /\ UF!Next
                    /\ UNCHANGED <<part, x10, x11, vars>>
FfldbPart == /\ part = "ffldb" /\ FD!DbNext
             /\ UNCHANGED <<part, x11, vars>>
ImmutablePart == /\ part = "immutable" /\ TI!TrNext
                 /\ UNCHANGED <<part, x7, x8, x9, x10, x11, vars>>
MutablePart == /\ part = "mutable" /\ TM!TrNext
               /\ UNCHANGED <<part, x7, x8, x9, x10, x11, vars>>
BucketsPart == /\ part = "buckets" /\ BK!DbkNext
               /\ UNCHANGED <<part, vars>>
FilesPart == /\ part = "files" /\ BF!BfNext
             /\ UNCHANGED <<part, x9, x10, x11, vars>>
IndexesPart == /\ part = "indexes" /\ IM!ImNext
               /\ UNCHANGED <<part, x8, x9, x10, x11, vars>>
UpgradePart == /\ part = "upgrade" /\ UP!UNext
               /\ UNCHANGED <<part, x7, x8, x9, x10, x11, vars>>

MCInit ==
  /\ part \in Parts
  /\ Init
  /\ \/ part = "utxo" /\ Idle1
     \/ part = "utxo_failures" /\ UF!Init /\ Idle10
     \/ part = "ffldb" /\ FD!DbInit /\ Idle11
     \/ part = "immutable" /\ TI!TrInit /\ Idle7
     \/ part = "mutable" /\ TM!TrInit /\ Idle7
     \/ part = "buckets" /\ BK!DbkInit
     \/ part = "files" /\ BF!BfInit /\ Idle9
     \/ part = "indexes" /\ IM!ImInit /\ Idle8
     \/ part = "upgrade" /\ UP!UInit /\ Idle7

MCNext == UtxoPart \/ UtxoFailuresPart \/ FfldbPart \/ ImmutablePart \/ MutablePart
  \/ BucketsPart \/ FilesPart \/ IndexesPart \/ UpgradePart

mcvars == <<part, x1, x2, x3, x4, x5, x6, x7, x8, x9, x10, x11, vars>>

MCSpec == MCInit /\ [][MCNext]_mcvars

-----------------------------------------------------------------------------
\* ReplayStartsOnChain and ReplayPossible of UtxoCache: after any crash the
\* stored set is that of a block of the stored chain whose successors can be
\* read again, also when database transactions fail and blocks are pruned.
ReplaySound ==
  /\ part = "utxo" => ReplayStartsOnChain
  /\ part = "utxo_failures" => UF!ReplayStartsOnChain /\ UF!ReplayPossible

\* BlocksReadable, RestartOpens, DurableIsPrefix and HandlesSound of Ffldb: a
\* block a transaction can see can be read, the database opens after any crash
\* with the result of a prefix of the committed transactions, and no open file
\* is closed while it is read.
DatabaseSound ==
  /\ part = "ffldb" => FD!BlocksReadable /\ FD!RestartOpens /\ FD!DurableIsPrefix
  /\ part = "files" => BF!HandlesSound

\* VersionsKept and BucketsExact of DbBuckets, IndexesExact of IndexManager and
\* StorageExact of DbUpgrade: an update changes neither an older version of an
\* immutable treap nor the keys of another bucket, and what is read back from the
\* indexes and from the stored chain state is what was written.
StoredDataExact ==
  /\ part = "immutable" => TI!VersionsKept
  /\ part = "mutable" => TM!VersionsKept
  /\ part = "buckets" => BK!BucketsExact
  /\ part = "indexes" => IM!IndexesExact
  /\ part = "upgrade" => UP!StorageExact

\* IteratorFollows and CursorInOrder of DbBuckets: whatever is put or
\* deleted meanwhile, an iterator or a cursor goes to the nearest key.
IteratorsFollow ==
  [][/\ part = "immutable" => TI!IteratorStep
     /\ part = "mutable" => TM!IteratorStep
     /\ part = "buckets" => BK!CursorVisits]_mcvars
=============================================================================
