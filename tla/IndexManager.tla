---------------------------- MODULE IndexManager ----------------------------
(***************************************************************************)
(* The optional indexes (blockchain/indexers): the transaction index with  *)
(* its block IDs, the address index, the committed filter index, and the   *)
(* manager that creates, rolls back, catches up, follows and drops them    *)
(* (manager.go, txindex.go, addrindex.go, cfindex.go), with the checks     *)
(* main.go makes on the configuration before it starts them.               *)
(*                                                                         *)
(* Every database transaction is one step.  The chain state is written in  *)
(* the same transactions, so a crash that loses the last transactions is   *)
(* a crash before them: Stop may happen between any two steps, and stands  *)
(* for a crash, an interrupt and a shutdown alike.                         *)
(***************************************************************************)
EXTENDS Integers, Sequences, FiniteSets, SequencesExt, Functions

(***************************************************************************)
(* How the address index stores the transactions of one address            *)
(* (blockchain/indexers/addrindex.go): levels that double in size, the     *)
(* newest entries in level 0.  A level is the sequence of its entries,     *)
(* oldest first, and an empty sequence is a key that is not in the bucket. *)
(***************************************************************************)
CONSTANTS
    level0MaxEntries,   \* entries level 0 holds
    NumLevels           \* bound: levels 0 .. NumLevels - 1 exist

Levels == 0 .. NumLevels - 1

NoEntries == [l \in Levels |-> <<>>]

(***************************************************************************)
(* The largest number of entries of a level, and the least total that      *)
(* makes the level be reached.                                             *)
(***************************************************************************)
maxEntriesForLevel(l) == level0MaxEntries * 2 ^ l

minEntriesToReachLevel(l) == 1 + level0MaxEntries * (2 ^ l - 1)

(***************************************************************************)
(* dbPutAddrIndexEntry.  Level 0 takes the entry while it has room.        *)
(* Otherwise the first level that is not full takes the one below it, the  *)
(* levels in between move up by one, and level 0 holds the entry alone.    *)
(***************************************************************************)
IsFull(lv, l) == Len(lv[l]) = maxEntriesForLevel(l)

dbPutAddrIndexEntry_NoShift(lv, e) ==
    IF Len(lv[0]) < level0MaxEntries
    THEN [lv EXCEPT ![0] = Append(@, e)]
    ELSE LET k == CHOOSE l \in Levels \ {0} :
                      ~IsFull(lv, l) /\ \A m \in 1 .. l - 1 : IsFull(lv, m)
         IN  [l \in Levels |-> CASE l = 0 -> <<e>>
                                 [] l = k -> lv[l] \o lv[l - 1]
                                 [] OTHER -> lv[l]]

dbPutAddrIndexEntry(lv, e) ==
    IF Len(lv[0]) < level0MaxEntries
    THEN [lv EXCEPT ![0] = Append(@, e)]
    ELSE LET k == CHOOSE l \in Levels \ {0} :
                      ~IsFull(lv, l) /\ \A m \in 1 .. l - 1 : IsFull(lv, m)
         IN  [l \in Levels |-> CASE l = 0 -> <<e>>
                                 [] l > 0 /\ l < k -> lv[l - 1]
                                 [] l = k -> lv[l] \o lv[l - 1]
                                 [] OTHER -> lv[l]]

(***************************************************************************)
(* dbRemoveAddrIndexEntries, first loop: the newest count entries go.  The *)
(* highest level it loads is Loaded; the levels below are emptied.         *)
(***************************************************************************)
RECURSIVE Held(_, _)
Held(lv, l) == IF l < 0 THEN 0 ELSE Len(lv[l]) + Held(lv, l - 1)

HasEnough(lv, count) == count <= 0 \/ \E l \in Levels :
    Held(lv, l) >= count /\ \A m \in 0 .. l : lv[m] # <<>>

Loaded(lv, count) == CHOOSE l \in Levels :
    Held(lv, l) >= count /\ \A m \in 0 .. l - 1 : Held(lv, m) < count

(***************************************************************************)
(* The second loop: what is left of the highest loaded level is spread     *)
(* over the levels up to it, so that each is empty, half full or full and  *)
(* enough remains to reach it.  "low" is lowestEmptyLevel.                 *)
(***************************************************************************)
NoEmptyLevel == 255

FillsLevel(n, l) ==
    LET required == minEntriesToReachLevel(l - 1)
    IN  CASE n < maxEntriesForLevel(l - 1) + required -> 0
          [] n - maxEntriesForLevel(l) >= required -> maxEntriesForLevel(l)
          [] OTHER -> maxEntriesForLevel(l - 1)

RECURSIVE Squash(_, _, _, _)
Squash(lv, l, rest, low) ==
    IF l = 0 THEN [lv |-> [lv EXCEPT ![0] = rest],
                   low |-> IF rest = <<>> THEN 0 ELSE low]
    ELSE LET n == FillsLevel(Len(rest), l)
         IN  Squash([lv EXCEPT ![l] = SubSeq(rest, 1, n)], l - 1,
                    SubSeq(rest, n + 1, Len(rest)), IF n = 0 THEN l ELSE low)

(***************************************************************************)
(* The third loop: while the highest loaded level is empty, the level      *)
(* above it is halved down to the lowest empty one.  A level that is not   *)
(* full first moves down as a whole.                                       *)
(***************************************************************************)
RECURSIVE Halved(_, _, _, _)
Halved(lv, l, low, data) ==
    IF l <= low THEN lv
    ELSE LET half == maxEntriesForLevel(l) \div 2
             rest == SubSeq(data, half + 1, Len(data))
         IN  Halved([lv EXCEPT ![l] = SubSeq(data, 1, half), ![l - 1] = rest],
                    l - 1, low, rest)

RECURSIVE Backfilled(_, _, _)
Backfilled(lv, high, low) ==
    LET next == high + 1
    IN  IF lv[high] # <<>> \/ next \notin Levels \/ lv[next] = <<>> THEN lv
        ELSE LET full == IsFull(lv, next)
                 moved == IF full THEN lv
                          ELSE [lv EXCEPT ![next] = <<>>, ![high] = lv[next]]
             IN  Backfilled(
                     Halved(moved, IF full THEN next ELSE high, low, lv[next]),
                     next, next)

dbRemoveAddrIndexEntries(lv, count) ==
    IF count <= 0 THEN lv
    ELSE LET high == Loaded(lv, count)
             left == SubSeq(lv[high], 1, Held(lv, high) - count)
             cut == [l \in Levels |-> CASE l < high -> <<>>
                                        [] l = high -> left
                                        [] OTHER -> lv[l]]
         IN  IF cut[0] # <<>> THEN cut
             ELSE LET sq == Squash(cut, high, left, NoEmptyLevel)
                  IN  Backfilled(sq.lv, high, sq.low)

(***************************************************************************)
(* dbFetchAddrIndexEntries: levels are read from 0 up and put in front,    *)
(* in reverse only until enough of them are read, and stop at the first    *)
(* one that is missing.                                                    *)
(***************************************************************************)
RECURSIVE ReadUpTo(_, _, _, _)
ReadUpTo(lv, l, data, wanted) ==
    IF l \notin Levels \/ Len(data) >= wanted \/ lv[l] = <<>> THEN data
    ELSE ReadUpTo(lv, l + 1, lv[l] \o data, wanted)

AllEntries == 2 ^ 20

dbFetchAddrIndexEntries(lv, numToSkip, numRequested, reverse) ==
    LET data == ReadUpTo(lv, 0, <<>>,
                    IF reverse THEN numToSkip + numRequested ELSE AllEntries)
        n == Len(data)
        left == n - numToSkip
        load == IF left < numRequested THEN left ELSE numRequested
    IN  IF numToSkip >= n THEN [entries |-> <<>>, skipped |-> n]
        ELSE [entries |-> [i \in 1 .. load |->
                              data[IF reverse THEN n - numToSkip - i + 1
                                              ELSE numToSkip + i]],
              skipped |-> numToSkip]

(***************************************************************************)
(* addrToKey: the type byte tells the witness version and the hash's shape *)
(* apart; a hash that is not the 20 bytes of a version 0 key hash is       *)
(* reduced by hash160.  An address is [version, len, hash].                *)
(***************************************************************************)
MaxAddressVersion == 31
NoKey == <<>>

Hash160(h) == <<"hash160", h>>

addrToKey(addr) ==
    CASE addr.version = 0 /\ addr.len = 20 -> <<2, addr.hash>>
      [] addr.version = 0 /\ addr.len = 32 -> <<3, Hash160(addr.hash)>>
      [] addr.version \in 1 .. MaxAddressVersion ->
             <<16 + addr.version, Hash160(addr.hash)>>
      [] OTHER -> NoKey

(***************************************************************************)
(* The entries of the levels in the order of the chain: what the index is  *)
(* to hold, whatever the levels look like.                                 *)
(***************************************************************************)
RECURSIVE Listed(_, _)
Listed(lv, l) == IF l < 0 THEN <<>> ELSE lv[l] \o Listed(lv, l - 1)

EntriesOf(lv) == Listed(lv, NumLevels - 1)

(***************************************************************************)
(* A level above 0 is empty, half full or full, and no level is empty      *)
(* below one that is not.                                                  *)
(***************************************************************************)
LevelsShaped(lv) ==
    /\ Len(lv[0]) <= level0MaxEntries
    /\ \A l \in Levels \ {0} :
           Len(lv[l]) \in {0, maxEntriesForLevel(l - 1), maxEntriesForLevel(l)}
    /\ \A l \in Levels \ {0} : lv[l] # <<>> => lv[l - 1] # <<>>

-----------------------------------------------------------------------------
CONSTANTS
    Topics,         \* "chain": indexes along a chain; "levels": one address;
                    \* "unconfirmed": the addresses of pool transactions
    Blocks, NoBlock, Parent,    \* the block tree; the parent of genesis is NoBlock
    TxsOf,          \* a block's transactions: sequence of [id, ins, outs]
    Addrs,          \* addresses the queries ask for
    Increment,      \* gap of the forward scan for the highest block ID
    MaxDeletions,   \* entries one transaction of a drop deletes
    MaxEntries,     \* bound on the entries of the "levels" topic
    MaxStarts,      \* bound on starts of the process
    MaxMoves,       \* bound on blocks connected or disconnected
    MaxFaults,      \* bound on block transactions that fail to commit
    PruneAllowed    \* whether the node may be started with --prune

VARIABLES
    topic,
    db,      \* [tips, drops, data]: the tips bucket and the index buckets
    chain,   \* [tip, pruned]: best block, blocks whose data were pruned
    proc,    \* the running process
    used,    \* [starts, moves, faults]
    lv,      \* the levels of the "levels" topic and their reference list
    unconf   \* [txnsByAddr, addrsByTx, pool]: the index of pool transactions

imVars == <<topic, db, chain, proc, used, lv, unconf>>

Absent == "absent"
Indexes == {"tx", "addr", "cf"}

RECURSIVE Path(_)
Path(b) == IF b = NoBlock THEN <<>> ELSE Append(Path(Parent[b]), b)

MainChain == Range(Path(chain.tip))
HeightOf(b) == Len(Path(b)) - 1

(***************************************************************************)
(* The spend journal has an entry for the blocks of the best chain that    *)
(* were not pruned; without one, FetchSpendJournal succeeds only for a     *)
(* block that spends nothing.                                              *)
(***************************************************************************)
Stxos(b) == FlattenSeq([i \in 1 .. Len(TxsOf[b]) |-> TxsOf[b][i].ins])

Journaled(b) == b \in MainChain \ chain.pruned \/ Stxos(b) = <<>>

-------------------------------------------------------------------------------
(***************************************************************************)
(* The buckets of an index, parent first, and whether it needs the spent   *)
(* outputs.  The block ID buckets belong to the transaction index but are  *)
(* not inside its bucket.                                                  *)
(***************************************************************************)
BucketsOf(idx) == IF idx = "cf" THEN <<"cf", "filters", "headers", "hashes">>
                               ELSE <<idx>>

Created(idx) == Range(BucketsOf(idx)) \cup
    (IF idx = "tx" THEN {"idByHash", "hashById"} ELSE {})

indexNeedsInputs(idx) == idx # "tx"

Failed(d, cur) == [ok |-> FALSE, db |-> d, cur |-> cur]

(***************************************************************************)
(* TxIndex.ConnectBlock and DisconnectBlock.  curBlockID is kept in memory *)
(* and is not restored when the transaction fails to commit.               *)
(***************************************************************************)
TxIds(b) == {TxsOf[b][i].id : i \in DOMAIN TxsOf[b]}

TxConnect(d, cur, b) ==
    [ok |-> TRUE, cur |-> cur + 1,
     db |-> [d EXCEPT !.data.tx = [t \in TxIds(b) |-> cur + 1] @@ @,
                      !.data.idByHash = (b :> cur + 1) @@ @,
                      !.data.hashById = (cur + 1 :> b) @@ @]]

TxDisconnect(d, cur, b) ==
    IF ~(TxIds(b) \subseteq DOMAIN d.data.tx) THEN Failed(d, cur)
    ELSE [ok |-> TRUE, cur |-> cur - 1,
          db |-> [d EXCEPT
              !.data.tx = Restrict(@, DOMAIN @ \ TxIds(b)),
              !.data.idByHash = Restrict(@, DOMAIN @ \ {b}),
              !.data.hashById = IF b \in DOMAIN d.data.idByHash
                  THEN Restrict(@, DOMAIN @ \ {d.data.idByHash[b]}) ELSE @]]

(***************************************************************************)
(* indexBlock: for each key the transactions of the block that spend from  *)
(* it or pay to it, in order and once each.  Keys of addresses that the    *)
(* index does not support are left out.                                    *)
(***************************************************************************)
KeysOf(tx) == {addrToKey(a) : a \in Range(tx.ins) \cup Range(tx.outs)} \ {NoKey}

indexBlock(b, key) ==
    SelectSeq(TxsOf[b], LAMBDA tx : key \in KeysOf(tx))

KeysIn(b) == UNION {KeysOf(TxsOf[b][i]) : i \in DOMAIN TxsOf[b]}

LevelsOf(d, key) == IF key \in DOMAIN d.data.addr THEN d.data.addr[key] ELSE NoEntries

AddrConnect(d, cur, b) ==
    IF b \notin DOMAIN d.data.idByHash THEN Failed(d, cur)
    ELSE LET Put(l, tx) == dbPutAddrIndexEntry(l, <<d.data.idByHash[b], tx.id>>)
         IN  [ok |-> TRUE, cur |-> cur,
              db |-> [d EXCEPT !.data.addr =
                  [k \in KeysIn(b) |->
                      FoldLeft(Put, LevelsOf(d, k), indexBlock(b, k))] @@ @]]

AddrDisconnect(d, cur, b) ==
    IF \E k \in KeysIn(b) : ~HasEnough(LevelsOf(d, k), Len(indexBlock(b, k)))
    THEN Failed(d, cur)
    ELSE [ok |-> TRUE, cur |-> cur,
          db |-> [d EXCEPT !.data.addr =
              [k \in KeysIn(b) |->
                  dbRemoveAddrIndexEntries(LevelsOf(d, k), Len(indexBlock(b, k)))]
              @@ @]]

(***************************************************************************)
(* CfIndex: the filter covers the block and the outputs it spends, and the *)
(* header commits to the filter and to the previous block's header, which  *)
(* has to be there.                                                        *)
(***************************************************************************)
FilterOf(b) == <<b, Stxos(b)>>

storeFilter(d, cur, b) ==
    IF Parent[b] # NoBlock /\ Parent[b] \notin DOMAIN d.data.headers
    THEN Failed(d, cur)
    ELSE LET prev == IF Parent[b] = NoBlock THEN <<>> ELSE d.data.headers[Parent[b]]
         IN  [ok |-> TRUE, cur |-> cur,
              db |-> [d EXCEPT !.data.filters = (b :> FilterOf(b)) @@ @,
                               !.data.hashes = (b :> FilterOf(b)) @@ @,
                               !.data.headers = (b :> Append(prev, FilterOf(b))) @@ @]]

CfDisconnect(d, cur, b) ==
    [ok |-> TRUE, cur |-> cur,
     db |-> [d EXCEPT !.data.filters = Restrict(@, DOMAIN @ \ {b}),
                      !.data.headers = Restrict(@, DOMAIN @ \ {b}),
                      !.data.hashes = Restrict(@, DOMAIN @ \ {b})]]

(***************************************************************************)
(* dbIndexConnectBlock and dbIndexDisconnectBlock: the block has to extend *)
(* the index's tip, or be it, and the tip moves with the entries.          *)
(***************************************************************************)
dbIndexConnectBlock(idx, d, cur, b) ==
    IF d.tips[idx] # Parent[b] THEN Failed(d, cur)
    ELSE LET r == CASE idx = "tx" -> TxConnect(d, cur, b)
                    [] idx = "addr" -> AddrConnect(d, cur, b)
                    [] OTHER -> storeFilter(d, cur, b)
         IN  [r EXCEPT !.db.tips[idx] = IF r.ok THEN b ELSE @]

dbIndexDisconnectBlock(idx, d, cur, b) ==
    IF d.tips[idx] # b THEN Failed(d, cur)
    ELSE LET r == CASE idx = "tx" -> TxDisconnect(d, cur, b)
                    [] idx = "addr" -> AddrDisconnect(d, cur, b)
                    [] OTHER -> CfDisconnect(d, cur, b)
         IN  [r EXCEPT !.db.tips[idx] = IF r.ok THEN Parent[b] ELSE @]

(***************************************************************************)
(* Manager.ConnectBlock and DisconnectBlock: every enabled index in turn,  *)
(* inside the transaction that moves the chain.                            *)
(***************************************************************************)
ConnectAll(r, b) ==
    LET One(acc, idx) == IF acc.ok THEN dbIndexConnectBlock(idx, acc.db, acc.cur, b)
                                   ELSE acc
    IN  FoldLeft(One, r, proc.enabled)

DisconnectAll(r, b) ==
    LET One(acc, idx) == IF acc.ok THEN dbIndexDisconnectBlock(idx, acc.db, acc.cur, b)
                                   ELSE acc
    IN  FoldLeft(One, r, proc.enabled)

Begun == [ok |-> TRUE, db |-> db, cur |-> proc.cur]

(***************************************************************************)
(* TxIndex.Init: scan forward in large gaps for an ID that is not used,    *)
(* then search between the last used and the first unused one found.       *)
(***************************************************************************)
RECURSIVE Scanned(_, _)
Scanned(ids, id) == IF id \in ids THEN Scanned(ids, id + Increment) ELSE id

RECURSIVE Searched(_, _, _)
Searched(ids, known, unknown) ==
    IF known + 1 = unknown THEN known
    ELSE LET mid == (known + unknown) \div 2
         IN  IF mid \in ids THEN Searched(ids, mid, unknown)
                            ELSE Searched(ids, known, mid)

HighestBlockID(ids) ==
    LET unknown == Scanned(ids, 1)
    IN  IF unknown = 1 THEN 0 ELSE Searched(ids, unknown - Increment, unknown)

-------------------------------------------------------------------------------
(***************************************************************************)
(* The process: where it is, the enabled indexes in order, the drops left  *)
(* to do, the buckets of the current drop, and the local state of the      *)
(* roll back and catch up loops.  "why" is the error a start ended with.   *)
(***************************************************************************)
Down == [pc |-> "down", enabled |-> <<>>, prune |-> FALSE, cmd |-> FALSE,
         todo |-> <<>>, subs |-> <<>>, cur |-> 0, i |-> 0, height |-> 0,
         heights |-> <<>>, why |-> "none"]

ImInit ==
    /\ topic \in Topics
    /\ db = [tips |-> [x \in Indexes |-> Absent], drops |-> {}, data |-> <<>>]
    /\ chain = [tip |-> CHOOSE b \in Blocks : Parent[b] = NoBlock, pruned |-> {}]
    /\ proc = Down
    /\ used = [starts |-> 0, moves |-> 0, faults |-> 0]
    /\ lv = [levels |-> NoEntries, list |-> <<>>]
    /\ unconf = [txnsByAddr |-> <<>>, addrsByTx |-> <<>>, pool |-> {}]

Fails(why) == proc' = [Down EXCEPT !.why = why]

(***************************************************************************)
(* The checks of main.go.  BeenPruned tells that blocks were deleted; an   *)
(* index is initialized when its bucket exists.                            *)
(***************************************************************************)
Initialized(idx) == idx \in DOMAIN db.data

StartAllowed(enabled, prune) ==
    LET on == Range(enabled)
        been == chain.pruned # {}
    IN  /\ been => prune
        /\ prune => ("tx" \notin on /\ ~Initialized("tx") /\ ~Initialized("addr"))
        /\ (been /\ "cf" \in on) => Initialized("cf")
        /\ (prune /\ Initialized("cf")) => "cf" \in on

EnabledLists == {<<>>, <<"tx">>, <<"tx", "addr">>, <<"cf">>, <<"tx", "addr", "cf">>}

(***************************************************************************)
(* A start: main.go's checks, then Manager.Init, which first lists the     *)
(* drops in progress of the enabled indexes (maybeFinishDrops).            *)
(***************************************************************************)
Begins(r) ==
    /\ proc.pc = "down"
    /\ used.starts < MaxStarts
    /\ used' = [used EXCEPT !.starts = @ + 1]
    /\ proc' = r
    /\ UNCHANGED <<topic, db, chain, lv, unconf>>

Start == \E on \in EnabledLists, prune \in (IF PruneAllowed THEN BOOLEAN ELSE {FALSE}) :
    /\ StartAllowed(on, prune)
    /\ LET drops == SelectSeq(on, LAMBDA x : x \in db.drops)
       IN  Begins([Down EXCEPT
               !.pc = IF on = <<>> THEN "run" ELSE "drop",
               !.enabled = on, !.prune = prune, !.todo = drops])

(***************************************************************************)
(* --dropaddrindex, --droptxindex (the address index first, which relies   *)
(* on it) and --dropcfindex drop and exit.                                 *)
(***************************************************************************)
DropCommand == \E todo \in {<<"addr">>, <<"addr", "tx">>, <<"cf">>} :
    Begins([Down EXCEPT !.pc = "drop", !.cmd = TRUE, !.todo = todo])

Stop ==
    /\ proc.pc # "down"
    /\ proc' = Down
    /\ UNCHANGED <<topic, db, chain, used, lv, unconf>>

(***************************************************************************)
(* dropIndex: nothing to do without a tip; otherwise mark the drop.        *)
(***************************************************************************)
DropMark ==
    /\ proc.pc = "drop" /\ proc.todo # <<>> /\ proc.subs = <<>>
    /\ LET idx == Head(proc.todo)
       IN  IF db.tips[idx] = Absent
           THEN /\ proc' = [proc EXCEPT !.todo = Tail(@)]
                /\ UNCHANGED db
           ELSE /\ db' = [db EXCEPT !.drops = @ \cup {idx}]
                /\ proc' = [proc EXCEPT !.pc = "catalog"]
    /\ UNCHANGED <<topic, chain, used, lv, unconf>>

(***************************************************************************)
(* The buckets of the index are listed; a missing one is reported as a     *)
(* corruption.                                                             *)
(***************************************************************************)
Catalogued(idx) == idx \in DOMAIN db.data

DropCatalog ==
    /\ proc.pc = "catalog"
    /\ LET idx == Head(proc.todo)
       IN  IF ~Catalogued(idx) THEN Fails("missing bucket")
           ELSE proc' = [proc EXCEPT !.pc = "delete",
                    !.subs = SelectSeq(BucketsOf(idx), LAMBDA x : x \in DOMAIN db.data)]
    /\ UNCHANGED <<topic, db, chain, used, lv, unconf>>

(***************************************************************************)
(* The deepest bucket is emptied, MaxDeletions entries a transaction, and  *)
(* then deleted in a transaction of its own.                               *)
(***************************************************************************)
DropEntries ==
    /\ proc.pc = "delete" /\ proc.subs # <<>>
    /\ LET bk == Last(proc.subs)
           held == DOMAIN db.data[bk]
           n == IF Cardinality(held) < MaxDeletions THEN Cardinality(held) ELSE MaxDeletions
           gone == CHOOSE S \in SUBSET held : Cardinality(S) = n
       IN  IF n > 0
           THEN /\ db' = [db EXCEPT !.data[bk] = Restrict(@, held \ gone)]
                /\ UNCHANGED proc
           ELSE /\ db' = [db EXCEPT !.data = Restrict(@, DOMAIN @ \ {bk})]
                /\ proc' = [proc EXCEPT !.subs = Front(@)]
    /\ UNCHANGED <<topic, chain, used, lv, unconf>>

(***************************************************************************)
(* dropBlockIDIndex for the transaction index, then the tip and the mark   *)
(* go in one transaction.                                                  *)
(***************************************************************************)
IdBuckets == {"idByHash", "hashById"}

DropFinish ==
    /\ proc.pc = "delete" /\ proc.subs = <<>>
    /\ LET idx == Head(proc.todo)
       IN  IF idx = "tx" /\ IdBuckets \subseteq DOMAIN db.data
           THEN /\ db' = [db EXCEPT !.data = Restrict(@, DOMAIN @ \ IdBuckets)]
                /\ UNCHANGED proc
           ELSE /\ db' = [db EXCEPT !.tips[idx] = Absent, !.drops = @ \ {idx}]
                /\ proc' = [proc EXCEPT !.pc = "drop", !.todo = Tail(@)]
    /\ UNCHANGED <<topic, chain, used, lv, unconf>>

(***************************************************************************)
(* All drops are done: a drop command exits; Init creates, in one          *)
(* transaction, the enabled indexes that have no tip, with a tip before    *)
(* genesis, and initializes each index.                                    *)
(***************************************************************************)
DropsDone ==
    /\ proc.pc = "drop" /\ proc.todo = <<>>
    /\ LET new == {x \in Range(proc.enabled) : db.tips[x] = Absent}
           made == UNION {Created(x) : x \in new}
           data == [k \in made |-> <<>>] @@ db.data
       IN  IF proc.cmd THEN proc' = Down /\ UNCHANGED db
           ELSE IF made \cap DOMAIN db.data # {} THEN Fails("bucket exists") /\ UNCHANGED db
           ELSE /\ db' = [db EXCEPT !.data = data,
                    !.tips = [x \in Indexes |-> IF x \in new THEN NoBlock ELSE @[x]]]
                /\ proc' = [proc EXCEPT !.pc = "rollback", !.i = Len(proc.enabled),
                     !.cur = IF "tx" \in Range(proc.enabled)
                             THEN HighestBlockID(DOMAIN data.hashById) ELSE 0]
    /\ UNCHANGED <<topic, chain, used, lv, unconf>>

(***************************************************************************)
(* Roll back, last index first: while the tip is not in the best chain,    *)
(* load that block and what it spent and disconnect it.                    *)
(***************************************************************************)
OnChain(t) == t = NoBlock \/ t \in MainChain

RollBack ==
    /\ proc.pc = "rollback" /\ proc.i > 0
    /\ LET idx == proc.enabled[proc.i]
           t == db.tips[idx]
           r == dbIndexDisconnectBlock(idx, db, proc.cur, t)
       IN  IF OnChain(t)
           THEN proc' = [proc EXCEPT !.i = @ - 1] /\ UNCHANGED db
           ELSE IF t \in chain.pruned THEN Fails("pruned") /\ UNCHANGED db
           ELSE IF ~Journaled(t) THEN Fails("no spend journal") /\ UNCHANGED db
           ELSE IF ~r.ok THEN Fails("disconnect") /\ UNCHANGED db
           ELSE db' = r.db /\ proc' = [proc EXCEPT !.cur = r.cur]
    /\ UNCHANGED <<topic, chain, used, lv, unconf>>

(***************************************************************************)
(* The heights of the tips are read once; the catch up starts above the    *)
(* lowest of them.                                                         *)
(***************************************************************************)
TipHeight(idx) == IF db.tips[idx] = NoBlock THEN -1 ELSE HeightOf(db.tips[idx])

Lowest(hs) == CHOOSE h \in Range(hs) : \A g \in Range(hs) : h <= g

RolledBack ==
    /\ proc.pc = "rollback" /\ proc.i = 0
    /\ LET hs == [j \in DOMAIN proc.enabled |-> TipHeight(proc.enabled[j])]
       IN  proc' = [proc EXCEPT !.heights = hs, !.height = Lowest(hs) + 1,
                !.i = 1, !.pc = IF Lowest(hs) = HeightOf(chain.tip) THEN "run" ELSE "catchup"]
    /\ UNCHANGED <<topic, db, chain, used, lv, unconf>>

(***************************************************************************)
(* Catch up: for each block of the best chain above the lowest tip, every  *)
(* index that is behind connects it in a transaction of its own.           *)
(***************************************************************************)
NeedsBlock(j, height) == proc.heights[j] < height

CatchUp ==
    /\ proc.pc = "catchup"
    /\ LET b == Path(chain.tip)[proc.height + 1]
           last == proc.i = Len(proc.enabled)
           idx == proc.enabled[proc.i]
           r == dbIndexConnectBlock(idx, db, proc.cur, b)
           next == [proc EXCEPT !.i = IF last THEN 1 ELSE @ + 1,
                                !.height = IF last THEN @ + 1 ELSE @,
                                !.pc = IF last /\ proc.height = HeightOf(chain.tip)
                                       THEN "run" ELSE @]
       IN  IF b \in chain.pruned THEN Fails("pruned") /\ UNCHANGED db
           ELSE IF ~NeedsBlock(proc.i, proc.height) THEN proc' = next /\ UNCHANGED db
           ELSE IF indexNeedsInputs(idx) /\ ~Journaled(b)
           THEN Fails("no spend journal") /\ UNCHANGED db
           ELSE IF ~r.ok THEN Fails("connect") /\ UNCHANGED db
           ELSE db' = r.db /\ proc' = [next EXCEPT !.cur = r.cur]
    /\ UNCHANGED <<topic, chain, used, lv, unconf>>

-------------------------------------------------------------------------------
(***************************************************************************)
(* The node runs: the chain connects or disconnects a block and the        *)
(* indexes follow in the same transaction (chain.go connectBlock and       *)
(* disconnectBlock).  When an index fails or the commit does, nothing is   *)
(* written and the node goes on with what it had, curBlockID excepted.     *)
(***************************************************************************)
Moves(r, to) ==
    /\ used.moves < MaxMoves
    /\ \/ /\ r.ok
          /\ db' = r.db
          /\ chain' = [chain EXCEPT !.tip = to]
          /\ proc' = [proc EXCEPT !.cur = r.cur]
          /\ used' = [used EXCEPT !.moves = @ + 1]
       \/ /\ ~r.ok \/ used.faults < MaxFaults
          /\ proc' = [proc EXCEPT !.cur = r.cur]
          /\ used' = [used EXCEPT !.faults = @ + 1]
          /\ UNCHANGED <<db, chain>>
    /\ UNCHANGED <<topic, lv, unconf>>

connectBlock == \E b \in Blocks :
    /\ proc.pc = "run" /\ Parent[b] = chain.tip
    /\ Moves(ConnectAll(Begun, b), b)

disconnectBlock ==
    /\ proc.pc = "run" /\ Parent[chain.tip] # NoBlock
    /\ chain.tip \notin chain.pruned
    /\ Moves(DisconnectAll(Begun, chain.tip), Parent[chain.tip])

(***************************************************************************)
(* With --prune the oldest blocks are deleted with their journal entries,  *)
(* never the newest one.                                                   *)
(***************************************************************************)
PruneBlocks ==
    /\ proc.pc = "run" /\ proc.prune
    /\ \E b \in MainChain \ (chain.pruned \cup {chain.tip}) :
           /\ Parent[b] = NoBlock \/ Parent[b] \in chain.pruned
           /\ chain' = [chain EXCEPT !.pruned = @ \cup {b}]
    /\ UNCHANGED <<topic, db, proc, used, lv, unconf>>

(***************************************************************************)
(* One address alone: entries are put and taken away at will, so that the  *)
(* levels are seen at every size up to MaxEntries.                         *)
(***************************************************************************)
PutEntry ==
    /\ topic = "levels" /\ Len(lv.list) < MaxEntries
    /\ LET e == Len(lv.list) + 1
       IN  lv' = [levels |-> dbPutAddrIndexEntry(lv.levels, e), list |-> Append(lv.list, e)]
    /\ UNCHANGED <<topic, db, chain, proc, used, unconf>>

RemoveEntries ==
    /\ topic = "levels"
    /\ \E count \in 1 .. Len(lv.list) :
           /\ HasEnough(lv.levels, count)
           /\ lv' = [levels |-> dbRemoveAddrIndexEntries(lv.levels, count),
                     list |-> SubSeq(lv.list, 1, Len(lv.list) - count)]
    /\ UNCHANGED <<topic, db, chain, proc, used, unconf>>

(***************************************************************************)
(* AddUnconfirmedTx and RemoveUnconfirmedTx, called with the pool's lock   *)
(* held: the two maps mirror each other, and an address without            *)
(* transactions leaves the map.                                            *)
(***************************************************************************)
PoolTxs == UNION {Range(TxsOf[b]) : b \in Blocks}

AddUnconfirmedTx == \E tx \in PoolTxs :
    /\ topic = "unconfirmed" /\ tx \notin unconf.pool
    /\ LET Txns(k) == IF k \in DOMAIN unconf.txnsByAddr THEN unconf.txnsByAddr[k] ELSE {}
       IN  unconf' = [txnsByAddr |-> [k \in KeysOf(tx) |-> Txns(k) \cup {tx.id}]
                                        @@ unconf.txnsByAddr,
                      addrsByTx |-> IF KeysOf(tx) = {} THEN unconf.addrsByTx
                                    ELSE (tx.id :> KeysOf(tx)) @@ unconf.addrsByTx,
                      pool |-> unconf.pool \cup {tx}]
    /\ UNCHANGED <<topic, db, chain, proc, used, lv>>

RemoveUnconfirmedTx == \E tx \in unconf.pool :
    /\ LET keys == IF tx.id \in DOMAIN unconf.addrsByTx THEN unconf.addrsByTx[tx.id] ELSE {}
           left == [k \in DOMAIN unconf.txnsByAddr |->
                       IF k \in keys THEN unconf.txnsByAddr[k] \ {tx.id}
                                     ELSE unconf.txnsByAddr[k]]
       IN  unconf' = [txnsByAddr |-> Restrict(left, {k \in DOMAIN left : left[k] # {}}),
                      addrsByTx |-> Restrict(unconf.addrsByTx,
                                             DOMAIN unconf.addrsByTx \ {tx.id}),
                      pool |-> unconf.pool \ {tx}]
    /\ UNCHANGED <<topic, db, chain, proc, used, lv>>

UnconfirmedTxnsForAddress(a) ==
    LET key == addrToKey(a)
    IN  IF key \in DOMAIN unconf.txnsByAddr THEN unconf.txnsByAddr[key] ELSE {}

ChainNext ==
    /\ topic = "chain"
    /\ \/ Start \/ DropCommand \/ Stop
       \/ DropMark \/ DropCatalog \/ DropEntries \/ DropFinish \/ DropsDone
       \/ RollBack \/ RolledBack \/ CatchUp
       \/ connectBlock \/ disconnectBlock \/ PruneBlocks

ImNext == ChainNext \/ PutEntry \/ RemoveEntries \/ AddUnconfirmedTx \/ RemoveUnconfirmedTx

ImSpec == ImInit /\ [][ImNext]_imVars

-------------------------------------------------------------------------------
(***************************************************************************)
(* What each index is to hold when its tip is t.                           *)
(***************************************************************************)
TxExact(t) ==
    LET d == db.data
        path == Path(t)
    IN  /\ DOMAIN d.idByHash = Range(path)
        /\ DOMAIN d.tx = UNION {TxIds(b) : b \in Range(path)}
        /\ \A b \in Range(path) :
               /\ d.idByHash[b] \in DOMAIN d.hashById
               /\ d.hashById[d.idByHash[b]] = b
        /\ \A x \in DOMAIN d.tx :
               /\ d.tx[x] \in DOMAIN d.hashById
               /\ x \in TxIds(d.hashById[d.tx[x]])

\* The transactions of a path that involve an address, oldest first, with
\* the block of each.
History(path, a) == FlattenSeq([i \in 1 .. Len(path) |->
    LET txs == SelectSeq(TxsOf[path[i]],
                   LAMBDA tx : a \in Range(tx.ins) \cup Range(tx.outs))
    IN  [j \in 1 .. Len(txs) |-> <<path[i], txs[j].id>>]])

AddrExact(t) ==
    \A a \in Addrs :
        LET key == addrToKey(a)
            held == EntriesOf(LevelsOf(db, key))
            all == History(Path(t), a)
        IN  key # NoKey =>
            /\ Len(held) = Len(all)
            /\ \A i \in DOMAIN held :
                   /\ held[i][2] = all[i][2]
                   /\ all[i][1] \in DOMAIN db.data.idByHash =>
                          held[i][1] = db.data.idByHash[all[i][1]]

CfExact(t) ==
    LET path == Path(t)
    IN  /\ DOMAIN db.data.filters = Range(path)
        /\ \A i \in DOMAIN path : db.data.headers[path[i]] =
               [j \in 1 .. i |-> FilterOf(path[j])]

(***************************************************************************)
(* Property: in every state, starts, crashes, drops and reorganizations    *)
(* included, an index that is not being dropped holds exactly the entries  *)
(* of the blocks up to its own tip: filter headers chain, and, as long as  *)
(* no block transaction failed to commit, every transaction resolves       *)
(* through the block ID to a block that contains it and an address lists   *)
(* the transactions that involve it in the order of the chain.  While the  *)
(* node runs that tip is the chain's.  One address' levels keep their      *)
(* shape at every size and answer each query as the plain list would; a    *)
(* query for unconfirmed transactions names those of the pool that involve *)
(* the address, and no entry outlives them.                                *)
(***************************************************************************)
IndexesExact ==
    /\ \A idx \in Indexes \ db.drops : db.tips[idx] # Absent =>
           CASE idx = "tx" -> used.faults = 0 => TxExact(db.tips.tx)
             [] idx = "addr" -> (used.faults = 0 /\ db.tips.tx # Absent) =>
                                    AddrExact(db.tips.addr)
             [] OTHER -> CfExact(db.tips.cf)
    /\ proc.pc = "run" => \A x \in Range(proc.enabled) : db.tips[x] = chain.tip
    /\ \A a \in Addrs : addrToKey(a) # NoKey => UnconfirmedTxnsForAddress(a) =
           {tx.id : tx \in {x \in unconf.pool : a \in Range(x.ins) \cup Range(x.outs)}}
    /\ unconf.pool = {} => unconf.txnsByAddr = <<>> /\ unconf.addrsByTx = <<>>
    /\ topic = "levels" =>
           /\ EntriesOf(lv.levels) = lv.list
           /\ LevelsShaped(lv.levels)
           /\ \A skip, n \in 0 .. 3 : LET len == Len(lv.list) IN
                  /\ dbFetchAddrIndexEntries(lv.levels, skip, n, FALSE).entries =
                         SubSeq(lv.list, skip + 1, IF skip + n < len THEN skip + n ELSE len)
                  /\ dbFetchAddrIndexEntries(lv.levels, skip, n, TRUE).entries =
                         SubSeq(Reverse(lv.list), skip + 1,
                                IF skip + n < len THEN skip + n ELSE len)

=============================================================================
