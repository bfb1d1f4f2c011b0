------------------------------- MODULE Ffldb --------------------------------
(***************************************************************************)
(* The block database of database/ffldb: flat block files, the metadata in *)
(* LevelDB behind a cache, write transactions, read snapshots, pruning,    *)
(* and what is found after a crash.  A write may fail, a batch may be      *)
(* written although LevelDB reports an error, and a crash keeps of every   *)
(* file some length between what was synced and what was written, and of   *)
(* the directory any choice of the entries that were not synced.           *)
(***************************************************************************)
EXTENDS Integers, Sequences, FiniteSets, SequencesExt, FiniteSetsExt

(***************************************************************************)
(* The open block files of database/ffldb/blockio.go under their locks:    *)
(* readers share file handles, the least recently used handle is closed    *)
(* when there are too many, and the writer closes the file it fills and    *)
(* goes on with the next.  Locks are taken in the order wc, obfMutex,      *)
(* file; a waiting Lock keeps no RLock out, as the readers never lock      *)
(* twice.                                                                  *)
(***************************************************************************)
CONSTANTS Threads,       \* goroutines that read blocks
          maxOpenFiles,
          MaxFiles,      \* files that are written
          MaxReads

(* A handle is open or closed and has a lock; handle 0 is the lockableFile *)
(* of the write cursor, which is given a new file at each rotation.        *)
VARIABLES wcur,     \* the write cursor: its file, and whether that is open
          wcLock,   \* readers of the lock of the write cursor, or "writer"
          obf,      \* openBlockFiles: file to handle
          obfLock,  \* readers of obfMutex, or one writer
          lru,      \* openBlocksLRU, most recent first
          hd,       \* hd[n]: handle n
          th,       \* th[g]: goroutine g
          wpc       \* the writer

bfVars == <<wcur, wcLock, obf, obfLock, lru, hd, th, wpc>>

Handle(f) == [file |-> f, open |-> TRUE, rlocks |-> {}]
Handles == 0..(Cardinality(Threads) * MaxReads)
Unlocked == [rlocks |-> {}, writer |-> "none"]
Ready(lk) == lk.writer = "none"
Idle(lk) == lk.writer = "none" /\ lk.rlocks = {}

BfInit ==
    /\ wcur = [num |-> 0, open |-> FALSE]
    /\ wcLock = Unlocked /\ obfLock = Unlocked
    /\ obf = <<>> /\ lru = <<>>
    /\ hd = [n \in Handles |-> [Handle(0) EXCEPT !.open = FALSE]]
    /\ th = [g \in Threads |-> [pc |-> "idle", f |-> 0, handle |-> 0, reads |-> 0]]
    /\ wpc = "idle"

Go(g, pc) == th' = [th EXCEPT ![g].pc = pc]

(* readBlock or readBlockRegion of a block in file f.                      *)
Read(g, f) ==
    /\ th[g].pc = "idle" /\ th[g].reads < MaxReads
    /\ th' = [th EXCEPT ![g] = [@ EXCEPT !.pc = "wc", !.f = f, !.reads = @ + 1]]
    /\ UNCHANGED <<wcur, wcLock, obf, obfLock, lru, hd, wpc>>

(* blockFile.  The file of the write cursor is used if it is open.         *)
CheckCursor(g) ==
    LET mine == th[g].f = wcur.num /\ wcur.open
    IN  /\ th[g].pc = "wc" /\ Ready(wcLock)
        /\ wcLock' = IF mine THEN [wcLock EXCEPT !.rlocks = @ \cup {g}] ELSE wcLock
        /\ Go(g, IF mine THEN "wcfile" ELSE "fast")
        /\ UNCHANGED <<wcur, obf, obfLock, lru, hd, wpc>>

(* The writer holds the lock of the file while it writes or closes it.     *)
CurFileFree == wpc # "writing"

RLocks(g, n) ==
    /\ hd' = [hd EXCEPT ![n].rlocks = @ \cup {g}]
    /\ th' = [th EXCEPT ![g] = [@ EXCEPT !.pc = "reading", !.handle = n]]

LockCursorFile(g) ==
    /\ th[g].pc = "wcfile" /\ CurFileFree
    /\ RLocks(g, 0)
    /\ wcLock' = [wcLock EXCEPT !.rlocks = @ \ {g}]
    /\ UNCHANGED <<wcur, obf, obfLock, lru, wpc>>

MovedToFront(f) == <<f>> \o SelectSeq(lru, LAMBDA x : x # f)

FindOpen(g) ==
    LET f == th[g].f
        found == f \in DOMAIN obf
    IN  /\ th[g].pc = "fast" /\ Ready(obfLock)
        /\ lru' = IF found THEN MovedToFront(f) ELSE lru
        /\ obfLock' = IF found THEN [obfLock EXCEPT !.rlocks = @ \cup {g}] ELSE obfLock
        /\ Go(g, IF found THEN "lockFound" ELSE "slow")
        /\ UNCHANGED <<wcur, wcLock, obf, hd, wpc>>

(* The read lock of the handle is taken before obfMutex is released, so    *)
(* that nobody closes it in between.                                       *)
LocksFirst(g) == /\ obfLock' = [obfLock EXCEPT !.rlocks = @ \ {g}]
                 /\ hd' = [hd EXCEPT ![obf[th[g].f]].rlocks = @ \cup {g}]

LockFound(g) ==
    /\ th[g].pc = "lockFound"
    /\ LocksFirst(g)
    /\ th' = [th EXCEPT ![g] = [@ EXCEPT !.pc = "reading", !.handle = obf[th[g].f]]]
    /\ UNCHANGED <<wcur, wcLock, obf, lru, wpc>>

(* Under the write lock the map is looked at again.                        *)
LockAll(g) ==
    /\ th[g].pc = "slow" /\ Idle(obfLock)
    /\ obfLock' = [obfLock EXCEPT !.writer = g]
    /\ Go(g, "locked")
    /\ UNCHANGED <<wcur, wcLock, obf, lru, hd, wpc>>

ChecksAgain(f) == f \in DOMAIN obf

UseOpened(g) ==
    /\ th[g].pc = "locked" /\ ChecksAgain(th[g].f)
    /\ RLocks(g, obf[th[g].f])
    /\ obfLock' = Unlocked
    /\ UNCHANGED <<wcur, wcLock, obf, lru, wpc>>

(* openFile, which first closes the file used least recently when there    *)
(* are too many: closeFile waits for its readers.                          *)
Opens(m, l, hs, g) ==
    LET f == th[g].f
        n == Min({k \in Handles \ {0} : hs[k].file = 0 /\ ~hs[k].open /\ hs[k].rlocks = {}})
    IN  /\ obf' = [x \in DOMAIN m \cup {f} |-> IF x = f THEN n ELSE m[x]]
        /\ lru' = <<f>> \o l
        /\ hd' = [hs EXCEPT ![n] = [Handle(f) EXCEPT !.rlocks = {g}]]
        /\ th' = [th EXCEPT ![g] = [@ EXCEPT !.pc = "reading", !.handle = n]]
        /\ obfLock' = Unlocked

TooMany == Len(lru) >= maxOpenFiles

OpenFile(g) ==
    LET old == Last(lru)
    IN  /\ th[g].pc = "locked" /\ ~ChecksAgain(th[g].f)
        /\ IF TooMany
           THEN /\ hd[obf[old]].rlocks = {}
                /\ Opens([x \in DOMAIN obf \ {old} |-> obf[x]], Front(lru),
                         [hd EXCEPT ![obf[old]].open = FALSE], g)
           ELSE Opens(obf, lru, hd, g)
        /\ UNCHANGED <<wcur, wcLock, wpc>>

(* ReadAt, then RUnlock.                                                   *)
ReadAt(g) ==
    /\ th[g].pc = "reading"
    /\ hd' = [hd EXCEPT ![th[g].handle].rlocks = @ \ {g}]
    /\ th' = [th EXCEPT ![g] = [@ EXCEPT !.pc = "idle", !.f = 0, !.handle = 0]]
    /\ UNCHANGED <<wcur, wcLock, obf, obfLock, lru, wpc>>

(***************************************************************************)
(* writeBlock.                                                             *)
(***************************************************************************)
Rotate ==
    /\ wpc = "idle" /\ wcur.open /\ wcur.num < MaxFiles - 1 /\ Idle(wcLock)
    /\ wcLock' = [wcLock EXCEPT !.writer = "writer"]
    /\ wpc' = "rotating"
    /\ UNCHANGED <<wcur, obf, obfLock, lru, hd, th>>

(* The file is closed under its own write lock.                            *)
WaitsForReaders == hd[0].rlocks = {}

CloseCurrent ==
    /\ wpc = "rotating" /\ WaitsForReaders
    /\ hd' = [hd EXCEPT ![0].open = FALSE]
    /\ wcur' = [num |-> wcur.num + 1, open |-> FALSE]
    /\ wcLock' = [wcLock EXCEPT !.writer = "none"]
    /\ wpc' = "opening"
    /\ UNCHANGED <<obf, obfLock, lru, th>>

OpenCurrent ==
    /\ \/ wpc = "opening"
       \/ wpc = "idle" /\ ~wcur.open
    /\ WaitsForReaders
    /\ hd' = [hd EXCEPT ![0] = Handle(wcur.num)]
    /\ wcur' = [wcur EXCEPT !.open = TRUE]
    /\ wpc' = "writing"
    /\ UNCHANGED <<wcLock, obf, obfLock, lru, th>>

WriteDone ==
    /\ wpc = "writing"
    /\ wpc' = "idle"
    /\ UNCHANGED <<wcur, wcLock, obf, obfLock, lru, hd, th>>

BfNext ==
    \/ \E g \in Threads : \/ \E f \in 0..wcur.num : Read(g, f)
                          \/ CheckCursor(g) \/ LockCursorFile(g)
                          \/ FindOpen(g) \/ LockFound(g) \/ LockAll(g)
                          \/ UseOpened(g) \/ OpenFile(g) \/ ReadAt(g)
    \/ Rotate \/ CloseCurrent \/ OpenCurrent \/ WriteDone

BfSpec == BfInit /\ [][BfNext]_bfVars

(* Locks are granted and files are read and written in finite time.        *)
FairBf ==
    /\ BfSpec
    /\ \A g \in Threads :
         WF_bfVars(\/ CheckCursor(g) \/ LockCursorFile(g) \/ FindOpen(g) \/ LockFound(g)
                   \/ LockAll(g) \/ UseOpened(g) \/ OpenFile(g) \/ ReadAt(g))
    /\ \A g \in Threads : SF_bfVars(LockAll(g))
    /\ WF_bfVars(CloseCurrent \/ OpenCurrent \/ WriteDone)

(***************************************************************************)
(* Properties.                                                             *)
(***************************************************************************)
(* Whoever reads does so from an open handle on the file they asked for:   *)
(* neither the eviction of the least recently used file nor the rotation   *)
(* closes it or changes it under them; and the files kept open are those   *)
(* of the list, within the limit, each opened once.                        *)
HandlesSound ==
    /\ \A g \in Threads : th[g].pc = "reading" =>
         hd[th[g].handle].open /\ hd[th[g].handle].file = th[g].f
    /\ ToSet(lru) = DOMAIN obf /\ Len(lru) = Cardinality(DOMAIN obf) /\ Len(lru) <= maxOpenFiles
    /\ {n \in Handles \ {0} : hd[n].open} = {obf[f] : f \in DOMAIN obf}

(* Every read returns: no order of locks makes readers and writer wait for *)
(* each other.                                                             *)
Reading(g) == th[g].pc # "idle"
ReadsReturn == \A g \in Threads : Reading(g) ~> ~Reading(g)

-----------------------------------------------------------------------------
CONSTANTS Blocks,            \* the blocks that are ever stored
          BlocksPerFile,     \* maxBlockFileSize, in blocks
          TargetFiles,       \* target size of pruning, in files
          Readers,
          MaxTxs, MaxFaults, MaxCrashes

(* The metadata is a map from keys to values: the location of each block,  *)
(* the write cursor, the pending deletion of pruned files, and two keys of *)
(* the caller: "n", which every transaction sets to its number, and "u",   *)
(* which one transaction sets and the next one deletes.                    *)
VARIABLES disk,     \* disk[f]: a block file
          ldb,      \* the metadata in LevelDB
          cache,    \* cachedKeys and cachedRemove
          wc,       \* the write cursor
          w,        \* the write transaction
          r,        \* r[i]: a read transaction
          pruneLock, \* held for writing
          st,       \* "open", "closed", "down", "corrupt", and the flag recoveryRequired
          hist,     \* hist[n]: the metadata that transaction n leaves
          used      \* transactions, faults and crashes so far

fdVars == <<disk, ldb, cache, wc, w, r, pruneLock, st, hist, used>>

MaxFile == Cardinality(Blocks)
Files == 0..MaxFile
Size == 2                       \* cells of a block, so that half of one can be written
maxBlockFileSize == BlocksPerFile * Size

CellsOf(b) == <<[block |-> b, part |-> 1], [block |-> b, part |-> 2]>>

NoFile == [cells |-> <<>>, synced |-> 0, entry |-> "none"]
Visible(f) == disk[f].entry \in {"new", "durable"}
OnDisk == {f \in Files : Visible(f)}

(***************************************************************************)
(* The layers of the metadata.                                             *)
(***************************************************************************)
NoUpdates == [keys |-> <<>>, remove |-> {}]

Overlay(base, u) ==
    [k \in (DOMAIN base \ u.remove) \cup DOMAIN u.keys |->
       IF k \in DOMAIN u.keys THEN u.keys[k] ELSE base[k]]

(* putKey, deleteKey, and the application of a transaction to the cache:   *)
(* what is set is no longer removed, and what is removed no longer set.    *)
Merged(u, v) ==
    [keys |-> [k \in (DOMAIN u.keys \ v.remove) \cup DOMAIN v.keys |->
                 IF k \in DOMAIN v.keys THEN v.keys[k] ELSE u.keys[k]],
     remove |-> (u.remove \ DOMAIN v.keys) \cup v.remove]

View == Overlay(ldb, cache)

IndexOf(m) == DOMAIN m \cap Blocks

Position(f, off) == [file |-> f, off |-> off]

Before(x, y) == x.file < y.file \/ (x.file = y.file /\ x.off < y.off)

Cursor == Position(wc.file, wc.off)

(* initDB *)
Created == [k \in {"cursor", "n"} |-> IF k = "n" THEN 0 ELSE Position(0, 0)]

NoTx == [pc |-> "idle", snap |-> <<>>, blocks |-> <<>>, u |-> NoUpdates, del |-> {},
         old |-> Position(0, 0), id |-> 0]

NoReader == [pc |-> "idle", ldb |-> <<>>, view |-> <<>>, since |-> 0]

DbInit ==
    /\ disk = [f \in Files |-> NoFile]
    /\ ldb = Created /\ cache = NoUpdates
    /\ wc = [file |-> 0, off |-> 0, open |-> FALSE]
    /\ w = NoTx
    /\ r = [i \in Readers |-> NoReader]
    /\ pruneLock = FALSE
    /\ st = [db |-> "open", recoveryRequired |-> FALSE]
    /\ hist = [n \in 0..MaxTxs |-> IF n = 0 THEN Created ELSE <<>>]
    /\ used = [txs |-> 0, faults |-> 0, crashes |-> 0]

Fault == used.faults < MaxFaults /\ used' = [used EXCEPT !.faults = @ + 1]
NoFault == UNCHANGED used

(***************************************************************************)
(* A write transaction: what the caller does before it commits.            *)
(***************************************************************************)
(* PruneBlocks, which looks at the files there are.                        *)
pendingDelFiles ==
    LET first == Min(OnDisk)
        last == Max(OnDisk)
        total == Len(disk[last].cells) + maxBlockFileSize * (last - first)
        target == TargetFiles * maxBlockFileSize
    IN  {f \in first..(last - 1) : total - maxBlockFileSize * (f - first) > target}

Pruned(m, del) == {b \in IndexOf(m) : m[b].file \in del}

(* Begin, then StoreBlock, PruneBlocks and Put.  The deletion intent of an *)
(* earlier transaction is kept.                                            *)
Begin(new, prune) ==
    LET del == IF prune /\ OnDisk # {} THEN pendingDelFiles ELSE {}
        old == IF "prune" \in DOMAIN View THEN View["prune"] ELSE {}
        id == used.txs + 1
        intent == IF del = {} THEN <<>> ELSE [k \in {"prune"} |-> old \cup del]
    IN  /\ w.pc = "idle" /\ st = [db |-> "open", recoveryRequired |-> FALSE]
        /\ used.txs < MaxTxs /\ ToSet(new) \cap IndexOf(View) = {}
        /\ w' = [pc |-> "write", snap |-> View, blocks |-> new, del |-> del,
                 u |-> [keys |-> [k \in {"n"} \cup DOMAIN intent \cup ({"u"} \ DOMAIN View) |->
                                    IF k = "prune" THEN intent[k] ELSE id],
                        remove |-> Pruned(View, del) \cup ({"u"} \cap DOMAIN View)],
                 old |-> Cursor, id |-> id]
        /\ used' = [used EXCEPT !.txs = id]
        /\ UNCHANGED <<disk, ldb, cache, wc, r, pruneLock, st, hist>>

(***************************************************************************)
(* writePendingAndCommit: the block files.                                 *)
(***************************************************************************)
Synced(f) == [f EXCEPT !.synced = Len(f.cells)]

Closes(d) == [d EXCEPT ![wc.file] = Synced(@)]

(* A full file is synced before the next one is begun.                     *)
SyncsRotated(d) == Closes(d)

Rotates == wc.off + Size > maxBlockFileSize

(* The cursor and the files after n of the cells of b were written.        *)
CreatedIn(d, f) ==
    IF d[f].entry \in {"new", "durable"} THEN d
    ELSE [d EXCEPT ![f] = [cells |-> <<>>, synced |-> 0, entry |-> "new"]]

Writes(b, n) ==
    LET f == IF Rotates THEN wc.file + 1 ELSE wc.file
        off == IF Rotates THEN 0 ELSE wc.off
        d == CreatedIn(IF Rotates /\ wc.open THEN SyncsRotated(disk) ELSE disk, f)
    IN  /\ disk' = [d EXCEPT ![f].cells = SubSeq(@, 1, off) \o SubSeq(CellsOf(b), 1, n)]
        /\ wc' = [file |-> f, off |-> off + n, open |-> TRUE]

(* writeBlock succeeds, or fails at the sync of the full file, at the      *)
(* opening of the next, or in the middle of the block.                     *)
WriteBlock ==
    LET b == Head(w.blocks)
        loc == Position(IF Rotates THEN wc.file + 1 ELSE wc.file, IF Rotates THEN 0 ELSE wc.off)
    IN  /\ w.pc = "write" /\ w.blocks # <<>>
        /\ \/ /\ Writes(b, Size) /\ NoFault
              /\ w' = [w EXCEPT !.blocks = Tail(@),
                         !.u = Merged(@, [keys |-> [k \in {b} |-> loc], remove |-> {}])]
           \/ /\ Fault /\ w' = [w EXCEPT !.pc = "rollback"]
              /\ \/ \E n \in 0..(Size - 1) : Writes(b, n)
                 \/ /\ Rotates /\ disk' = SyncsRotated(disk)
                    /\ wc' = [file |-> wc.file + 1, off |-> 0, open |-> FALSE]
                 \/ Rotates /\ UNCHANGED <<disk, wc>>
        /\ UNCHANGED <<ldb, cache, r, pruneLock, st, hist>>

(* The new write cursor joins the updates.  A pruning transaction flushes  *)
(* the cache first, another one when the cache is large or old.            *)
PutCursor ==
    LET u == Merged(w.u, [keys |-> [k \in {"cursor"} |-> Cursor], remove |-> {}])
    IN  /\ w.pc = "write" /\ w.blocks = <<>>
        /\ \E next \in IF w.del = {} THEN {"cache", "sync"} ELSE {"sync"} :
             w' = [w EXCEPT !.u = u, !.pc = next]
        /\ hist' = [hist EXCEPT ![w.id] = Overlay(w.snap, u)]
        /\ UNCHANGED <<disk, ldb, cache, wc, r, pruneLock, st, used>>

CommitToCache ==
    /\ w.pc = "cache"
    /\ cache' = Merged(cache, w.u)
    /\ w' = [w EXCEPT !.pc = "committed"]
    /\ UNCHANGED <<disk, ldb, wc, r, pruneLock, st, hist, used>>

(***************************************************************************)
(* flush: also the first half of Close, for which w.id = 0.                *)
(***************************************************************************)
SyncedCurrent(d) == IF wc.open THEN Closes(d) ELSE d

DirSynced(d) ==
    [f \in Files |-> CASE d[f].entry = "new" -> [d[f] EXCEPT !.entry = "durable"]
                       [] d[f].entry = "deleted" -> NoFile
                       [] OTHER -> d[f]]

Failed == IF w.id = 0 THEN "closing" ELSE "rollback"

SyncBlocks ==
    /\ w.pc = "sync"
    /\ \/ /\ disk' = DirSynced(SyncedCurrent(disk)) /\ NoFault
          /\ w' = [w EXCEPT !.pc = "flush"]
       \/ /\ disk' \in {disk, SyncedCurrent(disk)} /\ Fault
          /\ w' = [w EXCEPT !.pc = Failed]
    /\ UNCHANGED <<ldb, cache, wc, r, pruneLock, st, hist>>

(* A batch is written, is not even built, or its outcome is unknown.       *)
AfterFlush == IF w.id = 0 THEN "closing" ELSE "batch"

(* A pruning transaction takes its blocks back when the flush before it    *)
(* has an unknown outcome; any other leaves them for the next start.       *)
AfterUnknown == IF w.id # 0 /\ w.del = {} THEN "over" ELSE Failed

AfterUnknownTx == "over"

FlushBatch ==
    /\ w.pc = "flush"
    /\ \/ /\ ldb' = View /\ NoFault
          /\ w' = [w EXCEPT !.pc = "clear"] /\ UNCHANGED st
       \/ /\ cache # NoUpdates /\ Fault
          /\ UNCHANGED <<ldb, st>> /\ w' = [w EXCEPT !.pc = Failed]
       \/ /\ cache # NoUpdates /\ Fault
          /\ ldb' \in {ldb, View}
          /\ w' = [w EXCEPT !.pc = AfterUnknown]
          /\ st' = [st EXCEPT !.recoveryRequired = TRUE]
    /\ UNCHANGED <<disk, cache, wc, r, pruneLock, hist>>

(* The cache is cleared under another lock, after the batch was written.   *)
ClearCache ==
    /\ w.pc = "clear"
    /\ cache' = NoUpdates
    /\ w' = [w EXCEPT !.pc = AfterFlush]
    /\ UNCHANGED <<disk, ldb, wc, r, pruneLock, st, hist, used>>

(* Then the transaction itself is written.                                 *)
TxBatch ==
    /\ w.pc = "batch"
    /\ \/ /\ ldb' = Overlay(ldb, w.u) /\ NoFault
          /\ w' = [w EXCEPT !.pc = "committed"] /\ UNCHANGED st
       \/ /\ Fault /\ UNCHANGED <<ldb, st>> /\ w' = [w EXCEPT !.pc = "rollback"]
       \/ /\ Fault /\ ldb' \in {ldb, Overlay(ldb, w.u)}
          /\ w' = [w EXCEPT !.pc = AfterUnknownTx]
          /\ st' = [st EXCEPT !.recoveryRequired = TRUE]
    /\ UNCHANGED <<disk, cache, wc, r, pruneLock, hist>>

(***************************************************************************)
(* handleRollback, for the transaction or at the start.                    *)
(***************************************************************************)
(* Newer files are deleted, the newest first, down to file f.              *)
DeletedAbove(d, f) ==
    [g \in Files |-> IF g > f /\ d[g].entry \in {"new", "durable"}
                     THEN [d[g] EXCEPT !.entry = "deleted"] ELSE d[g]]

(* Truncating keeps what is before the offset; a sync then makes the new   *)
(* length durable.                                                         *)
TruncatedTo(d, p) ==
    [CreatedIn(d, p.file) EXCEPT ![p.file].cells = SubSeq(@, 1, p.off),
                                 ![p.file].synced = IF @ < p.off THEN @ ELSE p.off]

RolledBack(p) == LET d == TruncatedTo(DeletedAbove(disk, p.file), p)
                 IN  [d EXCEPT ![p.file] = Synced(@)]

RollbackFailures(p) ==
    {DeletedAbove(disk, f) : f \in p.file..wc.file}
      \cup {TruncatedTo(DeletedAbove(disk, p.file), p)}

Rollback ==
    /\ w.pc = "rollback"
    /\ \/ /\ Cursor = w.old /\ UNCHANGED <<disk, wc, st>> /\ NoFault
       \/ /\ Cursor # w.old /\ NoFault
          /\ disk' = RolledBack(w.old)
          /\ wc' = [file |-> w.old.file, off |-> w.old.off, open |-> TRUE]
          /\ UNCHANGED st
       \/ /\ Cursor # w.old /\ Fault
          /\ disk' \in RollbackFailures(w.old)
          /\ wc' \in {[file |-> w.old.file, off |-> w.old.off, open |-> o] : o \in BOOLEAN}
          /\ st' = [st EXCEPT !.recoveryRequired = TRUE]
    /\ w' = [w EXCEPT !.pc = "over"]
    /\ UNCHANGED <<ldb, cache, r, pruneLock, hist>>

TxClosed ==
    /\ w.pc = "over"
    /\ w' = NoTx
    /\ UNCHANGED <<disk, ldb, cache, wc, r, pruneLock, st, hist, used>>

(***************************************************************************)
(* tryFinishPendingPrune after a commit, finishPendingPrune at the start.  *)
(***************************************************************************)
Intent == IF "prune" \in DOMAIN ldb THEN ldb["prune"] ELSE {}

ReadersGone_Unchecked == TRUE

(* No read transaction holds the lock.                                     *)
ReadersGone == \A i \in Readers : r[i].pc = "idle"

TryFinishPrune ==
    /\ w.pc = "committed"
    /\ IF Intent # {} /\ ReadersGone
       THEN w' = [w EXCEPT !.pc = "delete"] /\ pruneLock' = TRUE
       ELSE w' = [w EXCEPT !.pc = "over"] /\ UNCHANGED pruneLock
    /\ UNCHANGED <<disk, ldb, cache, wc, r, st, hist, used>>

DeleteFile ==
    /\ w.pc = "delete" /\ Intent \cap OnDisk # {}
    /\ \/ /\ disk' = [disk EXCEPT ![Min(Intent \cap OnDisk)].entry = "deleted"] /\ NoFault
          /\ UNCHANGED <<w, pruneLock>>
       \/ /\ Fault /\ UNCHANGED disk
          /\ w' = [w EXCEPT !.pc = "over"] /\ pruneLock' = FALSE
    /\ UNCHANGED <<ldb, cache, wc, r, st, hist>>

SyncDir ==
    /\ w.pc = "delete" /\ Intent \cap OnDisk = {}
    /\ \/ /\ disk' = DirSynced(disk) /\ NoFault
          /\ w' = [w EXCEPT !.pc = "tombstone"] /\ UNCHANGED pruneLock
       \/ /\ Fault /\ UNCHANGED disk
          /\ w' = [w EXCEPT !.pc = "over"] /\ pruneLock' = FALSE
    /\ UNCHANGED <<ldb, cache, wc, r, st, hist>>

(* The intent is cleared, past the cache.  A failure at the start leaves   *)
(* the database closed.                                                    *)
ClearIntent ==
    LET cleared == Overlay(ldb, [keys |-> <<>>, remove |-> {"prune"}])
    IN  /\ w.pc = "tombstone"
        /\ \/ ldb' = cleared /\ NoFault /\ UNCHANGED st
           \/ /\ ldb' \in {ldb, cleared} /\ Fault
              /\ st' = IF w.id = 0 THEN [st EXCEPT !.db = "down"]
                       ELSE [st EXCEPT !.recoveryRequired = TRUE]
        /\ w' = [w EXCEPT !.pc = "over"] /\ pruneLock' = FALSE
        /\ UNCHANGED <<disk, cache, wc, r, hist>>

(***************************************************************************)
(* Read transactions.                                                      *)
(***************************************************************************)
(* begin(false) takes the lock, then Snapshot takes the one of LevelDB and *)
(* after it the roots of the cache.                                        *)
ReadBegin(i) ==
    /\ r[i].pc = "idle" /\ ~pruneLock /\ st = [db |-> "open", recoveryRequired |-> FALSE]
    /\ r' = [r EXCEPT ![i] = [pc |-> "locked", ldb |-> <<>>, view |-> <<>>, since |-> View["n"]]]
    /\ UNCHANGED <<disk, ldb, cache, wc, w, pruneLock, st, hist, used>>

ReadSnapshot(i) ==
    /\ r[i].pc = "locked"
    /\ r' = [r EXCEPT ![i] = [@ EXCEPT !.pc = "ldb", !.ldb = ldb]]
    /\ UNCHANGED <<disk, ldb, cache, wc, w, pruneLock, st, hist, used>>

ReadCache(i) ==
    /\ r[i].pc = "ldb"
    /\ r' = [r EXCEPT ![i] = [@ EXCEPT !.pc = "reading", !.view = Overlay(r[i].ldb, cache)]]
    /\ UNCHANGED <<disk, ldb, cache, wc, w, pruneLock, st, hist, used>>

ReadEnd(i) ==
    /\ r[i].pc = "reading"
    /\ r' = [r EXCEPT ![i] = NoReader]
    /\ UNCHANGED <<disk, ldb, cache, wc, w, pruneLock, st, hist, used>>

(***************************************************************************)
(* Close, crash, and start.                                                *)
(***************************************************************************)
CloseBegins ==
    /\ w.pc = "idle" /\ st.db = "open" /\ used.txs > 0 /\ used.crashes < MaxCrashes
    /\ \A i \in Readers : r[i].pc = "idle"
    /\ w' = [NoTx EXCEPT !.pc = "sync"]
    /\ st' = [st EXCEPT !.db = "closed"]
    /\ UNCHANGED <<disk, ldb, cache, wc, r, pruneLock, hist, used>>

Stopped ==
    /\ wc' = [file |-> 0, off |-> 0, open |-> FALSE]
    /\ cache' = NoUpdates /\ w' = NoTx
    /\ r' = [i \in Readers |-> NoReader] /\ pruneLock' = FALSE
    /\ st' = [db |-> "down", recoveryRequired |-> FALSE]

CloseEnds ==
    /\ w.pc = "closing"
    /\ Stopped
    /\ used' = [used EXCEPT !.crashes = @ + 1]
    /\ UNCHANGED <<disk, ldb, hist>>

(* What is left of file f: any length from the synced one on.              *)
Leftovers(f) ==
    IF disk[f].entry = "none" THEN {NoFile}
    ELSE LET kept == {[cells |-> SubSeq(disk[f].cells, 1, n), synced |-> n, entry |-> "durable"] :
                        n \in disk[f].synced..Len(disk[f].cells)}
         IN  IF disk[f].entry = "durable" THEN kept ELSE kept \cup {NoFile}

Crash ==
    /\ used.crashes < MaxCrashes /\ st.db # "corrupt"
    /\ disk' \in {d \in [Files -> UNION {Leftovers(f) : f \in Files}] :
                    \A f \in Files : d[f] \in Leftovers(f)}
    /\ Stopped
    /\ used' = [used EXCEPT !.crashes = @ + 1]
    /\ UNCHANGED <<ldb, hist>>

(* openDB: the files are scanned and reconciled with the metadata.         *)
Scanned == IF OnDisk = {} THEN Position(0, 0)
           ELSE Position(Max(OnDisk), Len(disk[Max(OnDisk)].cells))

Open ==
    LET at == ldb["cursor"]
    IN  /\ st.db = "down" /\ w.pc = "idle"
        /\ IF Before(Scanned, at)
           THEN st' = [st EXCEPT !.db = "corrupt"] /\ UNCHANGED <<disk, wc, w, pruneLock, used>>
           ELSE \/ /\ disk' = IF Before(at, Scanned) THEN RolledBack(at) ELSE disk
                   /\ wc' = [file |-> at.file, off |-> at.off, open |-> Before(at, Scanned)]
                   /\ w' = [NoTx EXCEPT !.pc = IF Intent = {} THEN "over" ELSE "delete"]
                   /\ pruneLock' = (Intent # {})
                   /\ st' = [st EXCEPT !.db = "open"] /\ NoFault
                \/ \* the rollback fails and the database stays closed
                   /\ Before(at, Scanned) /\ Fault
                   /\ disk' \in {DeletedAbove(disk, f) : f \in at.file..Scanned.file}
                   /\ UNCHANGED <<wc, w, pruneLock, st>>
        /\ UNCHANGED <<ldb, cache, r, hist>>

DbNext ==
    \/ \E n \in 0..2 : \E new \in [1..n -> Blocks] :
         \E prune \in BOOLEAN : IsInjective(new) /\ Begin(new, prune)
    \/ WriteBlock \/ PutCursor \/ CommitToCache
    \/ SyncBlocks \/ FlushBatch \/ ClearCache \/ TxBatch
    \/ Rollback \/ TxClosed
    \/ TryFinishPrune \/ DeleteFile \/ SyncDir \/ ClearIntent
    \/ \E i \in Readers : ReadBegin(i) \/ ReadSnapshot(i) \/ ReadCache(i) \/ ReadEnd(i)
    \/ CloseBegins \/ CloseEnds \/ Crash \/ Open

DbSpec == DbInit /\ [][DbNext]_fdVars

(***************************************************************************)
(* Properties.                                                             *)
(***************************************************************************)

(* Whether the location of block b in m holds the block.                   *)
Readable(m, b) ==
    /\ Visible(m[b].file)
    /\ m[b].off + Size <= Len(disk[m[b].file].cells)
    /\ SubSeq(disk[m[b].file].cells, m[b].off + 1, m[b].off + Size) = CellsOf(b)

(* Every block that the metadata names can be read: from a snapshot as     *)
(* long as its transaction lasts, whatever is written, rolled back or      *)
(* pruned meanwhile, and after a crash.                                    *)
BlocksReadable ==
    /\ \A i \in Readers : r[i].pc = "reading" =>
         \A b \in IndexOf(r[i].view) : Readable(r[i].view, b)
    /\ st.db = "open" /\ w.pc = "idle" /\ ~st.recoveryRequired =>
         \A b \in IndexOf(View) : Readable(View, b)

(* After a crash, an unclean stop or an unknown outcome the database opens *)
(* again: reconcileDB never finds less in the block files than the         *)
(* metadata claims.                                                        *)
RestartOpens == st.db # "corrupt"

(* The metadata in LevelDB is always that of a whole number of             *)
(* transactions, apart from the deletion intent that is cleared later.     *)
NoIntent(m) == [k \in DOMAIN m \ {"prune"} |-> m[k]]

DurableIsPrefix == NoIntent(ldb) = NoIntent(hist[ldb["n"]])

=============================================================================
