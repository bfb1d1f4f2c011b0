# handshake-node in TLA+

handshake-node is a full node for Handshake, written in Go on the base of btcd.
This directory holds TLA+ modules for its parts, TLC configurations that check
them on small instances, and TLAPS proofs that carry the central properties to
every instance.  Line numbers below are of the files under `src/`.

Contents: [the system](#the-system) - [the modules](#the-modules) -
[the runs](#the-runs) - [fairness](#fairness) - [the proofs](#the-proofs) -
[where code and comments disagree](#where-code-and-comments-disagree) -
[what is not modelled](#what-is-not-modelled) - [plan](#plan).

## The system

| Part | State | Operations that change it | What makes it hard |
|---|---|---|---|
| Chain selection (`blockchain/chain.go`, `process.go`, `accept.go`, `blockindex.go`, `chainview.go`) | block index with status flags, best chain, best header chain, orphans, stored index and best state | `ProcessBlock`, `ProcessBlockHeader`, `InvalidateBlock`, `ReconsiderBlock`, restart | `chainLock` is released around every notification, in the middle of reorganizations; failures half way; crashes |
| Orphan blocks (`chain.go:279-358`, `process.go:84-131`) | pool, index by parent, pointer to the oldest | `addOrphanBlock`, `removeOrphanBlock`, `processOrphans` | expiry and acceptance move blocks under the pointer |
| Unspent outputs (`utxocache.go`, `utxoviewpoint.go`, `chainio.go`) | cache entries with flags, the utxo bucket, the consistency record, last flush | connect, disconnect, flush, fetch, prune, `InitConsistentState` | write-back cache against crashes, pruning and reorganizations |
| Names (`names.go`, `namevalidate.go`, `nameio.go`) | name states, undo journal, committed root, root cache | the ten covenants, `connectNames`, `disconnectNames` | auctions over many blocks, expiry, reorganizations, commitments every interval |
| Validation (`validate.go`, `difficulty.go`, `merkle.go`, `scriptval.go`) | none | `checkBlockSanity`, `checkBlockContext`, `checkConnectBlock` | a pure verdict; its algorithms have numeric edges |
| Deployments (`thresholdstate.go`, `versionbits.go`) | a cache of window states | `thresholdState` | memoized recursion over windows |
| Indexes (`blockchain/indexers`) | a tip per index | catch-up, connect, disconnect, drop | interrupted drops, an index off the best chain |
| Transaction pool (`mempool`) | pool, spent outpoints, orphans, name operations, fee estimates | `ProcessTransaction`, removals, replacements, block events | linked maps, chains of orphans, limits |
| Synchronization (`netsync`) | sync peer, requested blocks and transactions, header mode | peer, block, header, inv and transaction messages | lost peers, stalls, late answers |
| Peers and connections (`peer`, `connmgr`, `addrmgr`, `server.go`) | handshake, queues, connection requests, addresses | handlers, dials, retries, bans | goroutines that answer after a shutdown, queue limits |
| Block database (`database/ffldb`) | flat files, write cursor, metadata cache | transactions, flushes, reconciliation | crashes between file writes and metadata |
| Mining (`mining`, `mining/cpuminer`, `mining/stratum`) | jobs, workers | template, submit, controller | stale work, shutdown |
| RPC (`rpcserver.go`, `rpcwebsocket.go`, `rpcclient`) | sessions, queued notifications, pending requests | requests, reconnects | resends, disconnects |
| Encodings, scripts, addresses (`wire`, `hnsjson`, `txscript`, `hnsutil`) | none | parse and format | sequential |

How they interact.  The synchronization handler is the one goroutine that feeds
blocks and headers from peers into chain selection (`ProcessBlock`,
`ProcessBlockHeader`); blocks from miners and `submitblock` pass through the same
handler.  `invalidateblock` and `reconsiderblock` come from RPC goroutines and take
`chainLock` themselves, so they are what can run inside another call's
notification.  Chain selection drives the unspent outputs and the names with every
block it connects or disconnects, in one database transaction per block, and tells
the pool, the indexes and the synchronization handler through notifications.

What each part owes to the others:

- chain selection: the index can always be loaded again; the best chain is the
  heaviest one that is stored and not invalid, contains no bad block and moves one
  block at a time; blocks are called invalid only for a cause; calls return;
- orphans: the pool stays within its limit (give or take the one block below);
- unspent outputs: a reader sees exactly the set of the best chain; what is on disk
  can be replayed after any crash; a prune never takes a block a replay needs;
- names: second-price auctions, one owner at a time, transfers that wait, undo that
  restores, a root cache that equals the bucket, a journal that leads back to the
  committed root.

## The modules

### BlockChain, MCBlockChain, BlockChainProofs

Chain selection.  A call is a sequence of steps; `lock` says which thread is inside
a critical section, and a step that ends in a notification leaves it free.

| Variable | Code |
|---|---|
| `status`, `dbStatus` | `blockIndex.index` with `blockNode.status`, and the block index bucket; `{}` is "no node" |
| `tip`, `bestHeader` | `bestChain.Tip()` (the best state on disk changes with it), `bestHeader.Tip()` |
| `orphans` | `BlockChain.orphans` |
| `pc`, `call`, `queue`, `detach`, `attach` | where a goroutine is, and the locals of `ProcessBlock`, `processOrphans` and `reorganizeChain` |
| `verdict` | what the checks of `validate.go` will say of a block: "badContext" for `checkBlockContext` and what precedes it, "badConnect" for `checkConnectBlock` |

| Action | Code |
|---|---|
| `ProcessBlock`, `MaybeAcceptBlock`, `ConnectBestChain`, `FinishAccept`, `ProcessOrphans` | `process.go:143`, `accept.go:25`, `chain.go:1287`, `process.go:84` |
| `DisconnectBlock`, `ConnectBlock`, `ReorganizeError` | one turn of the loops of `reorganizeChain` (`chain.go:895`), each with its database transaction, index flush and notification, and their error returns |
| `ProcessBlockHeader` | `accept.go:123` |
| `RpcInvalidateBlock`, `ActivateBestTip`, `FinishActivate`, `NoBestTip`, `ReconsiderBlock` | `chain.go:2077`, `chain.go:2215`; `NoBestTip` is the nil pointer of `chain.go:2202`, which ends the process |
| `MarkRejectedBlock` | `netsync/manager.go:936`, the block that `handleBlockMsg` invalidates after a rule error |
| `Restart` | the process dies; `initChainState` (`chainio.go:1421`) |

Lists of nodes are sets, because the nodes of a list are on one branch and the code
takes the highest or the lowest.  The orphan pool keeps any subset of its blocks
when one is added; which subset is the business of `OrphanPool`.

### OrphanPool, MCOrphanPool, OrphanPoolProofs

The pool with its limit, the expiry of orphans, and `oldestOrphan`.  The pointer may
outlive the entry it points to, so it is a block together with "is still that entry".
`after[o]` orders the pool by arrival, which is also the order of expiry.

### UtxoCache, UtxoSet, MCUtxoCache, UtxoCacheProofs

`UtxoSet` is the promise: connecting a block removes what it spends and adds what it
creates, disconnecting reverses that.  `UtxoCache` is the code: entries with the
flags fresh, modified and spent; flushes, periodic, forced by pruning, and at the
end of `connectBlock`; disconnection that writes the cache and the reversed view in
one transaction; failing transactions whose effects in memory stay; crash, and the
replay of `InitConsistentState`.  `pending` is the block of the closing flush of
`connectBlock`, which happens after the lock was released for the notification.
`ImplementsUtxoSet` is the refinement, with the set a reader of the cache sees for
`utxo`.

### NameState, NameChain, MCNameChain

`NameState` is the record of a name and the functions of `names.go` over it: phase at
a height, claimable, expired, reset.  `NameChain` builds a block from covenants one
by one into a view (`applyCovenantOutput`), connects it (`connectNames`), and
disconnects blocks with their undo records (`disconnectNames`).  A root is the
function from names to states it commits to, so equal roots are equal contents.

### TxPool, MCTxPool

The transaction pool and the part of the sync manager that keeps it in step with the
chain.  Peers' blocks and transactions are taken one at a time by the block handler;
RPC clients call the pool at any moment, also between two calls of a notification.

| Variable | Code |
|---|---|
| `mp` | the maps of `TxPool` under `mp.mtx` (`mempool.go:269`): pool, spent outpoints, name index, memory estimate, orphans and their index, proofs and their three indexes |
| `job` | the loop of `processOrphans` (`mempool.go:2465`), which holds the lock while the chain may move |
| `ntfn` | where the block handler is in `handleBlockchainNotification` (`netsync/manager.go:1805`) |
| `checked` | proofs that `AddCoinbaseProof` validated before it took the lock |
| `chain`, `offer` | the best chain, and what the senders of a behaviour know |

| Action | Code |
|---|---|
| `ProcessTransaction`, `TryOrphan`, `FinishOrphans` | `mempool.go:2573` with `checkMempoolAcceptance` (2825), replacement (2297), `processOrphans` and `limitMempoolSize` (2097) |
| `RemoveOrphansByTag` | `mempool.go:455`, when a peer leaves |
| `validateCoinbaseProofAdmission`, `AddCoinbaseProof`, `CoinbaseProofs` | the two halves of `mempool.go:805`, and the query of the miner, which prunes (971) |
| `ConnectBlock`, `ConnectedCall`, `ConnectedOrphans`, `ConnectedPrune` | a block enters the chain, and the calls of the handler on the pool one by one |
| `DisconnectBlock`, `Disconnected` | the same for a block that leaves |

Sizes, fees, name operations and validity windows are fields of a transaction.
Scripts, standardness and sequence locks are the verdicts `sane` and `standard`, and
priority and the free-transaction limiter the verdict `waived`.  Expiry takes any
packages or orphans but those just added.  The name rules are reduced to a window of
heights, spent inputs and one opener; `NameChain` has the rules themselves.
A call that is refused changes nothing and is no step.

## The runs

| Run | Instance | Properties |
|---|---|---|
| `chain_sync` | 7 blocks in three branches, three of which may be bad in either way; one caller; headers ahead of blocks | `IndexClosed`, `RestartFindsChain`, `BestChainSound`, `HeaviestChain`, `InvalidForCause`, `TipMovesByOne` |
| `chain_concurrent` | 4 blocks, the sync handler and an RPC thread in its notification windows, crashes and failing transactions | `TypeOK`, `IndexClosed`, `RestartFindsChain`, `TipMovesByOne` |
| `chain_live` | the same two threads under fairness | `CallsReturn` |
| `orphan_pool` | limit 2, two branches of three blocks | `PoolAlmostBounded` |
| `utxo_crash` | 6 blocks in two branches that share a transaction, 5 outputs, one caller, crashes | `DiskConsistent`, `ImplementsUtxoSet` |
| `utxo_failures` | 5 blocks, crashes, failing transactions and pruning together | `TypeOK`, `ReplayStartsOnChain`, `ReplayPossible` |
| `name_auction` | one name, bids of three values, tree interval 2, up to two blocks disconnected, failing transactions | `SecondPriceAuction`, `ProofTreeRewinds`, `CacheIsBucket`, `DisconnectRestores` |
| `name_lifecycle` | one reserved name over 13 blocks, two addresses | `TypeOK`, `OwnerHoldsName`, `TransferWaits` |
| `txpool` | 15 transactions of five kinds of senders, 3 proofs, up to 2 blocks connected, 2 orphans, a limit on memory that two or three transactions reach | `TypeOK`, `NoDoubleSpend`, `PoolSpendable`, `NameIndexExact`, `NamesApply`, `OrphansIndexed`, `MemoryExact`, `ProofsIndexed`, `MemoryLimited` |
| `found_invalidate_race`, `found_replay_pruned`, `found_name_root` | see [below](#where-code-and-comments-disagree) | a property each, violated |

What they show, and why the bounds are enough:

- `chain_sync`.  Three branches are the fewest with a reorganization to a branch that
  turns out bad, back, and to a third.  One block is heavier, so that height and work
  disagree.  A block may be refused by its context (before it is stored) or when it
  is connected (after).  A restart is left out here because after a crash a stored
  block waits on its side branch for a child, so `HeaviestChain` would be false for
  a reason the code accepts; what the database holds is still checked by
  `RestartFindsChain`, which is about the moment of a crash.
- `chain_concurrent`.  Two branches and a second thread are what an interleaving of two
  reorganizations needs.  `BestChainSound` is not among its properties: see
  `found_invalidate_race`.
- `utxo_crash`.  The blocks have an output created and spent in one block, one spent
  two blocks later, and one created on both branches, which are the cases the entry
  flags tell apart.  `OneCaller` holds: with two, the
  closing flush of `connectBlock` is stale (see the end of this page's list of
  disagreements).
- `name_auction`, `name_lifecycle`.  Periods are one or two blocks, so that 8 and 13
  blocks hold two auctions and a whole life; every comparison of a height with a
  period is reached on both sides.  One name is enough because covenants touch one
  name each, and several transactions of a block may touch the same one.
- `txpool`.  Each kind of sender has the fewest transactions for its cases: a chain
  with a replacement of both ends, two orphans that spend one output and a third that
  needs one of them, three updates of one name in a row, two who open one name, and
  proofs that compete for memory with transactions.  A transaction in each chain is
  also in a block, so that every call meets a block that confirms it, its parent or its
  rival.  Two conditions are part of what is shown: the node is current, and no
  transaction of a block spends another of the same block.  Without either
  `PoolSpendable` is false; both cases are described below.

`CHECK_DEADLOCK FALSE` stands where the system may stop: all blocks delivered, the
bound on the height reached, or no transaction left that the pool would take.

## Fairness

`chain_live` assumes strong fairness of the steps of each thread inside a call.
Between two critical sections a thread waits for `chainLock` while others may take
it any number of times, so weak fairness would not do; the lock is a `sync.RWMutex`,
whose writers queue on a `sync.Mutex` that hands over in arrival order once a waiter
has waited for a millisecond.  No fairness is assumed of peers, RPC callers, crashes
or failures.

## The proofs

`tlapm` checks them; the leaves go to Z3, Zenon and LS4.

| Theorem | Assumptions | Statement |
|---|---|---|
| `BlockChainProofs!TypeCorrect`, `IndexStaysClosed`, `RestartAlwaysFindsChain`, `TipAlwaysMovesByOne` | the tree of blocks is a tree with increasing work | `Spec => []TypeOK`, `[]IndexClosed`, `[]RestartFindsChain`, `TipMovesByOne`, for any tree, any threads, all failures and crashes |
| `OrphanPoolProofs!PoolAlwaysAlmostBounded` | a positive limit | `Spec => []PoolAlmostBounded` |
| `UtxoCacheProofs!TypeCorrect` | blocks spend what exists, once | `Spec => []TypeOK` |
| `UtxoCacheProofs!ReplayAlwaysStartsOnChain` | one caller | `ReplayStartsOnChain`, with pruning, failures and crashes |
| `UtxoCacheProofs!DiskAlwaysConsistent`, `CacheImplementsUtxoSet` | one caller, no failing transaction | `[]DiskConsistent`, and the refinement of `UtxoSet` |

- `BlockChain`.  `IndexClosed` alone is not inductive: a thread that waits for the lock
  holds a block in its locals and will store it, connect it or clear its flags when it
  comes back.  `IInv` adds what those locals promise across the windows (`CallOK`: the
  blocks they name are in the index, with their data), that every node came in as a
  header or a block (so clearing flags never removes a node), and that the bucket is
  behind the index in a way a restart can load (`BucketOK`).  Most steps change verdict
  flags only; the lemma `VerdictStep` deals with these at once.  `TipMovesByOne` follows
  from the asserts of `connectBlock` and `disconnectBlock`, which are guards.
- `OrphanPool`.  The pool can be above its limit only when the pointer was to a gone
  entry at the last eviction; the pointer is nil after an eviction, and the next scan
  finds a live one.  `Inv` says just that, with the order of arrival.
- `UtxoCache`.  `ChainInv`: the consistency record is an ancestor of the best block, and
  a pending flush names an ancestor of the tip.  `SetInv`: the bucket is the set at the
  record, and every cache entry is right about the bucket (fresh is not in it, clean and
  spent are) and about the set at the block in memory.  The facts about `UtxoAt` across
  one block (`ConnectStep`, `DisconnectStep`) come from the assumption on coins.

Only model-checked: everything about liveness; `HeaviestChain`, `BestChainSound` and
`InvalidForCause`; everything about names; `ReplayPossible`; everything about
the transaction pool.

## Where code and comments disagree

Three disagreements have a run that TLC finds violated.

- `found_invalidate_race`: `InvalidateBlock` "is safe for concurrent access"
  (`chain.go:2076`), but in the notification window of a reorganization it can mark a
  block that the reorganization then connects (`chain.go:717`).
- `found_replay_pruned`: after a replay `lastFlushHash` is the tip although nothing was
  flushed (`utxocache.go:719`), so a prune can delete blocks "since the utxo cache flush
  last happened" (`utxocache.go:728`).
- `found_name_root`: `disconnectNames` compares the root of the states below the block
  with the root in its header (`namevalidate.go:1256`), which differ as soon as a name
  changed earlier in an interval longer than one block.

Others were met while modelling; the models follow the code in each.

- `connectBestChain` answers "main chain" when the reorganization was given up because
  an ancestor is invalid (`chain.go:1434`, comment at 1278).
- A failed reorganization marks the blocks of its attach list, not other descendants of
  the bad block (`chain.go:1245`, comment at 1238).  `InvalidateBlock` of a block on the
  best chain likewise leaves descendants on side branches unmarked (`chain.go:2142`,
  comment at 2072) and may then choose one of them as the best tip (`chain.go:2180`).
- A block that was invalidated when only its header was known is connected when its
  data comes (`accept.go:74`).
- With every tip invalid, `bestTip` is nil and is dereferenced (`chain.go:2202`).
- `handleBlockMsg` invalidates the block it delivered for a rule error about an orphan
  that was waiting for it (`netsync/manager.go:943`, comment at 929).
- `BFFastAdd` of a block is passed on to the orphans that waited for it
  (`process.go:119`, comment at 22), and `processOrphans` returns at the first refused
  orphan (`process.go:120`, comment at 77).
- `lastFlushHash` is set inside a transaction that may be rolled back
  (`utxocache.go:543`, comment at 223).
- `oldestOrphan` is not reset when its block leaves the pool, so the pool may exceed its
  limit by one (`chain.go:338`, comment at 315).
- When a block is disconnected, a transaction that another of the block spends may be
  refused because an RPC client has submitted it again; the handler then drops it with
  its redeemers, and the other, which is missing a parent, is no error.  Pool
  transactions that spend that other one stay without inputs (`netsync/manager.go:1889`,
  comment at 1892).
- Blocks that connect while the node is not current leave their transactions in the pool
  (`netsync/manager.go:1810`); the comment at 1808 takes the pool to be empty.
- `RemoveNameConflicts` drops a later update of a name that does not spend the confirmed
  one directly (`mempool.go:750`); the comment at `netsync/manager.go:1835` says that
  dependents are kept because they are valid.
- A disconnected name transaction whose child is in the pool is refused, since the child
  is the index's entry and is not spent by it, and both go (`mempool.go:1615`); the
  comment at `netsync/manager.go:1885` says that all are reinserted.
- The orphans that a connected block sets free are added without the limit on memory
  (`netsync/manager.go:1844`); the next addition enforces it.
- With a second caller in the notification window, the closing flush of `connectBlock`
  records the state from before the notification (`chain.go:725`), so the consistency
  record can name a block off the best chain, against the comment at
  `utxocache.go:657`.  The cause is that of `found_invalidate_race`.

The first and the third of the pool's cases were reproduced with TLC on instances of
`TxPool` with a block of two transactions and with a property that dependents stay;
the second and the fourth were read from the code.

## What is not modelled

- Cryptography: proof of work, scripts, claim and airdrop proofs, the Brontide
  handshake.  Where the control flow depends on them they are a verdict.
- Encodings (`wire`, `hnsjson`, serialization of states and undo records) and the
  translation of state to JSON: sequential code that unit tests and vectors reach.
- The pool's unconfirmed address index, the fee estimator, and the notifications of
  `invalidateblock` and `reconsiderblock`, which reach the pool from RPC goroutines.
- The byte sizes of the utxo cache: a flush may happen at any time.
- Configuration, logging and process set-up.

## Plan

In order; each step is a module with its MC module, one or two runs, and where the
state is unbounded a proof.

1. Version bits (`thresholdstate.go`): the cached state machine against a recursive
   definition over windows.
2. Connection manager: requests, late dial results after a removal or a stop, retries.
3. Transaction pool: its composition with `NameChain`, blocks with dependent
   transactions, the fee estimator, and proofs of `NoDoubleSpend` and `MemoryExact`.
4. Synchronization: sync peer, requested blocks, stalls and lost peers over an abstract
   chain, for which `BlockChain` is the detailed one; "the node catches up" as liveness.
5. Block database: flat files, write cursor and metadata against crashes, refining a
   database whose transactions are atomic.
6. Peer queues and the stall handler; websocket notification queue; RPC client
   reconnects; stratum jobs and the CPU miner's controller.
7. Indexes, airdrop bitfield, `nameReorgView`, the memory accounting of `mapSlice`.
8. Pure algorithms against reference definitions: block locators, sequence locks,
   retarget, template selection, address manager buckets.
9. Proofs: names (`OwnerHoldsName`, `CacheIsBucket`), `HeaviestChain` for one caller
   without failures, and the invariants of the new modules.
