----------------------------- MODULE NameChain ------------------------------
(***************************************************************************)
(* Names on the chain: the covenants a block applies to a view of the name *)
(* states, the undo journal, the committed root and its cache, connecting  *)
(* and disconnecting blocks.                                               *)
(*                                                                         *)
(* A transaction is one output with its linked input.  Outputs that any    *)
(* coin can pay for (after NONE, OPEN and REDEEM) are not tracked.  A root *)
(* is the function from names to states it commits to.  The coins of a     *)
(* block are restored from a snapshot: UtxoCache is about that.            *)
(***************************************************************************)
EXTENDS Integers, Sequences, FiniteSets, TLAPS

(***************************************************************************)
(* The record kept for a name and what its fields mean at a height: the    *)
(* phase of its auction, whether it has expired, and the reset of both.    *)
(* The resource data and the weak flag of a claim are left out: no rule    *)
(* here reads the one, and the other only refuses claims.                  *)
(***************************************************************************)
CONSTANTS
  None,                 \* the null owner outpoint
  NameTreeInterval, NameBiddingPeriod, NameRevealPeriod, NameLockupPeriod,
  NameRenewalWindow, NameTransferLockup, NameAuctionMaturity,
  NameClaimPeriod, NameClaimFrequency, NameDeflationHeight

ASSUME PeriodAssumption ==
  /\ NameTreeInterval \in Nat \ {0} /\ NameBiddingPeriod \in Nat
  /\ NameRevealPeriod \in Nat /\ NameLockupPeriod \in Nat
  /\ NameRenewalWindow \in Nat \ {0} /\ NameTransferLockup \in Nat \ {0}
  /\ NameAuctionMaturity \in Nat \ {0} /\ NameClaimPeriod \in Nat
  /\ NameClaimFrequency \in Nat /\ NameDeflationHeight \in Nat

\* The null outpoint is no output's.
ASSUME NoneAssumption == None \notin Nat \X Nat

Reset(h) ==
  [height |-> h, renewal |-> h, owner |-> None, value |-> 0, highest |-> 0,
   transfer |-> 0, revoked |-> 0, claimed |-> 0, renewals |-> 0,
   registered |-> FALSE, expired |-> FALSE]

\* isNull: a name without a record.
Null == Reset(0)

Kind(ns, h) ==
  LET bidding == ns.height + NameTreeInterval + 1
      reveal  == bidding + NameBiddingPeriod
      closed  == reveal + NameRevealPeriod
  IN  CASE ns.revoked # 0 -> "revoked"
        [] ns.revoked = 0 /\ ns.claimed # 0 ->
             IF h < ns.height + NameLockupPeriod THEN "locked" ELSE "closed"
        [] OTHER -> IF h < bidding THEN "opening"
                    ELSE IF h < reveal THEN "bidding"
                    ELSE IF h < closed THEN "reveal" ELSE "closed"

IsClaimable(ns, h) == ns.claimed # 0 /\ h < NameClaimPeriod

IsExpired(ns, h) ==
  IF ns.revoked # 0 THEN h >= ns.revoked + NameAuctionMaturity
  ELSE /\ Kind(ns, h) = "closed"
       /\ ~IsClaimable(ns, h)
       /\ h >= ns.renewal + NameRenewalWindow \/ ns.owner = None

MaybeExpire(ns, h) ==
  IF IsExpired(ns, h) THEN [Reset(h) EXCEPT !.expired = TRUE] ELSE ns

-----------------------------------------------------------------------------
CONSTANTS
  Name,
  Reserved,     \* the names that can be claimed
  Rollout,      \* Rollout[n]: the height from which n may be opened
  Address,
  Amount,       \* values of outputs
  MaxHeight,    \* bound on the height
  MaxTxs,       \* bound on the name transactions of a block
  MaxBids,      \* bound on the bids outstanding at a time
  MaxReorg,     \* bound on the blocks disconnected in a row
  DbMayFail     \* may a database transaction fail?

ASSUME NameChainAssumption ==
  /\ Reserved \subseteq Name
  /\ Rollout \in [Name -> Nat]
  /\ Amount \subseteq Nat
  /\ MaxHeight \in Nat /\ MaxTxs \in Nat /\ MaxBids \in Nat /\ MaxReorg \in Nat
  /\ DbMayFail \in BOOLEAN

VARIABLES
  height,   \* of the tip
  names,    \* the name state bucket
  root,     \* the committed name root
  cache,    \* nameRootCache: None, or the tree and whether it is dirty
  coins,    \* the unspent outputs with a name covenant
  journal,  \* for each of the last blocks, its header root and its undo records
  view      \* the block being connected: its states, undo, coins, ...

vars == <<height, names, root, cache, coins, journal, view>>

h == height + 1     \* the height of the block being connected

EmptyView(ns, cs) ==
  [states |-> ns, undo |-> <<>>, coins |-> cs, mutable |-> {}, txs |-> 0]

Init ==
  /\ height = 0
  /\ names = [n \in Name |-> Null]
  /\ root = names
  /\ cache = None
  /\ coins = {}
  /\ journal = <<>>
  /\ view = EmptyView(names, coins)

(***************************************************************************)
(* Covenants.  A coin has the name and the height item of its covenant.    *)
(***************************************************************************)
NewId == <<h, view.txs>>

NewCoin(type, n, start, amount, bid, addr, to) ==
  [id |-> NewId, type |-> type, name |-> n, start |-> start, amount |-> amount,
   bid |-> bid, addr |-> addr, to |-> to]

\* applyCovenantOutput before its switch: set on a null state, then maybeExpire.
Prepared(n) ==
  MaybeExpire(IF view.states[n] = Null THEN Reset(h) ELSE view.states[n], h)

\* Mutant: the last change of a name in a block is journalled.
RecordChange_Last(n, ns) ==
  IF ns = view.states[n] THEN view.undo
  ELSE Append(SelectSeq(view.undo, LAMBDA e : e.name # n),
              [name |-> n, state |-> view.states[n]])

\* recordChange: the first change of a name in a block is journalled.
RecordChange(n, ns) ==
  IF ns = view.states[n] \/ \E i \in DOMAIN view.undo : view.undo[i].name = n
  THEN view.undo
  ELSE Append(view.undo, [name |-> n, state |-> view.states[n]])

\* A transaction that spends the coins `ins`, makes the coins `outs` and leaves
\* name n in state ns.
Apply(n, ns, ins, outs, mut) ==
  /\ height < MaxHeight /\ view.txs < MaxTxs
  /\ mut => n \notin view.mutable        \* checkBlockNameLimits
  /\ view' = [states |-> [view.states EXCEPT ![n] = ns],
              undo |-> RecordChange(n, ns),
              coins |-> (view.coins \ ins) \cup outs,
              mutable |-> IF mut THEN view.mutable \cup {n} ELSE view.mutable,
              txs |-> view.txs + 1]
  /\ UNCHANGED <<height, names, root, cache, coins, journal>>

Claim(n, commit, amount, addr) ==
  LET ns == Prepared(n)
      ownerCoin == {c \in view.coins : c.id = ns.owner}
  IN  /\ \/ Kind(ns, h) \in {"opening", "locked"}
         \/ Kind(ns, h) = "closed" /\ ~ns.registered
      /\ ~ns.expired /\ n \in Reserved /\ h < NameClaimPeriod
      /\ commit <= height /\ commit > ns.claimed
      /\ h >= NameDeflationHeight =>
           IF ns.owner = None THEN commit = 1
           ELSE /\ h >= ns.height + NameClaimFrequency
                /\ \E c \in ownerCoin : c.amount = amount
      /\ Apply(n, [ns EXCEPT !.height = h, !.renewal = h, !.claimed = commit, !.value = 0,
                             !.owner = NewId, !.highest = 0],
               {}, {NewCoin("claim", n, h, amount, 0, addr, None)}, TRUE)

Open(n) ==
  LET ns == Prepared(n)
  IN  /\ Kind(ns, h) = "opening" /\ ns.height = h
      /\ ~(n \in Reserved /\ h < NameClaimPeriod)
      /\ h >= Rollout[n]
      /\ Apply(n, ns, {}, {}, TRUE)

Bid(n, amount, bid, addr) ==
  LET ns == Prepared(n)
  IN  /\ view.states[n] # Null
      /\ Kind(ns, h) = "bidding"
      /\ Cardinality({c \in view.coins : c.type = "bid"}) < MaxBids
      /\ Apply(n, ns, {}, {NewCoin("bid", n, ns.height, amount, bid, addr, None)}, FALSE)

\* The value revealed is the one blinded in the bid, covered by its coin.
Reveal(c) ==
  LET ns == Prepared(c.name)
  IN  /\ c.type = "bid" /\ c.start = ns.height
      /\ Kind(ns, h) = "reveal"
      /\ c.bid <= c.amount
      /\ Apply(c.name,
               IF ns.owner = None \/ c.bid > ns.highest
               THEN [ns EXCEPT !.value = ns.highest, !.owner = NewId, !.highest = c.bid]
               ELSE IF c.bid > ns.value THEN [ns EXCEPT !.value = c.bid] ELSE ns,
               {c}, {NewCoin("reveal", c.name, c.start, c.bid, 0, c.addr, None)}, FALSE)

Redeem(c) ==
  LET ns == Prepared(c.name)
  IN  /\ c.type = "reveal" /\ c.start = ns.height
      /\ Kind(ns, h) \in {"closed", "revoked"}
      /\ c.id # ns.owner
      /\ Apply(c.name, ns, {c}, {}, FALSE)

Register(c) ==
  LET ns == Prepared(c.name)
  IN  /\ c.type \in {"claim", "reveal"} /\ c.start = ns.height
      /\ Kind(ns, h) = "closed" /\ c.id = ns.owner
      /\ Apply(c.name, [ns EXCEPT !.registered = TRUE, !.owner = NewId, !.renewal = h],
               {c}, {NewCoin("owned", c.name, c.start, ns.value, 0, c.addr, None)}, TRUE)

\* What UPDATE, RENEW, TRANSFER, FINALIZE and REVOKE require of their input.
OwnerSpends(c, ns) ==
  /\ c.start = ns.height /\ Kind(ns, h) = "closed" /\ c.id = ns.owner

Update(c) ==
  LET ns == Prepared(c.name)
  IN  /\ c.type \in {"owned", "transfer"} /\ OwnerSpends(c, ns)
      /\ Apply(c.name, [ns EXCEPT !.owner = NewId, !.transfer = 0],
               {c}, {NewCoin("owned", c.name, c.start, c.amount, 0, c.addr, None)}, TRUE)

Renew(c) ==
  LET ns == Prepared(c.name)
  IN  /\ c.type \in {"owned", "transfer"} /\ OwnerSpends(c, ns)
      /\ h >= ns.renewal + NameTreeInterval
      /\ Apply(c.name, [ns EXCEPT !.owner = NewId, !.transfer = 0, !.renewal = h,
                                  !.renewals = ns.renewals + 1],
               {c}, {NewCoin("owned", c.name, c.start, c.amount, 0, c.addr, None)}, TRUE)

Transfer(c, to) ==
  LET ns == Prepared(c.name)
  IN  /\ c.type = "owned" /\ OwnerSpends(c, ns) /\ ns.transfer = 0
      /\ Apply(c.name, [ns EXCEPT !.owner = NewId, !.transfer = h],
               {c}, {NewCoin("transfer", c.name, c.start, c.amount, 0, c.addr, to)}, TRUE)

Finalize(c) ==
  LET ns == Prepared(c.name)
  IN  /\ c.type = "transfer" /\ OwnerSpends(c, ns) /\ ns.transfer # 0
      /\ h >= ns.transfer + NameTransferLockup
      /\ Apply(c.name, [ns EXCEPT !.owner = NewId, !.transfer = 0, !.renewal = h,
                                  !.renewals = ns.renewals + 1],
               {c}, {NewCoin("owned", c.name, c.start, c.amount, 0, c.to, None)}, TRUE)

\* The owner stays the coin that is spent; the output of a REVOKE is unspendable.
Revoke(c) ==
  LET ns == Prepared(c.name)
  IN  /\ c.type \in {"owned", "transfer"} /\ OwnerSpends(c, ns)
      /\ Apply(c.name, [ns EXCEPT !.revoked = h, !.transfer = 0], {c}, {}, TRUE)

(***************************************************************************)
(* The root cache.                                                         *)
(***************************************************************************)

\* applyView on a connect, applyUndo on a disconnect: the changed names are put
\* in the tree; one that is deleted makes the tree dirty.
ApplyToCache(undo, after) ==
  IF cache = None THEN None
  ELSE LET touched == {undo[i].name : i \in DOMAIN undo}
           deleted == \E n \in touched : after[n] = Null
       IN  IF cache.dirty \/ deleted THEN [cache EXCEPT !.dirty = TRUE]
           ELSE [cache EXCEPT !.tree = [n \in Name |-> IF n \in touched THEN after[n]
                                                       ELSE cache.tree[n]]]

\* cachedNameRoot: a missing or dirty tree is rebuilt from the bucket.
CachedNameRoot(c, after) == IF c = None \/ c.dirty THEN after ELSE c.tree

\* Mutant: the root is committed one block early.
Commits_Early(x) == (x + 1) % NameTreeInterval = 0

\* The blocks that commit to the names.
Commits(x) == x % NameTreeInterval = 0

(***************************************************************************)
(* Connecting and disconnecting.                                           *)
(***************************************************************************)
ConnectNames ==
  /\ height < MaxHeight
  /\ LET applied == ApplyToCache(view.undo, view.states)
         newRoot == CachedNameRoot(applied, view.states)
     IN  IF Commits(h)
         THEN root' = newRoot /\ cache' = [tree |-> newRoot, dirty |-> FALSE]
         ELSE root' = root /\ cache' = applied
  /\ height' = h
  /\ names' = view.states
  /\ coins' = view.coins
  /\ journal' = LET j == Append(journal, [undo |-> view.undo, header |-> root,
                                          coins |-> coins, names |-> names])
                IN  IF Len(j) > MaxReorg THEN Tail(j) ELSE j
  /\ view' = EmptyView(names', coins')

\* Mutant: the cache survives the rollback of the block it was updated with.
ConnectFails_KeepsCache ==
  /\ DbMayFail /\ height < MaxHeight
  /\ cache' = ApplyToCache(view.undo, view.states)
  /\ view' = EmptyView(names, coins)
  /\ UNCHANGED <<height, names, root, coins, journal>>

\* The transaction of connectBlock fails: the block is dropped.
ConnectFails ==
  /\ DbMayFail /\ height < MaxHeight
  /\ cache' = None
  /\ view' = EmptyView(names, coins)
  /\ UNCHANGED <<height, names, root, coins, journal>>

LastBlock == journal[Len(journal)]

\* The states an undo record takes `ns` back to.
Undone(ns, undo) ==
  [n \in Name |-> LET old == {i \in DOMAIN undo : undo[i].name = n}
                  IN  IF old = {} THEN ns[n]
                      ELSE undo[CHOOSE i \in old : TRUE].state]

\* disconnectNames; its closing assertion makes the whole transaction fail.
DisconnectNames ==
  /\ journal # <<>> /\ view.txs = 0
  /\ LET before == Undone(names, LastBlock.undo)
         applied == ApplyToCache(LastBlock.undo, before)
         oldRoot == CachedNameRoot(applied, before)
     IN  IF Commits(height) /\ oldRoot # LastBlock.header
         THEN /\ cache' = None
              /\ UNCHANGED <<height, names, root, coins, journal, view>>
         ELSE /\ height' = height - 1
              /\ names' = before
              /\ coins' = LastBlock.coins
              /\ journal' = SubSeq(journal, 1, Len(journal) - 1)
              /\ view' = EmptyView(names', coins')
              /\ IF Commits(height)
                 THEN root' = oldRoot /\ cache' = [tree |-> oldRoot, dirty |-> FALSE]
                 ELSE root' = root /\ cache' = applied

DisconnectFails ==
  /\ DbMayFail /\ journal # <<>> /\ view.txs = 0
  /\ cache' = None
  /\ UNCHANGED <<height, names, root, coins, journal, view>>

Next ==
  \/ \E n \in Name : Open(n)
  \/ \E n \in Name, amount, bid \in Amount, addr \in Address : Bid(n, amount, bid, addr)
  \/ \E n \in Name, commit \in 1 .. MaxHeight, amount \in Amount, addr \in Address :
       Claim(n, commit, amount, addr)
  \/ \E c \in view.coins : \/ Reveal(c) \/ Redeem(c) \/ Register(c) \/ Update(c)
                           \/ Renew(c) \/ Finalize(c) \/ Revoke(c)
                           \/ \E to \in Address : Transfer(c, to)
  \/ ConnectNames
  \/ ConnectFails
  \/ DisconnectNames
  \/ DisconnectFails

Spec == Init /\ [][Next]_vars

(***************************************************************************)
(* Properties.                                                             *)
(***************************************************************************)
NameRecord ==
  [height: 0 .. MaxHeight, renewal: 0 .. MaxHeight,
   owner: {None} \cup ((1 .. MaxHeight) \X (0 .. MaxTxs)),
   value: Amount \cup {0}, highest: Amount \cup {0}, transfer: 0 .. MaxHeight,
   revoked: 0 .. MaxHeight, claimed: 0 .. MaxHeight, renewals: 0 .. MaxHeight,
   registered: BOOLEAN, expired: BOOLEAN]

TypeOK ==
  /\ height \in 0 .. MaxHeight
  /\ \A n \in Name : names[n] \in NameRecord /\ root[n] \in NameRecord
                     /\ view.states[n] \in NameRecord
  /\ cache # None => \A n \in Name : cache.tree[n] \in NameRecord
  /\ Len(journal) <= MaxReorg
  /\ view.txs \in 0 .. MaxTxs

\* Until its auction closes, the name is owned by the highest bid revealed on
\* this chain, priced at the second highest (case CovenantReveal).
SecondPriceAuction ==
  \A n \in Name : LET ns == names[n]
                      bids == {c \in coins : /\ c.type = "reveal" /\ c.name = n
                                             /\ c.start = ns.height}
                      won == {c \in bids : c.id = ns.owner}
                  IN  Kind(ns, height) = "reveal" /\ bids # {} =>
                        \E w \in won :
                          /\ \A c \in bids : c.amount <= w.amount
                          /\ ns.highest = w.amount
                          /\ \A c \in bids \ {w} : c.amount <= ns.value
                          /\ IF bids = {w} THEN ns.value = 0
                             ELSE \E c \in bids \ {w} : c.amount = ns.value

\* A name that was won or claimed has an owner that can act: the owner outpoint is
\* unspent, is for this name and this auction, and no other coin holds the name.
OwnerHoldsName ==
  \A n \in Name : LET ns == names[n] IN
    ns.owner # None /\ ns.revoked = 0 =>
      /\ \E c \in coins : c.id = ns.owner /\ c.name = n /\ c.start = ns.height
      /\ \A c \in coins : c.name = n /\ c.start = ns.height
                          /\ c.type \in {"owned", "transfer"} => c.id = ns.owner

\* A root cache that is not dirty is the tree of the bucket, also after a
\* database transaction was rolled back (namevalidate.go:1269).
CacheIsBucket == cache # None => cache.dirty \/ cache.tree = names

\* The undo records of the blocks after the last commitment take the live states
\* back to the committed ones (dbBuildNameProofTree).
ProofTreeRewinds ==
  LET rewound[i \in 0 .. Len(journal)] ==
        IF i = 0 THEN names ELSE Undone(rewound[i - 1], journal[Len(journal) - i + 1].undo)
      back == height % NameTreeInterval
  IN  back <= Len(journal) => rewound[back] = root

\* Disconnecting a block gives every name the state it had before the block, even
\* one changed by several of its transactions, created or expired by it.
DisconnectStep ==
  height' < height => names' = LastBlock.names /\ root' = LastBlock.header
DisconnectRestores == [][DisconnectStep]_vars

TransferStep ==
     \A n \in Name : \A c \in coins, d \in coins' :
       /\ height' > height /\ names[n].registered /\ names'[n].registered
       /\ names'[n].height = names[n].height
       /\ c.id = names[n].owner /\ d.id = names'[n].owner /\ c.addr # d.addr
       => /\ names[n].transfer # 0
          /\ height' >= names[n].transfer + NameTransferLockup
          /\ d.addr = c.to

\* A registered name changes hands only to the address its TRANSFER named, and only
\* after the transfer waited its lockup (applyFinalize).
TransferWaits == [][TransferStep]_vars

\* The assertion that ends disconnectNames (namevalidate.go:1257).
DisconnectRootMatches ==
  journal # <<>> /\ Commits(height) =>
    Undone(names, LastBlock.undo) = LastBlock.header

(***************************************************************************)
(* Proofs, for every set of names, length of the periods, number of blocks *)
(* and of transactions in them.                                            *)
(***************************************************************************)

State ==
  [height: Nat, renewal: Nat, owner: {None} \cup (Nat \X Nat), value: Nat, highest: Nat,
   transfer: Nat, revoked: Nat, claimed: Nat, renewals: Nat, registered: BOOLEAN,
   expired: BOOLEAN]

Coin ==
  [id: Nat \X Nat, type: {"claim", "bid", "reveal", "owned", "transfer"}, name: Name,
   start: Nat, amount: Nat, bid: Nat, addr: Address \cup {None}, to: Address \cup {None}]

UndoRecord == [name: Name, state: State]

\* An undo journal goes from the states `new` back to `old`: its records hold the old
\* state of their names, and a name without a record did not change.
UndoOK(undo, old, new) ==
  /\ undo \in Seq(UndoRecord)
  /\ \A i \in DOMAIN undo : undo[i].state = old[undo[i].name]
  /\ \A n \in Name : (\A i \in DOMAIN undo : undo[i].name # n) => new[n] = old[n]

\* The outpoint was made before transaction k of block x.
Earlier(id, x, k) == id[1] < x \/ (id[1] = x /\ id[2] < k)

StateOK(ns, x, k) ==
  /\ ns.height <= x /\ ns.height <= ns.renewal
  /\ ns.revoked # 0 => ns.height <= ns.revoked
  /\ ns.claimed # 0 => ns.owner # None
  /\ ns.registered => Kind(ns, x) \in {"closed", "revoked"}
  /\ ns.owner # None => Earlier(ns.owner, x, k)

\* No coin of a name is for a later auction, and a coin that holds it is the owner's.
CoinOK(ns, c) ==
  /\ c.start <= ns.height
  /\ c.type \in {"owned", "transfer"} /\ c.start = ns.height =>
       ns.revoked = 0 /\ ns.registered /\ c.id = ns.owner

OwnerOK(n, ns, C) ==
  ns.owner # None /\ ns.revoked = 0 =>
    \E c \in C : /\ c.id = ns.owner /\ c.name = n /\ c.start = ns.height
                 /\ c.type \in IF ns.registered THEN {"owned", "transfer"} ELSE {"claim", "reveal"}

Revealed(c, n, ns) == c.type = "reveal" /\ c.name = n /\ c.start = ns.height

AuctionOK(n, ns, C) ==
  IF ns.owner = None
  THEN ns.highest = 0 /\ \A c \in C : ~Revealed(c, n, ns)
  ELSE \E w \in C :
         /\ Revealed(w, n, ns) /\ w.id = ns.owner /\ w.amount = ns.highest
         /\ ns.value <= ns.highest
         /\ \A c \in C : Revealed(c, n, ns) /\ c # w => c.amount <= ns.value
         /\ \/ ns.value = 0 /\ \A c \in C : Revealed(c, n, ns) => c = w
            \/ \E c \in C : Revealed(c, n, ns) /\ c # w /\ c.amount = ns.value

\* A name after k transactions of block x.
NameOK(n, ns, C, x, k) ==
  /\ StateOK(ns, x, k)
  /\ \A c \in C : c.name = n => CoinOK(ns, c)
  /\ OwnerOK(n, ns, C)
  /\ ns.claimed = 0 /\ Kind(ns, x) \in {"opening", "bidding", "reveal"} => AuctionOK(n, ns, C)

\* Two outputs have two outpoints, all of them from the past.
IdsOK(C, x, k) ==
  /\ \A c \in C : Earlier(c.id, x, k)
  /\ \A c, d \in C : c.id = d.id => c = d

NamesOK(S, C, x, k) ==
  /\ S \in [Name -> State] /\ C \in SUBSET Coin
  /\ IdsOK(C, x, k)
  /\ \A n \in Name : NameOK(n, S[n], C, x, k)

Entry == [undo: Seq(UndoRecord), header: [Name -> State],
          coins: SUBSET Coin, names: [Name -> State]]

\* Block b of height y, which left the states S and the root R, can be undone, and
\* changed the root only if it commits.
BlockAt(b, y, S, R) ==
  /\ UndoOK(b.undo, b.names, S)
  /\ ~Commits(y) => b.header = R
  /\ NamesOK(b.names, b.coins, y - 1, MaxTxs)

\* The journal j of the blocks up to height x, which left the states S and the root R.
JournalAt(j, x, S, R) ==
  /\ j \in Seq(Entry) /\ Len(j) <= x
  /\ Len(j) # 0 => BlockAt(j[Len(j)], x, S, R)
  /\ \A i \in 1 .. Len(j) - 1 :
       BlockAt(j[i], x - Len(j) + i, j[i + 1].names, j[i + 1].header)

CacheOK ==
  cache # None => /\ cache \in [tree: [Name -> State], dirty: BOOLEAN]
                  /\ cache.dirty \/ cache.tree = names

\* What the transactions of a block leave alone until it is connected.
HandOK(n) ==
  /\ n \notin view.mutable /\ names[n].registered =>
       view.states[n] = names[n] \/ view.states[n].height = h
  /\ n \in view.mutable /\ names[n].registered /\ view.states[n].registered
     /\ view.states[n].height = names[n].height =>
       \A c \in coins, d \in view.coins :
         c.id = names[n].owner /\ d.id = view.states[n].owner /\ c.addr # d.addr =>
           /\ names[n].transfer # 0 /\ h >= names[n].transfer + NameTransferLockup
           /\ d.addr = c.to

ViewOK ==
  /\ DOMAIN view = {"states", "undo", "coins", "mutable", "txs"}
  /\ view.txs \in 0 .. MaxTxs /\ view.mutable \in SUBSET Name
  /\ UndoOK(view.undo, names, view.states)
  /\ NamesOK(view.states, view.coins, h, view.txs)
  /\ \A d \in view.coins : d \in coins \/ d.id[1] = h
  /\ \A n \in Name : HandOK(n)

NameInv ==
  /\ height \in Nat /\ root \in [Name -> State]
  /\ NamesOK(names, coins, height, MaxTxs)
  /\ JournalAt(journal, height, names, root) /\ CacheOK /\ ViewOK

USE ZenonT(60)

\* What the phase of a name says of its record.
LEMMA KindCases ==
  ASSUME NEW ns \in State, NEW x \in Nat
  PROVE  LET closed == ns.height + NameTreeInterval + 1 + NameBiddingPeriod + NameRevealPeriod
         IN  /\ (Kind(ns, x) = "revoked") <=> (ns.revoked # 0)
             /\ (Kind(ns, x) = "closed") <=>
                  /\ ns.revoked = 0
                  /\ IF ns.claimed # 0 THEN x >= ns.height + NameLockupPeriod ELSE x >= closed
             /\ (Kind(ns, x) = "locked") <=>
                  ns.revoked = 0 /\ ns.claimed # 0 /\ x < ns.height + NameLockupPeriod
             /\ (Kind(ns, x) \in {"opening", "bidding", "reveal"}) <=>
                  ns.revoked = 0 /\ ns.claimed = 0 /\ x < closed
BY PeriodAssumption, SMTT(60) DEF Kind, State

\* A later block knows at least as many outpoints.
LEMMA EarlierKept ==
  ASSUME NEW id \in Nat \X Nat, NEW x \in Nat, NEW k \in Nat, NEW y \in Nat, NEW l \in Nat,
         x < y \/ (x = y /\ k <= l), Earlier(id, x, k)
  PROVE  Earlier(id, y, l)
BY SMTT(60) DEF Earlier

\* Time passes: what holds of a name holds at the end of the block, and in the next.
LEMMA TimePasses ==
  ASSUME NEW S, NEW C, NEW x \in Nat, NEW k \in Nat, NEW y \in Nat, NEW l \in Nat,
         x < y \/ (x = y /\ k <= l), NamesOK(S, C, x, k)
  PROVE  NamesOK(S, C, y, l)
<1>1. S \in [Name -> State] /\ C \in SUBSET Coin
  BY DEF NamesOK
<1>2. IdsOK(C, y, l)
  BY <1>1, EarlierKept DEF NamesOK, IdsOK, Coin
<1>3. ASSUME NEW n \in Name
      PROVE  NameOK(n, S[n], C, y, l)
  <2> DEFINE ns == S[n]
  <2>1. ns \in State /\ NameOK(n, ns, C, x, k)
    BY <1>1 DEF NamesOK
  <2> HIDE DEF ns
  <2>2. /\ (Kind(ns, x) \in {"closed", "revoked"}) => (Kind(ns, y) \in {"closed", "revoked"})
        /\ (Kind(ns, y) \in {"opening", "bidding", "reveal"}) =>
             (Kind(ns, x) \in {"opening", "bidding", "reveal"})
    BY <2>1, KindCases, PeriodAssumption, SMTT(60) DEF State
  <2>3. ns.owner # None => Earlier(ns.owner, y, l)
    BY <2>1, EarlierKept DEF NameOK, StateOK, State
  <2>4. StateOK(ns, y, l)
    BY <2>1, <2>2, <2>3, SMTT(60) DEF NameOK, StateOK, State
  <2>5. NameOK(n, ns, C, y, l)
    BY <2>1, <2>2, <2>4 DEF NameOK
  <2> QED
    BY <2>5 DEF ns
<1> QED
  BY <1>1, <1>2, <1>3 DEF NamesOK

\* Only a record of an earlier block expires.
LEMMA ExpiredIsOld ==
  ASSUME NEW ns \in State, NEW x \in Nat, NEW k \in Nat, StateOK(ns, x, k), IsExpired(ns, x)
  PROVE  ns.height < x
<1>1. CASE ns.revoked # 0
  BY <1>1, PeriodAssumption, SMTT(60) DEF StateOK, IsExpired, State
<1>2. CASE ns.revoked = 0
  BY <1>2, PeriodAssumption, KindCases, SMTT(60) DEF StateOK, IsExpired, State
<1> QED
  BY <1>1, <1>2

\* A record that was just reset.
LEMMA ResetFacts ==
  ASSUME NEW x \in Nat
  PROVE  /\ Reset(x) \in State /\ [Reset(x) EXCEPT !.expired = TRUE] \in State
         /\ ~IsExpired(Reset(x), x)
<1>1. Reset(x) \in State /\ [Reset(x) EXCEPT !.expired = TRUE] \in State
  BY DEF Reset, State
<1>2. Reset(x).revoked = 0 /\ Reset(x).claimed = 0 /\ Reset(x).height = x
  BY DEF Reset
<1>3. Kind(Reset(x), x) # "closed"
  BY <1>1, <1>2, KindCases, PeriodAssumption, SMTT(60)
<1> QED
  BY <1>1, <1>2, <1>3 DEF IsExpired

\* What applyCovenantOutput makes of a record before its switch.
UpToDate(ns, x) == MaybeExpire(IF ns = Null THEN Reset(x) ELSE ns, x)

\* Before the covenant is applied the record is brought up to date: it is the one the
\* view has, or a new one that no coin refers to.
LEMMA Prepare ==
  ASSUME NEW S, NEW C, NEW x \in Nat, x # 0, NEW k \in Nat, NamesOK(S, C, x, k),
         NEW n \in Name, NEW ns, ns = UpToDate(S[n], x)
  PROVE  /\ ns \in State /\ NameOK(n, ns, C, x, k)
         /\ ns = S[n] \/ (ns.height = x /\ ~ns.registered)
<1>1. S[n] \in State /\ NameOK(n, S[n], C, x, k) /\ C \in SUBSET Coin
  BY DEF NamesOK
<1>2. CASE ns = S[n]
  BY <1>1, <1>2
<1>3. ASSUME ns = Reset(x) \/ ns = [Reset(x) EXCEPT !.expired = TRUE], S[n].height < x
      PROVE  /\ ns \in State /\ NameOK(n, ns, C, x, k)
             /\ ns.height = x /\ ~ns.registered
  <2>1. ns \in State
    BY <1>3, ResetFacts
  <2>2. /\ ns.height = x /\ ns.renewal = x /\ ns.owner = None /\ ns.revoked = 0
        /\ ns.claimed = 0 /\ ns.registered = FALSE /\ ns.highest = 0
    BY <1>3, SMTT(60) DEF Reset
  <2>3. \A c \in C : c.name = n => c.start < x
    BY <1>1, <1>3, SMTT(60) DEF NameOK, CoinOK, State, Coin
  <2>4. StateOK(ns, x, k)
    BY <2>2, SMTT(60) DEF StateOK
  <2>5. \A c \in C : c.name = n => CoinOK(ns, c)
    BY <1>1, <2>2, <2>3, SMTT(60) DEF CoinOK, Coin
  <2>6. AuctionOK(n, ns, C)
    BY <1>1, <2>2, <2>3, SMTT(60) DEF AuctionOK, Revealed, Coin
  <2> QED
    BY <2>1, <2>2, <2>4, <2>5, <2>6 DEF NameOK, OwnerOK
<1>4. CASE S[n] = Null
  <2>1. S[n].height = 0
    BY <1>4, SMTT(60) DEF Null, Reset
  <2> QED
    BY <1>3, <1>4, <2>1, ResetFacts, SMTT(60) DEF MaybeExpire, UpToDate
<1>5. CASE S[n] # Null
  BY <1>1, <1>2, <1>3, <1>5, ExpiredIsOld DEF MaybeExpire, UpToDate, NameOK
<1> QED
  BY <1>4, <1>5

\* A transaction touches the coins of one name: the others are as they were.
LEMMA NameStep ==
  ASSUME NEW S, NEW C, NEW x \in Nat, NEW k \in Nat, NamesOK(S, C, x, k), NEW n \in Name,
         NEW ins, NEW outs \in SUBSET Coin, \A c \in ins : c.name = n,
         \A c \in outs : c.name = n /\ c.id = <<x, k>>,
         \A c, d \in outs : c = d,
         NEW ns \in State, NameOK(n, ns, (C \ ins) \cup outs, x, k + 1)
  PROVE  NamesOK([S EXCEPT ![n] = ns], (C \ ins) \cup outs, x, k + 1)
<1> DEFINE T == [S EXCEPT ![n] = ns]
           D == (C \ ins) \cup outs
<1>1. S \in [Name -> State] /\ C \in SUBSET Coin /\ IdsOK(C, x, k)
      /\ \A m \in Name : NameOK(m, S[m], C, x, k)
  BY DEF NamesOK
<1>2. T \in [Name -> State] /\ D \in SUBSET Coin /\ T[n] = ns
      /\ \A m \in Name \ {n} : T[m] = S[m]
  BY <1>1
<1>3. /\ \A c \in C : Earlier(c.id, x, k) /\ c.id \in Nat \X Nat
      /\ \A c, d \in C : c.id = d.id => c = d
  BY <1>1 DEF IdsOK, Coin
<1>4. /\ \A c \in C : Earlier(c.id, x, k + 1) /\ c.id # <<x, k>>
      /\ Earlier(<<x, k>>, x, k + 1)
  BY <1>3, SMTT(60) DEF Earlier
<1>5. IdsOK(D, x, k + 1)
  BY <1>3, <1>4 DEF IdsOK
<1>6. ASSUME NEW m \in Name \ {n}
      PROVE  NameOK(m, S[m], D, x, k + 1)
  <2>1. S[m] \in State /\ NameOK(m, S[m], C, x, k)
    BY <1>1
  <2>2. \A c : c.name = m => (c \in C <=> c \in D)
    OBVIOUS
  <2>3. StateOK(S[m], x, k + 1)
    BY <2>1, SMTT(60) DEF NameOK, StateOK, Earlier, State
  <2>4. OwnerOK(m, S[m], D)
    BY <2>1, <2>2 DEF NameOK, OwnerOK
  <2>5. AuctionOK(m, S[m], C) => AuctionOK(m, S[m], D)
    BY <2>2 DEF AuctionOK, Revealed
  <2> QED
    BY <2>1, <2>2, <2>3, <2>4, <2>5 DEF NameOK
<1> QED
  BY <1>2, <1>5, <1>6 DEF NamesOK

\* A coin less, or one more that is neither revealed nor held, changes nothing for a name
\* unless it is the owner's.
LEMMA OtherCoin ==
  ASSUME NEW n \in Name, NEW ns \in State, NEW C \in SUBSET Coin, NEW x \in Nat, NEW k \in Nat,
         NEW D \in SUBSET Coin, NameOK(n, ns, C, x, k),
         \A c \in C : c.name = n /\ c \notin D =>
           /\ c.id # ns.owner
           /\ c.type # "reveal" \/ Kind(ns, x) \in {"closed", "revoked"},
         \A c \in D : c.name = n /\ c \notin C => c.type = "bid" /\ c.start = ns.height
  PROVE  NameOK(n, ns, D, x, k + 1)
<1>1. StateOK(ns, x, k + 1)
  BY SMTT(60) DEF NameOK, StateOK, Earlier, State
<1>2. \A c \in D : c.name = n => CoinOK(ns, c)
  BY SMTT(60) DEF NameOK, CoinOK, State
<1>3. OwnerOK(n, ns, D)
  BY DEF NameOK, OwnerOK
<1>4. ASSUME Kind(ns, x) \in {"opening", "bidding", "reveal"}, AuctionOK(n, ns, C)
      PROVE  AuctionOK(n, ns, D)
  <2>1. \A c : Revealed(c, n, ns) => (c \in C <=> c \in D)
    BY <1>4 DEF Revealed
  <2> QED
    BY <1>4, <2>1 DEF AuctionOK
<1> QED
  BY <1>1, <1>2, <1>3, <1>4 DEF NameOK

\* The record after a REVEAL of a bid.
AfterReveal(ns, bid, id) ==
  IF ns.owner = None \/ bid > ns.highest
  THEN [ns EXCEPT !.value = ns.highest, !.owner = id, !.highest = bid]
  ELSE IF bid > ns.value THEN [ns EXCEPT !.value = bid] ELSE ns

\* REVEAL: the new coin wins, sets the price, or neither.
LEMMA RevealName ==
  ASSUME NEW n \in Name, NEW ns \in State, NEW C \in SUBSET Coin, NEW x \in Nat, NEW k \in Nat,
         NameOK(n, ns, C, x, k), IdsOK(C, x, k),
         NEW c \in C, c.name = n, c.type = "bid", c.start = ns.height, Kind(ns, x) = "reveal",
         NEW r \in Coin, r.id = <<x, k>>, r.name = n, r.type = "reveal", r.start = ns.height,
         r.amount = c.bid,
         NEW new, new = AfterReveal(ns, c.bid, <<x, k>>)
  PROVE  new \in State /\ NameOK(n, new, (C \ {c}) \cup {r}, x, k + 1)
<1> DEFINE D == (C \ {c}) \cup {r}
<1>0. c \in Coin /\ c.bid \in Nat
  BY DEF Coin
<1>1. /\ new \in State /\ new.height = ns.height /\ new.renewal = ns.renewal
      /\ new.revoked = ns.revoked /\ new.claimed = ns.claimed /\ new.registered = ns.registered
  BY <1>0 DEF State, AfterReveal
<1>2. \/ new.owner = <<x, k>> /\ new.value = ns.highest /\ new.highest = c.bid
         /\ (ns.owner = None \/ c.bid > ns.highest)
      \/ new.owner = ns.owner /\ new.highest = ns.highest /\ c.bid <= ns.highest /\ ns.owner # None
         /\ \/ c.bid > ns.value /\ new.value = c.bid
            \/ c.bid <= ns.value /\ new.value = ns.value
  BY <1>0, SMTT(60) DEF State, AfterReveal
<1>3. /\ ns.revoked = 0 /\ ns.claimed = 0 /\ ns.registered = FALSE
      /\ Kind(new, x) \in {"opening", "bidding", "reveal"}
      /\ AuctionOK(n, ns, C)
  <2>1. ns.revoked = 0 /\ ns.claimed = 0 /\ AuctionOK(n, ns, C)
    BY KindCases DEF NameOK
  <2>2. ns.registered = FALSE
    BY DEF NameOK, StateOK, State
  <2>3. Kind(new, x) \in {"opening", "bidding", "reveal"}
    BY <1>1, KindCases
  <2> QED
    BY <2>1, <2>2, <2>3
<1>4. r \notin C /\ (\A d \in C : d.id # <<x, k>>) /\ (\A d, e \in C : d.id = e.id => d = e)
  BY SMTT(60) DEF IdsOK, Earlier, Coin
<1>5. StateOK(new, x, k + 1)
  BY <1>1, <1>2, <1>3, NoneAssumption, SMTT(60) DEF NameOK, StateOK, Earlier, State
<1>6. \A d \in D : d.name = n => CoinOK(new, d)
  BY <1>1, <1>3 DEF NameOK, CoinOK, Coin, State
<1>7. \A d : Revealed(d, n, new) => (d \in D <=> d \in C \/ d = r)
  BY <1>1 DEF Revealed
<1>8. \A d : Revealed(d, n, new) <=> Revealed(d, n, ns)
  BY <1>1 DEF Revealed
<1>9. Revealed(r, n, ns) /\ r \in D
  BY DEF Revealed
<1> HIDE DEF D
<1>10. AuctionOK(n, new, D)
  <2>1. CASE ns.owner = None
    <3>1. /\ new.owner = <<x, k>> /\ new.value = 0 /\ new.highest = c.bid /\ new.owner # None
          /\ \A d \in C : ~Revealed(d, n, ns)
      BY <1>2, <1>3, <2>1, NoneAssumption, SMTT(60) DEF AuctionOK
    <3>2. \A d \in D : Revealed(d, n, new) => d = r
      BY <1>7, <1>8, <3>1
    <3> QED
      BY <1>0, <1>8, <1>9, <3>1, <3>2, SMTT(60) DEF AuctionOK
  <2>2. CASE ns.owner # None
    <3>1. PICK w \in C :
             /\ Revealed(w, n, ns) /\ w.id = ns.owner /\ w.amount = ns.highest
             /\ ns.value <= ns.highest
             /\ \A d \in C : Revealed(d, n, ns) /\ d # w => d.amount <= ns.value
             /\ \/ ns.value = 0 /\ \A d \in C : Revealed(d, n, ns) => d = w
                \/ \E d \in C : Revealed(d, n, ns) /\ d # w /\ d.amount = ns.value
      BY <1>3, <2>2 DEF AuctionOK
    <3>2. w \in D /\ w # r /\ \A d \in C : Revealed(d, n, ns) => d \in D
      BY <1>4, <1>7, <1>8, <3>1
    <3>a. \A d \in D : Revealed(d, n, new) =>
                       d = r \/ (d \in C /\ Revealed(d, n, ns) /\ d.amount \in Nat)
      BY <1>7, <1>8, SMTT(60) DEF Coin
    <3>3. CASE new.owner = <<x, k>> /\ new.value = ns.highest /\ new.highest = c.bid
               /\ c.bid > ns.highest
      <4>1. \A d \in D : Revealed(d, n, new) /\ d # r => d.amount <= ns.highest
        BY <3>a, <3>1, SMTT(60) DEF State
      <4>2. new.owner # None /\ new.value <= new.highest
        BY <1>0, <3>3, NoneAssumption, SMTT(60) DEF State
      <4> QED
        BY <1>8, <1>9, <3>1, <3>2, <3>3, <4>1, <4>2 DEF AuctionOK
    <3>4. CASE /\ new.owner = ns.owner /\ new.highest = ns.highest /\ c.bid <= ns.highest
               /\ c.bid > ns.value /\ new.value = c.bid
      <4>1. \A d \in D : Revealed(d, n, new) /\ d # w => d.amount <= new.value
        BY <1>0, <3>a, <3>1, <3>4, SMTT(60) DEF State
      <4> QED
        BY <1>8, <1>9, <2>2, <3>1, <3>2, <3>4, <4>1 DEF AuctionOK
    <3>5. CASE /\ new.owner = ns.owner /\ new.highest = ns.highest /\ c.bid <= ns.value
               /\ new.value = ns.value
      <4>1. \A d \in D : Revealed(d, n, new) /\ d # w => d.amount <= new.value
        BY <1>0, <3>a, <3>1, <3>5 DEF State
      <4>2. \E d \in D : Revealed(d, n, new) /\ d # w /\ d.amount = new.value
        <5>1. CASE ns.value = 0
          BY <1>0, <1>8, <1>9, <3>2, <3>5, <5>1, SMTT(60)
        <5>2. CASE \E d \in C : Revealed(d, n, ns) /\ d # w /\ d.amount = ns.value
          BY <1>8, <3>2, <3>5, <5>2
        <5> QED
          BY <3>1, <5>1, <5>2
      <4> QED
        BY <1>8, <2>2, <3>1, <3>2, <3>5, <4>1, <4>2 DEF AuctionOK
    <3> QED
      BY <1>2, <2>2, <3>3, <3>4, <3>5
  <2> QED
    BY <2>1, <2>2
<1>11. OwnerOK(n, new, D)
  BY <1>1, <1>3, <1>10 DEF OwnerOK, AuctionOK, Revealed
<1> QED
  BY <1>1, <1>5, <1>6, <1>10, <1>11 DEF NameOK, D

\* The input of a holder's covenant, as OwnerSpends asks for it.
OwnerAt(c, ns, x) == c.start = ns.height /\ Kind(ns, x) = "closed" /\ c.id = ns.owner

\* CLAIM: a new auction height, for which there is no coin yet.
LEMMA ClaimName ==
  ASSUME NEW n \in Name, NEW ns \in State, NEW C \in SUBSET Coin, NEW x \in Nat, NEW k \in Nat,
         NameOK(n, ns, C, x, k),
         Kind(ns, x) \in {"opening", "locked"} \/ (Kind(ns, x) = "closed" /\ ~ns.registered),
         NEW commit \in Nat \ {0},
         NEW r \in Coin, r.id = <<x, k>>, r.name = n, r.type = "claim", r.start = x,
         NEW new, new = [ns EXCEPT !.height = x, !.renewal = x, !.claimed = commit, !.value = 0,
                                   !.owner = <<x, k>>, !.highest = 0]
  PROVE  new \in State /\ NameOK(n, new, C \cup {r}, x, k + 1)
<1>1. /\ new \in State /\ new.height = x /\ new.renewal = x /\ new.claimed = commit
      /\ new.owner = <<x, k>> /\ new.revoked = ns.revoked /\ new.registered = ns.registered
  BY DEF State
<1>2. ns.revoked = 0 /\ ns.registered = FALSE
  BY KindCases DEF NameOK, StateOK, State
<1>3. new.owner # None /\ Earlier(new.owner, x, k + 1)
  BY <1>1, NoneAssumption, SMTT(60) DEF Earlier
<1>4. StateOK(new, x, k + 1)
  BY <1>1, <1>2, <1>3, SMTT(60) DEF StateOK
<1>5. ASSUME NEW c \in C, c.name = n
      PROVE  CoinOK(new, c)
  <2>1. CoinOK(ns, c) /\ ns.height <= x
    BY <1>5 DEF NameOK, StateOK
  <2> QED
    BY <1>1, <1>2, <2>1, SMTT(60) DEF CoinOK, Coin, State
<1>6. CoinOK(new, r)
  BY <1>1, SMTT(60) DEF CoinOK
<1>7. OwnerOK(n, new, C \cup {r})
  BY <1>1, <1>2 DEF OwnerOK
<1> QED
  BY <1>1, <1>4, <1>5, <1>6, <1>7 DEF NameOK

\* REGISTER, UPDATE, RENEW, TRANSFER and FINALIZE: the owner's coin is replaced.
LEMMA HolderName ==
  ASSUME NEW n \in Name, NEW ns \in State, NEW C \in SUBSET Coin, NEW x \in Nat, NEW k \in Nat,
         NameOK(n, ns, C, x, k), IdsOK(C, x, k),
         NEW c \in C, c.name = n, OwnerAt(c, ns, x),
         NEW r \in Coin, r.id = <<x, k>>, r.name = n, r.type \in {"owned", "transfer"},
         r.start = c.start,
         NEW new \in State, new.owner = <<x, k>>, new.registered = TRUE,
         new.height = ns.height, new.renewal \in {ns.renewal, x},
         new.revoked = ns.revoked, new.claimed = ns.claimed
  PROVE  NameOK(n, new, (C \ {c}) \cup {r}, x, k + 1)
<1> DEFINE D == (C \ {c}) \cup {r}
<1>1. /\ ns.revoked = 0 /\ c.start = ns.height /\ c.id = ns.owner /\ Kind(new, x) = "closed"
  BY KindCases DEF OwnerAt
<1>2. new.owner # None /\ Earlier(new.owner, x, k + 1)
  BY NoneAssumption, SMTT(60) DEF Earlier
<1>3. StateOK(new, x, k + 1)
  BY <1>1, <1>2 DEF NameOK, StateOK, State
<1>4. ASSUME NEW d \in D, d.name = n
      PROVE  CoinOK(new, d)
  <2>1. CASE d = r
    BY <1>1, <2>1, SMTT(60) DEF CoinOK, State
  <2>2. CASE d # r
    <3>1. d \in C /\ d # c /\ CoinOK(ns, d)
      BY <1>4, <2>2 DEF NameOK
    <3>2. d.id # ns.owner
      BY <1>1, <3>1 DEF IdsOK
    <3> QED
      BY <3>1, <3>2 DEF CoinOK
  <2> QED
    BY <2>1, <2>2
<1>5. OwnerOK(n, new, D)
  BY <1>1 DEF OwnerOK
<1> QED
  BY <1>1, <1>3, <1>4, <1>5 DEF NameOK

\* REVOKE: nobody holds the name any more.
LEMMA RevokeName ==
  ASSUME NEW n \in Name, NEW ns \in State, NEW C \in SUBSET Coin, NEW x \in Nat,
         x # 0, NEW k \in Nat, NameOK(n, ns, C, x, k), IdsOK(C, x, k),
         NEW c \in C, c.name = n, OwnerAt(c, ns, x),
         NEW new, new = [ns EXCEPT !.revoked = x, !.transfer = 0]
  PROVE  new \in State /\ NameOK(n, new, (C \ {c}) \cup {}, x, k + 1)
<1>1. /\ new \in State /\ new.owner = ns.owner /\ new.registered = ns.registered
      /\ new.height = ns.height /\ new.renewal = ns.renewal
      /\ new.revoked = x /\ new.claimed = ns.claimed
  BY DEF State
<1>2. Kind(new, x) = "revoked"
  BY <1>1, KindCases
<1>3. StateOK(new, x, k + 1)
  BY <1>1, <1>2, SMTT(60) DEF NameOK, StateOK, Earlier, State
<1>4. ASSUME NEW d \in C \ {c}, d.name = n
      PROVE  CoinOK(new, d)
  <2>1. CoinOK(ns, d) /\ d.id # ns.owner
    BY <1>4 DEF NameOK, IdsOK, OwnerAt
  <2> QED
    BY <1>1, <2>1 DEF CoinOK
<1> QED
  BY <1>1, <1>2, <1>3, <1>4 DEF NameOK, OwnerOK

\* A sequence with one more element.
LEMMA AppendFacts ==
  ASSUME NEW R, NEW s \in Seq(R), NEW e \in R
  PROVE  /\ Append(s, e) \in Seq(R) /\ Len(Append(s, e)) = Len(s) + 1
         /\ Append(s, e)[Len(s) + 1] = e
         /\ \A i \in 1 .. Len(s) : Append(s, e)[i] = s[i]
BY SMTT(60)

\* recordChange keeps the journal of the block.
LEMMA RecordKeeps ==
  ASSUME NEW undo, NEW old \in [Name -> State], NEW new \in [Name -> State],
         UndoOK(undo, old, new), NEW n \in Name, NEW ns \in State, NEW u,
         u = IF ns = new[n] \/ \E i \in DOMAIN undo : undo[i].name = n THEN undo
             ELSE Append(undo, [name |-> n, state |-> new[n]])
  PROVE  UndoOK(u, old, [new EXCEPT ![n] = ns])
<1> DEFINE T == [new EXCEPT ![n] = ns]
<1>0. /\ undo \in Seq(UndoRecord)
      /\ \A i \in DOMAIN undo : undo[i].state = old[undo[i].name]
      /\ \A m \in Name : (\A i \in DOMAIN undo : undo[i].name # m) => new[m] = old[m]
  BY DEF UndoOK
<1>1. T[n] = ns /\ \A m \in Name \ {n} : T[m] = new[m]
  OBVIOUS
<1> HIDE DEF T
<1>2. CASE ns = new[n]
  <2>1. u = undo /\ \A m \in Name : T[m] = new[m]
    BY <1>1, <1>2
  <2> QED
    BY <1>0, <2>1 DEF UndoOK, T
<1>3. CASE \E i \in DOMAIN undo : undo[i].name = n
  <2>1. u = undo
    BY <1>3
  <2>2. \A m \in Name : (\A i \in DOMAIN undo : undo[i].name # m) => m # n
    BY <1>3
  <2> QED
    BY <1>0, <1>1, <2>1, <2>2 DEF UndoOK, T
<1>4. CASE ~(ns = new[n] \/ \E i \in DOMAIN undo : undo[i].name = n)
  <2> DEFINE e == [name |-> n, state |-> new[n]]
  <2>1. /\ u = Append(undo, e) /\ new[n] = old[n] /\ e \in UndoRecord
        /\ e.name = n /\ e.state = new[n]
    BY <1>0, <1>4 DEF UndoRecord
  <2> HIDE DEF e
  <2>2. /\ u \in Seq(UndoRecord) /\ Len(u) = Len(undo) + 1
        /\ u[Len(undo) + 1] = e /\ \A i \in 1 .. Len(undo) : u[i] = undo[i]
    BY <1>0, <2>1, AppendFacts, SMTT(60)
  <2>3. DOMAIN undo = 1 .. Len(undo) /\ DOMAIN u = 1 .. Len(undo) + 1 /\ Len(undo) \in Nat
    BY <1>0, <2>2, SMTT(60)
  <2>4. \A i \in DOMAIN u : i \in DOMAIN undo \/ i = Len(undo) + 1
    BY <2>3, SMTT(60)
  <2>5. \A i \in DOMAIN u : u[i].state = old[u[i].name]
    <3>1. \A i \in DOMAIN undo : u[i] = undo[i]
      BY <2>2, <2>3
    <3>2. u[Len(undo) + 1].name = n /\ u[Len(undo) + 1].state = old[n]
      BY <2>1, <2>2
    <3> QED
      BY <1>0, <2>4, <3>1, <3>2
  <2>6. ASSUME NEW m \in Name, \A i \in DOMAIN u : u[i].name # m
        PROVE  T[m] = old[m]
    <3>1. m # n
      BY <2>2, <2>3, <2>6, SMTT(60)
    <3>2. \A i \in DOMAIN undo : undo[i].name # m
      BY <2>2, <2>3, <2>6, SMTT(60)
    <3> QED
      BY <1>0, <1>1, <3>1, <3>2
  <2> QED
    BY <2>2, <2>5, <2>6 DEF UndoOK, T
<1> QED
  BY <1>2, <1>3, <1>4

\* What a transaction on name n may do to who holds it before the block is connected.
HandNext(n, ns, C, mut) ==
  IF mut
  THEN names[n].registered /\ ns.registered /\ ns.height = names[n].height =>
         \A c \in coins, d \in C :
           c.id = names[n].owner /\ d.id = ns.owner /\ c.addr # d.addr =>
             /\ names[n].transfer # 0 /\ h >= names[n].transfer + NameTransferLockup
             /\ d.addr = c.to
  ELSE \/ ns = view.states[n]
       \/ /\ ns.registered = FALSE
          /\ \/ ns.height = h
             \/ view.states[n].registered = FALSE /\ ns.height = view.states[n].height

\* Inputs and outputs of a transaction on name n.
Fits(n, ins, outs) ==
  /\ \A c \in ins : c.name = n
  /\ outs \in SUBSET Coin
  /\ \A c \in outs : c.name = n /\ c.id = NewId
  /\ \A c, d \in outs : c = d

\* The outpoint of the next transaction is new.
LEMMA Fresh ==
  ASSUME NEW x \in Nat, NEW k \in Nat
  PROVE  <<x, k>> # None /\ ~Earlier(<<x, k>>, x, k)
BY NoneAssumption, SMTT(60) DEF Earlier

\* A transaction keeps the invariant if it keeps what holds of its name.
LEMMA ApplyKeeps ==
  ASSUME NameInv, NEW n \in Name, NEW ns \in State, NEW ins, NEW outs, Fits(n, ins, outs),
         NEW mut \in BOOLEAN,
         NameOK(n, ns, (view.coins \ ins) \cup outs, h, view.txs + 1),
         HandNext(n, ns, (view.coins \ ins) \cup outs, mut),
         Apply(n, ns, ins, outs, mut)
  PROVE  NameInv'
<1> DEFINE D == (view.coins \ ins) \cup outs
<1>1. /\ height' = height /\ names' = names /\ root' = root /\ cache' = cache
      /\ coins' = coins /\ journal' = journal
  BY DEF Apply
<1>2. /\ view' = [states |-> [view.states EXCEPT ![n] = ns],
                  undo |-> RecordChange(n, ns), coins |-> D,
                  mutable |-> IF mut THEN view.mutable \cup {n} ELSE view.mutable,
                  txs |-> view.txs + 1]
      /\ view.txs < MaxTxs /\ (mut => n \notin view.mutable)
  BY DEF Apply
<1>3. /\ DOMAIN view' = {"states", "undo", "coins", "mutable", "txs"}
      /\ view'.states = [view.states EXCEPT ![n] = ns]
      /\ view'.undo = RecordChange(n, ns)
      /\ view'.coins = D
      /\ view'.mutable = IF mut THEN view.mutable \cup {n} ELSE view.mutable
      /\ view'.txs = view.txs + 1
  BY <1>2
<1>4. /\ height \in Nat /\ h \in Nat /\ h = height + 1 /\ h' = h
      /\ view.txs \in Nat /\ view.mutable \in SUBSET Name
      /\ view.states \in [Name -> State] /\ names \in [Name -> State] /\ view.coins \in SUBSET Coin
      /\ NamesOK(view.states, view.coins, h, view.txs)
  BY <1>1, NameChainAssumption, SMTT(60) DEF NameInv, ViewOK, NamesOK, h
<1>f. /\ \A c \in ins : c.name = n
      /\ outs \in SUBSET Coin
      /\ \A c \in outs : c.name = n /\ c.id = NewId
      /\ \A c, d \in outs : c = d
  BY DEF Fits
<1>5. view'.txs \in 0 .. MaxTxs /\ view'.mutable \in SUBSET Name
  BY <1>2, <1>3, <1>4, NameChainAssumption, SMTT(60) DEF NameInv, ViewOK
<1>6. UndoOK(view'.undo, names', view'.states)
  <2>1. UndoOK(view.undo, names, view.states)
    BY DEF NameInv, ViewOK
  <2>2. UndoOK(RecordChange(n, ns), names, [view.states EXCEPT ![n] = ns])
    BY <1>4, <2>1, RecordKeeps DEF RecordChange
  <2> QED
    BY <1>1, <1>3, <2>2
<1>7. NamesOK(view'.states, view'.coins, h', view'.txs)
  <2>1. \A c \in outs : c.name = n /\ c.id = <<h, view.txs>>
    BY <1>f DEF NewId
  <2>2. NamesOK([view.states EXCEPT ![n] = ns], D, h, view.txs + 1)
    BY <1>4, <1>f, <2>1, NameStep
  <2> QED
    BY <1>3, <1>4, <2>2
<1>8. \A d \in view'.coins : d \in coins' \/ d.id[1] = h'
  BY <1>1, <1>3, <1>4, <1>f, SMTT(60) DEF NameInv, ViewOK, NewId
<1>9. ASSUME NEW m \in Name
      PROVE  HandOK(m)'
  <2>0. HandOK(m)
    BY DEF NameInv, ViewOK
  <2>1. CASE m # n
    <3>1. view'.states[m] = view.states[m] /\ (m \in view'.mutable <=> m \in view.mutable)
      BY <1>3, <1>4, <2>1
    <3>2. view.states[m].owner = None \/ Earlier(view.states[m].owner, h, view.txs)
      BY <1>4 DEF NamesOK, NameOK, StateOK
    <3>a. view.states[m].owner # <<h, view.txs>>
      BY <1>4, <3>2, Fresh
    <3>3. \A d \in view'.coins : d.id = view.states[m].owner => d \in view.coins
      BY <1>3, <1>f, <3>a DEF NewId
    <3> QED
      BY <1>1, <1>4, <2>0, <3>1, <3>3, SMTT(60) DEF HandOK
  <2>2. CASE m = n /\ mut
    BY <1>1, <1>3, <1>4, <2>2, SMTT(60) DEF HandOK, HandNext
  <2>3. CASE m = n /\ ~mut
    <3>1. view'.states[n] = ns /\ view'.mutable = view.mutable
      BY <1>3, <1>4, <2>3
    <3>2. CASE ns = view.states[n]
      <4>2. view.states[m].owner = None \/ Earlier(view.states[m].owner, h, view.txs)
        BY <1>4 DEF NamesOK, NameOK, StateOK
      <4>a. view.states[m].owner # <<h, view.txs>>
        BY <1>4, <4>2, Fresh
      <4>3. \A d \in view'.coins : d.id = view.states[m].owner => d \in view.coins
        BY <1>3, <1>f, <4>a DEF NewId
      <4> QED
        BY <1>1, <1>4, <2>0, <2>3, <3>1, <3>2, <4>3, SMTT(60) DEF HandOK
    <3>3. CASE ns # view.states[n]
      BY <1>1, <1>4, <2>0, <2>3, <3>1, <3>3 DEF HandOK, HandNext
    <3> QED
      BY <3>2, <3>3
  <2> QED
    BY <2>1, <2>2, <2>3
<1>10. ViewOK'
  BY <1>3, <1>5, <1>6, <1>7, <1>8, <1>9 DEF ViewOK
<1>11. /\ JournalAt(journal, height, names, root)' /\ CacheOK'
       /\ NamesOK(names, coins, height, MaxTxs)'
  BY <1>1 DEF NameInv, CacheOK
<1> QED
  BY <1>1, <1>10, <1>11 DEF NameInv

\* The view of the block being connected.
LEMMA ViewFacts ==
  ASSUME NameInv
  PROVE  /\ height \in Nat /\ h \in Nat /\ h # 0 /\ h = height + 1 /\ view.txs \in Nat
         /\ NamesOK(view.states, view.coins, h, view.txs)
         /\ view.states \in [Name -> State] /\ view.coins \in SUBSET Coin
         /\ IdsOK(view.coins, h, view.txs)
BY NameChainAssumption, SMTT(60) DEF NameInv, ViewOK, NamesOK, h

\* The state applyCovenantOutput starts from is that of the view, or a fresh one.
LEMMA PreparedFacts ==
  ASSUME NameInv, NEW n \in Name, NEW ns, ns = Prepared(n)
  PROVE  /\ ns \in State /\ NameOK(n, ns, view.coins, h, view.txs)
         /\ ns = view.states[n] \/ (ns.height = h /\ ns.registered = FALSE)
<1>1. h \in Nat /\ h # 0 /\ view.txs \in Nat /\ NamesOK(view.states, view.coins, h, view.txs)
  BY ViewFacts
<1>2. /\ ns \in State /\ NameOK(n, ns, view.coins, h, view.txs)
      /\ ns = view.states[n] \/ (ns.height = h /\ ~ns.registered)
  <2> DEFINE S == view.states
             C == view.coins
             k == view.txs
  <2>1. ns = UpToDate(S[n], h)
    BY DEF Prepared, UpToDate
  <2>2. h \in Nat /\ h # 0 /\ k \in Nat /\ NamesOK(S, C, h, k)
    BY <1>1
  <2> HIDE DEF S, C, k
  <2>3. /\ ns \in State /\ NameOK(n, ns, C, h, k)
        /\ ns = S[n] \/ (ns.height = h /\ ~ns.registered)
    BY <2>1, <2>2, Prepare, SMTT(60)
  <2> QED
    BY <2>3 DEF S, C, k
<1> QED
  BY <1>2 DEF State

\* A covenant that leaves the record alone, but for an expiry.
LEMMA QuietKeeps ==
  ASSUME NameInv, NEW n \in Name, NEW ns, ns = Prepared(n), NEW ins, NEW outs,
         Fits(n, ins, outs),
         \A c \in ins : c.id # ns.owner /\ Kind(ns, h) \in {"closed", "revoked"},
         \A c \in outs : c.type = "bid" /\ c.start = ns.height,
         NEW mut \in BOOLEAN, mut => ns.registered = FALSE,
         Apply(n, ns, ins, outs, mut)
  PROVE  NameInv'
<1> DEFINE D == (view.coins \ ins) \cup outs
<1>1. /\ ns \in State /\ NameOK(n, ns, view.coins, h, view.txs)
      /\ ns = view.states[n] \/ (ns.height = h /\ ns.registered = FALSE)
  BY PreparedFacts
<1>2. D \in SUBSET Coin /\ view.coins \in SUBSET Coin /\ h \in Nat /\ view.txs \in Nat
  BY ViewFacts DEF Fits
<1>3. NameOK(n, ns, D, h, view.txs + 1)
  <2>1. \A c \in view.coins : c.name = n /\ c \notin D =>
          /\ c.id # ns.owner
          /\ c.type # "reveal" \/ Kind(ns, h) \in {"closed", "revoked"}
    OBVIOUS
  <2>2. \A c \in D : c.name = n /\ c \notin view.coins => c.type = "bid" /\ c.start = ns.height
    OBVIOUS
  <2> HIDE DEF D
  <2> QED
    BY <1>1, <1>2, <2>1, <2>2, OtherCoin
<1>4. HandNext(n, ns, D, mut)
  BY <1>1 DEF HandNext
<1> QED
  BY <1>1, <1>3, <1>4, ApplyKeeps

\* OPEN.
LEMMA OpenKeeps ==
  ASSUME NameInv, NEW n \in Name, Open(n)
  PROVE  NameInv'
<1> DEFINE ns == Prepared(n)
<1>1. Kind(ns, h) = "opening" /\ Apply(n, ns, {}, {}, TRUE)
  BY DEF Open
<1>2. ns.registered = FALSE
  <2>1. ns \in State /\ NameOK(n, ns, view.coins, h, view.txs)
    BY PreparedFacts
  <2> QED
    BY <1>1, <2>1 DEF NameOK, StateOK, State
<1> HIDE DEF ns
<1>3. ns = Prepared(n)
  BY DEF ns
<1>4. Fits(n, {}, {})
  BY DEF Fits
<1> QED
  BY <1>1, <1>2, <1>3, <1>4, QuietKeeps

\* BID.
LEMMA BidKeeps ==
  ASSUME NameInv, NEW n \in Name, NEW amount \in Amount, NEW bid \in Amount, NEW addr \in Address,
         Bid(n, amount, bid, addr)
  PROVE  NameInv'
<1> DEFINE ns == Prepared(n)
           r == NewCoin("bid", n, ns.height, amount, bid, addr, None)
<1>1. Apply(n, ns, {}, {r}, FALSE)
  BY DEF Bid
<1>2. ns \in State
  BY PreparedFacts
<1> HIDE DEF ns
<1>3. ns.height \in Nat /\ h \in Nat /\ view.txs \in Nat
  BY <1>2, ViewFacts DEF State
<1>4. r \in Coin /\ r.id = NewId /\ r.type = "bid" /\ r.name = n /\ r.start = ns.height
  <2>1. /\ "bid" \in {"claim", "bid", "reveal", "owned", "transfer"}
        /\ amount \in Nat /\ bid \in Nat
        /\ addr \in Address \cup {None} /\ None \in Address \cup {None}
    BY NameChainAssumption
  <2> QED
    BY <1>3, <2>1, SMTT(60) DEF NewCoin, NewId, Coin
<1>5. ns = Prepared(n)
  BY DEF ns
<1> HIDE DEF r
<1>6. Fits(n, {}, {r})
  BY <1>4 DEF Fits
<1> QED
  BY <1>1, <1>4, <1>5, <1>6, QuietKeeps

\* REDEEM: only a losing bid is spent.
LEMMA RedeemKeeps ==
  ASSUME NameInv, NEW c \in view.coins, Redeem(c)
  PROVE  NameInv'
<1> DEFINE n == c.name
           ns == Prepared(n)
<1>1. Kind(ns, h) \in {"closed", "revoked"} /\ c.id # ns.owner /\ Apply(n, ns, {c}, {}, FALSE)
  BY DEF Redeem
<1>2. n \in Name
  BY ViewFacts DEF Coin
<1>3. ns = Prepared(n) /\ n = c.name
  OBVIOUS
<1> HIDE DEF ns, n
<1>4. Fits(n, {c}, {})
  BY <1>3 DEF Fits
<1> QED
  BY <1>1, <1>2, <1>3, <1>4, QuietKeeps

\* CLAIM: the claimed name has a new height and a new owner.
LEMMA ClaimKeeps ==
  ASSUME NameInv, NEW n \in Name, NEW commit \in Nat, commit # 0, NEW amount \in Amount,
         NEW addr \in Address, Claim(n, commit, amount, addr)
  PROVE  NameInv'
<1> DEFINE ns == Prepared(n)
           r == NewCoin("claim", n, h, amount, 0, addr, None)
           new == [ns EXCEPT !.height = h, !.renewal = h, !.claimed = commit, !.value = 0,
                             !.owner = NewId, !.highest = 0]
<1>1. /\ Kind(ns, h) \in {"opening", "locked"} \/ (Kind(ns, h) = "closed" /\ ~ns.registered)
      /\ Apply(n, new, {}, {r}, TRUE)
  BY DEF Claim
<1>2. ns \in State /\ NameOK(n, ns, view.coins, h, view.txs)
  BY PreparedFacts
<1> HIDE DEF ns
<1>3. /\ height \in Nat /\ h \in Nat /\ h = height + 1 /\ view.txs \in Nat
      /\ view.coins \in SUBSET Coin
  BY ViewFacts
<1>4. r \in Coin /\ r.id = NewId /\ r.type = "claim" /\ r.name = n /\ r.start = h
  <2>1. /\ "claim" \in {"claim", "bid", "reveal", "owned", "transfer"}
        /\ amount \in Nat /\ 0 \in Nat
        /\ addr \in Address \cup {None} /\ None \in Address \cup {None}
    BY NameChainAssumption
  <2> QED
    BY <1>3, <2>1, SMTT(60) DEF NewCoin, NewId, Coin
<1> HIDE DEF r
<1>5. new = [ns EXCEPT !.height = h, !.renewal = h, !.claimed = commit, !.value = 0,
                       !.owner = <<h, view.txs>>, !.highest = 0]
  BY DEF NewId
<1>6. r.id = <<h, view.txs>>
  BY <1>4 DEF NewId
<1>7. new.height = h
  BY <1>2 DEF State
<1> HIDE DEF new
<1>8. new \in State /\ NameOK(n, new, view.coins \cup {r}, h, view.txs + 1)
  BY <1>1, <1>2, <1>3, <1>4, <1>5, <1>6, ClaimName
<1>9. names[n].height <= height /\ names[n] \in State
  BY DEF NameInv, NamesOK, NameOK, StateOK
<1>10. new.height # names[n].height
  BY <1>3, <1>7, <1>9, SMTT(60) DEF State
<1>11. HandNext(n, new, (view.coins \ {}) \cup {r}, TRUE)
  BY <1>10 DEF HandNext
<1>12. (view.coins \ {}) \cup {r} = view.coins \cup {r}
  OBVIOUS
<1>13. NameOK(n, new, (view.coins \ {}) \cup {r}, h, view.txs + 1)
  BY <1>8, <1>12
<1>14. Fits(n, {}, {r})
  BY <1>4 DEF Fits
<1> QED
  BY <1>1, <1>8, <1>11, <1>13, <1>14, ApplyKeeps

\* REVEAL: the highest bid revealed so far stays the owner.
LEMMA RevealKeeps ==
  ASSUME NameInv, NEW c \in view.coins, Reveal(c)
  PROVE  NameInv'
<1> DEFINE n == c.name
           ns == Prepared(n)
           r == NewCoin("reveal", n, c.start, c.bid, 0, c.addr, None)
           new == AfterReveal(ns, c.bid, NewId)
<1>1. /\ c.type = "bid" /\ c.start = ns.height /\ Kind(ns, h) = "reveal"
      /\ Apply(n, new, {c}, {r}, FALSE)
  BY DEF Reveal, AfterReveal
<1>2. /\ c \in Coin /\ n \in Name /\ c.start \in Nat /\ c.bid \in Nat
      /\ c.addr \in Address \cup {None}
  BY ViewFacts DEF Coin
<1>3. /\ ns \in State /\ NameOK(n, ns, view.coins, h, view.txs)
      /\ ns = view.states[n] \/ (ns.height = h /\ ns.registered = FALSE)
  BY <1>2, PreparedFacts
<1>n. n = c.name
  OBVIOUS
<1> HIDE DEF ns, n
<1>4. /\ h \in Nat /\ view.txs \in Nat /\ view.coins \in SUBSET Coin
      /\ IdsOK(view.coins, h, view.txs)
  BY ViewFacts
<1>5. /\ r \in Coin /\ r.id = NewId /\ r.type = "reveal" /\ r.name = n /\ r.start = c.start
      /\ r.amount = c.bid
  <2>1. /\ "reveal" \in {"claim", "bid", "reveal", "owned", "transfer"}
        /\ 0 \in Nat /\ None \in Address \cup {None}
    OBVIOUS
  <2> QED
    BY <1>2, <1>4, <2>1, SMTT(60) DEF NewCoin, NewId, Coin
<1> HIDE DEF r
<1>6. new = AfterReveal(ns, c.bid, <<h, view.txs>>)
  BY DEF NewId
<1>7. new.height = ns.height /\ new.registered = ns.registered
  BY <1>3 DEF State, AfterReveal
<1>8. r.id = <<h, view.txs>>
  BY <1>5 DEF NewId
<1>9. new \in State /\ NameOK(n, new, (view.coins \ {c}) \cup {r}, h, view.txs + 1)
  <2> HIDE DEF new
  <2>1. c.name = n /\ r.start = ns.height
    BY <1>1, <1>n, <1>5
  <2> QED
    BY <1>1, <1>2, <1>3, <1>4, <1>5, <1>6, <1>8, <2>1, RevealName
<1> HIDE DEF new
<1>10. ns.registered = FALSE
  BY <1>1, <1>3 DEF NameOK, StateOK, State
<1>11. HandNext(n, new, (view.coins \ {c}) \cup {r}, FALSE)
  BY <1>3, <1>7, <1>10 DEF HandNext
<1>12. Fits(n, {c}, {r})
  BY <1>n, <1>5 DEF Fits
<1> QED
  BY <1>1, <1>2, <1>9, <1>11, <1>12, ApplyKeeps

\* A name registered before the block, that no transaction of the block moved, is as it was
\* in the bucket, and its owner's coin is the one of the last block.
LEMMA Untouched ==
  ASSUME NameInv, NEW n \in Name, n \notin view.mutable, names[n].registered,
         NEW ns, ns = Prepared(n), ns.height = names[n].height,
         NEW c \in view.coins, c.id = ns.owner
  PROVE  ns = names[n] /\ c \in coins /\ \A d \in coins : d.id = names[n].owner => d = c
<1>1. /\ height \in Nat /\ h \in Nat /\ h = height + 1 /\ view.txs \in Nat
      /\ view.coins \in SUBSET Coin
  BY ViewFacts
<1>2. /\ names[n] \in State /\ names[n].height <= height
      /\ names[n].owner # None => Earlier(names[n].owner, height, MaxTxs)
      /\ IdsOK(coins, height, MaxTxs)
  BY DEF NameInv, NamesOK, NameOK, StateOK
<1>3. names[n].height # h
  BY <1>1, <1>2, SMTT(60) DEF State
<1>4. ns = view.states[n] \/ (ns.height = h /\ ns.registered = FALSE)
  BY PreparedFacts
<1>5. view.states[n] = names[n] \/ view.states[n].height = h
  BY DEF NameInv, ViewOK, HandOK
<1>6. ns = names[n]
  BY <1>3, <1>4, <1>5
<1>7. c.id \in Nat \X Nat
  BY <1>1 DEF Coin
<1>8. Earlier(c.id, height, MaxTxs)
  BY <1>2, <1>6, <1>7, NoneAssumption
<1>9. c.id[1] # h
  BY <1>1, <1>7, <1>8, SMTT(60) DEF Earlier
<1>10. c \in coins
  BY <1>9 DEF NameInv, ViewOK
<1> QED
  BY <1>2, <1>6, <1>10 DEF IdsOK

\* The new coin of a holder's covenant pays the same address, unless it finalizes.
PaysHolder(c, ns, r) ==
  \/ c.type \notin {"owned", "transfer"}
  \/ r.addr = c.addr
  \/ ns.transfer # 0 /\ h >= ns.transfer + NameTransferLockup /\ r.addr = c.to

\* REGISTER, UPDATE, RENEW, TRANSFER and FINALIZE.
LEMMA HolderKeeps ==
  ASSUME NameInv, NEW c \in view.coins, NEW n, n = c.name, NEW ns, ns = Prepared(n),
         NEW r, OwnerAt(c, ns, h), PaysHolder(c, ns, r),
         r \in Coin, r.id = NewId, r.name = n, r.type \in {"owned", "transfer"},
         r.start = c.start, NEW new \in State, new.owner = NewId, new.registered = TRUE,
         new.height = ns.height, new.renewal \in {ns.renewal, h},
         new.revoked = ns.revoked, new.claimed = ns.claimed,
         Apply(n, new, {c}, {r}, TRUE)
  PROVE  NameInv'
<1> DEFINE D == (view.coins \ {c}) \cup {r}
<1>1. /\ height \in Nat /\ h \in Nat /\ h = height + 1 /\ view.txs \in Nat
      /\ view.coins \in SUBSET Coin /\ IdsOK(view.coins, h, view.txs)
  BY ViewFacts
<1>2. n \in Name /\ c \in Coin
  BY <1>1 DEF Coin
<1>3. ns \in State /\ NameOK(n, ns, view.coins, h, view.txs)
  BY <1>2, PreparedFacts
<1>4. r.id = <<h, view.txs>> /\ new.owner = <<h, view.txs>>
  BY DEF NewId
<1>5. NameOK(n, new, D, h, view.txs + 1)
  BY <1>1, <1>2, <1>3, <1>4, HolderName
<1>6. Fits(n, {c}, {r})
  BY DEF Fits
<1>7. n \notin view.mutable
  BY DEF Apply
<1>8. HandNext(n, new, D, TRUE)
  <2> SUFFICES ASSUME names[n].registered, new.height = names[n].height,
                      NEW d \in coins, NEW e \in D,
                      d.id = names[n].owner, e.id = new.owner, d.addr # e.addr
               PROVE  /\ names[n].transfer # 0 /\ h >= names[n].transfer + NameTransferLockup
                      /\ e.addr = d.to
    BY DEF HandNext
  <2>1. \A x \in view.coins : Earlier(x.id, h, view.txs)
    BY <1>1 DEF IdsOK
  <2>2. e = r
    BY <1>1, <1>4, <2>1, Fresh
  <2>3. ns.height = names[n].height /\ c.id = ns.owner
    BY DEF OwnerAt
  <2>4. ns = names[n] /\ d = c
    BY <1>2, <1>7, <2>3, Untouched
  <2>5. c.type \in {"owned", "transfer"}
    <3>1. ns.revoked = 0 /\ ns.owner # None
      BY <1>1, <1>2, <1>3, <2>3, KindCases, NoneAssumption DEF OwnerAt, Coin
    <3>2. PICK x \in view.coins : x.id = ns.owner /\ x.type \in {"owned", "transfer"}
      BY <1>3, <2>4, <3>1 DEF NameOK, OwnerOK
    <3> QED
      BY <1>1, <2>3, <3>2 DEF IdsOK
  <2> QED
    BY <2>2, <2>4, <2>5 DEF PaysHolder
<1> QED
  BY <1>2, <1>5, <1>6, <1>8, ApplyKeeps

\* REGISTER: the winner of the auction or the claim.
LEMMA RegisterKeeps ==
  ASSUME NameInv, NEW c \in view.coins, Register(c)
  PROVE  NameInv'
<1> DEFINE n == c.name
           ns == Prepared(n)
           new == [ns EXCEPT !.registered = TRUE, !.owner = NewId, !.renewal = h]
           r == NewCoin("owned", n, c.start, ns.value, 0, c.addr, None)
<1>1. OwnerAt(c, ns, h) /\ c.type \in {"claim", "reveal"} /\ Apply(n, new, {c}, {r}, TRUE)
  BY DEF Register, OwnerSpends, OwnerAt
<1>2. /\ h \in Nat /\ view.txs \in Nat /\ n \in Name /\ c.start \in Nat /\ c.amount \in Nat
      /\ c.addr \in Address \cup {None} /\ c.to \in Address \cup {None}
  BY ViewFacts DEF Coin
<1>3. n = c.name /\ ns = Prepared(n)
  OBVIOUS
<1>4. ns \in State /\ NameOK(n, ns, view.coins, h, view.txs)
  BY <1>2, PreparedFacts
<1> HIDE DEF n, ns
<1>5. /\ new \in State /\ new.owner = NewId /\ new.registered = TRUE
      /\ new.height = ns.height /\ new.renewal \in {ns.renewal, h}
      /\ new.revoked = ns.revoked /\ new.claimed = ns.claimed
  BY <1>2, <1>4 DEF State, NewId
<1>6. /\ r \in Coin /\ r.id = NewId /\ r.name = n /\ r.type \in {"owned", "transfer"}
      /\ r.start = c.start /\ PaysHolder(c, ns, r)
  BY <1>1, <1>2, <1>4, SMTT(60) DEF NewCoin, NewId, Coin, State, PaysHolder
<1> HIDE DEF r, new
<1> QED
  BY <1>1, <1>3, <1>5, <1>6, HolderKeeps

\* UPDATE.
LEMMA UpdateKeeps ==
  ASSUME NameInv, NEW c \in view.coins, Update(c)
  PROVE  NameInv'
<1> DEFINE n == c.name
           ns == Prepared(n)
           new == [ns EXCEPT !.owner = NewId, !.transfer = 0]
           r == NewCoin("owned", n, c.start, c.amount, 0, c.addr, None)
<1>1. OwnerAt(c, ns, h) /\ c.type \in {"owned", "transfer"} /\ Apply(n, new, {c}, {r}, TRUE)
  BY DEF Update, OwnerSpends, OwnerAt
<1>2. /\ h \in Nat /\ view.txs \in Nat /\ n \in Name /\ c.start \in Nat /\ c.amount \in Nat
      /\ c.addr \in Address \cup {None} /\ c.to \in Address \cup {None}
  BY ViewFacts DEF Coin
<1>3. n = c.name /\ ns = Prepared(n)
  OBVIOUS
<1>4. ns \in State /\ NameOK(n, ns, view.coins, h, view.txs)
  BY <1>2, PreparedFacts
<1> HIDE DEF n, ns
<1>5. /\ new \in State /\ new.owner = NewId /\ new.registered = TRUE
      /\ new.height = ns.height /\ new.renewal \in {ns.renewal, h}
      /\ new.revoked = ns.revoked /\ new.claimed = ns.claimed
  <2>1. ns.registered = TRUE
    <3>1. CoinOK(ns, c)
      BY <1>3, <1>4 DEF NameOK
    <3> QED
      BY <1>1, <1>4, <3>1 DEF CoinOK, OwnerAt, State
  <2> QED
    BY <1>2, <1>4, <2>1 DEF State, NewId
<1>6. /\ r \in Coin /\ r.id = NewId /\ r.name = n /\ r.type \in {"owned", "transfer"}
      /\ r.start = c.start /\ PaysHolder(c, ns, r)
  BY <1>1, <1>2, <1>4, SMTT(60) DEF NewCoin, NewId, Coin, State, PaysHolder
<1> HIDE DEF r, new
<1> QED
  BY <1>1, <1>3, <1>5, <1>6, HolderKeeps

\* RENEW.
LEMMA RenewKeeps ==
  ASSUME NameInv, NEW c \in view.coins, Renew(c)
  PROVE  NameInv'
<1> DEFINE n == c.name
           ns == Prepared(n)
           new == [ns EXCEPT !.owner = NewId, !.transfer = 0, !.renewal = h,
                             !.renewals = ns.renewals + 1]
           r == NewCoin("owned", n, c.start, c.amount, 0, c.addr, None)
<1>1. OwnerAt(c, ns, h) /\ c.type \in {"owned", "transfer"} /\ Apply(n, new, {c}, {r}, TRUE)
  BY DEF Renew, OwnerSpends, OwnerAt
<1>2. /\ h \in Nat /\ view.txs \in Nat /\ n \in Name /\ c.start \in Nat /\ c.amount \in Nat
      /\ c.addr \in Address \cup {None} /\ c.to \in Address \cup {None}
  BY ViewFacts DEF Coin
<1>3. n = c.name /\ ns = Prepared(n)
  OBVIOUS
<1>4. ns \in State /\ NameOK(n, ns, view.coins, h, view.txs)
  BY <1>2, PreparedFacts
<1> HIDE DEF n, ns
<1>5. /\ new \in State /\ new.owner = NewId /\ new.registered = TRUE
      /\ new.height = ns.height /\ new.renewal \in {ns.renewal, h}
      /\ new.revoked = ns.revoked /\ new.claimed = ns.claimed
  <2>1. ns.registered = TRUE
    <3>1. CoinOK(ns, c)
      BY <1>3, <1>4 DEF NameOK
    <3> QED
      BY <1>1, <1>4, <3>1 DEF CoinOK, OwnerAt, State
  <2>2. ns.renewals + 1 \in Nat /\ NewId \in Nat \X Nat
    BY <1>2, <1>4, SMTT(60) DEF State, NewId
  <2> QED
    BY <1>2, <1>4, <2>1, <2>2 DEF State
<1>6. /\ r \in Coin /\ r.id = NewId /\ r.name = n /\ r.type \in {"owned", "transfer"}
      /\ r.start = c.start /\ PaysHolder(c, ns, r)
  BY <1>1, <1>2, <1>4, SMTT(60) DEF NewCoin, NewId, Coin, State, PaysHolder
<1> HIDE DEF r, new
<1> QED
  BY <1>1, <1>3, <1>5, <1>6, HolderKeeps

\* TRANSFER: the holder stays the same.
LEMMA TransferKeeps ==
  ASSUME NameInv, NEW c \in view.coins, NEW to \in Address, Transfer(c, to)
  PROVE  NameInv'
<1> DEFINE n == c.name
           ns == Prepared(n)
           new == [ns EXCEPT !.owner = NewId, !.transfer = h]
           r == NewCoin("transfer", n, c.start, c.amount, 0, c.addr, to)
<1>1. OwnerAt(c, ns, h) /\ c.type = "owned" /\ Apply(n, new, {c}, {r}, TRUE)
  BY DEF Transfer, OwnerSpends, OwnerAt
<1>2. /\ h \in Nat /\ view.txs \in Nat /\ n \in Name /\ c.start \in Nat /\ c.amount \in Nat
      /\ c.addr \in Address \cup {None} /\ c.to \in Address \cup {None}
  BY ViewFacts DEF Coin
<1>3. n = c.name /\ ns = Prepared(n)
  OBVIOUS
<1>4. ns \in State /\ NameOK(n, ns, view.coins, h, view.txs)
  BY <1>2, PreparedFacts
<1> HIDE DEF n, ns
<1>5. /\ new \in State /\ new.owner = NewId /\ new.registered = TRUE
      /\ new.height = ns.height /\ new.renewal \in {ns.renewal, h}
      /\ new.revoked = ns.revoked /\ new.claimed = ns.claimed
  <2>1. ns.registered = TRUE
    <3>1. CoinOK(ns, c)
      BY <1>3, <1>4 DEF NameOK
    <3> QED
      BY <1>1, <1>4, <3>1 DEF CoinOK, OwnerAt, State
  <2> QED
    BY <1>2, <1>4, <2>1 DEF State, NewId
<1>6. /\ r \in Coin /\ r.id = NewId /\ r.name = n /\ r.type \in {"owned", "transfer"}
      /\ r.start = c.start /\ PaysHolder(c, ns, r)
  BY <1>1, <1>2, <1>4, SMTT(60) DEF NewCoin, NewId, Coin, State, PaysHolder
<1> HIDE DEF r, new
<1> QED
  BY <1>1, <1>3, <1>5, <1>6, HolderKeeps

\* FINALIZE: the holder changes to the one the transfer named.
LEMMA FinalizeKeeps ==
  ASSUME NameInv, NEW c \in view.coins, Finalize(c)
  PROVE  NameInv'
<1> DEFINE n == c.name
           ns == Prepared(n)
           new == [ns EXCEPT !.owner = NewId, !.transfer = 0, !.renewal = h,
                             !.renewals = ns.renewals + 1]
           r == NewCoin("owned", n, c.start, c.amount, 0, c.to, None)
<1>1. /\ OwnerAt(c, ns, h) /\ c.type = "transfer" /\ ns.transfer # 0
      /\ h >= ns.transfer + NameTransferLockup /\ Apply(n, new, {c}, {r}, TRUE)
  BY DEF Finalize, OwnerSpends, OwnerAt
<1>2. /\ h \in Nat /\ view.txs \in Nat /\ n \in Name /\ c.start \in Nat /\ c.amount \in Nat
      /\ c.addr \in Address \cup {None} /\ c.to \in Address \cup {None}
  BY ViewFacts DEF Coin
<1>3. n = c.name /\ ns = Prepared(n)
  OBVIOUS
<1>4. ns \in State /\ NameOK(n, ns, view.coins, h, view.txs)
  BY <1>2, PreparedFacts
<1> HIDE DEF n, ns
<1>5. /\ new \in State /\ new.owner = NewId /\ new.registered = TRUE
      /\ new.height = ns.height /\ new.renewal \in {ns.renewal, h}
      /\ new.revoked = ns.revoked /\ new.claimed = ns.claimed
  <2>1. ns.registered = TRUE
    <3>1. CoinOK(ns, c)
      BY <1>3, <1>4 DEF NameOK
    <3> QED
      BY <1>1, <1>4, <3>1 DEF CoinOK, OwnerAt, State
  <2>2. ns.renewals + 1 \in Nat /\ NewId \in Nat \X Nat
    BY <1>2, <1>4, SMTT(60) DEF State, NewId
  <2> QED
    BY <1>2, <1>4, <2>1, <2>2 DEF State
<1>6. /\ r \in Coin /\ r.id = NewId /\ r.name = n /\ r.type \in {"owned", "transfer"}
      /\ r.start = c.start /\ PaysHolder(c, ns, r)
  BY <1>1, <1>2, <1>4, SMTT(60) DEF NewCoin, NewId, Coin, State, PaysHolder
<1> HIDE DEF r, new
<1> QED
  BY <1>1, <1>3, <1>5, <1>6, HolderKeeps

\* REVOKE: the coin that holds the name is spent.
LEMMA RevokeKeeps ==
  ASSUME NameInv, NEW c \in view.coins, Revoke(c)
  PROVE  NameInv'
<1> DEFINE n == c.name
           ns == Prepared(n)
           new == [ns EXCEPT !.revoked = h, !.transfer = 0]
           D == (view.coins \ {c}) \cup {}
<1>1. OwnerAt(c, ns, h) /\ Apply(n, new, {c}, {}, TRUE) /\ n \notin view.mutable
  BY DEF Revoke, OwnerSpends, OwnerAt, Apply
<1>2. /\ h \in Nat /\ h # 0 /\ view.txs \in Nat /\ n \in Name
      /\ view.coins \in SUBSET Coin /\ IdsOK(view.coins, h, view.txs)
  BY ViewFacts DEF Coin
<1>3. n = c.name /\ ns = Prepared(n)
  OBVIOUS
<1>4. ns \in State /\ NameOK(n, ns, view.coins, h, view.txs)
  BY <1>2, PreparedFacts
<1> HIDE DEF n, ns
<1>5. new \in State /\ NameOK(n, new, D, h, view.txs + 1)
  BY <1>1, <1>2, <1>3, <1>4, RevokeName
<1>6. new.owner = ns.owner /\ c.id = ns.owner
  BY <1>1, <1>4 DEF State, OwnerAt
<1>7. Fits(n, {c}, {})
  BY <1>3 DEF Fits
<1>8. \A d \in D : d.id # new.owner
  BY <1>2, <1>6 DEF IdsOK
<1>9. HandNext(n, new, D, TRUE)
  BY <1>8 DEF HandNext
<1> QED
  BY <1>1, <1>2, <1>5, <1>7, <1>9, ApplyKeeps

(***************************************************************************)
(* Connecting and disconnecting.                                           *)
(***************************************************************************)

\* The journal of a block takes the states after it back to the ones before it.
LEMMA UndoneIsOld ==
  ASSUME NEW undo, NEW old \in [Name -> State], NEW new \in [Name -> State], UndoOK(undo, old, new)
  PROVE  Undone(new, undo) = old
<1>1. ASSUME NEW n \in Name
      PROVE  Undone(new, undo)[n] = old[n]
  <2> DEFINE I == {i \in DOMAIN undo : undo[i].name = n}
  <2>1. Undone(new, undo)[n] = IF I = {} THEN new[n] ELSE undo[CHOOSE i \in I : TRUE].state
    BY DEF Undone
  <2>2. CASE I = {}
    BY <2>1, <2>2 DEF UndoOK
  <2>3. CASE I # {}
    <3>1. (CHOOSE i \in I : TRUE) \in I
      BY <2>3
    <3> QED
      BY <2>1, <2>3, <3>1 DEF UndoOK
  <2> QED
    BY <2>2, <2>3
<1>2. DOMAIN Undone(new, undo) = Name /\ Undone(new, undo) = [n \in Name |-> Undone(new, undo)[n]]
  BY SMTT(60) DEF Undone
<1> QED
  BY <1>1, <1>2

\* The cached tree follows the bucket.
LEMMA CacheStep ==
  ASSUME CacheOK, names \in [Name -> State], NEW undo, NEW after \in [Name -> State],
         \A n \in Name : (\A i \in DOMAIN undo : undo[i].name # n) => after[n] = names[n],
         NEW applied, applied = ApplyToCache(undo, after)
  PROVE  /\ applied # None => /\ applied \in [tree: [Name -> State], dirty: BOOLEAN]
                              /\ applied.dirty \/ applied.tree = after
         /\ CachedNameRoot(applied, after) = after
<1>1. CASE cache = None
  BY <1>1 DEF ApplyToCache, CachedNameRoot
<1>2. CASE cache # None
  <2> DEFINE touched == {undo[i].name : i \in DOMAIN undo}
             deleted == \E n \in touched : after[n] = Null
             tree == [n \in Name |-> IF n \in touched THEN after[n] ELSE cache.tree[n]]
  <2>1. cache \in [tree: [Name -> State], dirty: BOOLEAN] /\ (cache.dirty \/ cache.tree = names)
    BY <1>2 DEF CacheOK
  <2>2. applied = IF cache.dirty \/ deleted THEN [cache EXCEPT !.dirty = TRUE]
                  ELSE [cache EXCEPT !.tree = tree]
    BY <1>2 DEF ApplyToCache
  <2>3. CASE cache.dirty \/ deleted
    BY <2>1, <2>2, <2>3 DEF CachedNameRoot
  <2>4. CASE ~(cache.dirty \/ deleted)
    <3>1. cache.dirty = FALSE /\ cache.tree = names
      BY <2>1, <2>4
    <3>2. ASSUME NEW n \in Name
          PROVE  tree[n] = after[n]
      BY <3>1
    <3>3. tree = after
      BY <3>2
    <3>4. applied = [cache EXCEPT !.tree = after]
      BY <2>2, <2>4, <3>3
    <3> HIDE DEF tree, deleted
    <3> QED
      BY <2>1, <3>1, <3>4 DEF CachedNameRoot
  <2> QED
    BY <2>3, <2>4
<1> QED
  BY <1>1, <1>2

\* A block without transactions.
LEMMA EmptyViewOK ==
  ASSUME NEW x \in Nat, height' = x, NamesOK(names', coins', x, MaxTxs),
         view' = EmptyView(names', coins')
  PROVE  ViewOK'
<1>a. view' = [states |-> names', undo |-> <<>>, coins |-> coins', mutable |-> {}, txs |-> 0]
  BY DEF EmptyView
<1>1. /\ view'.states = names' /\ view'.undo = <<>> /\ view'.coins = coins' /\ view'.mutable = {}
      /\ view'.txs = 0 /\ DOMAIN view' = {"states", "undo", "coins", "mutable", "txs"}
  BY <1>a, SMTT(60)
<1>2. h' = x + 1 /\ MaxTxs \in Nat
  BY NameChainAssumption DEF h
<1>3. NamesOK(names', coins', h', 0)
  <2>1. x + 1 \in Nat /\ x < x + 1 /\ 0 \in Nat
    BY SMTT(60)
  <2>2. NamesOK(names', coins', x + 1, 0)
    BY <1>2, <2>1, TimePasses
  <2> QED
    BY <1>2, <2>2
<1>4. UndoOK(<<>>, names', names')
  BY SMTT(60) DEF UndoOK
<1>5. \A n \in Name : HandOK(n)'
  BY <1>1 DEF HandOK
<1> QED
  BY <1>1, <1>2, <1>3, <1>4, <1>5, SMTT(60) DEF ViewOK

\* A block is connected.
LEMMA JournalAppend ==
  ASSUME NEW j, NEW x \in Nat, NEW S, NEW R, JournalAt(j, x, S, R), NEW e \in Entry,
         NEW T, NEW Q, BlockAt(e, x + 1, T, Q), e.names = S, e.header = R
  PROVE  JournalAt(Append(j, e), x + 1, T, Q)
<1> DEFINE k == Append(j, e)
<1>1. j \in Seq(Entry) /\ Len(j) \in Nat /\ Len(j) <= x
  BY SMTT(60) DEF JournalAt
<1>2. /\ k \in Seq(Entry) /\ Len(k) = Len(j) + 1 /\ k[Len(k)] = e
      /\ \A i \in 1 .. Len(j) : k[i] = j[i]
  BY <1>1, AppendFacts, SMTT(60)
<1> HIDE DEF k
<1>3. ASSUME NEW i \in 1 .. Len(k) - 1
      PROVE  BlockAt(k[i], x + 1 - Len(k) + i, k[i + 1].names, k[i + 1].header)
  <2>1. i \in 1 .. Len(j) /\ k[i] = j[i] /\ x + 1 - Len(k) + i = x - Len(j) + i
    BY <1>1, <1>2, SMTT(60)
  <2>2. CASE i = Len(j)
    <3>1. k[i + 1] = e /\ x - Len(j) + i = x /\ Len(j) # 0
      BY <1>1, <1>2, <2>2, SMTT(60)
    <3>2. BlockAt(j[Len(j)], x, S, R)
      BY <3>1 DEF JournalAt
    <3> QED
      BY <2>1, <2>2, <3>1, <3>2
  <2>3. CASE i # Len(j)
    <3>1. k[i + 1] = j[i + 1] /\ i \in 1 .. Len(j) - 1
      BY <1>1, <1>2, <2>1, <2>3, SMTT(60)
    <3>2. BlockAt(j[i], x - Len(j) + i, j[i + 1].names, j[i + 1].header)
      BY <3>1 DEF JournalAt
    <3> QED
      BY <2>1, <3>1, <3>2
  <2> QED
    BY <2>2, <2>3
<1>4. BlockAt(k[Len(k)], x + 1, T, Q)
  BY <1>2
<1>5. Len(k) <= x + 1
  BY <1>1, <1>2, SMTT(60)
<1>6. JournalAt(k, x + 1, T, Q)
  BY <1>2, <1>3, <1>4, <1>5, SMTT(60) DEF JournalAt
<1> QED
  BY <1>6 DEF k

\* The oldest block is forgotten.
LEMMA JournalTail ==
  ASSUME NEW j, NEW x \in Nat, NEW S, NEW R, JournalAt(j, x, S, R), Len(j) # 0
  PROVE  JournalAt(Tail(j), x, S, R)
<1> DEFINE k == Tail(j)
<1>1. j \in Seq(Entry) /\ Len(j) \in Nat /\ Len(j) <= x /\ j # <<>>
  BY SMTT(60) DEF JournalAt
<1>2. k \in Seq(Entry) /\ Len(k) = Len(j) - 1 /\ \A i \in 1 .. Len(k) : k[i] = j[i + 1]
  BY <1>1, SMTT(60)
<1> HIDE DEF k
<1>3. ASSUME NEW i \in 1 .. Len(k) - 1
      PROVE  BlockAt(k[i], x - Len(k) + i, k[i + 1].names, k[i + 1].header)
  <2> DEFINE l == i + 1
  <2>1. l \in 1 .. Len(j) - 1 /\ k[i] = j[l] /\ x - Len(k) + i = x - Len(j) + l
        /\ k[i + 1] = j[l + 1]
    BY <1>1, <1>2, SMTT(60)
  <2> HIDE DEF l
  <2>2. BlockAt(j[l], x - Len(j) + l, j[l + 1].names, j[l + 1].header)
    BY <2>1 DEF JournalAt
  <2> QED
    BY <2>1, <2>2
<1>4. Len(k) # 0 => BlockAt(k[Len(k)], x, S, R)
  <2>1. Len(k) # 0 => k[Len(k)] = j[Len(j)]
    BY <1>1, <1>2, SMTT(60)
  <2>2. BlockAt(j[Len(j)], x, S, R)
    BY DEF JournalAt
  <2> QED
    BY <2>1, <2>2
<1>5. Len(k) <= x
  BY <1>1, <1>2, SMTT(60)
<1>6. JournalAt(k, x, S, R)
  BY <1>2, <1>3, <1>4, <1>5 DEF JournalAt
<1> QED
  BY <1>6 DEF k

\* A sequence without its last element.
LEMMA FrontFacts ==
  ASSUME NEW D, NEW s \in Seq(D), Len(s) # 0
  PROVE  LET k == SubSeq(s, 1, Len(s) - 1) IN
         k \in Seq(D) /\ Len(k) = Len(s) - 1 /\ \A i \in 1 .. Len(k) : k[i] = s[i]
<1> DEFINE m == Len(s) - 1
           k == SubSeq(s, 1, m)
<1>1. m \in Nat /\ \A i \in 1 .. m : s[i] \in D
  BY SMTT(60)
<1> HIDE DEF m
<1>2. Len(k) = m
  BY <1>1, SMTT(60)
<1>3. \A i \in 1 .. m : k[i] = s[i]
  BY <1>1, SMTT(60)
<1>4. k \in Seq(D)
  BY <1>1, SMTT(60)
<1> QED
  BY <1>2, <1>3, <1>4 DEF m

\* The last block is disconnected.
LEMMA JournalFront ==
  ASSUME NEW j, NEW x \in Nat, NEW S, NEW R, JournalAt(j, x, S, R), Len(j) # 0
  PROVE  /\ x - 1 \in Nat /\ j[Len(j)] \in Entry /\ BlockAt(j[Len(j)], x, S, R)
         /\ JournalAt(SubSeq(j, 1, Len(j) - 1), x - 1, j[Len(j)].names, j[Len(j)].header)
<1> DEFINE k == SubSeq(j, 1, Len(j) - 1)
<1>1. j \in Seq(Entry) /\ Len(j) \in Nat /\ Len(j) <= x
  BY SMTT(60) DEF JournalAt
<1>2. k \in Seq(Entry) /\ Len(k) = Len(j) - 1 /\ \A i \in 1 .. Len(k) : k[i] = j[i]
  BY <1>1, FrontFacts
<1> HIDE DEF k
<1>3. ASSUME NEW i \in 1 .. Len(k) - 1
      PROVE  BlockAt(k[i], x - 1 - Len(k) + i, k[i + 1].names, k[i + 1].header)
  <2>1. i \in 1 .. Len(j) - 1 /\ k[i] = j[i] /\ x - 1 - Len(k) + i = x - Len(j) + i
        /\ k[i + 1] = j[i + 1]
    BY <1>1, <1>2, SMTT(60)
  <2>2. BlockAt(j[i], x - Len(j) + i, j[i + 1].names, j[i + 1].header)
    BY <2>1 DEF JournalAt
  <2> QED
    BY <2>1, <2>2
<1>4. Len(k) # 0 => BlockAt(k[Len(k)], x - 1, j[Len(j)].names, j[Len(j)].header)
  <2> SUFFICES ASSUME Len(k) # 0
               PROVE  BlockAt(k[Len(k)], x - 1, j[Len(j)].names, j[Len(j)].header)
    OBVIOUS
  <2> DEFINE i == Len(k)
  <2>1. i \in 1 .. Len(j) - 1 /\ k[i] = j[i] /\ x - Len(j) + i = x - 1 /\ i + 1 = Len(j)
    BY <1>1, <1>2, SMTT(60)
  <2>2. BlockAt(j[i], x - Len(j) + i, j[i + 1].names, j[i + 1].header)
    BY <2>1 DEF JournalAt
  <2> QED
    BY <2>1, <2>2
<1>5. x - 1 \in Nat /\ j[Len(j)] \in Entry /\ Len(k) <= x - 1
  BY <1>1, <1>2, SMTT(60)
<1>6. JournalAt(k, x - 1, j[Len(j)].names, j[Len(j)].header)
  BY <1>2, <1>3, <1>4, <1>5 DEF JournalAt
<1>7. BlockAt(j[Len(j)], x, S, R)
  BY DEF JournalAt
<1> QED
  BY <1>5, <1>6, <1>7 DEF k

\* The tree of a commitment is the bucket's.
LEMMA CleanCache ==
  ASSUME NEW S \in [Name -> State], names' = S, cache' = [tree |-> S, dirty |-> FALSE]
  PROVE  CacheOK'
BY DEF CacheOK

\* The transactions of a block become the next block of the chain.
LEMMA ConnectKeeps ==
  ASSUME NameInv, ConnectNames
  PROVE  NameInv'
<1> DEFINE e == [undo |-> view.undo, header |-> root, coins |-> coins, names |-> names]
           applied == ApplyToCache(view.undo, view.states)
           R == CachedNameRoot(applied, view.states)
           j == Append(journal, e)
<1>1. /\ height \in Nat /\ h \in Nat /\ h = height + 1 /\ view.txs \in Nat /\ MaxTxs \in Nat
      /\ view.txs <= MaxTxs /\ view.states \in [Name -> State]
  BY ViewFacts, NameChainAssumption, SMTT(60) DEF NameInv, ViewOK
<1>2. /\ root \in [Name -> State] /\ names \in [Name -> State] /\ coins \in SUBSET Coin
      /\ NamesOK(names, coins, height, MaxTxs) /\ JournalAt(journal, height, names, root)
      /\ CacheOK /\ UndoOK(view.undo, names, view.states)
      /\ NamesOK(view.states, view.coins, h, view.txs)
  BY DEF NameInv, ViewOK, NamesOK
<1>3. /\ height' = h /\ names' = view.states /\ coins' = view.coins
      /\ view' = EmptyView(names', coins')
      /\ journal' = IF Len(j) > MaxReorg THEN Tail(j) ELSE j
      /\ IF Commits(h) THEN root' = R /\ cache' = [tree |-> R, dirty |-> FALSE]
                       ELSE root' = root /\ cache' = applied
  BY DEF ConnectNames
<1>4. NamesOK(names', coins', h, MaxTxs)
  BY <1>1, <1>2, <1>3, TimePasses
<1>5. /\ applied # None => /\ applied \in [tree: [Name -> State], dirty: BOOLEAN]
                           /\ applied.dirty \/ applied.tree = view.states
      /\ R = view.states
  BY <1>1, <1>2, CacheStep, SMTT(60) DEF UndoOK
<1>6. e \in Entry /\ e.undo = view.undo /\ e.header = root /\ e.names = names /\ e.coins = coins
  BY <1>2 DEF Entry, UndoOK
<1> HIDE DEF applied, R, e
<1>7. root' \in [Name -> State] /\ (~Commits(h) => root = root')
  BY <1>1, <1>2, <1>3, <1>5
<1>8. BlockAt(e, height + 1, names', root')
  <2>1. height + 1 - 1 = height
    BY <1>1, SMTT(60)
  <2> QED
    BY <1>1, <1>2, <1>3, <1>6, <1>7, <2>1, SMTT(60) DEF BlockAt
<1>9. JournalAt(j, height + 1, names', root') /\ Len(j) # 0
  <2>1. Len(j) # 0
    BY <1>2, <1>6, AppendFacts, SMTT(60) DEF JournalAt
  <2>2. JournalAt(j, height + 1, names', root')
    BY <1>1, <1>2, <1>6, <1>8, JournalAppend
  <2> QED
    BY <2>1, <2>2
<1> HIDE DEF j
<1>10. JournalAt(journal', h, names', root')
  <2>1. JournalAt(Tail(j), height + 1, names', root')
    BY <1>1, <1>9, JournalTail
  <2> QED
    BY <1>1, <1>3, <1>9, <2>1
<1>11. CacheOK'
  <2>1. CASE Commits(h)
    BY <1>1, <1>3, <1>5, <2>1, CleanCache
  <2>2. CASE ~Commits(h)
    <3>1. cache' = applied /\ names' = view.states
      BY <1>3, <2>2
    <3> QED
      BY <1>5, <3>1 DEF CacheOK
  <2> QED
    BY <2>1, <2>2
<1>12. ViewOK'
  BY <1>1, <1>3, <1>4, EmptyViewOK
<1> QED
  BY <1>1, <1>3, <1>4, <1>7, <1>10, <1>11, <1>12 DEF NameInv

\* A block that fails leaves the chain alone, and no cache.
LEMMA ConnectFailsKeeps ==
  ASSUME NameInv, ConnectFails
  PROVE  NameInv'
<1>1. /\ height' = height /\ names' = names /\ root' = root /\ coins' = coins
      /\ journal' = journal /\ cache' = None /\ view' = EmptyView(names', coins')
  BY DEF ConnectFails
<1>2. /\ height \in Nat /\ root \in [Name -> State] /\ NamesOK(names, coins, height, MaxTxs)
      /\ JournalAt(journal, height, names, root)
  BY DEF NameInv
<1>3. ViewOK'
  BY <1>1, <1>2, EmptyViewOK
<1>4. CacheOK'
  BY <1>1 DEF CacheOK
<1> QED
  BY <1>1, <1>2, <1>3, <1>4 DEF NameInv

\* A step that drops the cache and nothing else.
LEMMA DropCacheKeeps ==
  ASSUME NameInv, cache' = None, height' = height, names' = names, root' = root,
         coins' = coins, journal' = journal, view' = view
  PROVE  NameInv'
<1>1. CacheOK'
  BY DEF CacheOK
<1>2. h' = h
  BY DEF h
<1>3. ViewOK'
  <2>1. ViewOK
    BY DEF NameInv
  <2>2. \A n \in Name : HandOK(n) => HandOK(n)'
    BY <1>2 DEF HandOK
  <2> QED
    BY <1>2, <2>1, <2>2 DEF ViewOK
<1> QED
  BY <1>1, <1>3 DEF NameInv

\* The last block is taken back: its records restore the states before it.
LEMMA LastBlockUndone ==
  ASSUME NameInv, journal # <<>>
  PROVE  /\ Len(journal) # 0 /\ height \in Nat /\ height - 1 \in Nat
         /\ LastBlock \in Entry /\ BlockAt(LastBlock, height, names, root)
         /\ JournalAt(SubSeq(journal, 1, Len(journal) - 1), height - 1,
                      LastBlock.names, LastBlock.header)
         /\ Undone(names, LastBlock.undo) = LastBlock.names
<1>1. journal \in Seq(Entry) /\ height \in Nat /\ JournalAt(journal, height, names, root)
      /\ names \in [Name -> State]
  BY DEF NameInv, JournalAt, NamesOK
<1>2. Len(journal) # 0
  BY <1>1, SMTT(60)
<1>3. /\ height - 1 \in Nat /\ LastBlock \in Entry /\ BlockAt(LastBlock, height, names, root)
      /\ JournalAt(SubSeq(journal, 1, Len(journal) - 1), height - 1,
                   LastBlock.names, LastBlock.header)
  BY <1>1, <1>2, JournalFront DEF LastBlock
<1>4. LastBlock.names \in [Name -> State] /\ UndoOK(LastBlock.undo, LastBlock.names, names)
  BY <1>3 DEF Entry, BlockAt
<1> QED
  BY <1>1, <1>2, <1>3, <1>4, UndoneIsOld

\* What a disconnect does to the chain.
LEMMA DisconnectFacts ==
  ASSUME NameInv, DisconnectNames, height' # height
  PROVE  /\ journal # <<>> /\ height' = height - 1
         /\ names' = LastBlock.names /\ root' = LastBlock.header /\ coins' = LastBlock.coins
         /\ journal' = SubSeq(journal, 1, Len(journal) - 1) /\ view' = EmptyView(names', coins')
         /\ CacheOK'
<1> DEFINE before == Undone(names, LastBlock.undo)
           applied == ApplyToCache(LastBlock.undo, before)
           R == CachedNameRoot(applied, before)
<1>1. journal # <<>>
  BY DEF DisconnectNames
<1>2. /\ before = LastBlock.names /\ LastBlock \in Entry /\ BlockAt(LastBlock, height, names, root)
  BY <1>1, LastBlockUndone
<1>3. before \in [Name -> State] /\ names \in [Name -> State] /\ CacheOK
      /\ UndoOK(LastBlock.undo, before, names)
  BY <1>2 DEF Entry, BlockAt, NameInv, NamesOK
<1>4. /\ height' = height - 1 /\ names' = before /\ coins' = LastBlock.coins
      /\ journal' = SubSeq(journal, 1, Len(journal) - 1) /\ view' = EmptyView(names', coins')
      /\ ~(Commits(height) /\ R # LastBlock.header)
      /\ IF Commits(height) THEN root' = R /\ cache' = [tree |-> R, dirty |-> FALSE]
                            ELSE root' = root /\ cache' = applied
  BY DEF DisconnectNames
<1> HIDE DEF before
<1>5. \A n \in Name : (\A i \in DOMAIN LastBlock.undo : LastBlock.undo[i].name # n) =>
                        before[n] = names[n]
  BY <1>3 DEF UndoOK
<1>6. /\ applied # None => /\ applied \in [tree: [Name -> State], dirty: BOOLEAN]
                           /\ applied.dirty \/ applied.tree = before
      /\ R = before
  BY <1>3, <1>5, CacheStep
<1> HIDE DEF applied, R
<1>7. CacheOK'
  <2>1. CASE Commits(height)
    BY <1>3, <1>4, <1>6, <2>1, CleanCache
  <2>2. CASE ~Commits(height)
    <3>1. cache' = applied /\ names' = before
      BY <1>4, <2>2
    <3> QED
      BY <1>6, <3>1 DEF CacheOK
  <2> QED
    BY <2>1, <2>2
<1>8. root' = LastBlock.header
  BY <1>2, <1>4 DEF BlockAt
<1> QED
  BY <1>1, <1>2, <1>4, <1>7, <1>8

\* A block is disconnected, or its closing assertion fails.
LEMMA DisconnectKeeps ==
  ASSUME NameInv, DisconnectNames
  PROVE  NameInv'
<1>1. journal # <<>>
  BY DEF DisconnectNames
<1>2. CASE height' = height
  <2>1. height \in Nat
    BY DEF NameInv
  <2>2. height # height - 1
    BY <2>1, SMTT(60)
  <2>3. /\ cache' = None /\ names' = names /\ root' = root /\ coins' = coins
        /\ journal' = journal /\ view' = view
    BY <1>2, <2>2 DEF DisconnectNames
  <2> QED
    BY <1>2, <2>3, DropCacheKeeps
<1>3. CASE height' # height
  <2> DEFINE x == height - 1
  <2>1. /\ x \in Nat /\ LastBlock \in Entry /\ BlockAt(LastBlock, height, names, root)
        /\ JournalAt(SubSeq(journal, 1, Len(journal) - 1), x, LastBlock.names, LastBlock.header)
    BY <1>1, LastBlockUndone
  <2>2. /\ height' = x /\ names' = LastBlock.names /\ root' = LastBlock.header
        /\ coins' = LastBlock.coins /\ journal' = SubSeq(journal, 1, Len(journal) - 1)
        /\ view' = EmptyView(names', coins') /\ CacheOK'
    BY <1>3, DisconnectFacts
  <2>3. NamesOK(LastBlock.names, LastBlock.coins, x, MaxTxs) /\ root' \in [Name -> State]
    BY <2>1, <2>2 DEF BlockAt, Entry
  <2> HIDE DEF x
  <2>4. ViewOK'
    BY <2>1, <2>2, <2>3, EmptyViewOK
  <2> QED
    BY <2>1, <2>2, <2>3, <2>4 DEF NameInv
<1> QED
  BY <1>2, <1>3

\* A disconnect that fails leaves the chain alone, and no cache.
LEMMA DisconnectFailsKeeps ==
  ASSUME NameInv, DisconnectFails
  PROVE  NameInv'
<1>1. /\ cache' = None /\ height' = height /\ names' = names /\ root' = root /\ coins' = coins
      /\ journal' = journal /\ view' = view
  BY DEF DisconnectFails
<1> QED
  BY <1>1, DropCacheKeeps

\* No name, no coin and no block.
LEMMA NameInvInit ==
  ASSUME Init
  PROVE  NameInv
<1> DEFINE S == [n \in Name |-> Null]
<1>1. /\ height = 0 /\ names = S /\ root = S /\ cache = None /\ coins = {} /\ journal = <<>>
      /\ view = [states |-> S, undo |-> <<>>, coins |-> {}, mutable |-> {}, txs |-> 0]
  BY DEF Init, EmptyView
<1>2. Null \in State /\ MaxTxs \in Nat
  BY NameChainAssumption DEF Null, Reset, State
<1>3. StateOK(Null, 0, MaxTxs)
  BY SMTT(60) DEF StateOK, Null, Reset
<1>4. ASSUME NEW n \in Name
      PROVE  NameOK(n, Null, {}, 0, MaxTxs)
  <2>1. Null.owner = None /\ Null.highest = 0
    BY DEF Null, Reset
  <2> QED
    BY <1>3, <2>1 DEF NameOK, OwnerOK, AuctionOK
<1>5. S \in [Name -> State] /\ \A n \in Name : S[n] = Null
  BY <1>2
<1> HIDE DEF S
<1>6. NamesOK(S, {}, 0, MaxTxs)
  BY <1>4, <1>5 DEF NamesOK, IdsOK
<1>7. NamesOK(S, {}, 1, 0)
  BY <1>2, <1>6, TimePasses, SMTT(60)
<1>8. h = 1
  BY <1>1, SMTT(60) DEF h
<1>9. JournalAt(<<>>, 0, S, S)
  BY SMTT(60) DEF JournalAt
<1>10. CacheOK
  BY <1>1 DEF CacheOK
<1>11. /\ view.states = S /\ view.undo = <<>> /\ view.coins = {} /\ view.mutable = {}
       /\ view.txs = 0 /\ DOMAIN view = {"states", "undo", "coins", "mutable", "txs"}
  BY <1>1
<1>12. UndoOK(<<>>, S, S)
  BY SMTT(60) DEF UndoOK
<1>13. \A n \in Name : HandOK(n)
  BY <1>1, <1>11 DEF HandOK
<1>14. ViewOK
  BY <1>1, <1>2, <1>7, <1>8, <1>11, <1>12, <1>13, SMTT(60) DEF ViewOK
<1> QED
  BY <1>1, <1>5, <1>6, <1>9, <1>10, <1>14 DEF NameInv

\* Every step keeps the invariant.
LEMMA NameInvNext ==
  ASSUME NameInv, [Next]_vars
  PROVE  NameInv'
<1>1. ASSUME NEW n \in Name, Open(n) PROVE NameInv'
  BY <1>1, OpenKeeps
<1>2. ASSUME NEW n \in Name, NEW amount \in Amount, NEW bid \in Amount, NEW addr \in Address,
             Bid(n, amount, bid, addr)
      PROVE  NameInv'
  BY <1>2, BidKeeps
<1>3. ASSUME NEW n \in Name, NEW commit \in 1 .. MaxHeight, NEW amount \in Amount,
             NEW addr \in Address, Claim(n, commit, amount, addr)
      PROVE  NameInv'
  <2>1. commit \in Nat /\ commit # 0
    BY NameChainAssumption, SMTT(60)
  <2> QED
    BY <1>3, <2>1, ClaimKeeps
<1>4. ASSUME NEW c \in view.coins, Reveal(c) PROVE NameInv'
  BY <1>4, RevealKeeps
<1>5. ASSUME NEW c \in view.coins, Redeem(c) PROVE NameInv'
  BY <1>5, RedeemKeeps
<1>6. ASSUME NEW c \in view.coins, Register(c) PROVE NameInv'
  BY <1>6, RegisterKeeps
<1>7. ASSUME NEW c \in view.coins, Update(c) PROVE NameInv'
  BY <1>7, UpdateKeeps
<1>8. ASSUME NEW c \in view.coins, Renew(c) PROVE NameInv'
  BY <1>8, RenewKeeps
<1>9. ASSUME NEW c \in view.coins, Finalize(c) PROVE NameInv'
  BY <1>9, FinalizeKeeps
<1>10. ASSUME NEW c \in view.coins, Revoke(c) PROVE NameInv'
  BY <1>10, RevokeKeeps
<1>11. ASSUME NEW c \in view.coins, NEW to \in Address, Transfer(c, to) PROVE NameInv'
  BY <1>11, TransferKeeps
<1>12. ASSUME UNCHANGED vars PROVE NameInv'
  <2>1. /\ height' = height /\ names' = names /\ root' = root /\ cache' = cache
        /\ coins' = coins /\ journal' = journal /\ view' = view
    BY <1>12 DEF vars
  <2>2. h' = h
    BY <2>1 DEF h
  <2>3. \A n \in Name : HandOK(n) => HandOK(n)'
    BY <2>1, <2>2 DEF HandOK
  <2>4. ViewOK' /\ CacheOK'
    BY <2>1, <2>2, <2>3 DEF NameInv, ViewOK, CacheOK
  <2> QED
    BY <2>1, <2>4 DEF NameInv
<1> QED
  BY <1>1, <1>2, <1>3, <1>4, <1>5, <1>6, <1>7, <1>8, <1>9, <1>10, <1>11, <1>12,
     ConnectKeeps, ConnectFailsKeeps, DisconnectKeeps, DisconnectFailsKeeps DEF Next

\* The strengthened invariant of the names holds in every reachable state.
THEOREM NamesAlwaysSound == Spec => []NameInv
<1>1. Init => NameInv
  BY NameInvInit
<1>2. NameInv /\ [Next]_vars => NameInv'
  BY NameInvNext
<1> QED
  BY <1>1, <1>2, PTL DEF Spec

\* Whatever blocks are connected, disconnected or rolled back, a root cache that is
\* not dirty is the tree of the bucket, so that the roots the node commits to and
\* checks are those of its names.
THEOREM CacheAlwaysBucket == Spec => []CacheIsBucket
<1>1. NameInv => CacheIsBucket
  BY DEF NameInv, CacheOK, CacheIsBucket
<1> QED
  BY <1>1, NamesAlwaysSound, PTL

\* A name that was won or claimed and is not revoked is always held by one unspent
\* coin of its auction, through reorganizations too.
THEOREM OwnerAlwaysHoldsName == Spec => []OwnerHoldsName
<1>1. ASSUME NameInv, NEW n \in Name, names[n].owner # None, names[n].revoked = 0
      PROVE  /\ \E c \in coins : c.id = names[n].owner /\ c.name = n /\ c.start = names[n].height
             /\ \A c \in coins : c.name = n /\ c.start = names[n].height
                                 /\ c.type \in {"owned", "transfer"} => c.id = names[n].owner
  <2>1. NameOK(n, names[n], coins, height, MaxTxs)
    BY <1>1 DEF NameInv, NamesOK
  <2> QED
    BY <1>1, <2>1 DEF NameOK, OwnerOK, CoinOK
<1>2. NameInv => OwnerHoldsName
  BY <1>1 DEF OwnerHoldsName
<1> QED
  BY <1>2, NamesAlwaysSound, PTL

\* The highest of the bids B owns the name, at the price of the second.
SecondPrice(ns, B) ==
  \E w \in {c \in B : c.id = ns.owner} :
    /\ \A c \in B : c.amount <= w.amount
    /\ ns.highest = w.amount
    /\ \A c \in B \ {w} : c.amount <= ns.value
    /\ IF B = {w} THEN ns.value = 0
       ELSE \E c \in B \ {w} : c.amount = ns.value

\* While its reveals are open, a name belongs to the highest of the bids revealed on
\* this chain and is priced at the second highest.
THEOREM AuctionAlwaysSecondPrice == Spec => []SecondPriceAuction
<1>1. ASSUME NameInv, NEW n \in Name, NEW ns, ns = names[n], Kind(ns, height) = "reveal", NEW B,
             B = {c \in coins : c.type = "reveal" /\ c.name = n /\ c.start = ns.height}, B # {}
      PROVE  SecondPrice(ns, B)
  <2>1. ns \in State /\ NameOK(n, ns, coins, height, MaxTxs) /\ height \in Nat
        /\ coins \in SUBSET Coin
    BY <1>1 DEF NameInv, NamesOK
  <2>2. ns.claimed = 0
    BY <1>1, <2>1, KindCases
  <2>3. AuctionOK(n, ns, coins)
    BY <1>1, <2>1, <2>2 DEF NameOK
  <2>4. \A c \in coins : c \in B <=> Revealed(c, n, ns)
    BY <1>1 DEF Revealed
  <2>5. B \subseteq coins /\ B # {} /\ \A c \in coins : c.amount \in Nat
    BY <1>1, <2>1 DEF Coin
  <2>6. ns.value \in Nat /\ ns.highest \in Nat
    BY <2>1 DEF State
  <2>7. PICK w \in coins :
          /\ Revealed(w, n, ns) /\ w.id = ns.owner /\ w.amount = ns.highest
          /\ ns.value <= ns.highest
          /\ \A c \in coins : Revealed(c, n, ns) /\ c # w => c.amount <= ns.value
          /\ \/ ns.value = 0 /\ \A c \in coins : Revealed(c, n, ns) => c = w
             \/ \E c \in coins : Revealed(c, n, ns) /\ c # w /\ c.amount = ns.value
    BY <2>3, <2>4, <2>5 DEF AuctionOK
  <2>8. w \in B /\ \A c \in B \ {w} : c.amount <= ns.value
    BY <2>4, <2>5, <2>7
  <2>9. ASSUME NEW c \in B
        PROVE  c.amount <= w.amount
    <3>1. c = w \/ c.amount <= ns.value
      BY <2>8
    <3> QED
      BY <2>5, <2>6, <2>7, <3>1, SMTT(60)
  <2>10. IF B = {w} THEN ns.value = 0 ELSE \E c \in B \ {w} : c.amount = ns.value
    <3>1. CASE ns.value = 0 /\ \A c \in coins : Revealed(c, n, ns) => c = w
      <4>1. B = {w}
        BY <2>4, <2>5, <2>8, <3>1
      <4> QED
        BY <3>1, <4>1
    <3>2. CASE \E c \in coins : Revealed(c, n, ns) /\ c # w /\ c.amount = ns.value
      <4>1. \E c \in B : c # w /\ c.amount = ns.value
        BY <2>4, <3>2
      <4> QED
        BY <4>1
    <3> QED
      BY <2>7, <3>1, <3>2
  <2>11. /\ w.id = ns.owner /\ \A c \in B : c.amount <= w.amount
         /\ ns.highest = w.amount /\ \A c \in B \ {w} : c.amount <= ns.value
    BY <2>7, <2>8, <2>9
  <2> QED
    BY <2>8, <2>10, <2>11 DEF SecondPrice
<1>2. ASSUME NameInv, NEW n \in Name
      PROVE  LET ns == names[n]
                 bids == {c \in coins : /\ c.type = "reveal" /\ c.name = n
                                        /\ c.start = ns.height}
                 won == {c \in bids : c.id = ns.owner}
             IN  Kind(ns, height) = "reveal" /\ bids # {} =>
                   \E w \in won :
                     /\ \A c \in bids : c.amount <= w.amount
                     /\ ns.highest = w.amount
                     /\ \A c \in bids \ {w} : c.amount <= ns.value
                     /\ IF bids = {w} THEN ns.value = 0
                        ELSE \E c \in bids \ {w} : c.amount = ns.value
  <2> DEFINE ns == names[n]
             B == {c \in coins : c.type = "reveal" /\ c.name = n /\ c.start = ns.height}
  <2>1. ns = names[n]
        /\ B = {c \in coins : c.type = "reveal" /\ c.name = n /\ c.start = ns.height}
    OBVIOUS
  <2> HIDE DEF ns, B
  <2>2. Kind(ns, height) = "reveal" /\ B # {} => SecondPrice(ns, B)
    BY <1>1, <1>2, <2>1
  <2> QED
    BY <2>2 DEF ns, B, SecondPrice
<1>3. NameInv => SecondPriceAuction
  BY <1>2 DEF SecondPriceAuction
<1> QED
  BY <1>3, NamesAlwaysSound, PTL

\* Only a block that is connected or disconnected changes the height.
LEMMA HeightMoves ==
  ASSUME Next, height' # height
  PROVE  ConnectNames \/ DisconnectNames
<1>1. ASSUME NEW n \in Name, Open(n) PROVE height' = height
  BY <1>1 DEF Open, Apply
<1>2. ASSUME NEW n \in Name, NEW amount \in Amount, NEW bid \in Amount, NEW addr \in Address,
             Bid(n, amount, bid, addr) PROVE height' = height
  BY <1>2 DEF Bid, Apply
<1>3. ASSUME NEW n \in Name, NEW commit \in 1 .. MaxHeight, NEW amount \in Amount,
             NEW addr \in Address, Claim(n, commit, amount, addr) PROVE height' = height
  BY <1>3 DEF Claim, Apply
<1>4. ASSUME NEW c \in view.coins, Reveal(c) PROVE height' = height
  BY <1>4 DEF Reveal, Apply
<1>5. ASSUME NEW c \in view.coins, Redeem(c) PROVE height' = height
  BY <1>5 DEF Redeem, Apply
<1>6. ASSUME NEW c \in view.coins, Register(c) PROVE height' = height
  BY <1>6 DEF Register, Apply
<1>7. ASSUME NEW c \in view.coins, Update(c) PROVE height' = height
  BY <1>7 DEF Update, Apply
<1>8. ASSUME NEW c \in view.coins, Renew(c) PROVE height' = height
  BY <1>8 DEF Renew, Apply
<1>9. ASSUME NEW c \in view.coins, Finalize(c) PROVE height' = height
  BY <1>9 DEF Finalize, Apply
<1>10. ASSUME NEW c \in view.coins, Revoke(c) PROVE height' = height
  BY <1>10 DEF Revoke, Apply
<1>11. ASSUME NEW c \in view.coins, NEW to \in Address, Transfer(c, to) PROVE height' = height
  BY <1>11 DEF Transfer, Apply
<1>12. ~ConnectFails /\ ~DisconnectFails
  BY DEF ConnectFails, DisconnectFails
<1> QED
  BY <1>1, <1>2, <1>3, <1>4, <1>5, <1>6, <1>7, <1>8, <1>9, <1>10, <1>11, <1>12 DEF Next

\* Disconnecting a block gives every name the state it had before the block, and the
\* header the root it had.
THEOREM DisconnectAlwaysRestores == Spec => DisconnectRestores
<1>1. ASSUME NameInv, Next, height' < height
      PROVE  names' = LastBlock.names /\ root' = LastBlock.header
  <2>1. height \in Nat /\ height' # height /\ height' # h
    BY <1>1, SMTT(60) DEF NameInv, h
  <2>2. ~ConnectNames
    BY <2>1 DEF ConnectNames
  <2>3. DisconnectNames
    BY <1>1, <2>1, <2>2, HeightMoves
  <2> QED
    BY <1>1, <2>1, <2>3, DisconnectFacts
<1>2. NameInv /\ [Next]_vars => [DisconnectStep]_vars
  BY <1>1 DEF DisconnectStep
<1> QED
  BY <1>2, NamesAlwaysSound, PTL DEF Spec, DisconnectRestores

\* A registered name changes hands only to the address its TRANSFER named, and only
\* after the transfer waited its lockup.
THEOREM TransferAlwaysWaits == Spec => TransferWaits
<1>1. ASSUME NameInv, ConnectNames, NEW n \in Name, NEW c \in coins, NEW d \in coins',
             names[n].registered, names'[n].registered, names'[n].height = names[n].height,
             c.id = names[n].owner, d.id = names'[n].owner, c.addr # d.addr
      PROVE  /\ names[n].transfer # 0 /\ height' >= names[n].transfer + NameTransferLockup
             /\ d.addr = c.to
  <2>1. names' = view.states /\ coins' = view.coins /\ height' = h
    BY <1>1 DEF ConnectNames
  <2>2. HandOK(n)
    BY <1>1 DEF NameInv, ViewOK
  <2>3. CASE n \in view.mutable
    BY <1>1, <2>1, <2>2, <2>3 DEF HandOK
  <2>4. CASE n \notin view.mutable
    <3>1. /\ height \in Nat /\ names[n] \in State /\ coins \in SUBSET Coin
          /\ NameOK(n, names[n], coins, height, MaxTxs) /\ IdsOK(coins, height, MaxTxs)
      BY <1>1 DEF NameInv, NamesOK
    <3>2. names[n].height \in Nat /\ names[n].height <= height /\ c.id \in Nat \X Nat
      BY <3>1 DEF NameOK, StateOK, State, Coin
    <3>3. names[n].height # h
      BY <3>1, <3>2, SMTT(60) DEF h
    <3>4. view.states[n] = names[n]
      BY <1>1, <2>1, <2>2, <2>4, <3>3 DEF HandOK
    <3>5. d.id = c.id
      BY <1>1, <2>1, <3>4
    <3>6. Earlier(c.id, height, MaxTxs)
      BY <3>1 DEF IdsOK
    <3>7. d.id[1] # h
      BY <3>1, <3>2, <3>5, <3>6, SMTT(60) DEF Earlier, h
    <3>8. d \in coins
      BY <1>1, <2>1, <3>7 DEF NameInv, ViewOK
    <3>9. c = d
      BY <3>1, <3>5, <3>8 DEF IdsOK
    <3> QED
      BY <1>1, <3>9
  <2> QED
    BY <2>3, <2>4
<1>2. ASSUME NameInv, Next, height' > height
      PROVE  ConnectNames
  <2>1. height \in Nat /\ height' # height /\ height' # height - 1
    BY <1>2, SMTT(60) DEF NameInv
  <2>2. ~DisconnectNames
    BY <2>1 DEF DisconnectNames
  <2> QED
    BY <1>2, <2>1, <2>2, HeightMoves
<1>3. NameInv /\ [Next]_vars => [TransferStep]_vars
  BY <1>1, <1>2 DEF TransferStep
<1> QED
  BY <1>3, NamesAlwaysSound, PTL DEF Spec, TransferWaits
=============================================================================
