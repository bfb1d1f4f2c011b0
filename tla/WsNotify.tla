------------------------------ MODULE WsNotify ------------------------------
(***************************************************************************)
(* The notification manager of the websocket server (rpcwebsocket.go): the *)
(* registrations of the clients, the queue through which block, mempool    *)
(* and registration events reach the one notification handler, who is told *)
(* of what, and the rescans that hand over to live notifications.          *)
(*                                                                         *)
(* A block is a member of a fixed tree and carries a sequence of           *)
(* transactions; a transaction is a record of inputs [op, from] (from is   *)
(* the address ComputePkScript derives from the witness) and outputs       *)
(* [addr, name].  What is written to a client is kept as the set of its    *)
(* notifications.                                                          *)
(***************************************************************************)
EXTENDS Integers, Sequences, FiniteSets, SequencesExt

CONSTANTS Clients,        \* websocket clients
          Blocks,         \* the blocks of the tree, the genesis block first
          Parent,         \* [Blocks -> Blocks], the genesis block its own
          TxsOf,          \* [Blocks -> Seq of transactions]
          TxOf,           \* transaction -> [ins, outs]
          Addrs, Names,   \* addresses and name hashes a client may watch
          NoAddr, NoName, \* outputs and inputs without one
          NoBlock,        \* a mempool notification, or nothing scanned yet
          PoolTxs,        \* transactions that may be accepted to the mempool
          Watchable,      \* outpoints a client may ask for
          MaxRequests,    \* bound on the requests of the clients
          MaxInvPerMsg    \* heights fetched at once by a rescan

VARIABLES
    tip,      \* tip of the best chain
    target,   \* the block the sync manager is moving the best chain to
    unsent,   \* chain notifications not yet handed to the manager
    mempool,  \* accepted transactions not yet in a block
    paused,   \* the client whose rescan has paused the sync manager
    q,        \* the manager's queue
    reg,      \* maps of the notification handler
    cl,       \* per client: its phase, sets owned by the manager, filter
    got,      \* per client: notifications queued to it
    again,    \* per client: confirmed notifications queued a second time
    view,     \* per client: the tip that its block notifications describe
    scan,     \* per client: its rescan
    asked     \* number of requests made

wnVars == <<tip, target, unsent, mempool, paused, q, reg, cl, got, again,
            view, scan, asked>>

genesis == CHOOSE b \in Blocks : Parent[b] = b
AncestorsOf[b \in Blocks] == IF b = genesis THEN {b} ELSE {b} \cup AncestorsOf[Parent[b]]
HeightOf(b) == Cardinality(AncestorsOf[b]) - 1
AtHeight(h) == CHOOSE b \in AncestorsOf[tip] : HeightOf(b) = h
OutsOf(t) == { <<t, i>> : i \in DOMAIN TxOf[t].outs }
OutPoints == UNION { OutsOf(t) : t \in DOMAIN TxOf }
\* Outputs of a transaction to one of a set of addresses.
OutsTo(t, as) == { <<t, i>> : i \in { j \in DOMAIN TxOf[t].outs : TxOf[t].outs[j].addr \in as } }
Spends(t) == { TxOf[t].ins[i].op : i \in DOMAIN TxOf[t].ins }

-----------------------------------------------------------------------------
(* Registrations: the handler's maps and the client's own sets. *)

NoFilter == [addrs |-> {}, unspent |-> {}, loaded |-> FALSE]
newWebsocketClient == [phase |-> "none", addrRequests |-> {}, spentRequests |-> {},
                       filter |-> NoFilter, verbose |-> FALSE, pending |-> {}, asks |-> FALSE]

addSpentMap(r, c, ops) ==
    [r EXCEPT !.ops = [o \in OutPoints |-> IF o \in ops THEN @[o] \cup {c} ELSE @[o]]]

removeSpentRequest(r, c, o) == [r EXCEPT !.ops[o] = @ \ {c}]

addAddrRequests(r, c, as) ==
    [r EXCEPT !.addrs = [a \in Addrs |-> IF a \in as THEN @[a] \cup {c} ELSE @[a]]]

removeAddrRequest(r, c, a) == [r EXCEPT !.addrs[a] = @ \ {c}]

\* The whole notificationUnregisterClient case.
UnregisterClient(r, c, k) ==
    [r EXCEPT !.blocks = @ \ {c}, !.names[c] = [on |-> FALSE, set |-> {}],
              !.txs = @ \ {c}, !.clients = @ \ {c},
              !.ops = [o \in OutPoints |-> IF o \in k.spentRequests THEN @[o] \ {c} ELSE @[o]],
              !.addrs = [a \in Addrs |-> IF a \in k.addrRequests THEN @[a] \ {c} ELSE @[a]]]

\* matches of a name watch: an empty watch matches every name.
matches(w, n) == w.on /\ (w.set = {} \/ n \in w.set)

-----------------------------------------------------------------------------
(* What one event makes the handler say.  Every operator below takes and   *)
(* returns a record s = [reg, cl, out]: out is the set of <<client, kind,  *)
(* subject, block>> queued so far.                                         *)

Say(s, cs, kind, x, b) ==
    [s EXCEPT !.out = @ \cup { <<c, kind, x, b>> : c \in cs }]

notifyForTxIns(s, t, b) ==
    LET hit == { o \in Spends(t) : s.reg.ops[o] # {} }
        cs == UNION { s.reg.ops[o] : o \in hit }
        told == Say(s, cs, "redeemingtx", t, b)
    IN IF b = NoBlock THEN told
       ELSE [told EXCEPT
               !.reg = FoldSet(LAMBDA p, r : removeSpentRequest(r, p[1], p[2]), @, cs \X hit),
               !.cl = [c \in Clients |-> IF c \in cs
                         THEN [@[c] EXCEPT !.spentRequests = @ \ hit] ELSE @[c]]]

\* A new watch is followed by a look for spends already in the mempool.
addSpentRequests(s, c, ops) ==
    LET added == [s EXCEPT !.reg = addSpentMap(@, c, ops),
                           !.cl[c].spentRequests = @ \cup ops]
        spends == { t \in mempool : Spends(t) \cap ops # {} }
    IN FoldSet(LAMBDA t, a : notifyForTxIns(a, t, NoBlock), added, spends)

notifyForTxOuts(s, t, b) ==
    LET paid == { <<c, o>> \in Clients \X OutsOf(t) :
                    \E a \in Addrs : o \in OutsTo(t, {a}) /\ c \in s.reg.addrs[a] }
        told == Say(s, { p[1] : p \in paid }, "recvtx", t, b)
    IN FoldSet(LAMBDA p, a : addSpentRequests(a, p[1], {p[2]}), told, paid)

notifyForTx(s, t, b) == notifyForTxOuts(notifyForTxIns(s, t, b), t, b)

nameNotificationEvents(t) == { i \in DOMAIN TxOf[t].outs : TxOf[t].outs[i].name # NoName }

notifyForNameTx(s, t, b) ==
    FoldSet(LAMBDA i, a : Say(a, { c \in Clients : matches(s.reg.names[c], TxOf[t].outs[i].name) },
                              "nameupdated", <<t, i>>, b),
            s, nameNotificationEvents(t))

notifyForNewTx(s, t) ==
    Say(Say(s, { c \in s.reg.txs : ~s.cl[c].verbose }, "txaccepted", t, NoBlock),
        { c \in s.reg.txs : s.cl[c].verbose }, "txacceptedverbose", t, NoBlock)

\* The clients whose filter matches a transaction; their filters follow its
\* outputs.
filterHits(f, t) == f.loaded /\ (Spends(t) \cap f.unspent # {} \/ OutsTo(t, f.addrs) # {})
filterNext(f, t) == IF f.loaded THEN [f EXCEPT !.unspent = @ \cup OutsTo(t, f.addrs)] ELSE f

subscribedClients(s, t, cs) == { c \in cs : filterHits(s.cl[c].filter, t) }
subscribedNext(s, t, cs) ==
    [s EXCEPT !.cl = [c \in Clients |-> IF c \in cs
                        THEN [@[c] EXCEPT !.filter = filterNext(@, t)] ELSE @[c]]]

notifyRelevantTxAccepted(s, t) ==
    Say(subscribedNext(s, t, s.reg.clients), subscribedClients(s, t, s.reg.clients),
        "relevanttxaccepted", t, NoBlock)

\* filteredblockconnected lists the transactions of the block that match.
notifyFilteredBlockConnected(s, b) ==
    LET one(a, t) == Say(subscribedNext(a, t, s.reg.blocks),
                         subscribedClients(a, t, s.reg.blocks), "filteredblockconnected", t, b)
    IN FoldLeft(one, s, TxsOf[b])

notifyBlock(s, kind, b) == Say(s, s.reg.blocks, kind, b, b)

OnBlockConnected(s, b) ==
    LET watched == FoldLeft(LAMBDA a, t : notifyForTx(a, t, b), s, TxsOf[b])
        named == FoldLeft(LAMBDA a, t : notifyForNameTx(a, t, b), watched, TxsOf[b])
    IN notifyFilteredBlockConnected(notifyBlock(named, "blockconnected", b), b)

OnTxAccepted(s, t) ==
    notifyRelevantTxAccepted(
        notifyForTx(notifyForNameTx(notifyForNewTx(s, t), t, NoBlock), t, NoBlock), t)

\* One event of the queue, by its type.
Handled(s, e) ==
    CASE e.kind = "connected" -> OnBlockConnected(s, e.block)
      [] e.kind = "disconnected" ->
           notifyBlock(notifyBlock(s, "blockdisconnected", e.block),
                       "filteredblockdisconnected", e.block)
      [] e.kind = "tx" -> OnTxAccepted(s, e.tx)
      [] e.kind = "register" -> [s EXCEPT !.reg.clients = @ \cup {e.c}]
      [] e.kind = "unregister" ->
           [s EXCEPT !.reg = UnregisterClient(@, e.c, s.cl[e.c]),
                     !.cl[e.c].spentRequests = {}, !.cl[e.c].addrRequests = {}]
      [] e.kind = "notifyblocks" -> [s EXCEPT !.reg.blocks = @ \cup {e.c}]
      [] e.kind = "stopnotifyblocks" -> [s EXCEPT !.reg.blocks = @ \ {e.c}]
      [] e.kind = "notifynames" -> [s EXCEPT !.reg.names[e.c] = [on |-> TRUE, set |-> e.arg]]
      [] e.kind = "stopnotifynames" -> [s EXCEPT !.reg.names[e.c] = [on |-> FALSE, set |-> {}]]
      [] e.kind = "notifynewtransactions" -> [s EXCEPT !.reg.txs = @ \cup {e.c}]
      [] e.kind = "stopnotifynewtransactions" -> [s EXCEPT !.reg.txs = @ \ {e.c}]
      [] e.kind = "notifyspent" -> addSpentRequests(s, e.c, e.arg)
      [] e.kind = "stopnotifyspent" ->
           [s EXCEPT !.cl[e.c].spentRequests = @ \ e.arg,
                     !.reg = FoldSet(LAMBDA o, r : removeSpentRequest(r, e.c, o), @, e.arg)]
      [] e.kind = "notifyreceived" ->
           [s EXCEPT !.cl[e.c].addrRequests = @ \cup e.arg, !.reg = addAddrRequests(@, e.c, e.arg)]
      [] e.kind = "stopnotifyreceived" ->
           [s EXCEPT !.cl[e.c].addrRequests = @ \ e.arg,
                     !.reg = FoldSet(LAMBDA a, r : removeAddrRequest(r, e.c, a), @, e.arg)]

\* QueueNotification drops what is queued to a client that has quit.
Delivered(out) ==
    /\ got' = [c \in Clients |-> IF cl[c].phase # "up" THEN got[c] ELSE
                 got[c] \cup { <<n[2], n[3], n[4]>> : n \in { m \in out : m[1] = c } }]
    /\ again' = [c \in Clients |-> IF cl[c].phase # "up" THEN again[c] ELSE
                 again[c] \cup { k \in got[c] : k[3] # NoBlock /\ <<c>> \o k \in out }]

Queued_Skips(qq, e) == IF Len(qq) > 1 THEN <<e>> \o qq ELSE Append(qq, e)
\* queueHandler: events leave in the order in which they arrived.
Queued(qq, e) == Append(qq, e)

notificationHandler ==
    /\ q # <<>>
    /\ LET e == Head(q)
           s == Handled([reg |-> reg, cl |-> cl, out |-> {}], e)
       IN /\ reg' = s.reg
          /\ cl' = [s.cl EXCEPT ![e.c].phase = IF e.kind = "register" /\ @ = "adding" THEN "up" ELSE @]
          /\ Delivered(s.out)
          /\ view' = [c \in Clients |->
               CASE e.kind = "stopnotifyblocks" /\ e.c = c -> NoBlock
                 [] e.kind = "connected" /\ c \in reg.blocks -> e.block
                 [] e.kind = "disconnected" /\ c \in reg.blocks -> Parent[e.block]
                 [] OTHER -> view[c]]
    /\ q' = Tail(q)
    /\ UNCHANGED <<tip, target, unsent, mempool, paused, scan, asked>>

-----------------------------------------------------------------------------
(* The node around the manager: the sync manager moves the best chain one  *)
(* block at a time and reports each move; a transaction enters the pool.   *)

Event(kind, c, arg, b, t) == [kind |-> kind, c |-> c, arg |-> arg, block |-> b, tx |-> t]
AnyClient == CHOOSE c \in Clients : TRUE

\* A better branch arrives (not while a rescan holds the pause).
ProcessBlock(b) ==
    /\ paused = {} /\ target = tip /\ unsent = <<>>
    /\ HeightOf(b) > HeightOf(tip)
    /\ target' = b
    /\ UNCHANGED <<tip, unsent, mempool, paused, q, reg, cl, got, again, view, scan, asked>>

\* One step of the reorganization, then its notification.
connectBestChain ==
    /\ target # tip /\ unsent = <<>>
    /\ IF tip \notin AncestorsOf[target]
       THEN /\ tip' = Parent[tip]
            /\ unsent' = <<Event("disconnected", AnyClient, {}, tip, NoBlock)>>
            /\ UNCHANGED mempool
       ELSE LET b == CHOOSE x \in AncestorsOf[target] : Parent[x] = tip /\ x # tip IN
            /\ tip' = b
            /\ unsent' = <<Event("connected", AnyClient, {}, b, NoBlock)>>
            /\ mempool' = mempool \ Range(TxsOf[b])
    /\ UNCHANGED <<target, paused, q, reg, cl, got, again, view, scan, asked>>

handleBlockchainNotification ==
    /\ unsent # <<>>
    /\ q' = Queued(q, Head(unsent))
    /\ unsent' = <<>>
    /\ UNCHANGED <<tip, target, mempool, paused, reg, cl, got, again, view, scan, asked>>

NotifyNewTransactions(t) ==
    /\ t \notin mempool
    /\ \A b \in AncestorsOf[tip] : t \notin Range(TxsOf[b])
    /\ asked < MaxRequests
    /\ asked' = asked + 1
    /\ mempool' = mempool \cup {t}
    /\ q' = Queued(q, Event("tx", AnyClient, {}, NoBlock, t))
    /\ UNCHANGED <<tip, target, unsent, paused, reg, cl, got, again, view, scan>>

-----------------------------------------------------------------------------
(* Clients.  A request is served by a goroutine of its own: it is pending  *)
(* until it has enqueued its event, and may do so after the client has     *)
(* quit.  The connection's handler removes the client only once they all   *)
(* have ended (c.wg).                                                      *)

AddClient(c) ==
    /\ cl[c].phase = "none"
    /\ cl' = [cl EXCEPT ![c].phase = "adding"]
    /\ q' = Queued(q, Event("register", c, {}, NoBlock, NoBlock))
    /\ UNCHANGED <<tip, target, unsent, mempool, paused, reg, got, again, view, scan, asked>>

Requests == { Event(k, AnyClient, {}, NoBlock, NoBlock) : k \in {"notifyblocks", "stopnotifyblocks",
                 "notifynewtransactions", "stopnotifynewtransactions", "stopnotifynames"} }
            \cup { Event("notifynewtransactions", AnyClient, {"verbose"}, NoBlock, NoBlock) }
            \cup { Event("notifynames", AnyClient, ns, NoBlock, NoBlock) : ns \in SUBSET Names }
            \cup { Event(k, AnyClient, {o}, NoBlock, NoBlock) :
                     k \in {"notifyspent", "stopnotifyspent"}, o \in Watchable }
            \cup { Event(k, AnyClient, {a}, NoBlock, NoBlock) :
                     k \in {"notifyreceived", "stopnotifyreceived"}, a \in Addrs }

serviceRequest(c, e) ==
    /\ cl[c].phase = "up" /\ asked < MaxRequests
    /\ asked' = asked + 1
    /\ cl' = [cl EXCEPT ![c].pending = @ \cup {[e EXCEPT !.c = c]},
                        ![c].asks = @ \/ e.kind \in {"notifyspent", "notifyreceived",
                                                    "stopnotifyspent", "stopnotifyreceived"}]
    /\ UNCHANGED <<tip, target, unsent, mempool, paused, q, reg, got, again, view, scan>>

\* The handler of the request: verboseTxUpdates is written here, the rest is
\* left to the notification handler.
handleNotify(c) == \E e \in cl[c].pending :
    /\ cl' = [cl EXCEPT ![c].pending = @ \ {e},
                        ![c].verbose = IF e.kind = "notifynewtransactions" THEN e.arg # {} ELSE @]
    /\ q' = Queued(q, e)
    /\ UNCHANGED <<tip, target, unsent, mempool, paused, reg, got, again, view, scan, asked>>

\* loadtxfilter changes the filter at once, under its mutex.
handleLoadTxFilter(c, as, ops, reload) ==
    /\ cl[c].phase = "up" /\ asked < MaxRequests
    /\ asked' = asked + 1
    /\ cl' = [cl EXCEPT ![c].filter =
                IF reload \/ ~@.loaded THEN [addrs |-> as, unspent |-> ops, loaded |-> TRUE]
                ELSE [@ EXCEPT !.addrs = @ \cup as, !.unspent = @ \cup ops]]
    /\ UNCHANGED <<tip, target, unsent, mempool, paused, q, reg, got, again, view, scan>>

\* rescanblocks runs the filter over a run of best-chain blocks, each the child
\* of the one before, and answers with the transactions that match.
rescanBlockFilter(f, b) == FoldLeft(filterNext, f, TxsOf[b])

handleRescanBlocks(c, b, next) ==
    /\ cl[c].phase = "up" /\ asked < MaxRequests
    /\ cl[c].filter.loaded /\ {b, next} \subseteq AncestorsOf[tip] /\ Parent[next] = b
    /\ asked' = asked + 1
    /\ cl' = [cl EXCEPT ![c].filter = rescanBlockFilter(rescanBlockFilter(@, b), next)]
    /\ UNCHANGED <<tip, target, unsent, mempool, paused, q, reg, got, again, view, scan>>

Disconnect(c) ==
    /\ cl[c].phase = "up"
    /\ cl' = [cl EXCEPT ![c].phase = "quit"]
    /\ UNCHANGED <<tip, target, unsent, mempool, paused, q, reg, got, again, view, scan, asked>>

WaitForShutdown(c) == cl[c].pending = {} /\ scan[c].at \in {"none", "done", "failed"}

RemoveClient(c) ==
    /\ cl[c].phase = "quit" /\ WaitForShutdown(c)
    /\ cl' = [cl EXCEPT ![c].phase = "gone"]
    /\ q' = Queued(q, Event("unregister", c, {}, NoBlock, NoBlock))
    /\ UNCHANGED <<tip, target, unsent, mempool, paused, reg, got, again, view, scan, asked>>

-----------------------------------------------------------------------------
(* Rescan. *)

NoScan == [at |-> "none", addrs |-> {}, unspent |-> {}, min |-> 0, from |-> 0,
           list |-> <<>>, first |-> FALSE, last |-> NoBlock]

handleRescan(c, as, h) ==
    /\ cl[c].phase = "up" /\ scan[c].at = "none" /\ asked < MaxRequests
    /\ h <= HeightOf(tip)
    /\ asked' = asked + 1
    /\ scan' = [scan EXCEPT ![c] = [NoScan EXCEPT !.at = "fetch", !.addrs = as, !.min = h, !.from = h]]
    /\ UNCHANGED <<tip, target, unsent, mempool, paused, q, reg, cl, got, again, view>>

\* HeightRange of the chunk; with nothing left the rescan pauses the sync
\* manager, which is only reached between two blocks.
HeightRange(lo, hi) == [i \in 1..(IF hi > HeightOf(tip) + 1 THEN HeightOf(tip) + 1 - lo ELSE hi - lo)
                            |-> AtHeight(lo + i - 1)]

ScanFetch(c) ==
    /\ scan[c].at = "fetch" /\ scan[c].min <= HeightOf(tip)
    /\ scan' = [scan EXCEPT ![c].at = "blocks", ![c].first = TRUE,
                            ![c].list = HeightRange(scan[c].min, scan[c].min + MaxInvPerMsg)]
    /\ UNCHANGED <<tip, target, unsent, mempool, paused, q, reg, cl, got, again, view, asked>>

\* rescanBlock: the lookups follow the block's outputs, each transaction is
\* reported at most once as a spend and once as a receipt.
rescanTx(k, t) ==
    LET spent == Spends(t) \cap k.unspent
        witness == \E i \in DOMAIN TxOf[t].ins : TxOf[t].ins[i].from \in k.addrs
        paid == OutsTo(t, k.addrs)
    IN [k EXCEPT !.unspent = (@ \ spent) \cup paid,
                 !.spends = IF spent # {} \/ witness THEN @ \cup {t} ELSE @,
                 !.recvs = IF paid # {} THEN @ \cup {t} ELSE @]
rescanBlock(sc, b) == FoldLeft(rescanTx, [addrs |-> sc.addrs, unspent |-> sc.unspent,
                                          spends |-> {}, recvs |-> {}], TxsOf[b])

\* The next block of the chunk: a block that has left the best chain ends
\* the rescan (BlockByHash answers errNotInMainChain, which the rescan does
\* not take for a reorganization), so does a first block that is not a child
\* of the last one scanned.
ScanBlock(c) ==
    /\ scan[c].at = "blocks"
    /\ LET sc == scan[c]
           b == Head(sc.list)
           k == rescanBlock(sc, b)
           left == sc.first /\ sc.last # NoBlock /\ Parent[b] # sc.last
       IN IF sc.list = <<>>
          THEN /\ scan' = [scan EXCEPT ![c].at = "fetch"]
               /\ UNCHANGED <<got, again>>
          ELSE IF b \notin AncestorsOf[tip] \/ left \/ cl[c].phase # "up"
          THEN /\ scan' = [scan EXCEPT ![c].at = "failed"]
               /\ UNCHANGED <<got, again>>
          ELSE /\ scan' = [scan EXCEPT ![c].list = Tail(@), ![c].first = FALSE, ![c].last = b,
                             ![c].unspent = k.unspent, ![c].min = @ + 1]
               /\ Delivered({ <<c, "redeemingtx", t, b>> : t \in k.spends }
                            \cup { <<c, "recvtx", t, b>> : t \in k.recvs })
    /\ UNCHANGED <<tip, target, unsent, mempool, paused, q, reg, cl, view, asked>>

Idle == target = tip /\ unsent = <<>>

Pause(c) ==
    /\ scan[c].at = "fetch" /\ scan[c].min > HeightOf(tip)
    /\ paused = {} /\ Idle
    /\ paused' = {c}
    /\ scan' = [scan EXCEPT ![c].at = "paused"]
    /\ UNCHANGED <<tip, target, unsent, mempool, q, reg, cl, got, again, view, asked>>

\* Under the pause: register if the best block is the last one scanned,
\* otherwise fetch again.
ScanRegister(c) ==
    /\ scan[c].at = "paused"
    /\ paused' = {}
    /\ LET sc == scan[c] IN
       IF sc.last = NoBlock \/ sc.last = tip
       THEN /\ q' = Queued(Queued(q, Event("notifyspent", c, sc.unspent, NoBlock, NoBlock)),
                           Event("notifyreceived", c, sc.addrs, NoBlock, NoBlock))
            /\ scan' = [scan EXCEPT ![c].at = IF sc.last = NoBlock THEN "failed" ELSE "done"]
            /\ Delivered(IF sc.last = NoBlock THEN {} ELSE {<<c, "rescanfinished", sc.last, sc.last>>})
       ELSE /\ scan' = [scan EXCEPT ![c].at = "fetch"]
            /\ UNCHANGED <<q, got, again>>
    /\ UNCHANGED <<tip, target, unsent, mempool, reg, cl, view, asked>>

-----------------------------------------------------------------------------
WnInit ==
    /\ tip = genesis /\ target = genesis /\ unsent = <<>> /\ mempool = {} /\ paused = {}
    /\ q = <<>>
    /\ reg = [clients |-> {}, blocks |-> {}, txs |-> {},
              names |-> [c \in Clients |-> [on |-> FALSE, set |-> {}]],
              ops |-> [o \in OutPoints |-> {}], addrs |-> [a \in Addrs |-> {}]]
    /\ cl = [c \in Clients |-> newWebsocketClient]
    /\ got = [c \in Clients |-> {}] /\ again = [c \in Clients |-> {}]
    /\ view = [c \in Clients |-> NoBlock]
    /\ scan = [c \in Clients |-> NoScan]
    /\ asked = 0

ClientNext == \E c \in Clients :
    \/ AddClient(c) \/ Disconnect(c) \/ RemoveClient(c) \/ handleNotify(c)
    \/ \E e \in Requests : serviceRequest(c, e)
    \/ \E a \in Addrs, reload \in BOOLEAN : handleLoadTxFilter(c, {a}, {}, reload)
    \/ \E a \in Addrs : handleRescan(c, {a}, 0)
    \/ \E b, next \in Blocks : handleRescanBlocks(c, b, next)
    \/ ScanFetch(c) \/ ScanBlock(c) \/ Pause(c) \/ ScanRegister(c)

WnNext ==
    \/ notificationHandler
    \/ \E b \in Blocks : ProcessBlock(b)
    \/ connectBestChain
    \/ handleBlockchainNotification
    \/ \E t \in PoolTxs : NotifyNewTransactions(t)
    \/ ClientNext

WnSpec == WnInit /\ [][WnNext]_wnVars

-----------------------------------------------------------------------------
(* Properties. *)

\* The two halves of every registration agree: the handler watches an outpoint
\* or address for exactly the clients that carry it in their own sets, from
\* which the registrations are undone when the client goes, and a client that
\* has gone is in no map of the handler once the queue holds none of its events.
WatchesMirror ==
    /\ \A c \in Clients : /\ cl[c].spentRequests = { o \in OutPoints : c \in reg.ops[o] }
                          /\ cl[c].addrRequests = { a \in Addrs : c \in reg.addrs[a] }
    /\ \A c \in Clients :
         cl[c].phase = "gone" /\ (\A i \in DOMAIN q : q[i].c # c \/ q[i].kind # "unregister") =>
            /\ c \notin reg.clients \cup reg.blocks \cup reg.txs
            /\ ~reg.names[c].on
            /\ cl[c].spentRequests = {} /\ cl[c].addrRequests = {}

\* A rescan through the best block loses nothing to the hand-over: when it has
\* finished and every event has been handled, each receipt to a rescanned
\* address in the best chain, from the first rescanned block on, has been
\* reported as confirmed in that block, and so has each spend of such a receipt;
\* none was reported twice.  (A client that also changed its watches by other
\* requests gets what those say.)
RescanMissesNothing ==
    \A c \in Clients :
      scan[c].at = "done" /\ cl[c].phase = "up" /\ q = <<>>
      /\ target = tip /\ unsent = <<>> /\ ~cl[c].asks =>
        /\ \A b \in AncestorsOf[tip] : \A t \in Range(TxsOf[b]) :
             /\ OutsTo(t, scan[c].addrs) # {} => <<"recvtx", t, b>> \in got[c]
             /\ (\E u \in DOMAIN TxOf : Spends(t) \cap OutsTo(u, scan[c].addrs) # {})
                   => <<"redeemingtx", t, b>> \in got[c]
        /\ \A k \in again[c] : k[1] \notin {"recvtx", "redeemingtx"}

\* The block notifications of a client describe a chain: each connected block
\* extends the last one described, each disconnected block is the last one.
BlocksStep ==
    \A c \in Clients : c \in reg.blocks /\ c \in reg'.blocks /\ view[c] # NoBlock
        /\ view'[c] # view[c] =>
          \/ Parent[view'[c]] = view[c] \/ Parent[view[c]] = view'[c]
BlocksInOrder == [][BlocksStep]_wnVars

\* A block is filtered the same way live and by rescanblocks: the filter of a
\* client that follows blocks holds every output of a best-chain block to an
\* address of the filter that was loaded before the block was handled.
FilterStep ==
    \A c \in Clients : q # <<>> /\ Head(q).kind = "connected" /\ c \in reg.blocks
        /\ cl[c].filter.loaded /\ q' = Tail(q) =>
          \A t \in Range(TxsOf[Head(q).block]) :
              OutsTo(t, cl[c].filter.addrs) \subseteq cl'[c].filter.unspent
FilterFollows == [][FilterStep]_wnVars
=============================================================================
