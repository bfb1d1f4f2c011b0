----------------------------- MODULE PeerServing -----------------------------
(***************************************************************************)
(* The callbacks of server.go by which one connected peer is served: the   *)
(* requests for inventory, blocks, addresses and the memory pool, the      *)
(* bloom and fee filters, the ban score, and the relay of transactions.    *)
(* They run one at a time in the input handler of the peer.  The output    *)
(* queue is a sequence: it takes or refuses a message (PeerOutput), and    *)
(* signals the done channel of a message when it is written or refused.    *)
(* The remote end either sends any requests, or is a client that follows   *)
(* the getblocks protocol to fetch the whole chain.                        *)
(***************************************************************************)
EXTENDS Integers, Sequences, FiniteSets, SequencesExt

CONSTANTS MaxHeight,        \* the best chain grows up to this height
          MaxBlocksPerMsg, numBuffered,
          MaxItems,         \* items of one getdata
          MaxRequests,      \* requests of a client that sends any
          MaxRefused,       \* messages that the output queue refuses
          BanThreshold, MaxInvPerMsg,
          MempoolScore, NotFoundScore,   \* 33 and 20 per block
          Addrs,            \* network addresses
          Clients           \* subset of {"sync", "any"}

VARIABLES best,     \* height of the best chain
          sp,       \* the serverPeer
          gd,       \* the getdata that is being served
          oq,       \* messages in the output queue
          signals,  \* signals[i]: signals sent on the i-th done channel
          cli,      \* the remote end
          used      \* requests and refusals so far

pvVars == <<best, sp, gd, oq, signals, cli, used>>

Slots == 1..(MaxItems + 1)

NoRequest == [items |-> <<>>, next |-> 0, open |-> {}, failed |-> 0]

ServingInit ==
    /\ best = 1
    /\ \E noRelay \in BOOLEAN :
         sp = [connected |-> TRUE, continueHash |-> 0, filterLoaded |-> FALSE,
               disableRelayTx |-> noRelay, noRelay |-> noRelay, sentAddrs |-> FALSE,
               knownAddresses |-> {}, score |-> 0]
    /\ gd = NoRequest
    /\ oq = <<>>
    /\ signals = [i \in Slots |-> 0]
    /\ cli \in {[kind |-> k, have |-> 0, asks |-> TRUE, got |-> <<>>] : k \in Clients}
    /\ used = [requests |-> 0, refused |-> 0]

Idle == sp.connected /\ gd = NoRequest

(***************************************************************************)
(* The output queue.                                                       *)
(***************************************************************************)
(* The outcomes of queueing the messages ms one after the other, the last  *)
(* with the done channel slot: all are taken, or one is refused.  A        *)
(* refused message with a done channel signals it (TryQueueMessage); for   *)
(* one without, the caller does.  Either way the rest is not sent.         *)
Outcome(taken, signalled) == [taken |-> taken, signalled |-> signalled]

WithDone(ms, slot) ==
    [i \in 1..Len(ms) |-> [m |-> ms[i], done |-> IF i = Len(ms) THEN slot ELSE 0]]

RefusedAt(ms, slot, i) == Outcome(SubSeq(WithDone(ms, slot), 1, i - 1), 1)

TryQueue(ms, slot) ==
    IF ~sp.connected THEN {RefusedAt(ms, slot, 1)}
    ELSE {Outcome(WithDone(ms, slot), 0)}
           \cup {RefusedAt(ms, slot, i) : i \in IF used.refused < MaxRefused THEN 1..Len(ms)
                                                ELSE {}}

(* The output handler writes the next message and signals its channel.     *)
Msg(type, data) == [type |-> type, data |-> data]

Write ==
    /\ oq # <<>> /\ sp.connected
    /\ oq' = Tail(oq)
    /\ signals' = [i \in Slots |-> signals[i] + (IF Head(oq).done = i THEN 1 ELSE 0)]
    /\ cli' = [cli EXCEPT !.got = IF cli.kind = "sync" THEN Append(@, Head(oq).m) ELSE @]
    /\ UNCHANGED <<best, sp, gd, used>>

(* After Disconnect the queue is drained.                                  *)
Drain ==
    /\ oq # <<>> /\ ~sp.connected
    /\ oq' = <<>>
    /\ signals' = [i \in Slots |->
                     signals[i] + Cardinality({k \in 1..Len(oq) : oq[k].done = i})]
    /\ UNCHANGED <<best, sp, gd, cli, used>>

(* A message without a done channel, which may be refused.                 *)
Queued(m) ==
    \/ oq' = Append(oq, [m |-> m, done |-> 0]) /\ used' = [used EXCEPT !.requests = @ + 1]
    \/ /\ used.refused < MaxRefused
       /\ used' = [used EXCEPT !.refused = @ + 1, !.requests = @ + 1]
       /\ UNCHANGED oq

NotQueued == used' = [used EXCEPT !.requests = @ + 1] /\ UNCHANGED oq

(***************************************************************************)
(* addBanScore: the ban disconnects the peer.                              *)
(***************************************************************************)
Banned(score) == score > BanThreshold

addBanScore(increase) ==
    [sp EXCEPT !.score = @ + increase, !.connected = @ /\ ~Banned(sp.score + increase)]

(***************************************************************************)
(* OnGetData and pushInventory.                                            *)
(***************************************************************************)
Items == {Msg("block", 1), Msg("merkle", 1), Msg("tx", "known"), Msg("bad", 0)}

Missing == [failed |-> 1, outcome |-> Outcome(<<>>, 1)]

Ignored == [failed |-> 0, outcome |-> Outcome(<<>>, 1)]

Sent(ms, slot) == {[failed |-> 0, outcome |-> o] : o \in TryQueue(ms, slot)}

(* pushBlockMsg: the block, and after the last block of a full getblocks   *)
(* answer an inv of the best block.  pushMerkleBlockMsg: the merkle block  *)
(* and the transactions that match, only with a filter loaded.  Both are   *)
(* dropped when the workspace budget is exhausted.                         *)
pushBlockMsg(h, slot) ==
    IF h > best THEN {Missing}
    ELSE Sent(<<Msg("block", h)>> \o (IF sp.continueHash = h THEN <<Msg("inv", <<best>>)>>
                                      ELSE <<>>), slot)
           \cup (IF used.refused < MaxRefused THEN {Ignored} ELSE {})

pushMerkleBlockMsg(h, slot) ==
    IF ~sp.filterLoaded THEN {Ignored}
    ELSE IF h > best THEN {Missing}
    ELSE UNION {Sent(<<Msg("merkleblock", h)>> \o [i \in 1..k |-> Msg("tx", "known")], slot) :
                  k \in 0..2}
           \cup (IF used.refused < MaxRefused THEN {Ignored} ELSE {})

pushInventory(iv, slot) ==
    CASE iv.type = "block" -> pushBlockMsg(iv.data, slot)
      [] iv.type = "merkle" -> pushMerkleBlockMsg(iv.data, slot)
      [] iv.type = "tx" /\ iv.data = "known" -> Sent(<<iv>>, slot)
      [] OTHER -> {Missing}

(* The continuation is forgotten once its inv was sent.                    *)
ContinueSent(iv, r) ==
    iv.type = "block" /\ sp.continueHash = iv.data /\ r.outcome.taken # <<>>

Apply(slot, r) ==
    /\ oq' = oq \o r.outcome.taken
    /\ signals' = [signals EXCEPT ![slot] = @ + r.outcome.signalled]
    /\ used' = [used EXCEPT !.refused =
                   @ + (IF sp.connected /\ r.failed = 0 /\ r.outcome.signalled > 0 THEN 1 ELSE 0)]

OnGetData(items) ==
    /\ Idle
    /\ sp' = addBanScore((Len(items) * (BanThreshold - 1)) \div MaxInvPerMsg)
    /\ gd' = IF sp'.connected THEN [items |-> items, next |-> 1, open |-> {}, failed |-> 0] ELSE gd
    /\ UNCHANGED <<best, oq, signals>>

(* After each numBuffered items the handler waits for all of them.         *)
SlotsEmptied(i) == (i - 1) % numBuffered = 0 => \A j \in gd.open : signals[j] > 0

Opened(i) == (IF (i - 1) % numBuffered = 0 THEN {} ELSE gd.open) \cup {i}

PushItem ==
    LET i == gd.next
        iv == gd.items[i]
    IN  /\ i \in 1..Len(gd.items)
        /\ SlotsEmptied(i)
        /\ \E r \in pushInventory(iv, i) :
             /\ Apply(i, r)
             /\ gd' = [gd EXCEPT !.next = @ + 1, !.failed = @ + r.failed,
                                 !.open = Opened(i)]
             /\ sp' = IF ContinueSent(iv, r) THEN [sp EXCEPT !.continueHash = 0] ELSE sp
        /\ UNCHANGED <<best, cli>>

(* What was not found is reported in one message.                          *)
PushNotFound ==
    LET i == gd.next
    IN  /\ gd.items # <<>> /\ i = Len(gd.items) + 1 /\ gd.failed > 0
        /\ SlotsEmptied(i)
        /\ \E o \in TryQueue(<<Msg("notfound", gd.failed)>>, i) :
             Apply(i, [failed |-> 0, outcome |-> o])
        /\ gd' = [gd EXCEPT !.failed = 0, !.open = Opened(i)]
        /\ UNCHANGED <<best, sp, cli>>

(* The input handler goes on once every done channel was signalled.        *)
GetDataDone ==
    /\ gd.items # <<>>
    /\ gd.next = Len(gd.items) + 1 /\ gd.failed = 0
    /\ \A j \in gd.open : signals[j] > 0
    /\ gd' = NoRequest
    /\ signals' = [i \in Slots |-> 0]
    /\ UNCHANGED <<best, sp, oq, cli, used>>

(***************************************************************************)
(* OnGetBlocks, for a locator whose first known block has height have.     *)
(***************************************************************************)
MinOf(x, y) == IF x < y THEN x ELSE y

LocateBlocks(have) ==
    [i \in 1..MinOf(MaxBlocksPerMsg, best - have) |-> have + i]

FullAnswer(hashes) == Len(hashes) = MaxBlocksPerMsg

OnGetBlocks(have) ==
    LET hashes == LocateBlocks(have)
    IN  /\ Idle
        /\ IF hashes = <<>> THEN NotQueued /\ UNCHANGED sp
           ELSE /\ Queued(Msg("inv", hashes))
                /\ sp' = IF FullAnswer(hashes) THEN [sp EXCEPT !.continueHash = Last(hashes)]
                         ELSE sp
        /\ UNCHANGED <<best, gd, signals>>

(***************************************************************************)
(* The other requests.                                                     *)
(***************************************************************************)
(* OnMemPool: the ban score decays, so that only a burst of requests bans. *)
OnMemPool ==
    /\ Idle
    /\ sp' = addBanScore(MempoolScore)
    /\ IF sp'.connected THEN Queued(Msg("inv", <<>>)) ELSE NotQueued
    /\ UNCHANGED <<best, gd, signals>>

ScoreDecays ==
    /\ sp.score > 0 /\ sp.connected /\ cli.kind = "any"
    /\ sp' = [sp EXCEPT !.score = @ \div 2]
    /\ UNCHANGED <<best, gd, oq, signals, cli, used>>

OnNotFound(blocks) ==
    /\ Idle
    /\ sp' = addBanScore(NotFoundScore * blocks)
    /\ NotQueued
    /\ UNCHANGED <<best, gd, signals>>

(* pushAddrMsg leaves out what the peer knows.                             *)
NotKnown(addrs) == addrs \ sp.knownAddresses

(* OnGetAddr answers an inbound peer once.                                 *)
OnGetAddr ==
    /\ Idle
    /\ IF sp.sentAddrs \/ NotKnown(Addrs) = {} THEN NotQueued
       ELSE Queued(Msg("addr", NotKnown(Addrs)))
    /\ sp' = [sp EXCEPT !.sentAddrs = TRUE, !.knownAddresses = IF sp.sentAddrs THEN @ ELSE Addrs]
    /\ UNCHANGED <<best, gd, signals>>

(* OnAddr: an empty message disconnects the peer.                          *)
OnAddr(addrs) ==
    /\ Idle
    /\ sp' = IF addrs = {} THEN [sp EXCEPT !.connected = FALSE]
             ELSE [sp EXCEPT !.knownAddresses = @ \cup addrs]
    /\ NotQueued
    /\ UNCHANGED <<best, gd, signals>>

(* OnFilterLoad turns the relay of transactions on; OnFilterClear and      *)
(* OnFilterAdd disconnect a peer without a filter.                         *)
OnFilterLoad ==
    /\ Idle
    /\ sp' = [sp EXCEPT !.filterLoaded = TRUE, !.disableRelayTx = FALSE, !.noRelay = FALSE]
    /\ NotQueued
    /\ UNCHANGED <<best, gd, signals>>

OnFilterClear ==
    /\ Idle
    /\ sp' = IF sp.filterLoaded THEN [sp EXCEPT !.filterLoaded = FALSE]
             ELSE [sp EXCEPT !.connected = FALSE]
    /\ NotQueued
    /\ UNCHANGED <<best, gd, signals>>

(* handleRelayInvMsg of peerHandler, which runs at any time: a transaction *)
(* is announced unless the peer declined, or its filters do not match.     *)
RelayDisabled == sp.disableRelayTx

handleRelayInvMsg ==
    /\ sp.connected /\ cli.kind = "any" /\ used.requests < MaxRequests
    /\ ~RelayDisabled
    /\ Queued(Msg("txinv", sp.filterLoaded))
    /\ UNCHANGED <<best, sp, gd, signals, cli>>

(***************************************************************************)
(* The remote end.                                                         *)
(***************************************************************************)
AnyRequest ==
    /\ cli.kind = "any" /\ used.requests < MaxRequests
    /\ \/ \E n \in 1..MaxItems : \E items \in [1..n -> Items] :
            OnGetData(items) /\ used' = [used EXCEPT !.requests = @ + 1]
       \/ \E have \in 0..best : OnGetBlocks(have)
       \/ OnMemPool
       \/ \E n \in 1..2 : OnNotFound(n)
       \/ OnGetAddr
       \/ \E addrs \in SUBSET Addrs : OnAddr(addrs)
       \/ OnFilterLoad \/ OnFilterClear
    /\ UNCHANGED cli

(* A client of the getblocks protocol: it asks for the blocks after the    *)
(* one it has, fetches those an inv announces, and asks again when an inv  *)
(* names a block that does not follow, or none that it misses.             *)
SyncAsks ==
    /\ cli.kind = "sync" /\ cli.asks
    /\ OnGetBlocks(cli.have)
    /\ cli' = [cli EXCEPT !.asks = FALSE]

SyncReceives ==
    /\ cli.kind = "sync" /\ cli.got # <<>> /\ ~cli.asks
    /\ LET m == Head(cli.got)
           next == [cli EXCEPT !.got = Tail(@)]
           Missed == SelectSeq(m.data, LAMBDA h : h > cli.have)
           Follows == Missed # <<>> /\ Missed[1] = cli.have + 1
       IN  \/ /\ m.type = "inv" /\ Follows
              /\ OnGetData([i \in 1..Len(Missed) |-> Msg("block", Missed[i])])
              /\ cli' = next /\ UNCHANGED used
           \/ /\ m.type = "inv" /\ ~Follows
              /\ cli' = [next EXCEPT !.asks = TRUE]
              /\ UNCHANGED <<best, sp, gd, oq, signals, used>>
           \/ /\ m.type = "block"
              /\ cli' = [next EXCEPT !.have = IF m.data = @ + 1 THEN @ + 1 ELSE @]
              /\ UNCHANGED <<best, sp, gd, oq, signals, used>>

RemoteDisconnects ==
    /\ sp.connected /\ cli.kind = "any"
    /\ sp' = [sp EXCEPT !.connected = FALSE]
    /\ UNCHANGED <<best, gd, oq, signals, cli, used>>

(* A new block is announced to the peer.                                   *)
NewBlock ==
    /\ best < MaxHeight /\ cli.kind = "sync"
    /\ best' = best + 1
    /\ oq' = IF sp.connected THEN Append(oq, [m |-> Msg("inv", <<best + 1>>), done |-> 0]) ELSE oq
    /\ UNCHANGED <<sp, gd, signals, cli, used>>

ServingNext ==
    \/ Write \/ Drain
    \/ PushItem \/ PushNotFound \/ GetDataDone
    \/ ScoreDecays \/ handleRelayInvMsg
    \/ AnyRequest \/ SyncAsks \/ SyncReceives
    \/ RemoteDisconnects \/ NewBlock

ServingSpec == ServingInit /\ [][ServingNext]_pvVars

FairServing ==
    /\ ServingSpec
    /\ WF_pvVars(Write \/ Drain) /\ WF_pvVars(PushItem \/ PushNotFound \/ GetDataDone)
    /\ WF_pvVars(SyncAsks \/ SyncReceives)

(***************************************************************************)
(* Properties.                                                             *)
(***************************************************************************)
(* Every item of a getdata is accounted for once: its done channel has one *)
(* signal, or its one signal comes with a message that is still queued.    *)
(* A second signal would block whoever sends it, a missing one the input   *)
(* handler.                                                                *)
Accounted ==
    \A i \in Slots :
        LET queued == Cardinality({k \in 1..Len(oq) : oq[k].done = i})
        IN  i \in gd.open => signals[i] + queued = 1

(* A peer keeps being served only while its ban score is within the        *)
(* threshold; a peer that declined transactions gets none until it loads a *)
(* filter; and no address is sent to a peer that sent or was sent it.      *)
ServedPolitely ==
    /\ Banned(sp.score) => ~sp.connected
    /\ \A k \in 1..Len(oq) : oq[k].m.type = "txinv" => ~sp.noRelay
    /\ \A k \in 1..Len(oq) : oq[k].m.type = "addr" =>
         /\ oq[k].m.data \subseteq sp.knownAddresses
         /\ sp.sentAddrs

(* No address is sent to a peer a second time.                             *)
AddrsStep ==
    \A a \in Addrs : \A k \in (Len(oq) + 1)..Len(oq') :
        oq'[k].m.type = "addr" /\ a \in oq'[k].m.data => a \notin sp.knownAddresses
AddrsNew == [][AddrsStep]_pvVars

(* The input handler leaves every getdata again.                           *)
Serving == gd.items # <<>>
GetDataReturns == Serving ~> ~Serving

(* A client that follows the getblocks protocol gets the whole chain, also *)
(* when it is longer than one answer, as long as nothing it is owed is     *)
(* refused.                                                                *)
Behind == cli.kind = "sync" /\ used.refused = 0 /\ cli.have # best
SyncsByGetBlocks == Behind ~> ~Behind
=============================================================================
