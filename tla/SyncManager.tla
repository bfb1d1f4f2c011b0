----------------------------- MODULE SyncManager -----------------------------
(***************************************************************************)
(* netsync/manager.go: the synchronization manager.  One goroutine,        *)
(* blockHandler, takes one message at a time, so every handler is one      *)
(* atomic step over the manager's state S and over what it sees of the     *)
(* chain, C.  A send to a peer can be refused because the shared outbound   *)
(* queue budget is spent (ErrOutboundQueueBudget) or because the peer's own *)
(* queue is gone; handlers are therefore set-valued: they return the set   *)
(* of states they may leave, one for each outcome of their sends and each  *)
(* order of the Go map they range over.  The transaction half of the        *)
(* manager is in InvRequests.                                              *)
(*                                                                         *)
(* A block is a number, with its Parent and its Height; work is height.    *)
(* Bad blocks pass the header checks and fail when they are connected.     *)
(* LatestBlockLocator and the getblocks/inv path serve blocks that arrive  *)
(* without their headers; this model follows the headers path, and a block *)
(* whose parent is missing asks for nothing more than that getblocks.      *)
(***************************************************************************)
EXTENDS Integers, Sequences, FiniteSets, SequencesExt

CONSTANTS
  Peers, NoPeer,
  Faulty,             \* peers that need not answer
  FullNodes,          \* peers with SFNodeNetwork (sync candidates)
  Block, Parent, Bad, \* the block tree; 0 is the genesis block
  PeerTip,            \* the tip of the chain each peer starts with
  CurrentFrom,        \* tips from this height on are younger than 24 hours
  MaxHeaders,         \* headers of one headers message
  maxInFlightBlocks, minInFlightBlocks,
  MaxFaults           \* bound on refused sends, lost peers and bad answers

VARIABLES S, C, ptip

syncVars == <<S, C, ptip>>

Ancestors[b \in Block] == IF b = 0 THEN {0} ELSE {b} \cup Ancestors[Parent[b]]
Height[b \in Block] == Cardinality(Ancestors[b]) - 1
AtHeight(tip, h) == CHOOSE b \in Ancestors[tip] : Height[b] = h
Highest(T) == {b \in T : \A x \in T : Height[x] <= Height[b]}

-----------------------------------------------------------------------------
(* What the manager sees of the chain: C.headers and C.have are the headers *)
(* and the blocks stored, C.failed the blocks marked invalid, C.orphans     *)
(* the blocks held without their parent, C.tip and C.header the tips.       *)

NoChain == [headers |-> {0}, have |-> {0}, failed |-> {}, orphans |-> {},
            tip |-> 0, header |-> 0]

IsCurrent(c) == Height[c.tip] >= CurrentFrom

\* maybeAcceptBlockHeader refuses a header without a parent, one marked
\* invalid and the child of one marked invalid.
HeaderOk(c, b) ==
  Parent[b] \in c.headers /\ Parent[b] \notin c.failed /\ b \notin c.failed

ProcessBlockHeader(c, b) ==
  [c EXCEPT !.headers = @ \cup {b},
            !.header = IF \/ b \in Ancestors[@]
                          \/ Parent[b] # @ /\ Height[b] <= Height[@]
                       THEN @ ELSE b]

\* connectBestChain for a stored block: it becomes the tip when it has more
\* work and every block of its branch connects, the first that does not is
\* marked invalid.
Connect(c, b) ==
  LET branch == Ancestors[b] \ Ancestors[c.tip]
      bad == branch \cap Bad
  IN  IF Height[b] <= Height[c.tip] THEN c
      ELSE IF bad = {} THEN [c EXCEPT !.tip = b]
           ELSE [c EXCEPT !.failed = @ \cup
                   {CHOOSE x \in bad : \A y \in bad : Height[x] <= Height[y]}]

\* maybeAcceptBlock, then processOrphans: b and every orphan that hangs from it,
\* up to the first one that is refused.
RECURSIVE Accept(_, _)
Accept(c, b) ==
  LET c1 == Connect([c EXCEPT !.have = @ \cup {b}, !.headers = @ \cup {b},
                              !.orphans = @ \ {b}], b)
      next == {o \in c1.orphans : Parent[o] = b}
  IN  IF next = {} \/ c1.failed # c.failed THEN c1
      ELSE Accept(c1, CHOOSE o \in next : TRUE)

\* What ProcessBlock says of a block: the error that ends it, or "accepted".
Verdict(c, b, body) ==
  IF b \in c.have \cup c.orphans THEN "duplicate"
  ELSE IF body = "corrupt" THEN "insane"
  ELSE IF Parent[b] \notin c.have THEN "orphan"
  ELSE IF Parent[b] \in c.failed THEN "invalidAncestor"
  ELSE IF Accept(c, b).failed # c.failed THEN "failed" ELSE "accepted"

ProcessBlock(c, b, body) ==
  LET v == Verdict(c, b, body)
  IN  IF v = "orphan" THEN [c EXCEPT !.orphans = @ \cup {b}]
      ELSE IF v \in {"accepted", "failed"} THEN Accept(c, b) ELSE c

\* InvalidateBlock on a block that is not in the best chain.  A block that is
\* already marked invalid is left as it is: neither its descendants nor the
\* header tip change.
InvalidateBlock(c, b) ==
  IF b \in c.failed THEN c
  ELSE LET failed == c.failed \cup {d \in c.headers : b \in Ancestors[d]}
       IN  [c EXCEPT !.failed = failed,
                     !.header = IF @ \in failed
                                THEN CHOOSE x \in Highest(c.headers \ failed) : TRUE
                                ELSE @]

-----------------------------------------------------------------------------
(* The manager's state S.                                                   *)

NoState == [known |-> FALSE, connected |-> FALSE, syncCandidate |-> FALSE,
            requestedBlocks |-> {}, lastBlock |-> 0, prevGetHdrs |-> -1,
            queue |-> <<>>]
NoRetry == [kind |-> "none", peer |-> NoPeer, at |-> 0]

SyncInit ==
  /\ S = [syncPeer |-> NoPeer, ibdMode |-> FALSE, deferred |-> NoRetry,
          progress |-> TRUE, requestedBlocks |-> {}, rejectedBlocks |-> {},
          ps |-> [p \in Peers |-> NoState], faults |-> MaxFaults]
  /\ C = NoChain
  /\ ptip = PeerTip

fetchHigherPeers(s, h) ==
  {p \in Peers : s.ps[p].known /\ s.ps[p].syncCandidate /\ s.ps[p].lastBlock > h}

highestBlockPeer(s, P) ==
  {p \in P : \A q \in P : s.ps[q].lastBlock <= s.ps[p].lastBlock}

isInIBDMode(s, c) ==
  ~IsCurrent(c) \/ fetchHigherPeers(s, Height[c.tip]) # {}

\* One fault less of the MaxFaults.
CanFail(s) == s.faults > 0
Fault(s) == [s EXCEPT !.faults = @ - 1]

\* TryQueueMessage: the message waits in the peer's queue, or it is refused
\* because the peer is gone, because its own queue is full (which disconnects
\* it) or because the shared budget is spent, which leaves all as it was.
TryQueueMessage(s, p, m) ==
  IF ~s.ps[p].connected THEN {[s |-> s, err |-> "gone"]}
  ELSE {[s |-> [s EXCEPT !.ps[p].queue = Append(@, m)], err |-> "none"]}
         \cup IF s.faults = 0 THEN {}
              ELSE {[s |-> Fault(s), err |-> "budget"],
                    [s |-> [Fault(s) EXCEPT !.ps[p].connected = FALSE], err |-> "gone"]}

getheaders(at) == [kind |-> "getheaders", at |-> at, blocks |-> {}]
getdata(bs) == [kind |-> "getdata", at |-> 0, blocks |-> bs]

\* PushGetHeadersMsg ignores a request with the same begin as the last one.
PushGetHeadersMsg(s, p, at) ==
  IF s.ps[p].prevGetHdrs = at THEN {[s |-> s, err |-> "none"]}
  ELSE {IF r.err = "none" THEN [r EXCEPT !.s.ps[p].prevGetHdrs = at] ELSE r :
          r \in TryQueueMessage(s, p, getheaders(at))}

\* failQueuedRequest with an error other than a spent budget.
failQueuedRequest(s, p) ==
  [s EXCEPT !.ps[p].syncCandidate = FALSE, !.ps[p].connected = FALSE]

clearRequestedState(s, p) ==
  [s EXCEPT !.requestedBlocks = @ \ s.ps[p].requestedBlocks]

\* Mutant of resetRequestedBlocksForPeer: the manager's own map is forgotten.
resetRequestedBlocksForPeer_Half(s, p) ==
  [s EXCEPT !.ps[p].requestedBlocks = {}]

resetRequestedBlocksForPeer(s, p) ==
  [s EXCEPT !.requestedBlocks = @ \ s.ps[p].requestedBlocks,
            !.ps[p].requestedBlocks = {}]

\* haveInventory for a block.
haveInventory(s, c, b) == b \in s.rejectedBlocks \cup c.have \cup c.orphans

\* buildBlockRequest: the lowest blocks of the header chain above its fork with
\* the best chain that are neither held nor requested from anyone, as many as
\* the peer has free slots.
buildBlockRequest(s, c, p) ==
  LET fork == CHOOSE b \in Highest(Ancestors[c.tip] \cap Ancestors[c.header]) : TRUE
      slots == maxInFlightBlocks - Cardinality(s.ps[p].requestedBlocks)
      wanted == {b \in Ancestors[c.header] \ Ancestors[fork] :
                   /\ b \notin c.failed
                   /\ ~haveInventory(s, c, b)
                   /\ b \notin s.requestedBlocks}
  IN  IF ~s.ps[p].known THEN {}
      ELSE {b \in wanted :
              Cardinality({x \in wanted : Height[x] < Height[b]}) < slots}

\* fetchHeaderBlocks; when the message is refused rollbackRequestedInventory
\* takes the marks back.
fetchHeaderBlocks(s, c, p) ==
  LET bs == buildBlockRequest(s, c, p)
      mark(x) == [x EXCEPT !.requestedBlocks = @ \cup bs,
                           !.ps[p].requestedBlocks = @ \cup bs]
  IN  IF bs = {} THEN {[s |-> s, err |-> "none"]}
      ELSE {IF r.err = "none" THEN [r EXCEPT !.s = mark(@)] ELSE r :
              r \in TryQueueMessage(s, p, getdata(bs))}

\* The sync peer is chosen once its first request is queued.
Chosen(s, p) == [s EXCEPT !.syncPeer = p, !.ibdMode = TRUE, !.progress = TRUE]

\* startSync and fetchHeaders.  A peer that refuses is dropped and the next one
\* tried; with the budget spent nothing starts, and the stall ticker tries again.
RECURSIVE startSync(_, _)
startSync(s, c) ==
  LET forHeaders == fetchHigherPeers(s, Height[c.header])
      forBlocks == fetchHigherPeers(s, Height[c.tip])
      outcome(p, r) == CASE r.err = "none" -> {Chosen(r.s, p)}
                         [] r.err = "budget" -> {r.s}
                         [] r.err = "gone" -> startSync(failQueuedRequest(r.s, p), c)
      headersFrom(p) ==
        UNION {outcome(p, r) : r \in PushGetHeadersMsg(s, p, c.header)}
      blocksFrom(p) == UNION {outcome(p, r) : r \in fetchHeaderBlocks(s, c, p)}
  IN  IF s.syncPeer # NoPeer \/ ~isInIBDMode(s, c) THEN {s}
      ELSE IF forHeaders # {}
           THEN UNION {headersFrom(p) : p \in highestBlockPeer(s, forHeaders)}
           ELSE IF forBlocks # {}
                THEN UNION {blocksFrom(p) : p \in highestBlockPeer(s, forBlocks)}
                ELSE {s}

\* updateSyncPeer.
updateSyncPeer(s, c, dc) ==
  LET s1 == IF dc THEN [s EXCEPT !.ps[s.syncPeer].syncCandidate = FALSE,
                                 !.ps[s.syncPeer].connected = FALSE] ELSE s
  IN  startSync([s1 EXCEPT !.syncPeer = NoPeer, !.deferred = NoRetry], c)

\* failActiveQueuedRequest for the outcome r of a request to p.  With the budget
\* spent the request is kept for the stall ticker, one at a time and for the
\* sync peer only; any other error costs the peer its connection, and the sync
\* peer its place.
failActiveQueuedRequest(c, p, r, retry) ==
  LET s1 == failQueuedRequest(r.s, p)
  IN  CASE r.err = "none" -> {r.s}
        [] r.err = "budget" ->
             {IF p = r.s.syncPeer /\ retry # NoRetry /\ r.s.deferred = NoRetry
              THEN [r.s EXCEPT !.deferred = retry] ELSE r.s}
        [] r.err = "gone" ->
             IF p # r.s.syncPeer THEN {s1}
             ELSE startSync([clearRequestedState(s1, p) EXCEPT
                               !.syncPeer = NoPeer, !.deferred = NoRetry], c)

Retry(kind, p, at) == [kind |-> kind, peer |-> p, at |-> at]

\* A block request to p outside startSync.
Refill(s, c, p) ==
  UNION {failActiveQueuedRequest(c, p, r, Retry("blocks", p, 0)) :
           r \in fetchHeaderBlocks(s, c, p)}

\* A request for the headers after `at` outside startSync.
MoreHeaders(s, c, p, at) ==
  UNION {failActiveQueuedRequest(c, p, r, Retry("getheaders", p, at)) :
           r \in PushGetHeadersMsg(s, p, at)}

-----------------------------------------------------------------------------
(* The handlers.                                                            *)

\* isSyncCandidate and handleNewPeerMsg.
handleNewPeerMsg(p) ==
  LET s1 == [S EXCEPT !.ps[p] = [NoState EXCEPT
                 !.known = TRUE, !.connected = TRUE,
                 !.syncCandidate = p \in FullNodes, !.lastBlock = Height[ptip[p]]]]
  IN  /\ ~S.ps[p].known
      /\ S' \in IF p \in FullNodes THEN startSync(s1, C) ELSE {s1}
      /\ UNCHANGED <<C, ptip>>

\* handleDonePeerMsg: the peer is gone and its state with it.
handleDonePeerMsg(p) ==
  LET s1 == [clearRequestedState(S, p) EXCEPT !.ps[p] = NoState]
  IN  /\ S.ps[p].known /\ ~S.ps[p].connected
      /\ S' \in IF p = S.syncPeer THEN updateSyncPeer(s1, C, FALSE) ELSE {s1}
      /\ UNCHANGED <<C, ptip>>

\* retryActiveSyncRequest.
retryActiveSyncRequest(s, c) ==
  LET d == s.deferred
      sent == IF d.kind = "blocks" THEN fetchHeaderBlocks(s, c, d.peer)
              ELSE PushGetHeadersMsg(s, d.peer, d.at)
      outcome(r) ==
        CASE r.err = "none" -> {[r.s EXCEPT !.deferred = NoRetry, !.progress = TRUE]}
          [] r.err = "budget" -> {r.s}
          [] r.err = "gone" ->
               failActiveQueuedRequest(c, d.peer, [r EXCEPT !.s.deferred = NoRetry], NoRetry)
  IN  IF d.peer # s.syncPeer THEN {[s EXCEPT !.deferred = NoRetry]}
      ELSE UNION {outcome(r) : r \in sent}

\* handleStallSample and shouldDCStalledSyncPeer.  S.progress is cleared when
\* maxStallDuration passes without progress.
sampled(s, c) ==
  IF s.syncPeer = NoPeer THEN startSync(s, c)
  ELSE IF s.deferred # NoRetry THEN retryActiveSyncRequest(s, c)
  ELSE IF s.progress \/ ~s.ps[s.syncPeer].known THEN {s}
  ELSE updateSyncPeer(clearRequestedState(s, s.syncPeer), c,
                      s.ps[s.syncPeer].lastBlock > Height[c.tip])

handleStallSample == S' \in sampled(S, C) /\ UNCHANGED <<C, ptip>>

\* maxStallDuration passes: in a time that long an honest peer has answered.
StallTimePasses ==
  /\ S.syncPeer # NoPeer /\ S.progress
  /\ S.syncPeer \in Faulty \/ S.ps[S.syncPeer].queue = <<>>
  /\ S' = [S EXCEPT !.progress = FALSE]
  /\ UNCHANGED <<C, ptip>>

\* handleHeadersMsg once its headers are in the chain: c is the chain then, and
\* last the last header.
AfterHeaders(s, c, p, last) ==
  LET h == Height[last]
      s1 == IF last \in Ancestors[c.header] /\ h > s.ps[p].lastBlock
            THEN [s EXCEPT !.ps[p].lastBlock = h] ELSE s
      s2 == IF p = s1.syncPeer THEN [s1 EXCEPT !.progress = TRUE] ELSE s1
  IN  IF ~s.ibdMode THEN Refill(s1, c, p)
      ELSE IF s.syncPeer = NoPeer THEN {s1}
      ELSE IF Height[c.header] < s2.ps[s.syncPeer].lastBlock
           THEN MoreHeaders(s2, c, s.syncPeer, c.header)
           ELSE Refill(s2, c, s.syncPeer)

\* handleHeadersMsg for the headers hs: up to the first one that is refused, which
\* costs the peer its connection.
handleHeadersMsg(s, p, hs) ==
  LET step(c, b) == IF c.ok /\ HeaderOk(c.c, b)
                    THEN [c |-> ProcessBlockHeader(c.c, b), ok |-> TRUE]
                    ELSE [c |-> c.c, ok |-> FALSE]
      r == FoldLeft(step, [c |-> C, ok |-> TRUE], hs)
  IN  IF ~s.ps[p].known \/ hs = <<>> THEN S' = s /\ C' = C
      ELSE /\ C' = r.c
           /\ S' \in IF ~r.ok THEN {[s EXCEPT !.ps[p].connected = FALSE]}
                     ELSE AfterHeaders(s, r.c, p, Last(hs))

\* The rejected half of handleBlockMsg: the block fails a rule that makes it
\* invalid (shouldMarkRejectedBlockInvalid).
rejectBlock(s, c, p, b) ==
  LET s1 == resetRequestedBlocksForPeer(
              [s EXCEPT !.ps[p].syncCandidate = FALSE,
                        !.rejectedBlocks = IF b \in c.have THEN @ \cup {b} ELSE @], p)
  IN  IF p = s.syncPeer THEN updateSyncPeer(s1, c, TRUE)
      ELSE {[s1 EXCEPT !.ps[p].connected = FALSE]}

\* The accepted half of handleBlockMsg.  The height of an orphan is not known to
\* the block (-1), only to its coinbase.
AfterBlock(s, c, p, b, orphan) ==
  LET tipHeight == IF orphan THEN Height[b] ELSE Height[c.tip]
      s1 == [s EXCEPT !.progress = @ \/ (~orphan /\ p = s.syncPeer),
                      !.ps[p].lastBlock = IF tipHeight > @ THEN tipHeight ELSE @]
      h == IF orphan THEN -1 ELSE Height[b]
  IN  IF ~s.ibdMode THEN {s1}
      ELSE IF h < Height[c.header]
              /\ Cardinality(s1.ps[p].requestedBlocks) < minInFlightBlocks
           THEN IF s.syncPeer = NoPeer THEN {s1} ELSE Refill(s1, c, s.syncPeer)
           ELSE IF h >= Height[c.header] THEN {[s1 EXCEPT !.ibdMode = FALSE]} ELSE {s1}

\* handleBlockMsg.
handleBlockMsg(s, p, b, body) ==
  LET s1 == [s EXCEPT !.ps[p].requestedBlocks = @ \ {b}, !.requestedBlocks = @ \ {b}]
      c1 == ProcessBlock(C, b, body)
      v == Verdict(C, b, body)
      c2 == IF v = "failed" THEN InvalidateBlock(c1, b) ELSE c1
  IN  IF ~s.ps[p].known THEN S' = s /\ C' = C
      ELSE IF b \notin s.ps[p].requestedBlocks
           THEN S' = [s EXCEPT !.ps[p].connected = FALSE] /\ C' = C
      ELSE /\ C' = c2
           /\ S' \in CASE v \in {"duplicate", "invalidAncestor"} -> {s1}
                       [] v \in {"insane", "failed"} -> rejectBlock(s1, c2, p, b)
                       [] OTHER -> AfterBlock(s1, c2, p, b, v = "orphan")

\* handleNotFoundMsg for the blocks bs.
handleNotFoundMsg(s, p, bs) ==
  LET mine == bs \cap s.ps[p].requestedBlocks
      s1 == [s EXCEPT !.ps[p].requestedBlocks = @ \ mine,
                      !.requestedBlocks = @ \ mine]
      s2 == resetRequestedBlocksForPeer([s1 EXCEPT !.ps[p].syncCandidate = FALSE], p)
  IN  /\ C' = C
      /\ S' \in IF ~s.ps[p].known THEN {s}
                ELSE IF mine # {} /\ s.ibdMode /\ p = s.syncPeer
                     THEN updateSyncPeer(s2, C, FALSE) ELSE {s1}

-----------------------------------------------------------------------------
(* The peers.  A peer answers the requests in its queue in order; one that  *)
(* lacks a block says so.  What a peer sent before it was disconnected may  *)
(* still be handled, until its done message is.                             *)

Pop(s, p) == [s EXCEPT !.ps[p].queue = Tail(@)]

\* locateHeaders of the peer: the blocks of its chain after the last one it
\* shares with the locator.
HeadersAfter(p, at) ==
  LET from == CHOOSE b \in Highest(Ancestors[ptip[p]] \cap Ancestors[at]) : TRUE
      n == Height[ptip[p]] - Height[from]
  IN  [i \in 1..(IF n > MaxHeaders THEN MaxHeaders ELSE n) |->
         AtHeight(ptip[p], Height[from] + i)]

AnswerHeaders(p) ==
  /\ S.ps[p].queue # <<>> /\ Head(S.ps[p].queue).kind = "getheaders"
  /\ handleHeadersMsg(Pop(S, p), p, HeadersAfter(p, Head(S.ps[p].queue).at))
  /\ UNCHANGED ptip

\* The blocks of a request come one by one, the lowest first.
AnswerBlock(p, body) ==
  LET bs == Head(S.ps[p].queue).blocks
      mine == bs \cap Ancestors[ptip[p]]
      b == CHOOSE x \in mine : \A y \in mine : Height[x] <= Height[y]
      s1 == IF body = "corrupt" THEN Fault(S) ELSE S
      s2 == IF bs = {b} THEN Pop(s1, p)
            ELSE [s1 EXCEPT !.ps[p].queue[1].blocks = @ \ {b}]
  IN  /\ S.ps[p].queue # <<>> /\ Head(S.ps[p].queue).kind = "getdata"
      /\ mine # {}
      /\ body = "corrupt" => p \in Faulty /\ CanFail(S)
      /\ handleBlockMsg(s2, p, b, body)
      /\ UNCHANGED ptip

\* A getdata with none of its blocks left to send ends with a notfound for the
\* blocks the peer lacks; a faulty peer may say notfound of any.
AnswerNotFound(p) ==
  LET bs == Head(S.ps[p].queue).blocks
      lacks == bs \cap Ancestors[ptip[p]] = {}
  IN  /\ S.ps[p].queue # <<>> /\ Head(S.ps[p].queue).kind = "getdata"
      /\ lacks \/ (p \in Faulty /\ CanFail(S))
      /\ handleNotFoundMsg(Pop(IF lacks THEN S ELSE Fault(S), p), p, bs)
      /\ UNCHANGED ptip

\* A new block on top of a peer's chain, announced with its header.
Announce(p, b) ==
  /\ S.ps[p].known /\ S.ps[p].connected /\ CanFail(S)
  /\ Parent[b] = ptip[p] /\ (b \in Bad => p \in Faulty)
  /\ handleHeadersMsg(Fault(S), p, <<b>>)
  /\ ptip' = [ptip EXCEPT ![p] = b]

LosePeer(p) ==
  /\ S.ps[p].known /\ S.ps[p].connected /\ CanFail(S)
  /\ S' = [Fault(S) EXCEPT !.ps[p].connected = FALSE]
  /\ UNCHANGED <<C, ptip>>

Answer(p) ==
  AnswerHeaders(p) \/ AnswerBlock(p, "good") \/ AnswerNotFound(p)

SyncNext ==
  \/ \E p \in Peers : \/ handleNewPeerMsg(p) \/ handleDonePeerMsg(p)
                      \/ Answer(p) \/ AnswerBlock(p, "corrupt") \/ LosePeer(p)
                      \/ \E b \in Block \ {0} : Announce(p, b)
  \/ handleStallSample \/ StallTimePasses

SyncSpec == SyncInit /\ [][SyncNext]_syncVars

\* Nothing is left to handle: every peer is connected and known, honest peers owe
\* no answer, and a sample of the stall ticker does nothing.
Idle ==
  /\ \A p \in Peers : S.ps[p].known /\ S.ps[p].connected
  /\ \A p \in Peers \ Faulty : S.ps[p].queue = <<>>
  /\ sampled(S, C) = {S}

\* A peer comes, its end is noticed, an honest peer answers, the ticker ticks.
Handles ==
  \/ \E p \in Peers : handleNewPeerMsg(p) \/ handleDonePeerMsg(p)
  \/ \E p \in Peers \ Faulty : Answer(p)
  \/ handleStallSample

-----------------------------------------------------------------------------
(* Properties.                                                              *)

\* A block the manager holds for requested is owed by a peer it knows: a mark
\* without an owner would keep the block from ever being requested again
\* (buildBlockRequest skips it), through stalls, lost peers, notfound answers
\* and requests that were rolled back.
RequestsOwned ==
  S.requestedBlocks \subseteq UNION {S.ps[p].requestedBlocks : p \in Peers}

\* No peer is asked for more than maxInFlightBlocks blocks at once, whatever the
\* order of refills, headers and retried requests (buildBlockRequest).
InFlightBound ==
  \A p \in Peers : Cardinality(S.ps[p].requestedBlocks) <= maxInFlightBlocks

\* The sync peer is one the manager knows, and a deferred request is one of its:
\* no retry goes to a peer that was replaced (updateSyncPeer, handleDonePeerMsg).
SyncPeerKnown ==
  /\ S.syncPeer # NoPeer => S.ps[S.syncPeer].known
  /\ S.deferred # NoRetry => S.deferred.peer = S.syncPeer

\* The chain is shorter than the one peer p has.
BehindPeer(p) == Height[C.tip] < Height[ptip[p]]

=============================================================================
