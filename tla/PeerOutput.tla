------------------------------ MODULE PeerOutput ------------------------------
(***************************************************************************)
(* The output side of peer/peer.go: goroutines that queue messages and      *)
(* inventory, queueHandler, outHandler, and the byte budget all peers       *)
(* share.  A message reserves the worst case while it is encoded (under     *)
(* prepareMu) and then its own size, until it is written or dropped.        *)
(***************************************************************************)
EXTENDS Integers, Sequences, FiniteSets, SequencesExt

CONSTANTS
  Peers,
  Msgs,              \* calls of TryQueueMessage with a doneChan, by id
  PeerOf, Control,   \* the peer of a call, and the calls with control messages
  Invs, Blocks,      \* inventory, and the part of it that announces blocks
  DataSize, ControlSize, InvSize,
  PrepareSize,       \* what encoding a message may take
  maxBytes,          \* of the shared budget
  controlReserveBytes,
  maxQueuedMessages, maxQueuedControlMessages, maxQueuedBytes,
  maxQueuedInventory, maxInvTrickleSize,
  outputBufferSize   \* of the channels outputQueue and outputInvChan

VARIABLES
  usedBytes,     \* of the OutboundQueueBudget
  prepareMu,     \* the call that holds prepareMu, or None
  caller,        \* where each call stands
  signals,       \* signals sent on each call's doneChan
  ps             \* the state of the peers

outVars == <<usedBytes, prepareMu, caller, signals, ps>>

None == "none"

\* An entry of outputQueue, pendingMsgs and sendQueue: a call, or an inv message.
CallMsg(m) == [call |-> m, invs |-> {}, control |-> m \in Control]
InvMsg(I) == [call |-> None, invs |-> I, control |-> FALSE]
Size(e) == IF e.control THEN ControlSize ELSE DataSize

OutInit ==
  /\ usedBytes = 0
  /\ prepareMu = None
  /\ caller = [m \in Msgs |-> "start"]
  /\ signals = [m \in Msgs |-> 0]
  /\ ps = [p \in Peers |->
       [connected |-> TRUE, versionKnown |-> FALSE, queueStopped |-> FALSE,
        outputQueue |-> <<>>, outputInvChan |-> <<>>, invEnqueue |-> {},
        pendingMsgs |-> <<>>, invSendQueue |-> <<>>, waiting |-> FALSE,
        sendQueue |-> <<>>, sendDoneQueue |-> 0, writing |-> <<>>,
        queueHandler |-> "run", outHandler |-> "run",
        queuedMessages |-> 0, queuedBytes |-> 0, queuedControlMsgs |-> 0,
        queuedInventory |-> {}, knownInventory |-> {}, written |-> {}]]

-----------------------------------------------------------------------------
(* The budget and the counters, on x = [used |-> usedBytes, p |-> ps[p]].   *)

budgetAllows(used, bytes, control) ==
  LET limit == IF control THEN maxBytes ELSE maxBytes - controlReserveBytes
  IN  used + bytes <= limit

HalfOf(n) == n \div 2
\* outboundDataMessageLimit and outboundDataByteLimit.
outboundDataMessageLimit ==
  maxQueuedMessages - IF maxQueuedControlMessages > HalfOf(maxQueuedMessages)
                      THEN HalfOf(maxQueuedMessages) ELSE maxQueuedControlMessages
outboundDataByteLimit ==
  LET reserve == maxQueuedControlMessages * ControlSize
  IN  maxQueuedBytes - IF reserve > HalfOf(maxQueuedBytes)
                       THEN HalfOf(maxQueuedBytes) ELSE reserve

\* What reserveOutboundMessageLocked says of entry e, its bytes being in the budget.
Admission(q, e) ==
  LET bytes == IF e.control THEN maxQueuedBytes ELSE outboundDataByteLimit
      messages == IF e.control THEN maxQueuedMessages ELSE outboundDataMessageLimit
  IN  IF q.queueStopped THEN "stopped"
      ELSE IF q.queuedMessages >= messages \/ q.queuedBytes + Size(e) > bytes THEN "limit"
      ELSE IF e.control /\ q.queuedControlMsgs >= maxQueuedControlMessages THEN "limit"
      ELSE "accepted"

Charge(q, e) ==
  [q EXCEPT !.queuedMessages = @ + 1, !.queuedBytes = @ + Size(e),
            !.queuedControlMsgs = @ + (IF e.control THEN 1 ELSE 0)]

\* Mutant of releaseOutboundMessage: the shared budget is not given back.
releaseOutboundMessage_PeerOnly(x, e) ==
  [used |-> x.used,
   p |-> [x.p EXCEPT !.queuedMessages = @ - 1, !.queuedBytes = @ - Size(e),
                     !.queuedControlMsgs = @ - (IF e.control THEN 1 ELSE 0)]]

releaseOutboundMessage(x, e) ==
  [used |-> x.used - Size(e),
   p |-> [x.p EXCEPT !.queuedMessages = @ - 1, !.queuedBytes = @ - Size(e),
                     !.queuedControlMsgs = @ - (IF e.control THEN 1 ELSE 0)]]

releaseOutboundInventory(x, iv) ==
  [used |-> x.used - InvSize,
   p |-> [x.p EXCEPT !.queuedBytes = @ - InvSize, !.queuedInventory = @ \ {iv}]]

Disconnect(q) == [q EXCEPT !.connected = FALSE]

\* The calls among the entries of s.
CallsOf(s) == {s[i].call : i \in DOMAIN s} \ {None}

\* signalMessageDone for a set of calls.
signalDone(ms) == signals' = [m \in Msgs |-> signals[m] + IF m \in ms THEN 1 ELSE 0]

Put(p, x) == ps' = [ps EXCEPT ![p] = x.p] /\ usedBytes' = x.used
At(p) == [used |-> usedBytes, p |-> ps[p]]

-----------------------------------------------------------------------------
(* TryQueueMessage.                                                         *)

\* A call that is refused signals its doneChan from a goroutine of its own; a peer
\* over its limits is disconnected.
TryQueueMessage(m) ==
  LET p == PeerOf[m]
  IN  /\ caller[m] = "start"
      /\ \/ /\ ~ps[p].connected
            /\ caller' = [caller EXCEPT ![m] = "refused"]
            /\ signalDone({m})
            /\ UNCHANGED <<usedBytes, prepareMu>>
         \/ /\ ps[p].connected /\ prepareMu = None
            /\ IF budgetAllows(usedBytes, PrepareSize, m \in Control)
               THEN /\ usedBytes' = usedBytes + PrepareSize
                    /\ prepareMu' = m
                    /\ caller' = [caller EXCEPT ![m] = "encode"]
                    /\ UNCHANGED signals
               ELSE /\ caller' = [caller EXCEPT ![m] = "refused"]
                    /\ signalDone({m})
                    /\ UNCHANGED <<usedBytes, prepareMu>>
      /\ UNCHANGED ps

\* The message is encoded: the reservation shrinks to its size and the peer's
\* limits are tried (beginOutboundMessageEnqueue).
Encoded(m) ==
  LET p == PeerOf[m]
      e == CallMsg(m)
      a == Admission(ps[p], e)
  IN  /\ caller[m] = "encode"
      /\ prepareMu' = None
      /\ usedBytes' = usedBytes - PrepareSize + IF a = "accepted" THEN Size(e) ELSE 0
      /\ caller' = [caller EXCEPT ![m] = IF a = "accepted" THEN "enqueue" ELSE "refused"]
      /\ ps' = [ps EXCEPT ![p] = CASE a = "accepted" -> Charge(@, e)
                                   [] a = "limit" -> Disconnect(@)
                                   [] a = "stopped" -> @]
      /\ signalDone(IF a = "accepted" THEN {} ELSE {m})

\* finishOutboundMessageEnqueue: the channel has room, or the peer quits.
Enqueue(m) ==
  LET p == PeerOf[m]
  IN  /\ caller[m] = "enqueue"
      /\ \/ /\ Len(ps[p].outputQueue) < outputBufferSize
            /\ ps' = [ps EXCEPT ![p].outputQueue = Append(@, CallMsg(m))]
            /\ caller' = [caller EXCEPT ![m] = "queued"]
            /\ UNCHANGED <<usedBytes, signals>>
         \/ /\ ~ps[p].connected
            /\ Put(p, releaseOutboundMessage(At(p), CallMsg(m)))
            /\ caller' = [caller EXCEPT ![m] = "refused"]
            /\ signalDone({m})
      /\ UNCHANGED prepareMu

\* QueueInventory: reserved at once, dropped when a limit is reached.
QueueInventory(p, iv) ==
  LET q == ps[p]
  IN  /\ q.connected /\ ~q.queueStopped
      /\ iv \notin q.knownInventory \cup q.queuedInventory
      /\ Cardinality(q.queuedInventory) < maxQueuedInventory
      /\ q.queuedBytes + InvSize <= outboundDataByteLimit
      /\ budgetAllows(usedBytes, InvSize, FALSE)
      /\ usedBytes' = usedBytes + InvSize
      /\ ps' = [ps EXCEPT ![p].queuedInventory = @ \cup {iv}, ![p].queuedBytes = @ + InvSize,
                          ![p].invEnqueue = @ \cup {iv}]
      /\ UNCHANGED <<prepareMu, caller, signals>>

EnqueueInventory(p, iv) ==
  /\ iv \in ps[p].invEnqueue
  /\ LET x == [At(p) EXCEPT !.p.invEnqueue = @ \ {iv}]
     IN  \/ /\ Len(x.p.outputInvChan) < outputBufferSize
            /\ Put(p, [x EXCEPT !.p.outputInvChan = Append(@, iv)])
         \/ /\ ~x.p.connected
            /\ Put(p, releaseOutboundInventory(x, iv))
  /\ UNCHANGED <<prepareMu, caller, signals>>

-----------------------------------------------------------------------------
(* queueHandler.                                                            *)

\* An entry that is reserved goes to outHandler, or waits for the ones before it.
Forward(q, e) ==
  IF q.waiting THEN [q EXCEPT !.pendingMsgs = Append(@, e)]
  ELSE [q EXCEPT !.sendQueue = Append(@, e), !.waiting = TRUE]

\* queuePacket for a new inv message: what it announces is known once it is accepted.
queuePacket(x, I) ==
  LET e == InvMsg(I)
      a == Admission(x.p, e)
  IN  IF I = {} \/ ~budgetAllows(x.used, PrepareSize, FALSE) THEN x
      ELSE CASE a = "accepted" ->
                  [used |-> x.used + Size(e),
                   p |-> [Forward(Charge(x.p, e), e) EXCEPT !.knownInventory = @ \cup I]]
             [] a = "limit" -> [x EXCEPT !.p = Disconnect(@)]
             [] a = "stopped" -> x

\* The handler runs and, when it needs it, gets prepareMu.
QueueHandlerRuns(p) == ps[p].queueHandler = "run"

TakeMessage(p) ==
  /\ QueueHandlerRuns(p) /\ prepareMu = None
  /\ ps[p].outputQueue # <<>>
  /\ ps' = [ps EXCEPT ![p] = Forward([@ EXCEPT !.outputQueue = Tail(@)],
                                     Head(@.outputQueue))]
  /\ UNCHANGED <<usedBytes, prepareMu, caller, signals>>

SendDone(p) ==
  LET q == [ps[p] EXCEPT !.sendDoneQueue = 0]
  IN  /\ QueueHandlerRuns(p) /\ ps[p].sendDoneQueue = 1
      /\ ps' = [ps EXCEPT ![p] =
           IF q.pendingMsgs = <<>> THEN [q EXCEPT !.waiting = FALSE]
           ELSE [q EXCEPT !.pendingMsgs = Tail(@),
                          !.sendQueue = Append(@, Head(q.pendingMsgs))]]
      /\ UNCHANGED <<usedBytes, prepareMu, caller, signals>>

\* A block is announced at once, the rest waits for the trickle ticker.
TakeInventory(p) ==
  LET q == ps[p]
      iv == Head(q.outputInvChan)
      x == [At(p) EXCEPT !.p.outputInvChan = Tail(@)]
  IN  /\ QueueHandlerRuns(p) /\ prepareMu = None /\ q.outputInvChan # <<>>
      /\ Put(p, CASE ~q.versionKnown -> releaseOutboundInventory(x, iv)
                  [] q.versionKnown /\ iv \in Blocks ->
                       queuePacket(releaseOutboundInventory(x, iv), {iv})
                  [] OTHER -> [x EXCEPT !.p.invSendQueue = Append(@, iv)])
      /\ UNCHANGED <<prepareMu, caller, signals>>

\* The inventory that waits is sent in messages of maxInvTrickleSize.
RECURSIVE Trickled(_, _)
Trickled(x, I) ==
  IF x.p.invSendQueue = <<>> THEN queuePacket(x, I)
  ELSE LET iv == Head(x.p.invSendQueue)
           known == iv \in x.p.knownInventory
           y == releaseOutboundInventory([x EXCEPT !.p.invSendQueue = Tail(@)], iv)
           J == IF known THEN I ELSE I \cup {iv}
       IN  IF Cardinality(J) >= maxInvTrickleSize THEN Trickled(queuePacket(y, J), {})
           ELSE Trickled(y, J)

Trickle(p) ==
  /\ QueueHandlerRuns(p) /\ prepareMu = None
  /\ ps[p].connected /\ ps[p].invSendQueue # <<>>
  /\ Put(p, Trickled(At(p), {}))
  /\ UNCHANGED <<prepareMu, caller, signals>>

QueueHandlerQuits(p) ==
  /\ QueueHandlerRuns(p) /\ ~ps[p].connected
  /\ ps' = [ps EXCEPT ![p].queueHandler = "drain", ![p].queueStopped = TRUE]
  /\ UNCHANGED <<usedBytes, prepareMu, caller, signals>>

\* queueEnqueueWg is down to zero.
EnqueuesDone(p) ==
  /\ ps[p].invEnqueue = {}
  /\ \A m \in Msgs : caller[m] = "enqueue" => PeerOf[m] # p

\* Everything still queued is released and signalled.
QueueHandlerDrains(p) ==
  LET q == ps[p]
      all == q.pendingMsgs \o q.outputQueue
      invs == q.invSendQueue \o q.outputInvChan
      freed == FoldLeft(releaseOutboundInventory,
                        FoldLeft(releaseOutboundMessage, At(p), all), invs)
  IN  /\ q.queueHandler = "drain" /\ EnqueuesDone(p)
      /\ Put(p, [freed EXCEPT !.p.pendingMsgs = <<>>, !.p.outputQueue = <<>>,
                              !.p.invSendQueue = <<>>, !.p.outputInvChan = <<>>,
                              !.p.queueHandler = "gone"])
      /\ signalDone(CallsOf(all))
      /\ UNCHANGED <<prepareMu, caller>>

-----------------------------------------------------------------------------
(* outHandler.                                                              *)

TakeToWrite(p) ==
  /\ ps[p].outHandler = "run" /\ ps[p].writing = <<>> /\ ps[p].sendQueue # <<>>
  /\ ps' = [ps EXCEPT ![p].writing = <<Head(ps[p].sendQueue)>>, ![p].sendQueue = Tail(@)]
  /\ UNCHANGED <<usedBytes, prepareMu, caller, signals>>

\* The write succeeds, or it fails and the peer is disconnected; when the stall
\* handler is told nothing more, because the peer quits, the handler leaves.
Write(p, outcome) ==
  LET e == Head(ps[p].writing)
      x == releaseOutboundMessage([At(p) EXCEPT !.p.writing = <<>>], e)
  IN  /\ ps[p].writing # <<>>
      /\ CASE outcome = "ok" ->
                /\ ps[p].connected /\ ps[p].sendDoneQueue = 0
                /\ Put(p, [x EXCEPT !.p.sendDoneQueue = 1,
                                    !.p.written = @ \cup CallsOf(<<e>>)])
           [] outcome = "error" -> Put(p, [x EXCEPT !.p = Disconnect(@)])
           [] outcome = "quit" -> /\ ~ps[p].connected
                                  /\ Put(p, [x EXCEPT !.p.outHandler = "wait"])
      /\ signalDone(CallsOf(<<e>>))
      /\ UNCHANGED <<prepareMu, caller>>

OutHandlerQuits(p) ==
  /\ ps[p].outHandler = "run" /\ ps[p].writing = <<>> /\ ~ps[p].connected
  /\ ps' = [ps EXCEPT ![p].outHandler = "wait"]
  /\ UNCHANGED <<usedBytes, prepareMu, caller, signals>>

QueueHandlerIsGone(p) == ps[p].queueHandler = "gone"

OutHandlerDrains(p) ==
  /\ ps[p].outHandler = "wait" /\ QueueHandlerIsGone(p)
  /\ Put(p, [FoldLeft(releaseOutboundMessage, At(p), ps[p].sendQueue) EXCEPT
               !.p.sendQueue = <<>>, !.p.outHandler = "gone"])
  /\ signalDone(CallsOf(ps[p].sendQueue))
  /\ UNCHANGED <<prepareMu, caller>>

\* The version message of the remote side arrives; the connection ends.
VersionKnown(p) ==
  /\ ps[p].connected /\ ~ps[p].versionKnown
  /\ ps' = [ps EXCEPT ![p].versionKnown = TRUE]
  /\ UNCHANGED <<usedBytes, prepareMu, caller, signals>>

ConnectionEnds(p) ==
  /\ ps[p].connected
  /\ ps' = [ps EXCEPT ![p] = Disconnect(@)]
  /\ UNCHANGED <<usedBytes, prepareMu, caller, signals>>

QueueHandler(p) ==
  \/ TakeMessage(p) \/ SendDone(p) \/ TakeInventory(p) \/ Trickle(p)
  \/ QueueHandlerQuits(p) \/ QueueHandlerDrains(p)

OutHandler(p) ==
  TakeToWrite(p) \/ Write(p, "ok") \/ Write(p, "quit") \/ OutHandlerQuits(p) \/ OutHandlerDrains(p)

Call(m) == TryQueueMessage(m) \/ Encoded(m) \/ Enqueue(m)

OutNext ==
  \/ \E m \in Msgs : Call(m)
  \/ \E p \in Peers :
       \/ QueueHandler(p) \/ OutHandler(p) \/ Write(p, "error")
       \/ VersionKnown(p) \/ ConnectionEnds(p)
       \/ \E iv \in Invs : QueueInventory(p, iv) \/ EnqueueInventory(p, iv)

OutSpec == OutInit /\ [][OutNext]_outVars

-----------------------------------------------------------------------------
\* The entries whose bytes peer p accounts for.
Held(p) ==
  ps[p].outputQueue \o ps[p].pendingMsgs \o ps[p].sendQueue \o ps[p].writing
    \o SetToSeq({CallMsg(m) : m \in {c \in Msgs : caller[c] = "enqueue" /\ PeerOf[c] = p}})

Bytes(s) == FoldLeft(LAMBDA n, e : n + Size(e), 0, s)

InvsOf(p) == ps[p].invEnqueue \cup ToSet(ps[p].outputInvChan) \cup ToSet(ps[p].invSendQueue)

\* The queue counters of every peer and the shared budget are exact, through every
\* refusal, write error and shutdown: they count what is queued, being written or
\* being encoded, and nothing else.
BudgetExact ==
  /\ \A p \in Peers :
       /\ ps[p].queuedMessages = Len(Held(p))
       /\ ps[p].queuedBytes = Bytes(Held(p)) + InvSize * Cardinality(InvsOf(p))
       /\ ps[p].queuedInventory = InvsOf(p)
       /\ ps[p].queuedControlMsgs = Len(SelectSeq(Held(p), LAMBDA e : e.control))
  /\ usedBytes = FoldLeft(LAMBDA n, p : n + ps[p].queuedBytes, 0, SetToSeq(Peers))
                   + IF prepareMu = None THEN 0 ELSE PrepareSize

\* "When doneChan is non-nil it is signaled exactly once whether the message is
\* sent or rejected": never twice, and once the handlers are gone, once.
DoneOnce ==
  \A m \in Msgs :
    /\ signals[m] <= 1
    /\ ps[PeerOf[m]].outHandler = "gone" /\ caller[m] \in {"queued", "refused"}
         => signals[m] = 1

\* queueHandler never waits for outHandler: sendQueue has room whenever it sends,
\* and sendDoneQueue whenever outHandler does.
HandlersNeverBlock ==
  \A p \in Peers :
    /\ Len(ps[p].sendQueue) + Len(ps[p].writing) + ps[p].sendDoneQueue <= 1
    /\ ~ps[p].waiting => ps[p].sendQueue = <<>>
=============================================================================
