----------------------------- MODULE InvRequests -----------------------------
(***************************************************************************)
(* The transaction half of netsync/manager.go: announced transactions are  *)
(* queued, requested from one peer at a time, answered, and rejected ones   *)
(* are remembered until the next block.  Every handler is one step of the   *)
(* blockHandler goroutine.  Claims and airdrops go the same way, with maps  *)
(* of their own.  The manager is out of its initial download.               *)
(***************************************************************************)
EXTENDS Integers, Sequences, FiniteSets, SequencesExt

CONSTANTS
  Peers, Txs,
  MaxInvPerMsg,      \* wire.MaxInvPerMsg, entries of one getdata
  maxRequestedTxns,  \* size of the maps of requested transactions
  MaxSteps           \* bound on announcements, faults, blocks and reconnections

VARIABLES
  states,         \* peerStates: known, requestQueue, requestRetryPending, requestedTxns
  requestedTxns,  \* the manager's map of requested transactions
  rejectedTxns,   \* transactions not to be requested before the next block
  pool,           \* transactions the mempool or the chain has
  inFlight,       \* getdata entries each peer has still to answer
  steps

invVars == <<states, requestedTxns, rejectedTxns, pool, inFlight, steps>>

NewState == [known |-> TRUE, connected |-> TRUE, requestQueue |-> <<>>,
             requestRetryPending |-> FALSE, requestedTxns |-> {}]

InvInit ==
  /\ states = [p \in Peers |-> NewState]
  /\ requestedTxns = {} /\ rejectedTxns = {} /\ pool = {}
  /\ inFlight = [p \in Peers |-> {}]
  /\ steps = 0

Step == steps < MaxSteps /\ steps' = steps + 1

\* limitAdd evicts an entry, whichever the map yields first.
limitAdd(m, t) ==
  IF t \in m THEN {m}
  ELSE IF Cardinality(m) < maxRequestedTxns THEN {m \cup {t}}
  ELSE {(m \ {x}) \cup {t} : x \in m}

\* The entries of a request queue that one getdata takes: those nobody was asked
\* for yet, up to MaxInvPerMsg; rest is what stays queued.
RECURSIVE Taken(_, _, _)
Taken(queue, marked, wanted) ==
  IF queue = <<>> \/ Len(wanted) >= MaxInvPerMsg
  THEN [wanted |-> wanted, rest |-> queue]
  ELSE LET t == Head(queue)
           new == t \notin marked
       IN  Taken(Tail(queue), marked \cup {t}, IF new THEN Append(wanted, t) ELSE wanted)

\* rollbackRequestedInventory leaves the maps without the refused entries, the
\* retry queue starts with them.
\* Mutant of Refused: the entries of a refused request are not queued again.
Refused_Lost(st, wanted, rest) ==
  [st EXCEPT !.requestQueue = rest, !.requestRetryPending = TRUE]

Refused(st, wanted, rest) ==
  [st EXCEPT !.requestQueue = wanted \o rest, !.requestRetryPending = TRUE]

\* requestQueuedInventory for a peer whose state is st: the getdata is queued, or
\* refused because the shared budget is spent, or the peer is gone.
requestQueuedInventory(p, st) ==
  LET r == Taken(st.requestQueue, requestedTxns, <<>>)
      add == ToSet(r.wanted)
      drained == [st EXCEPT !.requestQueue = r.rest, !.requestRetryPending = r.rest # <<>>]
      \* limitAdd entry by entry, in the manager's map and in the peer's.
      marks(m) == FoldLeft(LAMBDA ms, t : UNION {limitAdd(x, t) : x \in ms}, {m}, r.wanted)
  IN  \/ /\ add = {} \/ st.connected
         /\ \E m \in marks(st.requestedTxns) :
              states' = [states EXCEPT ![p] = [drained EXCEPT !.requestedTxns = m]]
         /\ requestedTxns' \in marks(requestedTxns)
         /\ inFlight' = [inFlight EXCEPT ![p] = @ \cup add]
      \/ /\ add # {} /\ st.connected
         /\ states' = [states EXCEPT ![p] = Refused(st, r.wanted, r.rest)]
         /\ UNCHANGED <<requestedTxns, inFlight>>
      \/ /\ add # {} /\ ~st.connected
         /\ states' = [states EXCEPT ![p] = [drained EXCEPT !.requestRetryPending = FALSE]]
         /\ UNCHANGED <<requestedTxns, inFlight>>

\* handleInvMsg with the inventory invs: what is neither known nor rejected is
\* queued, unless the queue waits for a retry already.
handleInvMsg(p, invs) ==
  LET wanted == IF states[p].requestRetryPending THEN <<>>
                ELSE SelectSeq(invs, LAMBDA t : t \notin pool \cup rejectedTxns)
  IN  /\ Step
      /\ states[p].known
      /\ requestQueuedInventory(p, [states[p] EXCEPT !.requestQueue = @ \o wanted])
      /\ UNCHANGED <<rejectedTxns, pool>>

\* handleStallSample retries the queues that wait.
RetryQueued(p) ==
  /\ states[p].known /\ states[p].requestRetryPending /\ states[p].connected
  /\ requestQueuedInventory(p, states[p])
  /\ UNCHANGED <<rejectedTxns, pool, steps>>

Unmark(p, t) ==
  /\ states' = [states EXCEPT ![p].requestedTxns = @ \ {t}]
  /\ requestedTxns' = requestedTxns \ {t}

\* handleTxMsg.  A transaction that was rejected before is ignored; any other is
\* processed and its marks are taken back, whoever sent it.
handleTxMsg(p, t, accepted) ==
  IF t \in rejectedTxns
  THEN UNCHANGED <<states, requestedTxns, rejectedTxns, pool>>
  ELSE /\ Unmark(p, t)
       /\ pool' = IF accepted THEN pool \cup {t} ELSE pool
       /\ rejectedTxns' = IF accepted THEN rejectedTxns ELSE rejectedTxns \cup {t}

\* A peer answers a request, or sends a transaction nobody asked it for.
SendTx(p, t, accepted) ==
  /\ states[p].known
  /\ IF t \in inFlight[p] THEN UNCHANGED steps ELSE Step
  /\ handleTxMsg(p, t, accepted)
  /\ inFlight' = [inFlight EXCEPT ![p] = @ \ {t}]

\* handleNotFoundMsg.
handleNotFoundMsg(p, t) ==
  /\ states[p].known /\ t \in inFlight[p]
  /\ IF t \in states[p].requestedTxns THEN Unmark(p, t)
     ELSE UNCHANGED <<states, requestedTxns>>
  /\ inFlight' = [inFlight EXCEPT ![p] = @ \ {t}]
  /\ UNCHANGED <<rejectedTxns, pool, steps>>

\* The peer's connection ends; handleDonePeerMsg forgets it and its marks; it may
\* come back.
LosePeer(p) ==
  /\ Step /\ states[p].connected
  /\ states' = [states EXCEPT ![p].connected = FALSE]
  /\ UNCHANGED <<requestedTxns, rejectedTxns, pool, inFlight>>

handleDonePeerMsg(p) ==
  /\ states[p].known /\ ~states[p].connected
  /\ requestedTxns' = requestedTxns \ states[p].requestedTxns
  /\ states' = [states EXCEPT ![p] = [NewState EXCEPT !.known = FALSE, !.connected = FALSE]]
  /\ inFlight' = [inFlight EXCEPT ![p] = {}]
  /\ UNCHANGED <<rejectedTxns, pool, steps>>

handleNewPeerMsg(p) ==
  /\ Step /\ ~states[p].known
  /\ states' = [states EXCEPT ![p] = NewState]
  /\ UNCHANGED <<requestedTxns, rejectedTxns, pool, inFlight>>

\* A block is accepted: rejectedTxns starts over.
BlockAccepted ==
  /\ Step /\ rejectedTxns # {}
  /\ rejectedTxns' = {}
  /\ UNCHANGED <<states, requestedTxns, pool, inFlight>>

Answer(p) ==
  \E t \in Txs : \E accepted \in BOOLEAN : t \in inFlight[p] /\ SendTx(p, t, accepted)

InvNext ==
  \/ \E p \in Peers :
       \/ \E invs \in SetToSeqs(Txs) \cup {<<t>> : t \in Txs} : handleInvMsg(p, invs)
       \/ RetryQueued(p) \/ LosePeer(p) \/ handleDonePeerMsg(p) \/ handleNewPeerMsg(p)
       \/ \E t \in Txs : \/ handleNotFoundMsg(p, t)
                         \/ \E accepted \in BOOLEAN : SendTx(p, t, accepted)
  \/ BlockAccepted

InvSpec == InvInit /\ [][InvNext]_invVars

-----------------------------------------------------------------------------

\* A transaction is marked as requested in the manager's map only while a known
\* peer holds the mark, so that the end of that peer frees it: an unowned mark
\* would keep the transaction from being requested from anybody.
MarksOwned ==
  requestedTxns \subseteq UNION {states[p].requestedTxns : p \in Peers}

\* Nothing is stranded in a request queue: what waits there waits for the retry
\* ticker, or its peer is gone (requestQueuedInventory).
NothingStranded ==
  \A p \in Peers : states[p].requestQueue # <<>> /\ states[p].connected
                     => states[p].requestRetryPending

\* A queued transaction leaves the queue of a connected peer only to be requested
\* from it, or because some peer was asked for it: a request refused for want of
\* send budget is not forgotten.
QueuedStep ==
  \A p \in Peers : states'[p].connected =>
    ToSet(states[p].requestQueue) \subseteq
      ToSet(states'[p].requestQueue) \cup inFlight'[p] \cup requestedTxns
QueuedNotForgotten == [][QueuedStep]_invVars

=============================================================================
