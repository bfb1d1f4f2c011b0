----------------------------- MODULE ServerLoops -----------------------------
(***************************************************************************)
(* The long-running goroutines of the node and the channels they wait on   *)
(* each other with: peerHandler and rebroadcastHandler of server.go,       *)
(* blockHandler of netsync/manager.go, the input handler and               *)
(* peerDoneHandler of every peer, a caller of the RPC server, and Stop.    *)
(* What a handler does to its own state is the subject of ServerPeers,     *)
(* SyncManager and TxPool; here only its sends and receives remain.  An    *)
(* unbuffered channel is a step of sender and receiver together.           *)
(***************************************************************************)
EXTENDS Integers, Sequences, FiniteSets

CONSTANTS Peers,
          Outbound,     \* the peers that were dialled
          MaxPeers,     \* capacity of newPeers, donePeers and relayInv
          MsgCap,       \* capacity of msgChan
          MaxWork,      \* sends that the handling of one block makes
          MaxBlocks,    \* blocks that the peers deliver
          MaxPending,   \* inventory that waits for its rebroadcast
          StopAllowed   \* whether the server is ever stopped

VARIABLES q,        \* the buffered channels
          flag,     \* shutdown and quit of the server and of the sync manager
          ph, bh, rb, stop, rpc,  \* the goroutines
          ih,       \* ih[p]: the input handler of p
          pd,       \* pd[p]: peerDoneHandler of p
          reply,    \* reply[p]: the channel blockProcessed of p
          blocks    \* blocks delivered so far

slVars == <<q, flag, ph, bh, rb, stop, rpc, ih, pd, reply, blocks>>

LoopsInit ==
    /\ q = [newPeers |-> <<>>, donePeers |-> <<>>, relayInv |-> 0, msgChan |-> <<>>]
    /\ flag = [shutdown |-> FALSE, quit |-> FALSE, smShutdown |-> FALSE, smQuit |-> FALSE]
    /\ ph = [pc |-> "select", peer |-> "none"]
    /\ bh = [pc |-> "select", work |-> 0, peer |-> "none"]
    /\ rb = [pc |-> "select", pendingInvs |-> 0, left |-> 0]
    /\ stop = "idle" /\ rpc = "idle"
    /\ ih = [p \in Peers |-> "addPeer"]
    /\ pd = [p \in Peers |-> "wait"]
    /\ reply = [p \in Peers |-> 0]
    /\ blocks = 0

(***************************************************************************)
(* Channels.                                                               *)
(***************************************************************************)
RoomForMsg == Len(q.msgChan) < MsgCap

msgChanSend(type, p) ==
    /\ RoomForMsg
    /\ q' = [q EXCEPT !.msgChan = Append(@, [type |-> type, peer |-> p])]

relayInvSend ==
    /\ q.relayInv < MaxPeers
    /\ q' = [q EXCEPT !.relayInv = @ + 1]

(***************************************************************************)
(* peerHandler.                                                            *)
(***************************************************************************)
(* handleAddPeerMsg: a peer that is gone, or that comes during a shutdown, *)
(* is ignored; any other is passed on to the sync manager.                 *)
phNewPeer ==
    /\ ph.pc = "select" /\ q.newPeers # <<>>
    /\ q' = [q EXCEPT !.newPeers = Tail(@)]
    /\ ph' = IF flag.shutdown \/ ih[Head(q.newPeers)] = "over"
             THEN ph
             ELSE [pc |-> "NewPeer", peer |-> Head(q.newPeers)]
    /\ ih' = [ih EXCEPT ![Head(q.newPeers)] =
                IF flag.shutdown /\ @ = "idle" THEN "over" ELSE @]
    /\ UNCHANGED <<flag, bh, rb, stop, rpc, pd, reply, blocks>>

(* NewPeer gives up only if the sync manager was already shut down when it *)
(* looked.                                                                 *)
phNotify ==
    /\ ph.pc = "NewPeer"
    /\ IF flag.smShutdown THEN UNCHANGED q ELSE msgChanSend("newPeer", ph.peer)
    /\ ph' = [ph EXCEPT !.pc = IF ph.peer \in Outbound THEN "IsCurrent" ELSE "select"]
    /\ UNCHANGED <<flag, bh, rb, stop, rpc, ih, pd, reply, blocks>>

(* For an outbound peer it asks the sync manager whether it is current.    *)
phIsCurrent ==
    /\ ph.pc = "IsCurrent"
    /\ msgChanSend("isCurrent", "peerHandler")
    /\ ph' = [ph EXCEPT !.pc = "awaitCurrent"]
    /\ UNCHANGED <<flag, bh, rb, stop, rpc, ih, pd, reply, blocks>>

phDone ==
    /\ ph.pc = "select" /\ q.donePeers # <<>>
    /\ q' = [q EXCEPT !.donePeers = Tail(@)]
    /\ UNCHANGED <<flag, ph, bh, rb, stop, rpc, ih, pd, reply, blocks>>

phRelay ==
    /\ ph.pc = "select" /\ q.relayInv > 0
    /\ q' = [q EXCEPT !.relayInv = @ - 1]
    /\ UNCHANGED <<flag, ph, bh, rb, stop, rpc, ih, pd, reply, blocks>>

(* A query is received and answered.                                       *)
phQuery ==
    /\ ph.pc = "select" /\ rpc = "query"
    /\ rpc' = "idle"
    /\ UNCHANGED <<q, flag, ph, bh, rb, stop, ih, pd, reply, blocks>>

(* On quit: every peer is disconnected and the sync manager stopped.       *)
phQuit ==
    /\ ph.pc = "select" /\ flag.quit
    /\ ph' = [ph EXCEPT !.pc = "awaitSync"]
    /\ ih' = [p \in Peers |-> IF ih[p] = "idle" THEN "over" ELSE ih[p]]
    /\ flag' = [flag EXCEPT !.smShutdown = TRUE, !.smQuit = TRUE]
    /\ UNCHANGED <<q, bh, rb, stop, rpc, pd, reply, blocks>>

(* When blockHandler is gone the channels are drained.                     *)
phDrain ==
    /\ ph.pc = "awaitSync" /\ bh.pc = "over"
    /\ q' = [q EXCEPT !.newPeers = <<>>, !.donePeers = <<>>, !.relayInv = 0]
    /\ ph' = [ph EXCEPT !.pc = "over"]
    /\ UNCHANGED <<flag, bh, rb, stop, rpc, ih, pd, reply, blocks>>

peerHandler ==
    phNewPeer \/ phNotify \/ phIsCurrent \/ phDone \/ phRelay \/ phQuery \/ phQuit \/ phDrain

(***************************************************************************)
(* blockHandler.                                                           *)
(***************************************************************************)
bhMsg ==
    LET m == Head(q.msgChan)
    IN  /\ bh.pc = "select" /\ q.msgChan # <<>>
        /\ q' = [q EXCEPT !.msgChan = Tail(@)]
        /\ \/ /\ m.type = "block"
              /\ bh' = [pc |-> "work", work |-> MaxWork, peer |-> m.peer]
              /\ UNCHANGED <<ph, ih>>
           \/ /\ m.type = "isCurrent"
              /\ IF m.peer = "peerHandler"
                 THEN ph' = [ph EXCEPT !.pc = "select"] /\ UNCHANGED ih
                 ELSE ih' = [ih EXCEPT ![m.peer] = "idle"] /\ UNCHANGED ph
              /\ UNCHANGED bh
           \/ /\ m.type \in {"newPeer", "donePeer"}
              /\ UNCHANGED <<bh, ph, ih>>
        /\ UNCHANGED <<flag, rb, stop, rpc, pd, reply, blocks>>

(* The notifications of a block: RelayInventory and                        *)
(* AnnounceNewTransactions send on relayInv, TransactionConfirmed on       *)
(* modifyRebroadcastInv unless it saw the server shut down.                *)
bhRelay ==
    /\ bh.pc = "work" /\ bh.work > 0
    /\ relayInvSend
    /\ bh' = [bh EXCEPT !.work = @ - 1]
    /\ UNCHANGED <<flag, ph, rb, stop, rpc, ih, pd, reply, blocks>>

bhConfirmed ==
    /\ bh.pc = "work" /\ bh.work > 0
    /\ bh' = [bh EXCEPT !.work = @ - 1, !.pc = IF flag.shutdown THEN "work" ELSE "confirmed"]
    /\ UNCHANGED <<q, flag, ph, rb, stop, rpc, ih, pd, reply, blocks>>

(* The send begins after the look at shutdown.                             *)
bhSend ==
    /\ bh.pc = "confirmed"
    /\ bh' = [bh EXCEPT !.pc = "rebroadcast"]
    /\ UNCHANGED <<q, flag, ph, rb, stop, rpc, ih, pd, reply, blocks>>

Replied(p) == [reply EXCEPT ![p] = @ + 1]

bhReply ==
    /\ bh.pc = "work" /\ reply[bh.peer] = 0
    /\ reply' = Replied(bh.peer)
    /\ bh' = [bh EXCEPT !.pc = "select", !.peer = "none"]
    /\ UNCHANGED <<q, flag, ph, rb, stop, rpc, ih, pd, blocks>>

bhQuit ==
    /\ bh.pc = "select" /\ flag.smQuit
    /\ bh' = [bh EXCEPT !.pc = "over"]
    /\ UNCHANGED <<q, flag, ph, rb, stop, rpc, ih, pd, reply, blocks>>

(* The work of a block is a choice of sends that ends with the reply.      *)
blockHandler == bhMsg \/ bhRelay \/ bhConfirmed \/ bhSend \/ bhReply \/ bhQuit

(***************************************************************************)
(* rebroadcastHandler.                                                     *)
(***************************************************************************)
rbModify ==
    /\ rb.pc = "select"
    /\ \/ /\ bh.pc = "rebroadcast"
          /\ bh' = [bh EXCEPT !.pc = "work"]
          /\ rb' = [rb EXCEPT !.pendingInvs = IF @ = 0 THEN 0 ELSE @ - 1]
          /\ UNCHANGED rpc
       \/ /\ rpc = "rebroadcast"
          /\ rpc' = "idle"
          /\ rb' = [rb EXCEPT !.pendingInvs = IF @ = MaxPending THEN @ ELSE @ + 1]
          /\ UNCHANGED bh
    /\ UNCHANGED <<q, flag, ph, stop, ih, pd, reply, blocks>>

rbTimer ==
    /\ rb.pc = "select" /\ rb.pendingInvs > 0 /\ ~flag.quit
    /\ rb' = [rb EXCEPT !.pc = "relay", !.left = rb.pendingInvs]
    /\ UNCHANGED <<q, flag, ph, bh, stop, rpc, ih, pd, reply, blocks>>

rbRelay ==
    /\ rb.pc = "relay"
    /\ relayInvSend
    /\ rb' = [rb EXCEPT !.left = @ - 1, !.pc = IF rb.left = 1 THEN "select" ELSE "relay"]
    /\ UNCHANGED <<flag, ph, bh, stop, rpc, ih, pd, reply, blocks>>

(* The senders that wait when it quits are released.                       *)
rbQuit ==
    /\ rb.pc = "select" /\ flag.quit
    /\ rb' = [rb EXCEPT !.pc = "over"]
    /\ bh' = IF bh.pc = "rebroadcast" THEN [bh EXCEPT !.pc = "work"] ELSE bh
    /\ UNCHANGED <<q, flag, ph, stop, rpc, ih, pd, reply, blocks>>

rebroadcastHandler == rbModify \/ rbRelay \/ rbQuit

(***************************************************************************)
(* The input handler of a peer: OnVerAck adds it to the server; OnBlock    *)
(* waits for its block to be processed; OnGetHeaders and OnGetProof ask    *)
(* whether the node is current.                                            *)
(***************************************************************************)
ihAddPeer(p) ==
    /\ ih[p] = "addPeer" /\ Len(q.newPeers) < MaxPeers
    /\ q' = [q EXCEPT !.newPeers = Append(@, p)]
    /\ ih' = [ih EXCEPT ![p] = "idle"]
    /\ UNCHANGED <<flag, ph, bh, rb, stop, rpc, pd, reply, blocks>>

ihBlock(p) ==
    /\ ih[p] = "idle" /\ ~flag.quit /\ blocks < MaxBlocks
    /\ ih' = [ih EXCEPT ![p] = "QueueBlock"]
    /\ blocks' = blocks + 1
    /\ UNCHANGED <<q, flag, ph, bh, rb, stop, rpc, pd, reply>>

(* QueueBlock: on a shutdown it answers itself.                            *)
ihQueueBlock(p) ==
    /\ ih[p] = "QueueBlock"
    /\ IF flag.smShutdown
       THEN reply' = Replied(p) /\ UNCHANGED q
       ELSE msgChanSend("block", p) /\ UNCHANGED reply
    /\ ih' = [ih EXCEPT ![p] = "awaitBlock"]
    /\ UNCHANGED <<flag, ph, bh, rb, stop, rpc, pd, blocks>>

ihProcessed(p) ==
    /\ ih[p] = "awaitBlock" /\ reply[p] > 0
    /\ reply' = [reply EXCEPT ![p] = @ - 1]
    /\ ih' = [ih EXCEPT ![p] = IF flag.quit THEN "over" ELSE "idle"]
    /\ UNCHANGED <<q, flag, ph, bh, rb, stop, rpc, pd, blocks>>

ihIsCurrent(p) ==
    /\ ih[p] = "idle" /\ ~flag.quit
    /\ msgChanSend("isCurrent", p)
    /\ ih' = [ih EXCEPT ![p] = "awaitCurrent"]
    /\ UNCHANGED <<flag, ph, bh, rb, stop, rpc, pd, reply, blocks>>

ihEnds(p) ==
    /\ ih[p] = "idle"
    /\ ih' = [ih EXCEPT ![p] = "over"]
    /\ UNCHANGED <<q, flag, ph, bh, rb, stop, rpc, pd, reply, blocks>>

inHandler(p) == ihAddPeer(p) \/ ihQueueBlock(p) \/ ihProcessed(p)

(* peerDoneHandler.                                                        *)
pdDone(p) ==
    /\ pd[p] = "wait" /\ ih[p] = "over" /\ Len(q.donePeers) < MaxPeers
    /\ q' = [q EXCEPT !.donePeers = Append(@, p)]
    /\ pd' = [pd EXCEPT ![p] = "DonePeer"]
    /\ UNCHANGED <<flag, ph, bh, rb, stop, rpc, ih, reply, blocks>>

pdDonePeer(p) ==
    /\ pd[p] = "DonePeer"
    /\ IF flag.smShutdown THEN UNCHANGED q ELSE msgChanSend("donePeer", p)
    /\ pd' = [pd EXCEPT ![p] = "over"]
    /\ UNCHANGED <<flag, ph, bh, rb, stop, rpc, ih, reply, blocks>>

peerDoneHandler(p) == pdDone(p) \/ pdDonePeer(p)

(***************************************************************************)
(* The RPC server and Stop.                                                *)
(***************************************************************************)
(* sendrawtransaction calls AddRebroadcastInventory, which gives up if it  *)
(* sees the server shut down; getinfo calls ConnectedCount.                *)
rpcCall ==
    /\ rpc = "idle" /\ stop = "idle"
    /\ rpc' \in {"query"} \cup (IF MaxPending > 0 THEN {"rebroadcast"} ELSE {})
    /\ UNCHANGED <<q, flag, ph, bh, rb, stop, ih, pd, reply, blocks>>

(* Stop marks the shutdown, stops the RPC server, which waits for its      *)
(* handlers, and closes quit.                                              *)
Stop ==
    /\ \/ /\ stop = "idle" /\ StopAllowed
          /\ flag' = [flag EXCEPT !.shutdown = TRUE]
          /\ stop' = "rpcServer"
       \/ /\ stop = "rpcServer" /\ rpc = "idle"
          /\ flag' = [flag EXCEPT !.quit = TRUE]
          /\ stop' = "over"
    /\ UNCHANGED <<q, ph, bh, rb, rpc, ih, pd, reply, blocks>>

LoopsNext ==
    \/ peerHandler \/ blockHandler \/ rebroadcastHandler \/ rbTimer
    \/ \E p \in Peers : \/ inHandler(p) \/ ihBlock(p) \/ ihIsCurrent(p) \/ ihEnds(p)
                        \/ peerDoneHandler(p)
    \/ rpcCall \/ Stop

LoopsSpec == LoopsInit /\ [][LoopsNext]_slVars

(* Every goroutine that can run does; a stop that began is carried out.    *)
FairLoops ==
    /\ LoopsSpec
    /\ WF_slVars(peerHandler) /\ WF_slVars(blockHandler) /\ WF_slVars(rebroadcastHandler)
    /\ \A p \in Peers : WF_slVars(inHandler(p)) /\ WF_slVars(peerDoneHandler(p))
    /\ WF_slVars(stop # "idle" /\ Stop)

(***************************************************************************)
(* Properties.                                                             *)
(***************************************************************************)
(* The reply that a peer's input handler waits for is the reply to the     *)
(* block it queued: none is left over from an earlier block, and none is   *)
(* sent twice.                                                             *)
InFlight(p) ==
    Cardinality({i \in 1..Len(q.msgChan) : q.msgChan[i] = [type |-> "block", peer |-> p]})
      + (IF bh.peer = p THEN 1 ELSE 0) + reply[p]

RepliesMatch == \A p \in Peers : InFlight(p) = IF ih[p] = "awaitBlock" THEN 1 ELSE 0

(* QueueBlock "Responds to the done channel argument after the block       *)
(* message is processed": an input handler that delivered a block goes on. *)
Awaits(p) == ih[p] = "awaitBlock"
BlocksAnswered == \A p \in Peers : Awaits(p) ~> ~Awaits(p)
=============================================================================
