---------------------------- MODULE ServerPeers -----------------------------
(***************************************************************************)
(* The peers of server.go and the connection manager they depend on:       *)
(* connections become server peers (outboundPeerConnected, admitInbound-   *)
(* Peer, inboundPeerConnected), peers are added, banned, removed and done  *)
(* in the single peerHandler goroutine, and what peerHandler decides goes  *)
(* back to the connection manager.  The messages to peerHandler wait in    *)
(* buffered channels that its select serves in any order, so the done of a *)
(* peer can overtake its add.  peerHandler blocks while connHandler takes  *)
(* its request and touches nothing else meanwhile, so the two are one      *)
(* step.  The ban list holds hosts; a host's address group is the host.    *)
(***************************************************************************)
EXTENDS Integers, Sequences, FiniteSets, Bags

(***************************************************************************)
(* The connection manager of connmgr/connmanager.go: the connHandler       *)
(* goroutine that owns the maps of pending and established connection      *)
(* requests, and the goroutines that talk to it over the unbuffered        *)
(* channel cm.requests (NewConnReq, Connect, Disconnect, Remove and the    *)
(* retry timers).  Time is left out: a timer is a goroutine that starts at *)
(* any later moment, so failedAttempts and retryCount, which only choose a *)
(* delay, are not state.  Request ids are names: a number that no map, no  *)
(* goroutine and no caller refers to any longer is used again.             *)
(***************************************************************************)
CONSTANTS
  Hosts,            \* the addresses that can be dialled
  PermanentPeers,   \* the hosts, in a sequence, that newServer connects
  TargetOutbound,   \* cfg.TargetOutbound
  MaxReq            \* bound: connection requests alive at a time

VARIABLES
  reqs,                  \* [1..MaxReq -> ConnReq]
  pending,               \* connHandler's map of pending requests, as a set of ids
  conns,                 \* connHandler's map of established requests
  automaticConnections,  \* connHandler's count of automatic connections
  stop,                  \* "running", "stopping" (stop set), "quit" (quit closed)
  handler,               \* connHandler is still in its loop
  tasks,                 \* bag of the other goroutines: [pc, id]
  sockets                \* bag of request ids: dialled, not closed by the manager

connVars == <<reqs, pending, conns, automaticConnections, stop, handler,
              tasks, sockets>>

Ids == 1..MaxReq
NoHost == "none"

ConnStates == {"pending", "failing", "canceled", "established", "disconnected"}

ConnReq == [automatic: BOOLEAN, permanent: BOOLEAN,
            host: Hosts \cup {NoHost}, state: ConnStates]

\* Where a goroutine stands: it starts (NewConnReq, Connect), looks for an
\* address, dials, calls the OnConnection callback, or is blocked sending on
\* cm.requests (register..., failed, connected, Disconnect and
\* replace, which is Remove followed by NewConnReq).
Pcs == {"NewConnReq", "registerNew", "registerDial", "address", "Connect",
        "dial", "failed", "connected", "Disconnect", "replace", "OnConnection"}

Task(pc, id) == [pc |-> pc, id |-> id]
One(t) == SetToBag({t})
Running(t) == BagIn(t, tasks)
Others(t) == tasks (-) One(t)

\* A goroutine that starts once stop is set returns at its first check.
Go(pc, id) == IF stop = "running" THEN One(Task(pc, id)) ELSE EmptyBag

\* Start has run and newServer has called Connect for the permanent peers.
ConnInit ==
  /\ reqs = [i \in Ids |->
       [automatic |-> FALSE, permanent |-> i \in DOMAIN PermanentPeers, state |-> "pending",
        host |-> IF i \in DOMAIN PermanentPeers THEN PermanentPeers[i] ELSE NoHost]]
  /\ pending = {}
  /\ conns = {}
  /\ automaticConnections = 0
  /\ stop = "running"
  /\ handler = TRUE
  /\ tasks = [t \in {Task("NewConnReq", 0)} |-> TargetOutbound] (+)
             SetToBag({Task("registerDial", i) : i \in DOMAIN PermanentPeers})
  /\ sockets = EmptyBag

-----------------------------------------------------------------------------
(* The goroutines.  held is the set of ids that callers still refer to.    *)

FreeIds(held) ==
  Ids \ (pending \cup conns \cup held \cup {t.id : t \in BagToSet(tasks)})

\* A new request gets the next id and waits for its registration.
NewRequest(id, automatic, permanent, host) ==
  reqs' = [reqs EXCEPT ![id] = [automatic |-> automatic, permanent |-> permanent,
                                host |-> host, state |-> "pending"]]

NewConnReq(held) ==
  /\ Running(Task("NewConnReq", 0))
  /\ \E id \in FreeIds(held) :
       /\ \A j \in FreeIds(held) : id <= j
       /\ NewRequest(id, TRUE, FALSE, NoHost)
       /\ tasks' = Others(Task("NewConnReq", 0)) (+) Go("registerNew", id)
  /\ UNCHANGED <<pending, conns, automaticConnections, stop, handler, sockets>>

\* Connect of a request that has no id yet (addnode, connect, -connect).
ConnectNew(held, permanent, host) ==
  /\ stop = "running"
  /\ \E id \in FreeIds(held) :
       /\ \A j \in FreeIds(held) : id <= j
       /\ NewRequest(id, FALSE, permanent, host)
       /\ tasks' = tasks (+) Go("registerDial", id)
  /\ UNCHANGED <<pending, conns, automaticConnections, stop, handler, sockets>>

\* NewConnReq asks cfg.GetNewAddress, then goes on with Connect.
GetNewAddress(t, host) ==
  /\ Running(t) /\ t.pc = "address"
  /\ IF host = NoHost
       THEN /\ tasks' = Others(t) (+) One(Task("failed", t.id))
            /\ UNCHANGED reqs
       ELSE /\ tasks' = Others(t) (+) One(Task("Connect", t.id))
            /\ reqs' = [reqs EXCEPT ![t.id].host = host]
  /\ UNCHANGED <<pending, conns, automaticConnections, stop, handler, sockets>>

\* Connect of a request that has an id: a cancelled request is not dialled.
Connect(t) ==
  /\ Running(t) /\ t.pc = "Connect"
  /\ tasks' = Others(t) (+) IF reqs[t.id].state = "canceled" THEN EmptyBag
                            ELSE Go("dial", t.id)
  /\ UNCHANGED <<reqs, pending, conns, automaticConnections, stop, handler, sockets>>

Dial(t, ok) ==
  /\ Running(t) /\ t.pc = "dial"
  /\ tasks' = Others(t) (+) One(Task(IF ok THEN "connected" ELSE "failed", t.id))
  /\ sockets' = IF ok THEN sockets (+) One(t.id) ELSE sockets
  /\ UNCHANGED <<reqs, pending, conns, automaticConnections, stop, handler>>

\* The connection a goroutine carries to connHandler.
Carried(t) == IF t.pc = "connected" THEN One(t.id) ELSE EmptyBag

\* A goroutine that finds stop set, or whose send loses against cm.quit,
\* returns; a connection it carries is closed first.
Abandon(t) ==
  /\ Running(t)
  /\ \/ stop # "running" /\ t.pc \in {"NewConnReq", "registerNew", "registerDial",
                                      "Disconnect", "replace"}
     \/ stop = "quit" /\ t.pc \in {"address", "dial", "failed", "connected"}
  /\ tasks' = Others(t)
  /\ sockets' = sockets (-) Carried(t)
  /\ UNCHANGED <<reqs, pending, conns, automaticConnections, stop, handler>>

-----------------------------------------------------------------------------
(* connHandler: one action per message it takes from cm.requests.          *)

\* What a request counts for in automaticConnections.
Automatic(id) == IF reqs[id].automatic THEN 1 ELSE 0

SetState(id, s) == reqs' = [reqs EXCEPT ![id].state = s]

RegisterPending(t) ==
  /\ handler /\ Running(t) /\ t.pc \in {"registerNew", "registerDial"}
  /\ SetState(t.id, "pending")
  /\ pending' = pending \cup {t.id}
  /\ tasks' = Others(t) (+)
       One(Task(IF t.pc = "registerNew" THEN "address" ELSE "dial", t.id))
  /\ UNCHANGED <<conns, automaticConnections, stop, handler, sockets>>

\* A connection that arrives while stopping, or for a request that is no
\* longer pending, is closed.
HandleConnected(t) ==
  /\ handler /\ Running(t) /\ t.pc = "connected"
  /\ IF stop # "running" \/ t.id \notin pending
       THEN /\ sockets' = sockets (-) One(t.id)
            /\ tasks' = Others(t)
            /\ UNCHANGED <<reqs, pending, conns, automaticConnections>>
       ELSE /\ SetState(t.id, "established")
            /\ conns' = conns \cup {t.id}
            /\ automaticConnections' =
                 automaticConnections + Automatic(t.id)
            /\ pending' = pending \ {t.id}
            /\ tasks' = Others(t) (+) One(Task("OnConnection", t.id))
            /\ UNCHANGED sockets
  /\ UNCHANGED <<stop, handler>>

\* Mutants of handleFailedConn: a permanent request is treated as any other; a
\* request that failed is not replaced.
handleFailedConn_Forget(id) == IF reqs[id].permanent THEN Go("Connect", id) ELSE EmptyBag

\* The goroutine handleFailedConn starts: a permanent request is connected
\* again, any other one is replaced by a new automatic request.
handleFailedConn(id) ==
  IF reqs[id].permanent THEN Go("Connect", id) ELSE Go("replace", id)

HandleFailed(t) ==
  /\ handler /\ Running(t) /\ t.pc = "failed"
  /\ IF t.id \in pending
       THEN /\ SetState(t.id, "failing")
            /\ tasks' = Others(t) (+) handleFailedConn(t.id)
       ELSE /\ tasks' = Others(t)
            /\ UNCHANGED reqs
  /\ UNCHANGED <<pending, conns, automaticConnections, stop, handler, sockets>>

\* The handleDisconnected message; rest is the bag of goroutines that go on
\* once the sender is through.
HandleDisconnected(id, retry, rest) ==
  LET left == automaticConnections - Automatic(id)
      shouldRetry == retry /\ (left < TargetOutbound \/ reqs[id].permanent)
  IN  /\ handler
      /\ CASE id \in conns ->
                /\ conns' = conns \ {id}
                /\ automaticConnections' = left
                /\ sockets' = sockets (-) One(id)
                /\ SetState(id, IF shouldRetry THEN "pending" ELSE "disconnected")
                /\ pending' = IF shouldRetry THEN pending \cup {id} ELSE pending
                /\ tasks' = rest (+) IF shouldRetry THEN handleFailedConn(id)
                                     ELSE EmptyBag
           [] id \in pending \ conns ->
                /\ SetState(id, "canceled")
                /\ pending' = pending \ {id}
                /\ tasks' = rest
                /\ UNCHANGED <<conns, automaticConnections, sockets>>
           [] OTHER ->
                /\ tasks' = rest
                /\ UNCHANGED <<reqs, pending, conns, automaticConnections, sockets>>
      /\ UNCHANGED <<stop, handler>>

\* Disconnect, and Remove as all its callers use it: followed by NewConnReq.
Disconnect(t) ==
  Running(t) /\ t.pc = "Disconnect" /\ HandleDisconnected(t.id, TRUE, Others(t))

Replace(t) ==
  /\ Running(t) /\ t.pc = "replace"
  /\ HandleDisconnected(t.id, FALSE, Others(t) (+) Go("NewConnReq", 0))

\* Stop sets the flag, closes the listeners, then closes cm.quit; connHandler
\* leaves its loop when its select takes cm.quit.
Stop ==
  /\ stop # "quit"
  /\ stop' = IF stop = "running" THEN "stopping" ELSE "quit"
  /\ UNCHANGED <<reqs, pending, conns, automaticConnections, handler, tasks, sockets>>

HandlerQuit ==
  /\ stop = "quit" /\ handler
  /\ handler' = FALSE
  /\ UNCHANGED <<reqs, pending, conns, automaticConnections, stop, tasks, sockets>>

-----------------------------------------------------------------------------
CONSTANTS
  MaxPeers,         \* cfg.MaxPeers
  MaxInboundPerIP,  \* server.maxInboundPerIP
  MaxSlots,         \* bound: serverPeer objects alive at a time
  MaxEvents         \* bound: failures, commands and connections from outside

VARIABLES
  peers,            \* the live serverPeers, by slot
  outboundGroups,   \* peerState.outboundGroups
  banned,           \* peerState.banned: hosts whose ban has not ended
  inboundSlots,     \* tokens in server.inboundSlots
  inboundByIP,      \* server.inboundPeersByIP
  peerHandler,      \* peerHandler is in its loop
  shutdown,         \* server.Stop was called
  removedReqs,      \* history: requests whose permanent peer an operator removed
  events            \* events used of MaxEvents

peerVars == <<peers, outboundGroups, banned, inboundSlots, inboundByIP,
              peerHandler, shutdown, removedReqs>>
vars == <<connVars, peerVars, events>>

Lists == {"none", "inbound", "outbound", "persistent"}

\* queued: the channels of peerHandler the peer waits in; ended: its
\* peerDoneHandler has run.
ServerPeer == [req: 0..MaxReq, host: Hosts, persistent: BOOLEAN,
               connected: BOOLEAN, verAck: BOOLEAN, ended: BOOLEAN,
               queued: SUBSET {"new", "done", "ban"}, list: Lists]

inbound(sp) == sp.req = 0
Listed(l) == {i \in DOMAIN peers : peers[i].list = l}
Count == Cardinality({i \in DOMAIN peers : peers[i].list # "none"})

\* Connection requests that serverPeers refer to.
Held == {peers[i].req : i \in DOMAIN peers}

\* The reservation arithmetic of server.go that sizes the inbound slots.
reservedOutboundPeers ==
  LET reserved == Len(PermanentPeers) + TargetOutbound
  IN  IF reserved > MaxPeers THEN MaxPeers ELSE reserved

maxInboundPeers ==
  IF MaxPeers <= reservedOutboundPeers THEN 0 ELSE MaxPeers - reservedOutboundPeers

Init ==
  /\ ConnInit
  /\ peers = <<>>
  /\ outboundGroups = [h \in Hosts |-> 0]
  /\ banned = {}
  /\ inboundSlots = 0
  /\ inboundByIP = [h \in Hosts |-> 0]
  /\ peerHandler = TRUE
  /\ shutdown = FALSE
  /\ removedReqs = {}
  /\ events = 0

Event == events < MaxEvents /\ events' = events + 1

Update(i, sp) == peers' = [peers EXCEPT ![i] = sp]

\* A serverPeer nothing refers to any longer is collected.
Settle(ps) ==
  LET kept == {i \in DOMAIN ps : ~ps[i].ended \/ ps[i].queued # {}
                                   \/ ps[i].list # "none"}
  IN  [i \in kept |-> ps[i]]

NewPeer(sp) ==
  LET free == (1..MaxSlots) \ DOMAIN peers
  IN  \E i \in free :
        /\ \A j \in free : i <= j
        /\ peers' = [j \in DOMAIN peers \cup {i} |-> IF j = i THEN sp ELSE peers[j]]

-----------------------------------------------------------------------------
(* Connections become peers.                                               *)

\* A failed NewOutboundPeer gives the connection back to the manager.
outboundPeerConnected(t) ==
  /\ Running(t) /\ t.pc = "OnConnection"
  /\ \/ /\ NewPeer([req |-> t.id, host |-> reqs[t.id].host,
                    persistent |-> reqs[t.id].permanent, connected |-> TRUE,
                    verAck |-> FALSE, ended |-> FALSE, queued |-> {}, list |-> "none"])
        /\ tasks' = Others(t)
        /\ UNCHANGED events
     \/ /\ Event
        /\ tasks' = Others(t) (+)
             Go(IF reqs[t.id].permanent THEN "Disconnect" ELSE "replace", t.id)
        /\ UNCHANGED peers
  /\ UNCHANGED <<reqs, pending, conns, automaticConnections, stop, handler, sockets,
                 outboundGroups, banned, inboundSlots, inboundByIP, peerHandler,
                 shutdown, removedReqs>>

\* listenHandler: admitInboundPeer takes a slot and counts the address, or
\* refuses; inboundPeerConnected makes the peer, or gives both back when the
\* transport cannot be negotiated.
admitInboundPeer(h) ==
  /\ Event
  /\ stop = "running"
  /\ inboundSlots < maxInboundPeers
  /\ inboundByIP[h] < MaxInboundPerIP
  /\ NewPeer([req |-> 0, host |-> h, persistent |-> FALSE, connected |-> TRUE,
              verAck |-> FALSE, ended |-> FALSE, queued |-> {}, list |-> "none"])
  /\ inboundSlots' = inboundSlots + 1
  /\ inboundByIP' = [inboundByIP EXCEPT ![h] = @ + 1]
  /\ UNCHANGED <<connVars, outboundGroups, banned, peerHandler, shutdown, removedReqs>>

\* The version negotiation ends: OnVerAck sends the peer to newPeers.
OnVerAck(i) ==
  LET sp == peers[i]
  IN  /\ sp.connected /\ ~sp.verAck
      /\ Cardinality({j \in DOMAIN peers : "new" \in peers[j].queued}) < MaxPeers
      /\ Update(i, [sp EXCEPT !.verAck = TRUE, !.queued = @ \cup {"new"}])
      /\ UNCHANGED <<connVars, outboundGroups, banned, inboundSlots, inboundByIP,
                     peerHandler, shutdown, removedReqs, events>>

\* The connection drops (remote side, stall, protocol error).
ConnectionLost(i) ==
  /\ Event
  /\ peers[i].connected
  /\ Update(i, [peers[i] EXCEPT !.connected = FALSE])
  /\ UNCHANGED <<connVars, outboundGroups, banned, inboundSlots, inboundByIP,
                 peerHandler, shutdown, removedReqs>>

\* addBanScore passes the threshold: BanPeer, then Disconnect.
addBanScore(i) ==
  /\ Event
  /\ peers[i].connected
  /\ Update(i, [peers[i] EXCEPT !.connected = FALSE, !.queued = @ \cup {"ban"}])
  /\ UNCHANGED <<connVars, outboundGroups, banned, inboundSlots, inboundByIP,
                 peerHandler, shutdown, removedReqs>>

\* The inbound slots a peer gives back when it ends.
releaseInbound(sp) == IF inbound(sp) THEN 1 ELSE 0

\* The goroutine that waits for the peer's end.
peerDoneHandler(i) ==
  LET sp == peers[i]
  IN  /\ ~sp.connected /\ ~sp.ended
      /\ peers' = Settle([peers EXCEPT ![i] =
                            [sp EXCEPT !.ended = TRUE, !.queued = @ \cup {"done"}]])
      /\ inboundSlots' = inboundSlots - releaseInbound(sp)
      /\ inboundByIP' = [inboundByIP EXCEPT ![sp.host] = @ - releaseInbound(sp)]
      /\ UNCHANGED <<connVars, outboundGroups, banned, peerHandler, shutdown,
                     removedReqs, events>>

-----------------------------------------------------------------------------
(* peerHandler.                                                            *)

Take(i, channel) == [peers[i] EXCEPT !.queued = @ \ {channel}]

\* handleAddPeerMsg ignores a peer that is already gone and disconnects one that
\* comes during a shutdown, from a banned host or above MaxPeers.
Refused(sp) ==
  ~sp.connected \/ shutdown \/ sp.host \in banned \/ Count >= MaxPeers

handleAddPeerMsg(i) ==
  LET sp == Take(i, "new")
      list == IF inbound(sp) THEN "inbound"
              ELSE IF sp.persistent THEN "persistent" ELSE "outbound"
  IN  /\ peerHandler /\ "new" \in peers[i].queued
      /\ IF Refused(sp)
           THEN /\ peers' = Settle([peers EXCEPT ![i] = [sp EXCEPT !.connected = FALSE]])
                /\ UNCHANGED outboundGroups
           ELSE /\ Update(i, [sp EXCEPT !.list = list])
                /\ outboundGroups' = IF inbound(sp) THEN outboundGroups
                                     ELSE [outboundGroups EXCEPT ![sp.host] = @ + 1]
      /\ UNCHANGED <<connVars, banned, inboundSlots, inboundByIP, peerHandler,
                     shutdown, removedReqs, events>>

\* What a listed peer counts for in its group.
InGroup(sp) == IF sp.list \in {"outbound", "persistent"} THEN 1 ELSE 0

\* handleDonePeerMsg: whether or not the peer was ever added, a permanent
\* connection is handed back for a retry, any other outbound one is replaced.
handleDonePeerMsg(i) ==
  LET sp == Take(i, "done")
  IN  /\ peerHandler /\ "done" \in peers[i].queued
      /\ IF inbound(sp) \/ stop # "running"
           THEN UNCHANGED connVars
           ELSE IF sp.persistent THEN HandleDisconnected(sp.req, TRUE, tasks)
           ELSE HandleDisconnected(sp.req, FALSE, tasks (+) Go("NewConnReq", 0))
      /\ outboundGroups' = [outboundGroups EXCEPT ![sp.host] = @ - InGroup(sp)]
      /\ peers' = Settle([peers EXCEPT ![i] = [sp EXCEPT !.list = "none"]])
      /\ UNCHANGED <<banned, inboundSlots, inboundByIP, peerHandler, shutdown,
                     removedReqs, events>>

handleBanPeerMsg(i) ==
  /\ peerHandler /\ "ban" \in peers[i].queued
  /\ banned' = banned \cup {peers[i].host}
  /\ peers' = Settle([peers EXCEPT ![i] = Take(i, "ban")])
  /\ UNCHANGED <<connVars, outboundGroups, inboundSlots, inboundByIP, peerHandler,
                 shutdown, removedReqs, events>>

\* The ban duration ends; the entry is dropped at the next look.
BanExpires(h) ==
  /\ Event
  /\ h \in banned
  /\ banned' = banned \ {h}
  /\ UNCHANGED <<connVars, peers, outboundGroups, inboundSlots, inboundByIP,
                 peerHandler, shutdown, removedReqs>>

\* connectNodeMsg: refused at MaxPeers and for the host of a permanent peer.
ConnectNode(h, permanent) ==
  /\ Event
  /\ peerHandler
  /\ Count < MaxPeers
  /\ \A i \in Listed("persistent") : peers[i].host # h
  /\ ConnectNew(Held, permanent, h)
  /\ removedReqs' = removedReqs \ {i \in Ids : reqs'[i] # reqs[i]}
  /\ UNCHANGED <<peers, outboundGroups, banned, inboundSlots, inboundByIP,
                 peerHandler, shutdown>>

\* removeNodeMsg and disconnectNodeMsg take the peer off its list, leave
\* its group, and disconnect it.
dropListed(i) ==
  /\ Event
  /\ peerHandler
  /\ Update(i, [peers[i] EXCEPT !.list = "none", !.connected = FALSE])
  /\ outboundGroups' = [outboundGroups EXCEPT ![peers[i].host] = @ - InGroup(peers[i])]
  /\ UNCHANGED <<connVars, banned, inboundSlots, inboundByIP, peerHandler, shutdown>>

RemoveNode(i) ==
  /\ peers[i].list = "persistent"
  /\ dropListed(i)
  /\ removedReqs' = removedReqs \cup {peers[i].req}

DisconnectNode(i) ==
  /\ peers[i].list \in {"inbound", "outbound"}
  /\ dropListed(i)
  /\ UNCHANGED removedReqs

\* server.Stop, then peerHandler's quit case: every listed peer is
\* disconnected, the connection manager told to stop and the channels drained.
ServerStop ==
  /\ Event
  /\ ~shutdown
  /\ shutdown' = TRUE
  /\ UNCHANGED <<connVars, peers, outboundGroups, banned, inboundSlots, inboundByIP,
                 peerHandler, removedReqs>>

peerHandlerQuit ==
  /\ shutdown /\ peerHandler
  /\ peerHandler' = FALSE
  /\ peers' = [i \in DOMAIN peers |->
                 IF peers[i].list = "none" THEN peers[i]
                 ELSE [peers[i] EXCEPT !.connected = FALSE]]
  /\ Stop
  /\ UNCHANGED <<outboundGroups, banned, inboundSlots, inboundByIP, shutdown,
                 removedReqs, events>>

-----------------------------------------------------------------------------
\* newAddressFunc: an address whose group has no outbound peer yet.
NewAddress(t) ==
  \/ \E h \in Hosts :
       /\ outboundGroups[h] = 0
       /\ GetNewAddress(t, h)
       /\ UNCHANGED <<peerVars, events>>
  \/ /\ Event
     /\ GetNewAddress(t, NoHost)
     /\ UNCHANGED peerVars

DialFails(t) == Event /\ Dial(t, FALSE) /\ UNCHANGED peerVars

\* A step a goroutine of connmgr takes by itself, and the two steps of Stop.
TaskStep(t) ==
  \/ outboundPeerConnected(t)
  \/ NewAddress(t)
  \/ /\ \/ Connect(t) \/ Dial(t, TRUE) \/ Abandon(t) \/ RegisterPending(t)
        \/ HandleConnected(t) \/ HandleFailed(t) \/ Disconnect(t) \/ Replace(t)
     /\ UNCHANGED <<peerVars, events>>
  \/ /\ t.pc = "NewConnReq"
     /\ NewConnReq(Held)
     /\ removedReqs' = removedReqs \ {i \in Ids : reqs'[i] # reqs[i]}
     /\ UNCHANGED <<peers, outboundGroups, banned, inboundSlots, inboundByIP,
                    peerHandler, shutdown, events>>

Stopping ==
  /\ (stop = "stopping" /\ Stop) \/ HandlerQuit
  /\ UNCHANGED <<peerVars, events>>

PeerStep(i) ==
  \/ OnVerAck(i) \/ peerDoneHandler(i)
  \/ handleAddPeerMsg(i) \/ handleDonePeerMsg(i) \/ handleBanPeerMsg(i)

Next ==
  \/ \E t \in BagToSet(tasks) : TaskStep(t) \/ DialFails(t)
  \/ \E i \in DOMAIN peers :
       PeerStep(i) \/ ConnectionLost(i) \/ addBanScore(i) \/ RemoveNode(i) \/ DisconnectNode(i)
  \/ \E h \in Hosts :
       \/ admitInboundPeer(h) \/ BanExpires(h)
       \/ \E permanent \in BOOLEAN : ConnectNode(h, permanent)
  \/ ServerStop \/ peerHandlerQuit \/ Stopping

Spec == Init /\ [][Next]_vars

-----------------------------------------------------------------------------

\* connHandler's counter of automatic connections, a uint32 it decrements
\* without a check, is exactly the number of automatic requests in conns.
AutomaticCountExact ==
  automaticConnections = Cardinality({id \in conns : reqs[id].automatic})

\* Every connection that was dialled has one owner that will close it: the
\* map of established connections or the goroutine that still delivers it.
\* Late dials of cancelled requests and dials that end during Stop are the
\* cases where one would leak.
NoLeakedConnection ==
  \A id \in Ids :
    CopiesIn(id, sockets) = (IF id \in conns THEN 1 ELSE 0)
                              + CopiesIn(Task("connected", id), tasks)

\* A permanent peer is never forgotten: while the manager runs, its request
\* is connected, or some goroutine will connect it again.
PermanentKept ==
  stop = "running" =>
    \A n \in DOMAIN PermanentPeers :
      \/ n \in conns
      \/ \E pc \in {"registerDial", "Connect", "dial", "failed", "connected"} :
           Running(Task(pc, n))

\* The automatic slots are never lost: connections, requests under way and
\* goroutines about to make one always add up to TargetOutbound.
SlotsKept ==
  stop = "running" =>
    LET Starting == {"NewConnReq", "replace"}
        attempts == {t \in BagToSet(tasks) :
                       /\ t.pc \in Pcs \ (Starting \cup {"OnConnection", "Disconnect"})
                       /\ reqs[t.id].automatic /\ reqs[t.id].state # "canceled"}
        starts == {t \in BagToSet(tasks) : t.pc \in Starting}
    IN  Cardinality({id \in conns : reqs[id].automatic /\ ~Running(Task("replace", id))})
          + Cardinality(attempts) + BagCardinality([t \in starts |-> tasks[t]]) >= TargetOutbound

\* outboundGroups, which keeps automatic connections out of groups that have
\* one, counts the listed outbound peers although a peer can be unlisted by
\* an operator's command, by its end, or by both in either order.
GroupsExact ==
  \A h \in Hosts :
    outboundGroups[h] = Cardinality({i \in Listed("outbound") \cup Listed("persistent") :
                                       peers[i].host = h})

\* Inbound slots and per-address counts are held by inbound peers that have
\* not ended, so no end of a peer is counted twice and none is missed.
InboundExact ==
  /\ inboundSlots = Cardinality({i \in DOMAIN peers : inbound(peers[i]) /\ ~peers[i].ended})
  /\ \A h \in Hosts : inboundByIP[h] =
       Cardinality({i \in DOMAIN peers : inbound(peers[i]) /\ ~peers[i].ended
                                           /\ peers[i].host = h})

=============================================================================
