------------------------------ MODULE MCNetwork ------------------------------
(***************************************************************************)
(* The connection manager under the peer bookkeeping of the server, block  *)
(* synchronization, transaction requests, the address manager, and the     *)
(* encrypted transport.                                                    *)
(*                                                                         *)
(* part says which component takes the steps of a behaviour; a component's *)
(* variables are the first of the slots x1, x2, ...                        *)
(***************************************************************************)
EXTENDS SyncManager, TLC

CONSTANTS Parts, pa, pb, pc

VARIABLES part, x1, x2, x3, x4, x5, x6, x7, x8, x9, x10, x11, x12, x13, x14, x15,
  x16, x17

-----------------------------------------------------------------------------
\* Two branches, 1-2-3-4 and 1-5-6, of which block 5 is bad.
MCBlock == 0..6
MCParent == <<0, 1, 2, 3, 1, 5>>
MCPeerTip == pa :> 3 @@ pb :> 6 @@ pc :> 4

\* One host is a permanent peer and one event happens; no host is, and two do.
SP == INSTANCE ServerPeers WITH
      Hosts <- {"h1", "h2"}, PermanentPeers <- <<"h1">>, TargetOutbound <- 1,
      MaxReq <- 4, MaxPeers <- 3, MaxInboundPerIP <- 1, MaxSlots <- 4,
      MaxEvents <- 1,
      reqs <- x1, pending <- x2, conns <- x3, automaticConnections <- x4,
      stop <- x5, handler <- x6, tasks <- x7, sockets <- x8, peers <- x9,
      outboundGroups <- x10, banned <- x11, inboundSlots <- x12, inboundByIP <- x13,
      peerHandler <- x14, shutdown <- x15, removedReqs <- x16, events <- x17

SA == INSTANCE ServerPeers WITH
      Hosts <- {"h1", "h2"}, PermanentPeers <- <<>>, TargetOutbound <- 1,
      MaxReq <- 4, MaxPeers <- 3, MaxInboundPerIP <- 1, MaxSlots <- 4,
      MaxEvents <- 2,
      reqs <- x1, pending <- x2, conns <- x3, automaticConnections <- x4,
      stop <- x5, handler <- x6, tasks <- x7, sockets <- x8, peers <- x9,
      outboundGroups <- x10, banned <- x11, inboundSlots <- x12, inboundByIP <- x13,
      peerHandler <- x14, shutdown <- x15, removedReqs <- x16, events <- x17

\* Two transactions, a limit of one request.
IR == INSTANCE InvRequests WITH
      Peers <- {"pa", "pb"}, Txs <- {"t1", "t2"}, MaxInvPerMsg <- 1,
      maxRequestedTxns <- 1, MaxSteps <- 4,
      states <- x1, requestedTxns <- x2, rejectedTxns <- x3, pool <- x4,
      inFlight <- x5, steps <- x6

\* Addresses of two groups from two sources, in buckets of one; and own addresses
\* to choose from for peers of every kind.
Ad(t, bl, gr, h) == [type |-> t, block |-> bl, grp |-> gr, host |-> h]
PublicV4 == Ad("v4", "public", 1, 1)
TunnelledV6 == Ad("v6", "rfc3964", 1, 3)
PublicV6 == Ad("v6", "public", 2, 4)
PrivateV4 == Ad("v4", "rfc1918", 2, 8)
TableAddrs == {PublicV4, Ad("v4", "public", 1, 2), TunnelledV6, PrivateV4}
OwnAddrs == {PublicV4, TunnelledV6, PublicV6, PrivateV4, Ad("tor3", "public", 3, 5)}
AnyAddrs == OwnAddrs \cup {Ad("tor2", "public", 3, 6), Ad("v6", "rfc4380", 2, 7)}
BucketOf ==
  [g \in {<<"v4", 1>>, <<"unroutable", 0>>} \X {<<"v4", 1>>, <<"v6/32", 2>>} |->
     IF g[2][1] = "v4" THEN 1 ELSE 2]

AT == INSTANCE AddrManager WITH
      Topics <- {"table"}, Addrs <- TableAddrs, Sources <- {PublicV4, PublicV6},
      NewHash <- BucketOf, TriedHash <- [x \in TableAddrs |-> 1],
      newBucketSize <- 1, triedBucketSize <- 1, newBucketsPerAddress <- 2,
      numMissing <- 0, numRetries <- 1, maxFailures <- 2, minBad <- 1,
      Futures <- {0}, Locals <- {}, Priorities <- {0}, MaxTime <- 1,
      MaxAttempts <- 1, MaxCalls <- 4, MaxStarts <- 2, MaxFaults <- 1,
      topic <- x1, index <- x2, addrNew <- x3, addrTried <- x4, cnt <- x5,
      file <- x6, proc <- x7, now <- x8, local <- x9, used <- x10

AL == INSTANCE AddrManager WITH
      Topics <- {"local"}, Addrs <- AnyAddrs, Sources <- {PublicV4, PublicV6},
      NewHash <- BucketOf, TriedHash <- [x \in TableAddrs |-> 1],
      newBucketSize <- 1, triedBucketSize <- 1, newBucketsPerAddress <- 2,
      numMissing <- 0, numRetries <- 1, maxFailures <- 2, minBad <- 1,
      Futures <- {0}, Locals <- OwnAddrs, Priorities <- {0, 2}, MaxTime <- 1,
      MaxAttempts <- 1, MaxCalls <- 4, MaxStarts <- 2, MaxFaults <- 1,
      topic <- x1, index <- x2, addrNew <- x3, addrTried <- x4, cnt <- x5,
      file <- x6, proc <- x7, now <- x8, local <- x9, used <- x10

\* Keys rotate every three messages; two processes race for the identity file.
BR == INSTANCE Brontide WITH
      Topics <- {"stream", "identity"}, DialKeys <- {"rs", "other", "nokey"},
      NoKey <- "nokey", RotationInterval <- 3, MaxMessageSize <- 2,
      Writers <- {"w1", "w2"}, Sizes <- {0, 2, 3}, MaxWrites <- 3, MaxFaults <- 1,
      Procs <- {"p1", "p2"}, MaxCrashes <- 2,
      topic <- x1, hs <- x2, cipher <- x3, conn <- x4, wire <- x5, closed <- x6,
      writer <- x7, sealed <- x8, written <- x9, got <- x10, file <- x11,
      proc <- x12, used <- x13

-----------------------------------------------------------------------------
\* A variable that the acting component does not have holds NoValue.
NoValue == 0

Idle17 == x17 = NoValue
Idle16 == x16 = NoValue /\ Idle17
Idle15 == x15 = NoValue /\ Idle16
Idle14 == x14 = NoValue /\ Idle15
Idle13 == x13 = NoValue /\ Idle14
Idle12 == x12 = NoValue /\ Idle13
Idle11 == x11 = NoValue /\ Idle12
Idle10 == x10 = NoValue /\ Idle11
Idle9 == x9 = NoValue /\ Idle10
Idle8 == x8 = NoValue /\ Idle9
Idle7 == x7 = NoValue /\ Idle8
Idle6 == x6 = NoValue /\ Idle7
Idle5 == x5 = NoValue /\ Idle6
Idle4 == x4 = NoValue /\ Idle5
Idle3 == x3 = NoValue /\ Idle4
Idle2 == x2 = NoValue /\ Idle3
Idle1 == x1 = NoValue /\ Idle2

SyncPart == /\ part = "sync" /\ SyncNext
            /\ UNCHANGED <<part, x1, x2, x3, x4, x5, x6, x7, x8, x9, x10, x11, x12, x13, x14, x15, x16, x17>>
PermanentPart == /\ part = "permanent" /\ SP!Next
                 /\ UNCHANGED <<part, syncVars>>
AutomaticPart == /\ part = "automatic" /\ SA!Next
                 /\ UNCHANGED <<part, syncVars>>
InvPart == /\ part = "inv" /\ IR!InvNext
           /\ UNCHANGED <<part, x7, x8, x9, x10, x11, x12, x13, x14, x15, x16, x17, syncVars>>
TablesPart == /\ part = "tables" /\ AT!AmNext
              /\ UNCHANGED <<part, x11, x12, x13, x14, x15, x16, x17, syncVars>>
LocalPart == /\ part = "local" /\ AL!AmNext
             /\ UNCHANGED <<part, x11, x12, x13, x14, x15, x16, x17, syncVars>>
TransportPart == /\ part = "transport" /\ BR!BrNext
                 /\ UNCHANGED <<part, x14, x15, x16, x17, syncVars>>

MCInit ==
  /\ part \in Parts
  /\ SyncInit
  /\ \/ part = "sync" /\ Idle1
     \/ part = "permanent" /\ SP!Init
     \/ part = "automatic" /\ SA!Init
     \/ part = "inv" /\ IR!InvInit /\ Idle7
     \/ part = "tables" /\ AT!AmInit /\ Idle11
     \/ part = "local" /\ AL!AmInit /\ Idle11
     \/ part = "transport" /\ BR!BrInit /\ Idle14

MCNext == SyncPart \/ PermanentPart \/ AutomaticPart \/ InvPart \/ TablesPart \/
  LocalPart \/ TransportPart

mcvars == <<part, x1, x2, x3, x4, x5, x6, x7, x8, x9, x10, x11, x12, x13, x14, x15, x16, x17, syncVars>>

MCSpec == MCInit /\ [][MCNext]_mcvars

Serving == part \in {"permanent", "automatic"}

-----------------------------------------------------------------------------
\* AutomaticCountExact, GroupsExact, InboundExact, NoLeakedConnection, SlotsKept and
\* PermanentKept of ServerPeers: the counters of the connection manager and of the
\* server are exact (automatic connections, peers of a group, inbound slots, inbound
\* peers of an address), no connection is left open that nobody owns, and no
\* automatic slot and no permanent peer is ever forgotten.
ConnectionsSound ==
  /\ Serving => /\ SP!AutomaticCountExact /\ SP!GroupsExact /\ SP!InboundExact
                /\ SP!NoLeakedConnection /\ SP!SlotsKept
  /\ part = "permanent" => SP!PermanentKept

\* RequestsOwned, InFlightBound and SyncPeerKnown of SyncManager, MarksOwned and
\* NothingStranded of InvRequests: every block and transaction asked for is asked of
\* one peer that is still there, within the limits, and none waits for nobody.
RequestsSound ==
  /\ part = "sync" => RequestsOwned /\ InFlightBound /\ SyncPeerKnown
  /\ part = "inv" => IR!MarksOwned /\ IR!NothingStranded

\* QueuedNotForgotten of InvRequests.
QueuedNotForgotten == [][part = "inv" => IR!QueuedStep]_mcvars

\* TransportSound of Brontide.
TransportSound == part = "transport" => BR!TransportSound

\* AddressTablesExact and BestLocalChosen of AddrManager.
AddressesSound ==
  /\ part = "tables" => AT!AddressTablesExact
  /\ part = "local" => AL!BestLocalChosen
=============================================================================
