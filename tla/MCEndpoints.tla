----------------------------- MODULE MCEndpoints -----------------------------
(***************************************************************************)
(* What the node talks through: a peer's output queues, its negotiation,   *)
(* its stall detection, the requests it is served and the loops of the     *)
(* server above it; websocket clients and their notifications, the life of *)
(* the RPC server, and the RPC client.                                     *)
(*                                                                         *)
(* part says which component takes the steps of a behaviour; a component's *)
(* variables are the first of the slots x1, x2, ...                        *)
(***************************************************************************)
EXTENDS Integers, Sequences, FiniteSets

CONSTANTS Parts, ad1, n1, NoJob

VARIABLES part, x1, x2, x3, x4, x5, x6, x7, x8, x9, x10, x11, x12, x13, x14

-----------------------------------------------------------------------------
(* Peers. *)

\* One data and one control message, one announced block and one transaction.
PO == INSTANCE PeerOutput WITH
      Peers <- {"p1"}, Msgs <- {"m1", "m3"}, PeerOf <- [m1 |-> "p1", m3 |-> "p1"],
      Control <- {"m3"}, Invs <- {"i1", "i2"}, Blocks <- {"i2"}, DataSize <- 2,
      ControlSize <- 1, InvSize <- 1, PrepareSize <- 3, maxBytes <- 9,
      controlReserveBytes <- 1, maxQueuedMessages <- 4,
      maxQueuedControlMessages <- 1, maxQueuedBytes <- 8, maxQueuedInventory <- 2,
      maxInvTrickleSize <- 1, outputBufferSize <- 1,
      usedBytes <- x1, prepareMu <- x2, caller <- x3, signals <- x4, ps <- x5

\* Both ends run this code, or one of them sends what it likes.
PN == INSTANCE PeerNegotiation WITH
      FaultySets <- {{}, {"in"}, {"out"}}, MaxForged <- 2, MaxIncidents <- 1,
      faulty <- x1, self <- x2, wire <- x3, conn <- x4, st <- x5, pc <- x6,
      used <- x7

PS == INSTANCE PeerStall WITH
      stallTickInterval <- 2, stallResponseTimeout <- 2, idleTimeout <- 5,
      Requests <- {"inv"}, MaxTime <- 5, MaxRequests <- 1, MaxReceived <- 1,
      now <- x1, quit <- x2, control <- x3, sh <- x4, ticker <- x5, out <- x6,
      in <- x7, wire <- x8, owed <- x9, done <- x10

SL == INSTANCE ServerLoops WITH
      Peers <- {"p1", "p2"}, Outbound <- {"p1"}, MaxPeers <- 1, MsgCap <- 3,
      MaxWork <- 1, MaxBlocks <- 1, MaxPending <- 0, StopAllowed <- FALSE,
      q <- x1, flag <- x2, ph <- x3, bh <- x4, rb <- x5, stop <- x6, rpc <- x7,
      ih <- x8, pd <- x9, reply <- x10, blocks <- x11

SH == INSTANCE ServerLoops WITH
      Peers <- {"p1"}, Outbound <- {"p1"}, MaxPeers <- 1, MsgCap <- 2, MaxWork <- 1,
      MaxBlocks <- 1, MaxPending <- 1, StopAllowed <- TRUE,
      q <- x1, flag <- x2, ph <- x3, bh <- x4, rb <- x5, stop <- x6, rpc <- x7,
      ih <- x8, pd <- x9, reply <- x10, blocks <- x11

\* A client that sends any request, and one that follows the getblocks protocol.
PV == INSTANCE PeerServing WITH
      MaxHeight <- 2, MaxBlocksPerMsg <- 2, numBuffered <- 2, MaxItems <- 3,
      MaxRequests <- 2, MaxRefused <- 1, BanThreshold <- 3, MaxInvPerMsg <- 5,
      MempoolScore <- 2, NotFoundScore <- 1, Addrs <- {"a1"},
      Clients <- {"any", "sync"},
      best <- x1, sp <- x2, gd <- x3, oq <- x4, signals <- x5, cli <- x6, used <- x7

PD == INSTANCE PeerServing WITH
      MaxHeight <- 4, MaxBlocksPerMsg <- 2, numBuffered <- 2, MaxItems <- 3,
      MaxRequests <- 2, MaxRefused <- 0, BanThreshold <- 3, MaxInvPerMsg <- 5,
      MempoolScore <- 2, NotFoundScore <- 1, Addrs <- {"a1"}, Clients <- {"sync"},
      best <- x1, sp <- x2, gd <- x3, oq <- x4, signals <- x5, cli <- x6, used <- x7

-----------------------------------------------------------------------------
(* Clients. *)

\* Block b1 and the branch c1-c2; t1 pays the watched address, t2 spends that and
\* pays it again, t3 spends t2.
BlockParent == [g0 |-> "g0", b1 |-> "g0", c1 |-> "g0", c2 |-> "c1"]
BlockTxs == [g0 |-> <<>>, b1 |-> <<"t1">>, c1 |-> <<"t1">>, c2 |-> <<"t2", "t3">>]
WalletTxs ==
  [t1 |-> [ins |-> <<>>, outs |-> <<[addr |-> ad1, name |-> "none"]>>],
   t2 |-> [ins |-> <<[op |-> <<"t1", 1>>, from |-> ad1]>>,
           outs |-> <<[addr |-> "none", name |-> n1], [addr |-> ad1, name |-> "none"]>>],
   t3 |-> [ins |-> <<[op |-> <<"t2", 2>>, from |-> "none"]>>,
           outs |-> <<[addr |-> "none", name |-> "none"]>>]]

WN == INSTANCE WsNotify WITH
      Clients <- {"k1"}, Blocks <- DOMAIN BlockParent, Parent <- BlockParent,
      TxsOf <- BlockTxs, TxOf <- WalletTxs, Addrs <- {ad1}, Names <- {n1},
      NoAddr <- "none", NoName <- "none", NoBlock <- "none", PoolTxs <- {"t2"},
      Watchable <- {<<"t1", 1>>}, MaxRequests <- 2, MaxInvPerMsg <- 1,
      tip <- x1, target <- x2, unsent <- x3, mempool <- x4, paused <- x5, q <- x6,
      reg <- x7, cl <- x8, got <- x9, again <- x10, view <- x11, scan <- x12,
      asked <- x13

\* Requests and batches of every kind the handler tells apart.
Single(k) == [batch |-> FALSE, reqs |-> <<k>>]
Batch(s) == [batch |-> TRUE, reqs |-> s]
ClientMessages ==
  {Single(k) : k \in {"malformed", "noid", "loginlimited", "full", "longpoll"}} \cup
  {Batch(<<"loginlimited", "full">>), Batch(<<"login", "full">>), Batch(<<"garbled", "longpoll">>)}

WC == INSTANCE WsClient WITH
      SendBuffer <- 1, RPCMaxConcurrentReqs <- 1, Messages <- ClientMessages,
      MaxMsgs <- 1, MaxNtfns <- 3, Stalls <- TRUE,
      conn <- x1, quit <- x2, auth <- x3, in <- x4, svc <- x5, nq <- x6,
      ntfnChan <- x7, sendChan <- x8, out <- x9, mgr <- x10, wrote <- x11,
      served <- x12, msgs <- x13

RL == INSTANCE RpcLifecycle WITH
      HttpConns <- {"h1", "h2"}, WsConns <- {"w1"}, Stoppers <- {"s1", "s2"},
      RPCMaxClients <- 1, RPCMaxWebsockets <- 1,
      started <- x1, shutdown <- x2, shutdownDone <- x3, handlers <- x4,
      numClients <- x5, hijackedConns <- x6, closed <- x7, h <- x8, mgr <- x9,
      stop <- x10

\* A registration that a reconnect must restore; two posted requests; and two
\* requests of a client that does not reconnect.
RR == INSTANCE RpcClient WITH
      Modes <- {"ws", "post", "batch"}, AutoReconnect <- TRUE,
      MethodOf <- <<"notifyblocks">>, SendBuffer <- 1, Tries <- 2, MaxConns <- 2,
      mode <- x1, shutdown <- x2, conn <- x3, list <- x4, chan <- x5, fut <- x6,
      caller <- x7, inH <- x8, outH <- x9, dial <- x10, resend <- x11,
      ntfnState <- x12, server <- x13, post <- x14

RP == INSTANCE RpcClient WITH
      Modes <- {"post", "batch"}, AutoReconnect <- TRUE,
      MethodOf <- <<"getblock", "getblock">>, SendBuffer <- 1, Tries <- 2,
      MaxConns <- 2,
      mode <- x1, shutdown <- x2, conn <- x3, list <- x4, chan <- x5, fut <- x6,
      caller <- x7, inH <- x8, outH <- x9, dial <- x10, resend <- x11,
      ntfnState <- x12, server <- x13, post <- x14

RC == INSTANCE RpcClient WITH
      Modes <- {"ws"}, AutoReconnect <- FALSE,
      MethodOf <- <<"notifyblocks", "getblock">>, SendBuffer <- 1, Tries <- 2,
      MaxConns <- 2,
      mode <- x1, shutdown <- x2, conn <- x3, list <- x4, chan <- x5, fut <- x6,
      caller <- x7, inH <- x8, outH <- x9, dial <- x10, resend <- x11,
      ntfnState <- x12, server <- x13, post <- x14

-----------------------------------------------------------------------------
(* What else must not wait for ever: calls into the chain, reads of block    *)
(* files, script validation, the CPU miner and the Stratum server.           *)

Ancestry == [G |-> {"G"}, a1 |-> {"G", "a1"}, b1 |-> {"G", "b1"}]

\* Two honest peers on branches of different height; one send refused, one block
\* corrupted or one peer lost on the way.
SY == INSTANCE SyncManager WITH
      Peers <- {"p1", "p2"}, NoPeer <- "nobody", Faulty <- {},
      FullNodes <- {"p1", "p2"}, Block <- 0..4, Parent <- <<0, 1, 2, 1>>, Bad <- {},
      PeerTip <- [p1 |-> 3, p2 |-> 4], CurrentFrom <- 2, MaxHeaders <- 2,
      maxInFlightBlocks <- 2, minInFlightBlocks <- 1, MaxFaults <- 2,
      S <- x1, C <- x2, ptip <- x3

BC == INSTANCE BlockChain WITH
      Block <- DOMAIN Ancestry, Genesis <- "G", Parent <- [a1 |-> "G", b1 |-> "G"],
      Ancestors <- Ancestry, Height <- [G |-> 0, a1 |-> 1, b1 |-> 1],
      WorkSum <- [G |-> 0, a1 |-> 1, b1 |-> 2], Checkpoint <- "G",
      MaybeBad <- {"b1"}, Sync <- "sync", Rpc <- {"rpc"}, NoThread <- "nobody",
      RpcCalls <- {"invalidate", "reconsider"}, Announced <- {"a1"},
      Sources <- {"peer"}, OneCaller <- FALSE, DbMayFail <- FALSE, MayCrash <- FALSE,
      verdict <- x1, status <- x2, dbStatus <- x3, tip <- x4, bestHeader <- x5,
      orphans <- x6, lock <- x7, pc <- x8, call <- x9, queue <- x10, detach <- x11,
      attach <- x12

BF == INSTANCE Ffldb WITH
      Threads <- {"ga", "gb"}, maxOpenFiles <- 1, MaxFiles <- 3, MaxReads <- 2,
      Blocks <- {}, BlocksPerFile <- 0, TargetFiles <- 0, Readers <- {},
      MaxTxs <- 0, MaxFaults <- 0, MaxCrashes <- 0,
      wcur <- x1, wcLock <- x2, obf <- x3, obfLock <- x4, lru <- x5, hd <- x6,
      th <- x7, wpc <- x8, disk <- 0, ldb <- 0, cache <- 0, wc <- 0, w <- 0, r <- 0,
      pruneLock <- 0, st <- 0, hist <- 0, used <- 0

SV == INSTANCE ScriptValidator WITH
      Callers <- {"block", "pool"},
      Txs <- [block |-> <<"t1", "t2">>, pool |-> <<"t2">>],
      InputsOf <- [t1 |-> <<[hash |-> 1, key |-> 1], [hash |-> 1, key |-> 2]>>, t2 |-> <<[hash |-> 2, key |-> 1]>>],
      MaxGoRoutines <- 2, MaxSigs <- 1, MaxHashes <- 1,
      good <- x1, call <- x2, worker <- x3, validSigs <- x4, sigHashes <- x5,
      hashed <- x6

PQ == INSTANCE PeerStall WITH
      stallTickInterval <- 1, stallResponseTimeout <- 1, idleTimeout <- 2,
      Requests <- {"inv"}, MaxTime <- 2, MaxRequests <- 1, MaxReceived <- 1,
      now <- x1, quit <- x2, control <- x3, sh <- x4, ticker <- x5, out <- x6,
      in <- x7, wire <- x8, owed <- x9, done <- x10

RS == INSTANCE RpcLifecycle WITH
      HttpConns <- {"h1"}, WsConns <- {"w1"}, Stoppers <- {"s1", "s2"},
      RPCMaxClients <- 1, RPCMaxWebsockets <- 1,
      started <- x1, shutdown <- x2, shutdownDone <- x3, handlers <- x4,
      numClients <- x5, hijackedConns <- x6, closed <- x7, h <- x8, mgr <- x9,
      stop <- x10

WQ == INSTANCE WsClient WITH
      SendBuffer <- 1, RPCMaxConcurrentReqs <- 1,
      Messages <- {Single("longpoll"), Batch(<<"loginlimited", "full">>)},
      MaxMsgs <- 1, MaxNtfns <- 2, Stalls <- TRUE,
      conn <- x1, quit <- x2, auth <- x3, in <- x4, svc <- x5, nq <- x6,
      ntfnChan <- x7, sendChan <- x8, out <- x9, mgr <- x10, wrote <- x11,
      served <- x12, msgs <- x13

CM == INSTANCE CpuMiner WITH
      Callers <- {"ca", "cb"},
      CommandsOf <- [ca |-> {"setgen"}, cb |-> {"hashes", "stop"}],
      Workers <- {"w1", "w2"}, Limits <- {1}, Prompt <- TRUE, MaxTip <- 2,
      MaxCalls <- 2, NoOne <- "no one",
      mtx <- x1, miner <- x2, ctl <- x3, quit <- x4, run <- x5, wk <- x6, mon <- x7,
      submit <- x8, tip <- x9, call <- x10

SR == INSTANCE Stratum WITH
      Conns <- {"c1"}, Shares <- {"k1"}, Solutions <- {"k1"},
      maxJobsPerPrevBlock <- 1, MaxTips <- 2, MaxMoves <- 1, MaxJobs <- 1,
      NoJob <- NoJob,
      tip <- x1, moves <- x2, jobs <- x3, jobSeq <- x4, loop <- x5, client <- x6,
      server <- x7, held <- x8, accepted <- x9

-----------------------------------------------------------------------------
\* A variable that the acting component does not have holds NoValue.
NoValue == 0

Idle14 == x14 = NoValue
Idle13 == x13 = NoValue /\ Idle14
Idle12 == x12 = NoValue /\ Idle13
Idle11 == x11 = NoValue /\ Idle12
Idle10 == x10 = NoValue /\ Idle11
Idle9 == x9 = NoValue /\ Idle10
Idle8 == x8 = NoValue /\ Idle9
Idle7 == x7 = NoValue /\ Idle8
Idle6 == x6 = NoValue /\ Idle7
Idle5 == x5 = NoValue /\ Idle6
Idle4 == x4 = NoValue /\ Idle5

OutputPart == /\ part = "output" /\ PO!OutNext
              /\ UNCHANGED <<part, x6, x7, x8, x9, x10, x11, x12, x13, x14>>
NegotiationPart == /\ part = "negotiation" /\ PN!NegNext
                   /\ UNCHANGED <<part, x8, x9, x10, x11, x12, x13, x14>>
StallPart == /\ part = "stall" /\ PS!StallNext
             /\ UNCHANGED <<part, x11, x12, x13, x14>>
LoopsPart == /\ part = "loops" /\ SL!LoopsNext
             /\ UNCHANGED <<part, x12, x13, x14>>
ShutdownPart == /\ part = "shutdown" /\ SH!LoopsNext
                /\ UNCHANGED <<part, x12, x13, x14>>
ServingPart == /\ part = "serving" /\ PV!ServingNext
               /\ UNCHANGED <<part, x8, x9, x10, x11, x12, x13, x14>>
DownloadPart == /\ part = "download" /\ PD!ServingNext
                /\ UNCHANGED <<part, x8, x9, x10, x11, x12, x13, x14>>
NotifyPart == /\ part = "notify" /\ WN!WnNext
              /\ UNCHANGED <<part, x14>>
WebsocketPart == /\ part = "websocket" /\ WC!WcNext
                 /\ UNCHANGED <<part, x14>>
LifecyclePart == /\ part = "lifecycle" /\ RL!RlNext
                 /\ UNCHANGED <<part, x11, x12, x13, x14>>
ReconnectPart == /\ part = "reconnect" /\ RR!RcNext
                 /\ UNCHANGED <<part>>
PostsPart == /\ part = "posts" /\ RP!RcNext
             /\ UNCHANGED <<part>>
RequestsPart == /\ part = "requests" /\ RC!RcNext
                /\ UNCHANGED <<part>>
SyncPart == /\ part = "sync" /\ SY!SyncNext
            /\ UNCHANGED <<part, x4, x5, x6, x7, x8, x9, x10, x11, x12, x13, x14>>
ChainPart == /\ part = "chain" /\ BC!Next
             /\ UNCHANGED <<part, x13, x14>>
FilesPart == /\ part = "files" /\ BF!BfNext
             /\ UNCHANGED <<part, x9, x10, x11, x12, x13, x14>>
ValidatorPart == /\ part = "validator" /\ SV!SvNext
                 /\ UNCHANGED <<part, x7, x8, x9, x10, x11, x12, x13, x14>>
EndsPart == /\ part = "ends" /\ PQ!StallNext
            /\ UNCHANGED <<part, x11, x12, x13, x14>>
StopsPart == /\ part = "stops" /\ RS!RlNext
             /\ UNCHANGED <<part, x11, x12, x13, x14>>
QuitsPart == /\ part = "quits" /\ WQ!WcNext
             /\ UNCHANGED <<part, x14>>
MinerPart == /\ part = "miner" /\ CM!CmNext
             /\ UNCHANGED <<part, x11, x12, x13, x14>>
StratumPart == /\ part = "stratum" /\ SR!SrNext
               /\ UNCHANGED <<part, x10, x11, x12, x13, x14>>

Init ==
  /\ part \in Parts
  /\ \/ part = "output" /\ PO!OutInit /\ Idle6
     \/ part = "negotiation" /\ PN!NegInit /\ Idle8
     \/ part = "stall" /\ PS!StallInit /\ Idle11
     \/ part = "loops" /\ SL!LoopsInit /\ Idle12
     \/ part = "shutdown" /\ SH!LoopsInit /\ Idle12
     \/ part = "serving" /\ PV!ServingInit /\ Idle8
     \/ part = "download" /\ PD!ServingInit /\ Idle8
     \/ part = "notify" /\ WN!WnInit /\ Idle14
     \/ part = "websocket" /\ WC!WcInit /\ Idle14
     \/ part = "lifecycle" /\ RL!RlInit /\ Idle11
     \/ part = "reconnect" /\ RR!RcInit
     \/ part = "posts" /\ RP!RcInit
     \/ part = "requests" /\ RC!RcInit
     \/ part = "sync" /\ SY!SyncInit /\ Idle4
     \/ part = "chain" /\ BC!Init /\ Idle13
     \/ part = "files" /\ BF!BfInit /\ Idle9
     \/ part = "validator" /\ SV!SvInit /\ Idle7
     \/ part = "ends" /\ PQ!StallInit /\ Idle11
     \/ part = "stops" /\ RS!RlInit /\ Idle11
     \/ part = "quits" /\ WQ!WcInit /\ Idle14
     \/ part = "miner" /\ CM!CmInit /\ Idle11
     \/ part = "stratum" /\ SR!SrInit /\ Idle10

Next == OutputPart \/ NegotiationPart \/ StallPart \/ LoopsPart \/ ShutdownPart \/
  ServingPart \/ DownloadPart \/ NotifyPart \/ WebsocketPart \/ LifecyclePart \/
  ReconnectPart \/ PostsPart \/ RequestsPart \/ SyncPart \/ ChainPart \/ FilesPart
  \/ ValidatorPart \/ EndsPart \/ StopsPart \/ QuitsPart \/ MinerPart \/ StratumPart

vars == <<part, x1, x2, x3, x4, x5, x6, x7, x8, x9, x10, x11, x12, x13, x14>>

Spec == Init /\ [][Next]_vars

-----------------------------------------------------------------------------
(* Fairness, as each component states it: goroutines that can run do, and a   *)
(* lock, a tick or a closed connection is not missed for ever.                *)

PeersFair ==
  /\ \A s \in {"in", "out"} : /\ WF_(PN!negVars)(part = "negotiation" /\ PN!AssociateConnection(s))
                              /\ WF_(PN!negVars)(part = "negotiation" /\ PN!Negotiate(s))
                              /\ WF_(PN!negVars)(part = "negotiation" /\ PN!Start(s))
                              /\ WF_(PN!negVars)(part = "negotiation" /\ PN!RunHandlers(s))
                              /\ WF_(PN!negVars)(part = "negotiation" /\ PN!WaitForDisconnect(s))
                              /\ WF_(PN!negVars)(part = "negotiation" /\ PN!StartTimesOut(s))
  /\ WF_(PQ!psVars)(part = "ends" /\ PQ!outHandler) /\ WF_(PQ!psVars)(part = "ends" /\ PQ!inHandler)
  /\ WF_(PQ!psVars)(part = "ends" /\ PQ!inCallback) /\ WF_(PQ!psVars)(part = "ends" /\ PQ!stallHandler)
  /\ WF_(SL!slVars)(part = "loops" /\ SL!peerHandler) /\ WF_(SL!slVars)(part = "loops" /\ SL!blockHandler)
  /\ WF_(SL!slVars)(part = "loops" /\ SL!rebroadcastHandler)
  /\ \A q \in {"p1", "p2"} : /\ WF_(SL!slVars)(part = "loops" /\ SL!inHandler(q))
                             /\ WF_(SL!slVars)(part = "loops" /\ SL!peerDoneHandler(q))
  /\ WF_(PD!pvVars)(part = "download" /\ (PD!Write \/ PD!Drain))
  /\ WF_(PD!pvVars)(part = "download" /\ (PD!PushItem \/ PD!PushNotFound \/ PD!GetDataDone))
  /\ WF_(PD!pvVars)(part = "download" /\ (PD!SyncAsks \/ PD!SyncReceives))
  /\ WF_(SY!syncVars)(part = "sync" /\ SY!StallTimePasses)
  /\ []<>(part # "sync" \/ SY!Idle) \/ []<><<part = "sync" /\ SY!Handles>>_(SY!syncVars)

ClientsFair ==
  /\ WF_(WQ!wcVars)(part = "quits" /\ (WQ!ReadFails \/ WQ!Acquire \/ WQ!BatchEntry \/ WQ!InSends \/ WQ!InEnds))
  /\ WF_(WQ!wcVars)(part = "quits" /\ WQ!notificationQueueHandler)
  /\ WF_(WQ!wcVars)(part = "quits" /\ WQ!outHandler)
  /\ WF_(WQ!wcVars)(part = "quits" /\ x10.at = "queueing" /\ WQ!QueueNotification)
  /\ WF_(WQ!wcVars)(part = "quits" /\ WQ!serviceRequest(1))
  /\ \A k \in {"h1", "w1"} : /\ WF_(RS!rlVars)(part = "stops" /\ RS!HandlerStep(k))
                                   /\ WF_(RS!rlVars)(part = "stops" /\ k \in x7 /\ RS!Serve(k))
  /\ WF_(RS!rlVars)(part = "stops" /\ RS!MgrQuits)
  /\ \A s \in {"s1", "s2"} : WF_(RS!rlVars)(part = "stops" /\ RS!StopStep(s))
  /\ \A i \in 1..2 : /\ WF_(RC!rcVars)(part = "requests" /\ RC!sendMessage(i))
                     /\ WF_(RC!rcVars)(part = "requests" /\ RC!Receive(i))
                     /\ WF_(RC!rcVars)(part = "requests" /\ RC!wsInHandler(i))
                     /\ WF_(RC!rcVars)(part = "requests" /\ RC!wsOutHandler(i))
                     /\ WF_(RC!rcVars)(part = "requests" /\ RC!resendRequests(i))
                     /\ WF_(RC!rcVars)(part = "requests" /\ RC!ServerAnswers(i))
  /\ WF_(RC!rcVars)(part = "requests" /\ RC!wsReconnectHandler)

ServicesFair ==
  /\ \A k \in 1..2 :
       SF_(BC!vars)(\/ part = "chain" /\ BC!Step(<<"sync", "rpc">>[k])
                    \/ /\ part = "files" /\ BF!LockAll(<<"ga", "gb">>[k])
                       /\ UNCHANGED <<x9, x10, x11, x12>>
                    \/ /\ part = "stratum" /\ UNCHANGED <<x10, x11, x12>>
                       /\ \/ k = 1 /\ SR!RefreshTick
                          \/ k = 2 /\ x7 # "running" /\ SR!Gone("c1"))
  /\ \A g \in {"ga", "gb"} :
       WF_(BF!bfVars)(part = "files" /\ (\/ BF!CheckCursor(g) \/ BF!LockCursorFile(g) \/ BF!FindOpen(g)
                                  \/ BF!LockFound(g) \/ BF!LockAll(g) \/ BF!UseOpened(g)
                                  \/ BF!OpenFile(g) \/ BF!ReadAt(g)))
  /\ WF_(BF!bfVars)(part = "files" /\ (BF!CloseCurrent \/ BF!OpenCurrent \/ BF!WriteDone))
  /\ \A k \in {"block", "pool"} :
       /\ WF_(SV!svVars)(part = "validator" /\ (SV!LookupSigHashes(k) \/ SV!AddSigHashes(k) \/ SV!PurgeSigHashes(k)))
       /\ \A g \in 1..2 :
            WF_(SV!svVars)(part = "validator" /\ (\/ SV!SendItem(k, g) \/ SV!CheckSig(k, g) \/ SV!VerifySig(k, g)
                                           \/ SV!SendResult(k, g) \/ SV!Quit(k, g)))
  /\ \A k \in {"ca", "cb"} : WF_(CM!cmVars)(part = "miner" /\ CM!CallerStep(k))
  /\ WF_(CM!cmVars)(part = "miner" /\ (CM!ControllerStep \/ CM!ControllerDone))
  /\ WF_(CM!cmVars)(part = "miner" /\ CM!MonitorQuit)
  /\ \A w \in {"w1", "w2"} : WF_(CM!cmVars)(part = "miner" /\ (CM!WorkerQuit(w) \/ CM!submitBlock(w)))
  /\ WF_(SR!srVars)(part = "stratum" /\ SR!LoopStep)
  /\ WF_(SR!srVars)(part = "stratum" /\ SR!StopClients) /\ WF_(SR!srVars)(part = "stratum" /\ SR!StopDone)
  /\ WF_(SR!srVars)(part = "stratum" /\ SR!ServeStep("c1"))

FairSpec == Spec /\ PeersFair /\ ClientsFair /\ ServicesFair

-----------------------------------------------------------------------------
\* BudgetExact, DoneOnce and HandlersNeverBlock of PeerOutput,
\* AgreedBeforeHandlers and CallbacksInOrder of PeerNegotiation, StalledForCause
\* and StallsDetected of PeerStall, RepliesMatch of ServerLoops, Accounted and
\* ServedPolitely of PeerServing.
PeersSound ==
  /\ part = "output" => PO!BudgetExact /\ PO!DoneOnce /\ PO!HandlersNeverBlock
  /\ part = "negotiation" => PN!AgreedBeforeHandlers /\ PN!CallbacksInOrder
  /\ part = "stall" => PS!StalledForCause /\ PS!StallsDetected
  /\ part = "loops" => SL!RepliesMatch
  /\ part = "shutdown" => SH!RepliesMatch
  /\ part = "serving" => PV!Accounted /\ PV!ServedPolitely
  /\ part = "download" => PD!Accounted /\ PD!ServedPolitely

\* WatchesMirror and RescanMissesNothing of WsNotify, ClientServedSafely of
\* WsClient, StopDrains of RpcLifecycle, AnsweredOnce and RegistrationsRestored of
\* RpcClient.
ClientsSound ==
  /\ part = "notify" => WN!WatchesMirror /\ WN!RescanMissesNothing
  /\ part = "websocket" => WC!ClientServedSafely
  /\ part = "lifecycle" => RL!StopDrains
  /\ part = "reconnect" => RR!AnsweredOnce /\ RR!RegistrationsRestored
  /\ part = "posts" => RP!AnsweredOnce
  /\ part = "requests" => RC!AnsweredOnce

\* AddrsNew of PeerServing, BlocksInOrder and FilterFollows of WsNotify.
ToldInOrder ==
  [][/\ part = "serving" => PV!AddrsStep
     /\ part = "notify" => WN!BlocksStep /\ WN!FilterStep]_vars

-----------------------------------------------------------------------------
(* What must happen.  k numbers the two calls or callers of a part.         *)

Waits(k) ==
  CASE part = "negotiation" -> PN!Undisturbed
    [] part = "loops" -> SL!Awaits(<<"p1", "p2">>[k])
    [] part = "download" -> (k = 1 /\ PD!Serving) \/ (k = 2 /\ PD!Behind)
    [] part = "sync" -> SY!BehindPeer(<<"p1", "p2">>[k])
    [] part = "requests" -> RC!Sent(k)
    [] part = "chain" -> BC!Inside(<<"sync", "rpc">>[k])
    [] part = "files" -> BF!Reading(<<"ga", "gb">>[k])
    [] part = "validator" -> ~SV!Validated(<<"block", "pool">>[k])
    [] part = "miner" -> CM!Busy(<<"ca", "cb">>[k])
    [] OTHER -> FALSE

WaitOver(k) ==
  CASE part = "negotiation" -> ~PN!Undisturbed \/ PN!Connected
    [] part = "requests" -> RC!Responses(k) > 0
    [] OTHER -> ~Waits(k)

\* HonestEndsConnect of PeerNegotiation,
\* BlocksAnswered of ServerLoops, GetDataReturns and SyncsByGetBlocks of
\* PeerServing, CatchesUp of SyncManager, FuturesAnswered of RpcClient, CallsReturn of BlockChain,
\* ReadsReturn of Ffldb, ValidationEnds of ScriptValidator, MinerAnswers of
\* CpuMiner: whoever waits for an answer gets one.
CallsAnswered == \A k \in 1..2 : Waits(k) ~> WaitOver(k)

Closing(k) ==
  CASE part = "negotiation" -> PN!Disconnecting(<<"in", "out">>[k])
    [] part = "ends" -> PQ!Quitting
    [] part = "quits" -> WQ!Quitting
    [] part = "stops" -> RS!Called(<<"s1", "s2">>[k])
    [] part = "stratum" -> SR!Closing
    [] OTHER -> FALSE

Closed(k) ==
  CASE part = "negotiation" -> PN!Returned(<<"in", "out">>[k])
    [] part = "ends" -> PQ!HandlersOver
    [] part = "quits" -> WQ!Ended
    [] part = "stops" -> RS!Returned(<<"s1", "s2">>[k])
    [] part = "stratum" -> SR!Stopped
    [] OTHER -> TRUE

\* DisconnectCompletes of PeerNegotiation,
\* HandlersEnd of PeerStall, ClientEnds of WsClient, StopReturns of RpcLifecycle,
\* StratumStops of Stratum: what is told to end does, and leaves no goroutine.
ClosesDown == \A k \in 1..2 : Closing(k) ~> Closed(k)
=============================================================================
