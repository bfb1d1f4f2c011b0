---------------------------- MODULE RpcLifecycle ----------------------------
(***************************************************************************)
(* Start and Stop of the RPC server (rpcserver.go) against the HTTP and    *)
(* websocket handlers in flight: admission of handlers, the count of       *)
(* standard clients, the connections taken over from net/http              *)
(* (hijackedConns), the notification manager that disconnects websocket    *)
(* clients, and the callers of Stop.                                       *)
(***************************************************************************)
EXTENDS Integers, FiniteSets

CONSTANTS HttpConns, WsConns, \* connections of standard and websocket clients
          Stoppers,           \* callers of Stop
          RPCMaxClients, RPCMaxWebsockets

VARIABLES
    started, shutdown,
    shutdownDone,   \* "nil", "made" or "closed"
    handlers,       \* rpcHandlerState: stopping, active, drained
    numClients,     \* standard clients
    hijackedConns,  \* connections that Stop has to close itself
    closed,         \* connections that are closed
    h,              \* place of the handler of every connection
    mgr,            \* notification manager: running, quit, its clients, queue
    stop            \* place of every caller of Stop

rlVars == <<started, shutdown, shutdownDone, handlers, numClients, hijackedConns,
            closed, h, mgr, stop>>
Conns == HttpConns \cup WsConns

-----------------------------------------------------------------------------
Start ==
    /\ ~shutdown /\ ~started
    /\ started' = TRUE
    /\ mgr' = [mgr EXCEPT !.running = TRUE]
    /\ UNCHANGED <<shutdown, shutdownDone, handlers, numClients, hijackedConns, closed, h, stop>>

\* begin: a request reaches a handler while the server listens.
begin(c) ==
    /\ h[c] = "new" /\ started /\ c \notin closed
    /\ IF handlers.stopping
       THEN h' = [h EXCEPT ![c] = "gone"] /\ closed' = closed \cup {c} /\ UNCHANGED handlers
       ELSE /\ handlers' = [handlers EXCEPT !.active = @ + 1]
            /\ h' = [h EXCEPT ![c] = IF c \in HttpConns THEN "limit" ELSE "auth"]
            /\ UNCHANGED closed
    /\ UNCHANGED <<started, shutdown, shutdownDone, numClients, hijackedConns, mgr, stop>>

\* done: the deferred end of an admitted handler.
done(c) ==
    /\ h[c] = "done"
    /\ handlers' = [handlers EXCEPT !.active = @ - 1,
                      !.drained = @ \/ (handlers.stopping /\ handlers.active = 1)]
    /\ h' = [h EXCEPT ![c] = "gone"]
    /\ closed' = closed \cup {c}
    /\ UNCHANGED <<started, shutdown, shutdownDone, numClients, hijackedConns, mgr, stop>>

\* limitConnections reads the count that incrementClients changes later.
limitConnections(c) ==
    /\ h[c] = "limit"
    /\ h' = [h EXCEPT ![c] = IF numClients + 1 > RPCMaxClients THEN "done" ELSE "increment"]
    /\ UNCHANGED <<started, shutdown, shutdownDone, handlers, numClients, hijackedConns, closed, mgr, stop>>

incrementClients(c) ==
    /\ h[c] = "increment"
    /\ numClients' = numClients + 1
    /\ h' = [h EXCEPT ![c] = "auth"]
    /\ UNCHANGED <<started, shutdown, shutdownDone, handlers, hijackedConns, closed, mgr, stop>>

decrementClients(c) ==
    /\ h[c] = "decrement"
    /\ numClients' = numClients - 1
    /\ h' = [h EXCEPT ![c] = "done"]
    /\ UNCHANGED <<started, shutdown, shutdownDone, handlers, hijackedConns, closed, mgr, stop>>

\* checkAuth: a failure answers and ends the handler.
checkAuth(c, ok) ==
    /\ h[c] = "auth"
    /\ h' = [h EXCEPT ![c] = IF c \in HttpConns THEN (IF ok THEN "read" ELSE "decrement")
                             ELSE (IF ok THEN "upgrade" ELSE "done")]
    /\ UNCHANGED <<started, shutdown, shutdownDone, handlers, numClients, hijackedConns, closed, mgr, stop>>

\* jsonRPCRead up to the hijack; a connection net/http has closed cannot be
\* read or taken over.
jsonRPCRead(c) ==
    /\ h[c] = "read"
    /\ h' = [h EXCEPT ![c] = IF shutdown \/ c \in closed THEN "decrement" ELSE "hijacked"]
    /\ UNCHANGED <<started, shutdown, shutdownDone, handlers, numClients, hijackedConns, closed, mgr, stop>>

Registers == ~shutdown

registerHijackedConn(c) ==
    /\ h[c] = "hijacked"
    /\ IF Registers
       THEN /\ hijackedConns' = hijackedConns \cup {c}
            /\ h' = [h EXCEPT ![c] = "serve"] /\ UNCHANGED closed
       ELSE /\ closed' = closed \cup {c}
            /\ h' = [h EXCEPT ![c] = "decrement"] /\ UNCHANGED hijackedConns
    /\ UNCHANGED <<started, shutdown, shutdownDone, handlers, numClients, mgr, stop>>

\* The command is served: at worst (a long poll) until the reader sees the
\* connection closed; then the reply is written and the connection closed.
Serve(c) ==
    /\ h[c] = "serve"
    /\ h' = [h EXCEPT ![c] = "unregister"]
    /\ closed' = closed \cup {c}
    /\ UNCHANGED <<started, shutdown, shutdownDone, handlers, numClients, hijackedConns, mgr, stop>>

unregisterHijackedConn(c) ==
    /\ h[c] = "unregister"
    /\ hijackedConns' = hijackedConns \ {c}
    /\ h' = [h EXCEPT ![c] = "decrement"]
    /\ UNCHANGED <<started, shutdown, shutdownDone, handlers, numClients, closed, mgr, stop>>

-----------------------------------------------------------------------------
(* WebsocketHandler.  The upgraded connection is out of reach of net/http and
   of hijackedConns: it ends with its client. *)

Upgrade(c) ==
    /\ h[c] = "upgrade"
    /\ h' = [h EXCEPT ![c] = IF c \in closed THEN "done" ELSE "count"]
    /\ UNCHANGED <<started, shutdown, shutdownDone, handlers, numClients, hijackedConns, closed, mgr, stop>>

\* NumClients answers 0 once the manager has quit.
NumClients(c) ==
    /\ h[c] = "count"
    /\ h' = [h EXCEPT ![c] = IF ~mgr.quit /\ Cardinality(mgr.clients) + 1 > RPCMaxWebsockets
                             THEN "done" ELSE "add"]
    /\ UNCHANGED <<started, shutdown, shutdownDone, handlers, numClients, hijackedConns, closed, mgr, stop>>

\* AddClient: enqueue, then wait for the registration or for quit.
AddClient(c) ==
    /\ \/ /\ h[c] = "add" /\ ~mgr.quit
          /\ mgr' = [mgr EXCEPT !.queue = @ \cup {c}]
          /\ h' = [h EXCEPT ![c] = "adding"] /\ UNCHANGED closed
       \/ /\ h[c] \in {"add", "adding"} /\ mgr.quit
          /\ closed' = closed \cup {c}
          /\ h' = [h EXCEPT ![c] = "done"] /\ UNCHANGED mgr
       \/ /\ h[c] = "adding" /\ c \in mgr.clients
          /\ h' = [h EXCEPT ![c] = "client"] /\ UNCHANGED <<closed, mgr>>
    /\ UNCHANGED <<started, shutdown, shutdownDone, handlers, numClients, hijackedConns, stop>>

\* The client's goroutines end once it is disconnected (WsClient), and it is
\* removed from a manager that still runs.
ClientEnds(c) ==
    /\ h[c] = "client" /\ c \in closed
    /\ mgr' = IF mgr.quit THEN mgr ELSE [mgr EXCEPT !.clients = @ \ {c}]
    /\ h' = [h EXCEPT ![c] = "done"]
    /\ UNCHANGED <<started, shutdown, shutdownDone, handlers, numClients, hijackedConns, closed, stop>>

RemoteCloses(c) ==
    /\ c \notin closed /\ h[c] \notin {"new", "gone"}
    /\ closed' = closed \cup {c}
    /\ UNCHANGED <<started, shutdown, shutdownDone, handlers, numClients, hijackedConns, h, mgr, stop>>

\* notificationHandler: register a client, or on quit disconnect them all.
MgrRegisters(c) ==
    /\ mgr.running /\ c \in mgr.queue
    /\ mgr' = [mgr EXCEPT !.queue = @ \ {c}, !.clients = @ \cup {c}]
    /\ UNCHANGED <<started, shutdown, shutdownDone, handlers, numClients, hijackedConns, closed, h, stop>>

MgrDisconnects == mgr.clients

MgrQuits ==
    /\ mgr.running /\ mgr.quit
    /\ mgr' = [mgr EXCEPT !.running = FALSE]
    /\ closed' = closed \cup MgrDisconnects
    /\ UNCHANGED <<started, shutdown, shutdownDone, handlers, numClients, hijackedConns, h, stop>>

-----------------------------------------------------------------------------
(* Stop *)

StopCalled(s) ==
    /\ stop[s] = "idle"
    /\ IF shutdownDone # "nil"
       THEN stop' = [stop EXCEPT ![s] = "await"] /\ UNCHANGED <<shutdown, shutdownDone>>
       ELSE /\ shutdownDone' = "made" /\ shutdown' = TRUE
            /\ stop' = [stop EXCEPT ![s] = "drain"]
    /\ UNCHANGED <<started, handlers, numClients, hijackedConns, closed, h, mgr>>

\* handlers.stop
StopAdmission(s) ==
    /\ stop[s] = "drain"
    /\ handlers' = [handlers EXCEPT !.stopping = TRUE, !.drained = @ \/ handlers.active = 0]
    /\ stop' = [stop EXCEPT ![s] = "close"]
    /\ UNCHANGED <<started, shutdown, shutdownDone, numClients, hijackedConns, closed, h, mgr>>

\* httpServer.Close and the listeners: every connection net/http still owns.
OwnedByHttp == { c \in Conns : h[c] \in {"new", "limit", "increment", "auth", "read", "upgrade"} }

StopListening(s) ==
    /\ stop[s] = "close"
    /\ closed' = closed \cup OwnedByHttp
    /\ stop' = [stop EXCEPT ![s] = "hijacked"]
    /\ UNCHANGED <<started, shutdown, shutdownDone, handlers, numClients, hijackedConns, h, mgr>>

closeHijackedConns(s) ==
    /\ stop[s] = "hijacked"
    /\ closed' = closed \cup hijackedConns
    /\ mgr' = [mgr EXCEPT !.quit = TRUE]
    /\ stop' = [stop EXCEPT ![s] = "manager"]
    /\ UNCHANGED <<started, shutdown, shutdownDone, handlers, numClients, hijackedConns, h>>

AwaitsDrain_Not == TRUE
AwaitsDrain == handlers.drained

StopWaits(s) ==
    /\ \/ /\ stop[s] = "manager" /\ ~mgr.running
          /\ stop' = [stop EXCEPT ![s] = "drained"] /\ UNCHANGED shutdownDone
       \/ /\ stop[s] = "drained" /\ AwaitsDrain
          /\ shutdownDone' = "closed"
          /\ stop' = [stop EXCEPT ![s] = "returned"]
       \/ /\ stop[s] = "await" /\ shutdownDone = "closed"
          /\ stop' = [stop EXCEPT ![s] = "returned"] /\ UNCHANGED shutdownDone
    /\ UNCHANGED <<started, shutdown, handlers, numClients, hijackedConns, closed, h, mgr>>

-----------------------------------------------------------------------------
RlInit ==
    /\ started = FALSE /\ shutdown = FALSE /\ shutdownDone = "nil"
    /\ handlers = [stopping |-> FALSE, active |-> 0, drained |-> FALSE]
    /\ numClients = 0 /\ hijackedConns = {} /\ closed = {}
    /\ h = [c \in Conns |-> "new"]
    /\ mgr = [running |-> FALSE, quit |-> FALSE, clients |-> {}, queue |-> {}]
    /\ stop = [s \in Stoppers |-> "idle"]

\* Steps of a handler other than a wait on the client.
HandlerStep(c) ==
    \/ limitConnections(c) \/ incrementClients(c) \/ decrementClients(c)
    \/ (\E ok \in BOOLEAN : checkAuth(c, ok)) \/ jsonRPCRead(c) \/ registerHijackedConn(c)
    \/ unregisterHijackedConn(c) \/ Upgrade(c) \/ NumClients(c) \/ AddClient(c)
    \/ ClientEnds(c) \/ done(c)

StopStep(s) == StopAdmission(s) \/ StopListening(s) \/ closeHijackedConns(s) \/ StopWaits(s)
MgrStep == MgrQuits \/ \E c \in WsConns : MgrRegisters(c)

RlNext ==
    \/ Start
    \/ \E c \in Conns : begin(c) \/ HandlerStep(c) \/ Serve(c) \/ RemoteCloses(c)
    \/ MgrStep
    \/ \E s \in Stoppers : StopCalled(s) \/ StopStep(s)

RlSpec == RlInit /\ [][RlNext]_rlVars
\* Goroutines run; a served command ends at the latest when its connection is
\* closed.
FairRl == /\ \A c \in Conns : WF_rlVars(HandlerStep(c)) /\ WF_rlVars(c \in closed /\ Serve(c))
          /\ WF_rlVars(MgrQuits) /\ \A s \in Stoppers : WF_rlVars(StopStep(s))
RlFairSpec == RlSpec /\ FairRl

-----------------------------------------------------------------------------
(* Properties. *)

\* When a call of Stop has returned, no admitted handler is left, none will be
\* admitted, no connection of a handler is open, and the counters are back.
StopDrains ==
    (\E s \in Stoppers : stop[s] = "returned") =>
        /\ handlers.active = 0 /\ numClients = 0 /\ hijackedConns = {} /\ ~mgr.running
        /\ \A c \in Conns : h[c] \in {"new", "gone"} /\ (h[c] = "gone" => c \in closed)

\* Every call of Stop returns, whatever handlers, long polls and websocket
\* clients are in flight.
Called(s) == stop[s] # "idle"
Returned(s) == stop[s] = "returned"
StopReturns == \A s \in Stoppers : Called(s) ~> Returned(s)
=============================================================================
