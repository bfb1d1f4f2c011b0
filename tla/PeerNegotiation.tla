--------------------------- MODULE PeerNegotiation ---------------------------
(***************************************************************************)
(* The version handshake of peer/peer.go, run by the two ends of one       *)
(* connection.  The end "out" dialled and the end "in" accepted it.  Each  *)
(* end has the goroutine that AssociateConnection launches (start), the    *)
(* goroutine that start launches to negotiate, the five handlers that      *)
(* start launches once the negotiation succeeded (one state here, they are *)
(* the subject of PeerStall and PeerOutput), and one caller of             *)
(* WaitForDisconnect.  An end in faulty runs some other program: it sends  *)
(* any packets it likes.                                                   *)
(***************************************************************************)
EXTENDS Integers, Sequences, SequencesExt

CONSTANTS FaultySets,    \* the choices of the ends that do not run this code
          MaxForged,     \* packets a faulty end sends
          MaxIncidents   \* refusals by OnVersion and local calls of Disconnect

Sides == {"out", "in"}

Other(s) == IF s = "out" THEN "in" ELSE "out"

(* A version packet carries its nonce (named after its sender) and whether  *)
(* its protocol version is at least MinAcceptableProtocolVersion.          *)
Version(s, new) == [type |-> "version", nonce |-> s, new |-> new]

Packet == {[type |-> t] : t \in {"verack", "unknown", "other", "reject"}}
            \cup {Version(s, new) : s \in Sides, new \in BOOLEAN}

VARIABLES faulty,  \* the ends that do not run this code
          self,    \* whether both ends belong to the same process
          wire,    \* wire[s]: the packets on their way to s
          conn,    \* conn[s]: whether s holds its connection open
          st,      \* st[s]: the peer structure of end s
          pc,      \* pc[s]: the goroutines of end s
          used     \* the forged packets, the incidents, whether a negotiation timed out

negVars == <<faulty, self, wire, conn, st, pc, used>>

Steps == {"idle", "writeVersion", "readVersion", "writeVerack", "waitVerack", "over"}

NegInit ==
    /\ faulty \in FaultySets
    /\ self \in IF faulty = {} THEN BOOLEAN ELSE {FALSE}
    /\ wire = [s \in Sides |-> <<>>]
    /\ conn = [s \in Sides |-> TRUE]
    /\ st = [s \in Sides |->
               [quit |-> FALSE, connected |-> FALSE, versionKnown |-> FALSE,
                verAckReceived |-> FALSE, sentNonce |-> FALSE,
                calls |-> <<>>, negotiateErr |-> <<>>]]
    /\ pc = [s \in Sides |-> [negotiate |-> "idle", start |-> "idle", waiter |-> "waiting"]]
    /\ used = [forged |-> 0, incidents |-> 0, timeout |-> FALSE]

Honest == Sides \ faulty

(***************************************************************************)
(* The connection.                                                         *)
(***************************************************************************)
(* An end that has closed its connection reads nothing more; the other end *)
(* still reads what was sent before, then an end of file.                  *)
CanRead(s) == conn[s] /\ wire[s] # <<>>

ReadFails(s) == ~conn[s] \/ (~conn[Other(s)] /\ wire[s] = <<>>)

Sent(s, m) == [wire EXCEPT ![Other(s)] = Append(@, m)]

WriteMayFail(s) == ~conn[s] \/ ~conn[Other(s)]

(***************************************************************************)
(* Disconnect and AssociateConnection.                                     *)
(***************************************************************************)
Disconnected_KeepsConn(s) == st' = [st EXCEPT ![s].quit = TRUE] /\ UNCHANGED conn

Disconnected(s) ==
    /\ st' = [st EXCEPT ![s].quit = TRUE]
    /\ conn' = [conn EXCEPT ![s] = @ /\ ~st[s].connected]

(* A peer that was disconnected before it got its connection closes it; a  *)
(* peer that has one keeps it (the second connection is not modelled).     *)
AssociateConnection(s) ==
    /\ s \in Honest /\ pc[s].start = "idle"
    /\ IF st[s].quit
       THEN /\ conn' = [conn EXCEPT ![s] = FALSE]
            /\ pc' = [pc EXCEPT ![s].start = "over"]
            /\ UNCHANGED st
       ELSE /\ st' = [st EXCEPT ![s].connected = TRUE]
            /\ pc' = [pc EXCEPT ![s].start = "select",
                                ![s].negotiate = IF s = "in" THEN "readVersion" ELSE "writeVersion"]
            /\ UNCHANGED conn
    /\ UNCHANGED <<faulty, self, wire, used>>

(***************************************************************************)
(* The negotiating goroutine: negotiateInboundProtocol reads the version,  *)
(* writes verack and its own version and waits for verack;                 *)
(* negotiateOutboundProtocol writes its version, reads the remote one      *)
(* (a verack may come first), writes verack and waits for verack.          *)
(***************************************************************************)
Result(s, r, next) ==
    /\ st' = [next EXCEPT ![s].negotiateErr = Append(@, r)]
    /\ pc' = [pc EXCEPT ![s].negotiate = "over"]

NextStep(s) ==
    IF s = "in"
    THEN [readVersion |-> "writeVerack", writeVerack |-> "writeVersion",
          writeVersion |-> "waitVerack"][pc[s].negotiate]
    ELSE [writeVersion |-> "readVersion", readVersion |-> "writeVerack",
          writeVerack |-> "waitVerack"][pc[s].negotiate]

Proceed(s) == pc' = [pc EXCEPT ![s].negotiate = NextStep(s)]

(* localVersionMsg remembers the nonce it puts into the version.           *)
WriteStep(s) ==
    LET m == IF pc[s].negotiate = "writeVersion" THEN Version(s, TRUE) ELSE [type |-> "verack"]
        next == IF pc[s].negotiate = "writeVersion" THEN [st EXCEPT ![s].sentNonce = TRUE] ELSE st
    IN  /\ s \in Honest /\ pc[s].negotiate \in {"writeVersion", "writeVerack"}
        /\ \/ /\ conn[s]
              /\ wire' = Sent(s, m)
              /\ st' = next
              /\ Proceed(s)
           \/ /\ WriteMayFail(s)
              /\ Result(s, "err", next)
              /\ UNCHANGED wire
        /\ UNCHANGED <<faulty, self, conn, used>>

(* sentNonces is shared by the peers of a process.                         *)
KnownNonce(s, m) == st[m.nonce].sentNonce /\ (m.nonce = s \/ self)

(* processRemoteVersionMsg: a known nonce is a connection to self; the     *)
(* version is recorded and OnVersion called before the protocol version is *)
(* found too old.  OnVersion may also refuse the peer.                     *)
VersionRecorded(s) ==
    [st EXCEPT ![s].versionKnown = TRUE, ![s].calls = Append(@, "OnVersion")]

EarlyVerAckNotified(s, next) ==
    IF s = "out" /\ st[s].verAckReceived
    THEN [next EXCEPT ![s].calls = Append(@, "OnVerAck")]
    ELSE next

processRemoteVersionMsg(s, m) ==
    IF KnownNonce(s, m)
    THEN Result(s, "err", st) /\ wire' = [wire EXCEPT ![s] = Tail(@)] /\ UNCHANGED used
    ELSE \/ /\ m.new
            /\ st' = EarlyVerAckNotified(s, VersionRecorded(s))
            /\ wire' = [wire EXCEPT ![s] = Tail(@)]
            /\ Proceed(s)
            /\ UNCHANGED used
         \/ \* refused by OnVersion, or too old
            /\ IF m.new
               THEN /\ used.incidents < MaxIncidents
                    /\ used' = [used EXCEPT !.incidents = @ + 1]
               ELSE UNCHANGED used
            /\ Result(s, "err", VersionRecorded(s))
            /\ wire' = [Sent(s, [type |-> "reject"]) EXCEPT ![s] = Tail(@)]

(* readRemoteVersionMsg of the accepting end: anything but a version ends  *)
(* the negotiation, an unknown packet included.                            *)
(* readRemoteVersionAllowingEarlyVerAck of the dialling end skips unknown  *)
(* packets and records one verack.                                         *)
ReadVersion(s) ==
    LET m == Head(wire[s])
        drop == [wire EXCEPT ![s] = Tail(@)]
    IN  /\ s \in Honest /\ pc[s].negotiate = "readVersion"
        /\ CanRead(s)
        /\ m.type # "version" => UNCHANGED used
        /\ CASE m.type = "version" -> processRemoteVersionMsg(s, m)
             [] s = "in" /\ m.type # "version" ->
                  /\ Result(s, "err", st)
                  /\ wire' = IF m.type = "unknown" THEN drop
                             ELSE [Sent(s, [type |-> "reject"]) EXCEPT ![s] = Tail(@)]
             [] s = "out" /\ m.type = "unknown" -> wire' = drop /\ UNCHANGED <<st, pc>>
             [] s = "out" /\ m.type = "verack" /\ ~st[s].verAckReceived ->
                  wire' = drop /\ st' = [st EXCEPT ![s].verAckReceived = TRUE] /\ UNCHANGED pc
             [] OTHER -> Result(s, "err", st) /\ wire' = drop
        /\ UNCHANGED <<faulty, self, conn>>

(* waitToFinishNegotiation: returns at once when verack came early, skips  *)
(* unknown packets and refuses everything but verack.                      *)
WaitVerack(s) ==
    LET m == Head(wire[s])
        drop == [wire EXCEPT ![s] = Tail(@)]
    IN  /\ s \in Honest /\ pc[s].negotiate = "waitVerack"
        /\ \/ /\ st[s].verAckReceived
              /\ Result(s, "nil", st)
              /\ UNCHANGED wire
           \/ /\ ~st[s].verAckReceived /\ CanRead(s)
              /\ wire' = drop
              /\ CASE m.type = "unknown" -> UNCHANGED <<st, pc>>
                   [] m.type = "verack" ->
                        Result(s, "nil", [st EXCEPT ![s].verAckReceived = TRUE,
                                                    ![s].calls = Append(@, "OnVerAck")])
                   [] OTHER -> Result(s, "err", st)
        /\ UNCHANGED <<faulty, self, conn, used>>

ReadError(s) ==
    /\ s \in Honest /\ ReadFails(s)
    /\ \/ pc[s].negotiate = "readVersion"
       \/ pc[s].negotiate = "waitVerack" /\ ~st[s].verAckReceived
    /\ Result(s, "err", st)
    /\ UNCHANGED <<faulty, self, wire, conn, used>>

Negotiate(s) == WriteStep(s) \/ ReadVersion(s) \/ WaitVerack(s) \/ ReadError(s)

(***************************************************************************)
(* The goroutine that runs start.                                          *)
(***************************************************************************)
(* The result of the negotiation, the timeout and quit race in one select. *)
startResult(s) ==
    /\ pc[s].start = "select" /\ st[s].negotiateErr # <<>>
    /\ IF Head(st[s].negotiateErr) = "nil"
       THEN pc' = [pc EXCEPT ![s].start = "running"] /\ UNCHANGED <<st, conn>>
       ELSE pc' = [pc EXCEPT ![s].start = "over"] /\ Disconnected(s)
    /\ UNCHANGED <<faulty, self, wire, used>>

startQuit(s) ==
    /\ pc[s].start = "select" /\ st[s].quit
    /\ pc' = [pc EXCEPT ![s].start = "over"]
    /\ UNCHANGED <<faulty, self, wire, conn, st, used>>

startTimeout(s) ==
    /\ pc[s].start = "select"
    /\ pc' = [pc EXCEPT ![s].start = "over"]
    /\ Disconnected(s)
    /\ used' = [used EXCEPT !.timeout = TRUE]
    /\ UNCHANGED <<faulty, self, wire>>

(* The input handler ends the peer on a second version or verack, and on   *)
(* the end of the connection; the other handlers follow (PeerStall).       *)
Handlers(s) ==
    /\ pc[s].start = "running"
    /\ \/ /\ CanRead(s)
          /\ wire' = [wire EXCEPT ![s] = Tail(@)]
          /\ IF Head(wire[s]).type \in {"version", "verack"}
             THEN Disconnected(s)
             ELSE UNCHANGED <<st, conn>>
          /\ UNCHANGED pc
       \/ /\ ReadFails(s) /\ ~st[s].quit
          /\ Disconnected(s)
          /\ UNCHANGED <<wire, pc>>
       \/ /\ st[s].quit
          /\ pc' = [pc EXCEPT ![s].start = "over"]
          /\ UNCHANGED <<wire, st, conn>>
    /\ UNCHANGED <<faulty, self, used>>

Start(s) == s \in Honest /\ (startResult(s) \/ startQuit(s))

RunHandlers(s) == s \in Honest /\ Handlers(s)

StartTimesOut(s) == s \in Honest /\ startTimeout(s)

(* WaitForDisconnect returns once quit is closed and every goroutine of    *)
(* the peer has ended.                                                     *)
GoroutinesEnded(s) ==
    pc[s].start \in {"idle", "over"} /\ pc[s].negotiate \in {"idle", "over"}

WaitForDisconnect(s) ==
    /\ s \in Honest /\ pc[s].waiter = "waiting"
    /\ st[s].quit /\ GoroutinesEnded(s)
    /\ pc' = [pc EXCEPT ![s].waiter = "returned"]
    /\ UNCHANGED <<faulty, self, wire, conn, st, used>>

(* The server disconnects the peer at any time.                            *)
Disconnect(s) ==
    /\ s \in Honest /\ ~st[s].quit /\ used.incidents < MaxIncidents
    /\ used' = [used EXCEPT !.incidents = @ + 1]
    /\ Disconnected(s)
    /\ UNCHANGED <<faulty, self, wire, pc>>

Forge(s) ==
    /\ s \in faulty /\ conn[s]
    /\ \/ /\ used.forged < MaxForged
          /\ \E m \in Packet :
               /\ m.type = "version" => m.nonce = s \/ st[m.nonce].sentNonce
               /\ wire' = Sent(s, m)
          /\ UNCHANGED conn
       \/ conn' = [conn EXCEPT ![s] = FALSE] /\ UNCHANGED wire
    /\ used' = [used EXCEPT !.forged = @ + 1]
    /\ UNCHANGED <<faulty, self, st, pc>>

NegNext ==
    \E s \in Sides :
        \/ AssociateConnection(s)
        \/ Negotiate(s)
        \/ Start(s)
        \/ StartTimesOut(s)
        \/ RunHandlers(s)
        \/ WaitForDisconnect(s)
        \/ Disconnect(s)
        \/ Forge(s)

NegSpec == NegInit /\ [][NegNext]_negVars

(* Every goroutine that can run does; the timer of start fires.            *)
FairNeg ==
    /\ NegSpec
    /\ \A s \in Sides : /\ WF_negVars(AssociateConnection(s))
                        /\ WF_negVars(Negotiate(s))
                        /\ WF_negVars(Start(s))
                        /\ WF_negVars(RunHandlers(s))
                        /\ WF_negVars(WaitForDisconnect(s))
                        /\ WF_negVars(StartTimesOut(s))

(***************************************************************************)
(* Properties.                                                             *)
(***************************************************************************)
(* An end starts its handlers only on an agreed connection: it holds the   *)
(* remote version and verack, and a remote that runs this code has         *)
(* accepted its version too.  A process never talks to itself.             *)
AgreedBeforeHandlers ==
    \A s \in Honest :
        pc[s].start = "running" =>
            /\ st[s].versionKnown /\ st[s].verAckReceived
            /\ Other(s) \in Honest => st[Other(s)].versionKnown /\ ~self

(* The server's callbacks come in order, whatever order the packets come   *)
(* in: OnVersion once and first, then OnVerAck once, and OnVerAck before   *)
(* the handlers deliver anything.                                          *)
CallbacksInOrder ==
    \A s \in Honest :
        /\ IsPrefix(st[s].calls, <<"OnVersion", "OnVerAck">>)
        /\ pc[s].start = "running" => Len(st[s].calls) = 2

(* No goroutine of a peer outlives its disconnection: WaitForDisconnect    *)
(* returns whatever the remote end does, a negotiation that is blocked in  *)
(* a read included.                                                        *)
Disconnecting(s) == s \in Honest /\ st[s].quit
Returned(s) == pc[s].waiter = "returned"
DisconnectCompletes == \A s \in Sides : Disconnecting(s) ~> Returned(s)

(* Two ends that run this code do connect, whichever packets cross, unless *)
(* they belong to one process.                                             *)
Undisturbed == faulty = {} /\ used.incidents = 0 /\ ~used.timeout /\ ~self
Connected == \A s \in Sides : pc[s].start = "running"
HonestEndsConnect == Undisturbed ~> (~Undisturbed \/ Connected)
=============================================================================
