------------------------------ MODULE PeerStall ------------------------------
(***************************************************************************)
(* The input handler, the stall handler and the half of the output handler *)
(* of peer/peer.go that they share the channel stallControl with.  Time is *)
(* discrete and passes only when no goroutine has anything to do, except   *)
(* for the callbacks of the input handler, which take any time.  The       *)
(* remote end answers a request, answers it late, or never.  What the      *)
(* output queue does with a message is the subject of PeerOutput.          *)
(***************************************************************************)
EXTENDS Integers, Sequences, FiniteSets

CONSTANTS stallTickInterval, stallResponseTimeout, idleTimeout,
          Requests, MaxTime, MaxRequests, MaxReceived

(* A request is named by the response it expects: "inv" (getblocks,        *)
(* mempool), "headers" (getheaders), and "data" (getdata, which expects    *)
(* one of block, merkleblock, tx and notfound; their four deadlines are    *)
(* always set and deleted together).  Requests is a subset of these three. *)

(* Messages that arrive: the responses, a ping (which has a callback as all  *)
(* messages have), a second version or verack, one that does not decode, *)
(* and one of a type that is not known.                                    *)
Received == Requests \cup {"ping", "duplicate", "malformed", "unknown"}

None == -1

VARIABLES now,
          quit,       \* closed by Disconnect
          control,    \* the channel stallControl, of capacity 1
          sh,         \* the variables of the stall handler
          ticker,     \* when the stall ticker fires next, whether a tick waits
          out,        \* the output handler: its step and message
          in,         \* the input handler: its step, message and idle timer
          wire,       \* messages on their way from the remote end
          owed,       \* requests written and not answered by the remote end
          done        \* requests queued, messages sent by the remote end

psVars == <<now, quit, control, sh, ticker, out, in, wire, owed, done>>

StallInit ==
    /\ now = 0 /\ quit = FALSE /\ control = <<>>
    /\ sh = [pc |-> "select", handlerActive |-> FALSE, handlersStartTime |-> 0,
             deadlineOffset |-> 0, pendingResponses |-> [r \in Requests |-> None],
             ioStopped |-> FALSE, stalled |-> "no"]
    /\ ticker = [at |-> stallTickInterval, waiting |-> FALSE]
    /\ out = [pc |-> "select", msg |-> "none"]
    /\ in = [pc |-> "read", msg |-> "none", idle |-> idleTimeout]
    /\ wire = <<>>
    /\ owed = [r \in Requests |-> [since |-> None, busy |-> 0, answered |-> None]]
    /\ done = [requests |-> 0, received |-> 0]

(***************************************************************************)
(* sendStallControl.                                                       *)
(***************************************************************************)
(* The channel has room, or quit is closed: then the message is not sent.  *)
CanSend == control = <<>>

SendAbandoned == quit

sendStallControl(command, msg) == control' = Append(control, [command |-> command, msg |-> msg])

(***************************************************************************)
(* The output handler.                                                     *)
(***************************************************************************)
(* A request leaves the send queue.                                        *)
TakeRequest(r) ==
    /\ out.pc = "select" /\ ~quit /\ done.requests < MaxRequests
    /\ out' = [pc |-> "control", msg |-> r]
    /\ done' = [done EXCEPT !.requests = @ + 1]
    /\ UNCHANGED <<now, quit, control, sh, ticker, in, wire, owed>>

(* The stall handler is told of the message before it is written.          *)
OutSteps(step) == step

Written(r) == [owed EXCEPT ![r].since = now, ![r].busy = 0]

outControl ==
    /\ out.pc \in {"control", "write"} /\ OutSteps(out.pc) = "control"
    /\ \/ /\ CanSend
          /\ sendStallControl("sccSendMessage", out.msg)
          /\ out' = [out EXCEPT !.pc = IF @ = "control" THEN "write" ELSE "select"]
       \/ /\ SendAbandoned
          /\ out' = [out EXCEPT !.pc = "over"]
          /\ UNCHANGED control
    /\ UNCHANGED <<now, quit, sh, ticker, in, wire, owed, done>>

outWrite ==
    /\ out.pc \in {"control", "write"} /\ OutSteps(out.pc) = "write"
    /\ out' = [out EXCEPT !.pc = IF @ = "control" THEN "write" ELSE "select"]
    /\ owed' = IF quit THEN owed ELSE Written(out.msg)
    /\ UNCHANGED <<now, quit, control, sh, ticker, in, wire, done>>

(* The queues are drained (PeerOutput) and outQuit is closed.              *)
outQuits ==
    /\ out.pc = "select" /\ quit
    /\ out' = [out EXCEPT !.pc = "over"]
    /\ UNCHANGED <<now, quit, control, sh, ticker, in, wire, owed, done>>

outHandler == outControl \/ outWrite \/ outQuits

(***************************************************************************)
(* The remote end: it sends any message at any time; a response it sends   *)
(* answers the request.                                                    *)
(***************************************************************************)
RemoteSends(m) ==
    /\ ~quit /\ done.received < MaxReceived
    /\ wire' = Append(wire, m)
    /\ owed' = IF m \in Requests THEN [owed EXCEPT ![m].since = None, ![m].answered = now] ELSE owed
    /\ done' = [done EXCEPT !.received = @ + 1]
    /\ UNCHANGED <<now, quit, control, sh, ticker, out, in>>

(***************************************************************************)
(* The input handler.                                                      *)
(***************************************************************************)
idleFires ==
    /\ in.idle # None /\ now >= in.idle /\ ~quit
    /\ quit' = TRUE
    /\ UNCHANGED <<now, control, sh, ticker, out, in, wire, owed, done>>

(* The loop ends with the deferred calls: the idle timer is stopped or     *)
(* awaited, the peer disconnected and inQuit closed.                       *)
inExit ==
    /\ in' = [in EXCEPT !.pc = "over", !.idle = None]
    /\ quit' = TRUE

(* A read returns a message, or fails because the connection was closed by *)
(* Disconnect.  The idle timer is stopped first; if it has fired the loop  *)
(* ends.  A packet of an unknown type is skipped.  One that does not       *)
(* decode is rejected.                                                     *)
inRead ==
    /\ in.pc = "read"
    /\ \/ /\ quit
          /\ inExit
          /\ UNCHANGED wire
       \/ /\ ~quit /\ wire # <<>>
          /\ wire' = Tail(wire)
          /\ quit' = quit
          /\ in' = CASE Head(wire) = "unknown" -> [in EXCEPT !.idle = now + idleTimeout]
                     [] Head(wire) = "malformed" ->
                          [pc |-> "reject", msg |-> "malformed", idle |-> None]
                     [] OTHER -> [pc |-> "received", msg |-> Head(wire), idle |-> None]
    /\ UNCHANGED <<now, control, sh, ticker, out, owed, done>>

(* The three reports to the stall handler around a callback.               *)
inReport(step, command, next) ==
    /\ in.pc = step
    /\ \/ /\ CanSend
          /\ sendStallControl(command, in.msg)
          /\ in' = next
          /\ UNCHANGED quit
       \/ /\ SendAbandoned
          /\ inExit
          /\ UNCHANGED control
    /\ UNCHANGED <<now, sh, ticker, out, wire, owed, done>>

inReceived == inReport("received", "sccReceiveMessage", [in EXCEPT !.pc = "start"])

(* A second version or verack is rejected.                                 *)
inStart ==
    inReport("start", "sccHandlerStart",
             [in EXCEPT !.pc = IF in.msg = "duplicate" THEN "reject" ELSE "callback"])

(* The callback returns.  A ping is answered with a pong that the queue    *)
(* must take, or the peer is disconnected.                                 *)
inCallback ==
    /\ in.pc = "callback"
    /\ in' = [in EXCEPT !.pc = "done"]
    /\ quit' \in IF in.msg = "ping" THEN {quit, TRUE} ELSE {quit}
    /\ UNCHANGED <<now, control, sh, ticker, out, wire, owed, done>>

inDone ==
    inReport("done", "sccHandlerDone",
             [pc |-> "read", msg |-> "none", idle |-> now + idleTimeout])

(* PushRejectMsg waits until the reject message is written or dropped.     *)
inReject ==
    /\ in.pc = "reject"
    /\ inExit
    /\ UNCHANGED <<now, control, sh, ticker, out, wire, owed, done>>

inHandler == inRead \/ inReceived \/ inStart \/ inDone \/ inReject

(***************************************************************************)
(* The stall handler.                                                      *)
(***************************************************************************)
maybeAddDeadline(r) ==
    [sh.pendingResponses EXCEPT
        ![r] = now + (IF r = "headers" THEN 3 ELSE 1) * stallResponseTimeout]

Cleared(msg) == [r \in Requests |-> IF r = msg THEN None ELSE sh.pendingResponses[r]]

HandlerTime == now - sh.handlersStartTime

stallMsg ==
    /\ sh.pc = "select" /\ control # <<>>
    /\ control' = <<>>
    /\ sh' = LET c == Head(control).command
                 msg == Head(control).msg
             IN  CASE c = "sccSendMessage" -> [sh EXCEPT !.pendingResponses = maybeAddDeadline(msg)]
                   [] c = "sccReceiveMessage" -> [sh EXCEPT !.pendingResponses = Cleared(msg)]
                   [] c = "sccHandlerStart" ->
                        [sh EXCEPT !.handlerActive = TRUE, !.handlersStartTime = now]
                   [] c = "sccHandlerDone" ->
                        [sh EXCEPT !.handlerActive = FALSE, !.deadlineOffset = @ + HandlerTime]
    /\ UNCHANGED <<now, quit, ticker, out, in, wire, owed, done>>

Offset == sh.deadlineOffset + (IF sh.handlerActive THEN HandlerTime ELSE 0)

Expired(r) == sh.pendingResponses[r] # None /\ now >= sh.pendingResponses[r] + Offset

(* A tick disconnects the peer if a response is overdue, and forgets the   *)
(* time that callbacks took.                                               *)
stallTick ==
    /\ sh.pc = "select" /\ ticker.waiting
    /\ ticker' = [ticker EXCEPT !.waiting = FALSE]
    /\ \E stalled \in {r \in Requests : Expired(r)} \cup {"no"} :
         /\ stalled = "no" => \A r \in Requests : ~Expired(r)
         /\ sh' = [sh EXCEPT !.deadlineOffset = 0,
                             !.stalled = IF quit THEN @ ELSE stalled]
         /\ quit' = (quit \/ stalled # "no")
    /\ UNCHANGED <<now, control, out, in, wire, owed, done>>

(* inQuit and outQuit: a closed channel is always ready, so the second     *)
(* receive may be of the same channel as the first.                        *)
stallQuit ==
    /\ sh.pc = "select"
    /\ in.pc = "over" \/ out.pc = "over"
    /\ sh' = IF sh.ioStopped THEN [sh EXCEPT !.pc = "over"] ELSE [sh EXCEPT !.ioStopped = TRUE]
    /\ control' = IF sh.ioStopped THEN <<>> ELSE control
    /\ UNCHANGED <<now, quit, ticker, out, in, wire, owed, done>>

stallHandler == stallMsg \/ stallTick \/ stallQuit

(***************************************************************************)
(* Time, and the local calls of Disconnect.                                *)
(***************************************************************************)
(* Nothing can run but a callback.                                         *)
Quiet ==
    /\ control = <<>> /\ ~ticker.waiting /\ ~quit
    /\ out.pc = "select"
    /\ in.pc = "callback" \/ (in.pc = "read" /\ wire = <<>>)
    /\ in.idle = None \/ now < in.idle

TimePasses ==
    /\ Quiet /\ now < MaxTime
    /\ now' = now + 1
    /\ ticker' = IF now' = ticker.at
                 THEN [at |-> now' + stallTickInterval, waiting |-> TRUE]
                 ELSE ticker
    /\ owed' = [r \in Requests |->
                  [owed[r] EXCEPT !.busy = @ + (IF in.pc = "callback" /\ owed[r].since # None
                                                THEN 1 ELSE 0)]]
    /\ UNCHANGED <<quit, control, sh, out, in, wire, done>>

Disconnect ==
    /\ ~quit /\ quit' = TRUE
    /\ UNCHANGED <<now, control, sh, ticker, out, in, wire, owed, done>>

StallNext ==
    \/ \E r \in Requests : TakeRequest(r)
    \/ \E m \in Received : RemoteSends(m)
    \/ outHandler
    \/ idleFires
    \/ inHandler
    \/ inCallback
    \/ stallHandler
    \/ TimePasses
    \/ Disconnect

StallSpec == StallInit /\ [][StallNext]_psVars

(* Every goroutine that can run does, and the callbacks return.            *)
FairStall ==
    /\ StallSpec
    /\ WF_psVars(outHandler) /\ WF_psVars(inHandler) /\ WF_psVars(inCallback)
    /\ WF_psVars(stallHandler)

(***************************************************************************)
(* Properties.                                                             *)
(***************************************************************************)
(* A peer is disconnected as stalled over a response only while the remote *)
(* end owes that response, or its answer lies unread behind a callback, or *)
(* came at the very moment of the tick: no answer that was read before is  *)
(* held against it.                                                        *)
StalledForCause ==
    sh.stalled # "no" =>
        \/ owed[sh.stalled].since # None \/ owed[sh.stalled].answered = now
        \/ \E i \in 1..Len(wire) : wire[i] = sh.stalled

(* A remote end that leaves a request unanswered is found out by the first *)
(* tick after the deadline plus the time its other messages took in        *)
(* callbacks, unless it had sent a message of the kind that is expected.   *)
Overdue(r) ==
    /\ owed[r].since # None /\ owed[r].answered = None
    /\ now > owed[r].since + owed[r].busy + stallTickInterval
               + (IF r = "headers" THEN 3 ELSE 1) * stallResponseTimeout

StallsDetected == \A r \in Requests : Overdue(r) => quit

(* After a disconnection all three handlers end, whatever they were doing: *)
(* no report to the stall handler blocks the others once it is gone.       *)
HandlersOver == in.pc = "over" /\ out.pc = "over" /\ sh.pc = "over"
Quitting == quit
HandlersEnd == Quitting ~> HandlersOver
=============================================================================
