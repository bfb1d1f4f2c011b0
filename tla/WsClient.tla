------------------------------ MODULE WsClient ------------------------------
(***************************************************************************)
(* The goroutines of one websocket client of the RPC server                *)
(* (rpcwebsocket.go, wsClient): inHandler reads requests, authenticates    *)
(* and serves them (each in a goroutine of its own, a batch inline),       *)
(* notificationQueueHandler queues what the notification manager says, and *)
(* outHandler writes.  They meet in two bounded channels, a semaphore, the *)
(* quit channel and the enqueue wait group.                                *)
(***************************************************************************)
EXTENDS Integers, Sequences, FiniteSets, SequencesExt

CONSTANTS SendBuffer,           \* websocketSendBufferSize
          RPCMaxConcurrentReqs, \* size of the request semaphore
          Messages,             \* messages the remote end may send: a kind, or
                                \* a sequence of kinds for a batch
          MaxMsgs, MaxNtfns,    \* bounds on messages and notifications
          Stalls                \* whether the remote end may stop reading

VARIABLES
    conn,      \* "open", "stalled" (nothing more is read) or "closed"
    quit,      \* disconnected, and the quit channel closed
    auth,      \* "none", "limited" or "admin"
    in,        \* inHandler: its place, the batch left and the replies to it
    svc,       \* goroutines serving a request, one per semaphore slot
    nq,        \* notificationQueueHandler: place, pending, waiting, sent signal
    ntfnChan,  \* channel of one notification
    sendChan,  \* channel of SendBuffer messages
    out,       \* outHandler: place and the message being written
    mgr,       \* the manager inside QueueNotification, and how many it queued
    wrote,     \* notifications written, in order
    served,    \* <<role, kind>> of the commands run
    msgs       \* number of messages received

wcVars == <<conn, quit, auth, in, svc, nq, ntfnChan, sendChan, out, mgr, wrote, served, msgs>>

Slots == 1..RPCMaxConcurrentReqs
Reply == 0   \* a message that is not a notification

-----------------------------------------------------------------------------
(* The gate a request passes.  Kinds: "garbled" does not parse, "malformed"
   lacks a method or parameters, "noid" has no id, "badcmd" is unknown or has
   wrong parameters, "login", "loginlimited" and "loginbad" authenticate, any
   other kind is a command; "limited" stands for those of rpcLimited. *)

Command(m) == m \in {"limited", "full", "longpoll"}
Allowed(role, m) == role = "admin" \/ m = "limited"

Gate(role, m) ==
    CASE m = "malformed" -> "error"
      [] m \in {"garbled", "badcmd", "emptybatch"} -> IF role = "none" THEN "drop" ELSE "error"
      [] m = "noid" -> IF role = "none" THEN "drop" ELSE "ignore"
      [] m \in {"login", "loginlimited"} -> IF role = "none" THEN "login" ELSE "drop"
      [] m = "loginbad" -> "drop"
      [] Command(m) -> CASE role = "none" -> "drop"
                         [] role # "none" /\ ~Allowed(role, m) -> "error"
                         [] OTHER -> "serve"

Login(m) == IF m = "login" THEN "admin" ELSE "limited"

-----------------------------------------------------------------------------
(* Sending.  A sender is admitted while the client is not disconnected and
   then waits for room or for quit; the queue handlers wait for the admitted
   ones before they drain. *)

beginEnqueue == ~quit
SeesQuit == quit
Room == Len(sendChan) < SendBuffer
Admitted == (IF in.at = "sending" THEN 1 ELSE 0) + (IF nq.at = "sending" THEN 1 ELSE 0)
            + (IF mgr.at = "queueing" THEN 1 ELSE 0)
            + Cardinality({ i \in Slots : svc[i].at = "sending" })

\* Disconnect of the client: marks it, closes quit and the connection.
Disconnected == quit' = TRUE /\ conn' = "closed"

-----------------------------------------------------------------------------
(* inHandler *)

SemTaken == Cardinality({ i \in Slots : svc[i].at # "free" }) + (IF in.sem THEN 1 ELSE 0)

Dropped == in' = [in EXCEPT !.at = "out"]

\* A single message is gated at once; a batch waits for the semaphore.
ReadMessage(m) ==
    /\ in.at = "read" /\ ~quit /\ conn = "open" /\ msgs < MaxMsgs
    /\ msgs' = msgs + 1
    /\ IF m.batch
       THEN in' = [in EXCEPT !.at = "acquire", !.batch = m.reqs, !.isBatch = TRUE] /\ UNCHANGED auth
       ELSE LET k == m.reqs[1]
                g == Gate(auth, k)
            IN /\ auth' = IF g = "login" THEN Login(k) ELSE auth
               /\ CASE g = "drop" -> Dropped
                    [] g = "ignore" -> UNCHANGED in
                    [] g \in {"error", "login"} -> in' = [in EXCEPT !.at = "send"]
                    [] g = "serve" -> in' = [in EXCEPT !.at = "acquire", !.batch = <<k>>, !.isBatch = FALSE]
    /\ UNCHANGED <<conn, quit, svc, nq, ntfnChan, sendChan, out, mgr, wrote, served>>

ReadFails ==
    /\ in.at = "read" /\ (quit \/ conn = "closed")
    /\ Dropped
    /\ UNCHANGED <<conn, quit, auth, svc, nq, ntfnChan, sendChan, out, mgr, wrote, served, msgs>>

\* serviceRequestAsync, or the batch taking a slot for itself.
Acquire ==
    /\ in.at = "acquire"
    /\ \/ /\ quit /\ Dropped /\ UNCHANGED svc
       \/ /\ ~quit /\ SemTaken < RPCMaxConcurrentReqs
          /\ IF in.isBatch THEN in' = [in EXCEPT !.at = "batch", !.sem = TRUE] /\ UNCHANGED svc
             ELSE \E i \in Slots :
                    /\ svc[i].at = "free" /\ \A j \in 1..(i - 1) : svc[j].at # "free"
                    /\ svc' = [svc EXCEPT ![i] = [at |-> "run", kind |-> in.batch[1]]]
                    /\ in' = [in EXCEPT !.at = "read", !.batch = <<>>]
    /\ UNCHANGED <<conn, quit, auth, nq, ntfnChan, sendChan, out, mgr, wrote, served, msgs>>

\* One entry of the batch; commands are run by the handler itself.
BatchEntry ==
    /\ in.at = "batch"
    /\ IF in.batch = <<>> THEN in' = [in EXCEPT !.at = "send"] /\ UNCHANGED <<auth, served>>
       ELSE LET k == Head(in.batch)
                g == Gate(auth, k)
            IN /\ auth' = IF g = "login" THEN Login(k) ELSE auth
               /\ served' = IF g = "serve" THEN served \cup {<<auth, k>>} ELSE served
               /\ (g = "serve" /\ k = "longpoll") => quit
               /\ in' = IF g = "drop" THEN [in EXCEPT !.at = "out"] ELSE [in EXCEPT !.batch = Tail(@)]
    /\ UNCHANGED <<conn, quit, svc, nq, ntfnChan, sendChan, out, mgr, wrote, msgs>>

\* SendMessage of a reply, then on to the next message (a batch gives its
\* slot back).
InSends ==
    /\ \/ /\ in.at = "send" /\ beginEnqueue /\ in' = [in EXCEPT !.at = "sending"] /\ UNCHANGED sendChan
       \/ /\ in.at = "send" /\ ~beginEnqueue /\ in' = [in EXCEPT !.at = "read", !.sem = FALSE]
          /\ UNCHANGED sendChan
       \/ /\ in.at = "sending" /\ Room
          /\ sendChan' = Append(sendChan, Reply)
          /\ in' = [in EXCEPT !.at = "read", !.sem = FALSE]
       \/ /\ in.at = "sending" /\ SeesQuit
          /\ in' = [in EXCEPT !.at = "read", !.sem = FALSE] /\ UNCHANGED sendChan
    /\ UNCHANGED <<conn, quit, auth, svc, nq, ntfnChan, out, mgr, wrote, served, msgs>>

InEnds ==
    /\ in.at = "out"
    /\ in' = [in EXCEPT !.at = "done"]
    /\ Disconnected
    /\ UNCHANGED <<auth, svc, nq, ntfnChan, sendChan, out, mgr, wrote, served, msgs>>

-----------------------------------------------------------------------------
(* A goroutine serving one command; a long poll waits for quit at worst. *)

serviceRequest(i) ==
    /\ \/ /\ svc[i].at = "run" /\ (svc[i].kind = "longpoll" => quit)
          /\ served' = served \cup {<<auth, svc[i].kind>>}
          /\ svc' = [svc EXCEPT ![i].at = "send"] /\ UNCHANGED sendChan
       \/ /\ svc[i].at = "send"
          /\ svc' = [svc EXCEPT ![i].at = IF beginEnqueue THEN "sending" ELSE "free"]
          /\ UNCHANGED <<sendChan, served>>
       \/ /\ svc[i].at = "sending" /\ Room
          /\ sendChan' = Append(sendChan, Reply)
          /\ svc' = [svc EXCEPT ![i].at = "free"] /\ UNCHANGED served
       \/ /\ svc[i].at = "sending" /\ SeesQuit
          /\ svc' = [svc EXCEPT ![i].at = "free"] /\ UNCHANGED <<sendChan, served>>
    /\ UNCHANGED <<conn, quit, auth, in, nq, ntfnChan, out, mgr, wrote, msgs>>

-----------------------------------------------------------------------------
(* notificationQueueHandler *)

NextPending(p) == Head(p)

\* A notification from the manager goes straight out when none is on its way.
NtfnArrives ==
    /\ nq.at = "run" /\ ntfnChan # <<>>
    /\ ntfnChan' = <<>>
    /\ nq' = IF nq.waiting THEN [nq EXCEPT !.pending = Append(@, Head(ntfnChan))]
             ELSE [nq EXCEPT !.at = "send", !.msg = Head(ntfnChan), !.waiting = TRUE]
    /\ UNCHANGED <<conn, quit, auth, in, svc, sendChan, out, mgr, wrote, served, msgs>>

NtfnSent ==
    /\ nq.at = "run" /\ nq.sent
    /\ nq' = IF nq.pending = <<>> THEN [nq EXCEPT !.sent = FALSE, !.waiting = FALSE]
             ELSE LET n == NextPending(nq.pending) IN
                  [nq EXCEPT !.sent = FALSE, !.at = "send", !.msg = n,
                             !.pending = SelectSeq(@, LAMBDA x : x # n)]
    /\ UNCHANGED <<conn, quit, auth, in, svc, ntfnChan, sendChan, out, mgr, wrote, served, msgs>>

NtfnSends ==
    /\ \/ /\ nq.at = "send" /\ beginEnqueue /\ nq' = [nq EXCEPT !.at = "sending"] /\ UNCHANGED sendChan
       \/ /\ nq.at = "sending" /\ Room
          /\ sendChan' = Append(sendChan, nq.msg) /\ nq' = [nq EXCEPT !.at = "run"]
       \/ /\ nq.at \in {"send", "sending"} /\ SeesQuit
          /\ nq' = [nq EXCEPT !.at = "run", !.sent = TRUE] /\ UNCHANGED sendChan
    /\ UNCHANGED <<conn, quit, auth, in, svc, ntfnChan, out, mgr, wrote, served, msgs>>

\* On quit: wait for the admitted senders, drain, done.
NtfnEnds ==
    /\ \/ nq.at = "run" /\ quit /\ nq' = [nq EXCEPT !.at = "wait"] /\ UNCHANGED ntfnChan
       \/ nq.at = "wait" /\ Admitted = 0 /\ nq' = [nq EXCEPT !.at = "done"] /\ ntfnChan' = <<>>
    /\ UNCHANGED <<conn, quit, auth, in, svc, sendChan, out, mgr, wrote, served, msgs>>

-----------------------------------------------------------------------------
(* outHandler *)

OutTakes ==
    /\ out.at = "run" /\ sendChan # <<>>
    /\ out' = [at |-> "write", msg |-> Head(sendChan)]
    /\ sendChan' = Tail(sendChan)
    /\ UNCHANGED <<conn, quit, auth, in, svc, nq, ntfnChan, mgr, wrote, served, msgs>>

\* A write ends when the remote end reads, or fails once the connection is
\* closed; a sent notification is signalled.
OutWrites ==
    /\ out.at = "write" /\ conn # "stalled"
    /\ IF conn = "closed"
       THEN /\ out' = [out EXCEPT !.at = "wait"] /\ Disconnected /\ UNCHANGED <<nq, wrote>>
       ELSE /\ out' = [out EXCEPT !.at = "run"]
            /\ IF out.msg = Reply THEN UNCHANGED <<nq, wrote>>
               ELSE nq' = [nq EXCEPT !.sent = TRUE] /\ wrote' = Append(wrote, out.msg)
            /\ UNCHANGED <<quit, conn>>
    /\ UNCHANGED <<auth, in, svc, ntfnChan, sendChan, mgr, served, msgs>>

OutEnds ==
    /\ \/ out.at = "run" /\ quit /\ out' = [out EXCEPT !.at = "wait"] /\ UNCHANGED <<sendChan, nq>>
       \/ /\ out.at = "wait" /\ Admitted = 0
          /\ out' = [out EXCEPT !.at = "done"]
          /\ sendChan' = <<>>
          /\ nq' = [nq EXCEPT !.sent = @ \/ \E i \in DOMAIN sendChan : sendChan[i] # Reply]
    /\ UNCHANGED <<conn, quit, auth, in, svc, ntfnChan, mgr, wrote, served, msgs>>

-----------------------------------------------------------------------------
(* The notification manager queues to the client; it serves every client, so
   while it is inside QueueNotification no other client is served. *)

QueueNotification ==
    /\ \/ /\ mgr.at = "idle" /\ mgr.n < MaxNtfns
          /\ mgr' = IF beginEnqueue THEN [mgr EXCEPT !.at = "queueing", !.n = @ + 1]
                    ELSE [mgr EXCEPT !.n = @ + 1]
          /\ UNCHANGED ntfnChan
       \/ /\ mgr.at = "queueing" /\ ntfnChan = <<>>
          /\ ntfnChan' = <<mgr.n>> /\ mgr' = [mgr EXCEPT !.at = "idle"]
       \/ /\ mgr.at = "queueing" /\ SeesQuit
          /\ mgr' = [mgr EXCEPT !.at = "idle"] /\ UNCHANGED ntfnChan
    /\ UNCHANGED <<conn, quit, auth, in, svc, nq, sendChan, out, wrote, served, msgs>>

\* The remote end closes the connection or stops reading, the server
\* disconnects the client when it shuts down.
RemoteCloses ==
    /\ conn # "closed" /\ conn' = "closed"
    /\ UNCHANGED <<quit, auth, in, svc, nq, ntfnChan, sendChan, out, mgr, wrote, served, msgs>>

RemoteStalls ==
    /\ Stalls /\ conn = "open" /\ conn' = "stalled"
    /\ UNCHANGED <<quit, auth, in, svc, nq, ntfnChan, sendChan, out, mgr, wrote, served, msgs>>

ServerDisconnects ==
    /\ ~quit /\ Disconnected
    /\ UNCHANGED <<auth, in, svc, nq, ntfnChan, sendChan, out, mgr, wrote, served, msgs>>

-----------------------------------------------------------------------------
WcInit ==
    /\ conn = "open" /\ quit = FALSE /\ auth \in {"none", "limited", "admin"}
    /\ in = [at |-> "read", batch |-> <<>>, isBatch |-> FALSE, sem |-> FALSE]
    /\ svc = [i \in Slots |-> [at |-> "free", kind |-> "full"]]
    /\ nq = [at |-> "run", pending |-> <<>>, waiting |-> FALSE, sent |-> FALSE, msg |-> Reply]
    /\ ntfnChan = <<>> /\ sendChan = <<>>
    /\ out = [at |-> "run", msg |-> Reply]
    /\ mgr = [at |-> "idle", n |-> 0]
    /\ wrote = <<>> /\ served = {} /\ msgs = 0

inHandler == (\E m \in Messages : ReadMessage(m)) \/ ReadFails \/ Acquire \/ BatchEntry \/ InSends \/ InEnds
notificationQueueHandler == NtfnArrives \/ NtfnSent \/ NtfnSends \/ NtfnEnds
outHandler == OutTakes \/ OutWrites \/ OutEnds

WcNext ==
    \/ inHandler \/ notificationQueueHandler \/ outHandler \/ QueueNotification
    \/ (\E i \in Slots : serviceRequest(i))
    \/ RemoteCloses \/ RemoteStalls \/ ServerDisconnects

WcSpec == WcInit /\ [][WcNext]_wcVars

\* The goroutines are scheduled fairly; the remote end owes nothing.
FairWc == /\ WF_wcVars(ReadFails \/ Acquire \/ BatchEntry \/ InSends \/ InEnds)
          /\ WF_wcVars(notificationQueueHandler) /\ WF_wcVars(outHandler)
          /\ WF_wcVars(mgr.at = "queueing" /\ QueueNotification)
          /\ \A i \in Slots : WF_wcVars(serviceRequest(i))
WcFairSpec == WcSpec /\ FairWc

-----------------------------------------------------------------------------
(* Properties. *)

\* A command is run only for an authenticated client whose role allows it,
\* whether it comes alone or in a batch, at most RPCMaxConcurrentReqs are
\* served at a time, and the notifications written are, in order, the first
\* ones the manager queued.
ClientServedSafely ==
    /\ \A s \in served : s[1] = "admin" \/ (s[1] = "limited" /\ s[2] = "limited")
    /\ SemTaken <= RPCMaxConcurrentReqs
    /\ Len(sendChan) <= SendBuffer
    /\ wrote = [i \in 1..Len(wrote) |-> i]

\* Once the client is disconnected all of its goroutines end, whatever they were
\* waiting for, and the manager is not held in QueueNotification.
Ended == /\ in.at = "done" /\ nq.at = "done" /\ out.at = "done" /\ mgr.at = "idle"
         /\ \A i \in Slots : svc[i].at = "free"
Quitting == quit
ClientEnds == Quitting ~> Ended
=============================================================================
