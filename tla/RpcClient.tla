----------------------------- MODULE RpcClient ------------------------------
(***************************************************************************)
(* The RPC client (rpcclient/infrastructure.go).  Every request has a      *)
(* future, a channel of one response.  Over a websocket the requests are   *)
(* kept in a list until they are answered, and a lost connection is dialed *)
(* again: the handlers of the new connection run beside what is left of    *)
(* the old ones, while another goroutine registers for the notifications   *)
(* again and resends the list.  In HTTP POST mode one goroutine posts the  *)
(* requests in order, with retries, alone or as one batch.                 *)
(***************************************************************************)
EXTENDS Integers, Sequences, FiniteSets, SequencesExt

CONSTANTS Modes,       \* of {"ws", "post", "batch"}
          AutoReconnect, \* the negation of DisableAutoReconnect
          MethodOf,    \* sequence of the methods the caller's requests invoke
          SendBuffer,  \* sendBufferSize, sendPostBufferSize
          Tries,       \* attempts to post a request
          MaxConns     \* bound on the websocket connections made

VARIABLES
    mode,      \* how the client was configured
    shutdown,  \* the shutdown channel is closed
    conn,      \* current connection, the flag disconnected, and those closed
    list,      \* requestList (batchList in batch mode), oldest first
    chan,      \* sendChan (sendPostChan in HTTP POST modes)
    fut,       \* per request: what lies in its channel and what was received
    caller,    \* per request: the goroutine sending it
    inH, outH, \* wsInHandler and wsOutHandler of each connection
    dial,      \* wsReconnectHandler
    resend,    \* resendRequests of each connection
    ntfnState, \* registrations to establish again
    server,    \* per connection: requests to answer, replies sent, registered
    post       \* sendPostHandler and the batch being sent

rcVars == <<mode, shutdown, conn, list, chan, fut, caller, inH, outH, dial, resend, ntfnState, server, post>>

Conns == 1..MaxConns
Users == DOMAIN MethodOf
\* Requests: the caller's, one by the resend goroutine of each connection, and
\* 0, the batch itself.
Rereg(g) == Len(MethodOf) + g
Requests == 0..(Len(MethodOf) + MaxConns)
Method(i) == IF i \in Users THEN MethodOf[i] ELSE "again"
None == "none"

-----------------------------------------------------------------------------
(* Futures and the request list. *)

\* The channel of a future holds one response: a second one waits for room.
Free(i) == fut[i].chan = None
Answered(f, i, r) == [f EXCEPT ![i].chan = r]
AllAnswered(f, is, r) == [i \in DOMAIN f |-> IF i \in is THEN [f[i] EXCEPT !.chan = r] ELSE f[i]]

removeRequest(i) == list' = SelectSeq(list, LAMBDA x : x # i)
Listed(i) == i \in Range(list)

\* A registration that succeeded is remembered; registering again asks for
\* all that is remembered at once.
trackRegisteredNtfns(i) ==
    CASE i \in Users /\ Method(i) \in {"notifyblocks", "notifyspent"} -> ntfnState \cup {Method(i)}
      [] OTHER -> ntfnState

-----------------------------------------------------------------------------
(* Disconnecting. *)

Closed(g) == g \in conn.closed
Broken(g) == Closed(g) \/ g \in conn.dead

doDisconnect == conn' = [conn EXCEPT !.disconnected = TRUE, !.closed = @ \cup {conn.cur}]

\* The rest of Disconnect, under the request lock, once doDisconnect did it.
EndsClient == ~AutoReconnect
AnswerPending ==
    IF EndsClient
    THEN /\ shutdown' = TRUE /\ list' = <<>>
         /\ fut' = AllAnswered(fut, Range(list), "disconnect")
    ELSE UNCHANGED <<shutdown, list, fut>>

\* Disconnect of a goroutine that is at "disc": nothing is left to do when
\* the client is disconnected already.
AfterDisconnect == IF conn.disconnected THEN "disconnected" ELSE "pending"

-----------------------------------------------------------------------------
(* The caller of SendCmd over a websocket. *)

\* addRequest, under the request lock.
addRequest(i) ==
    /\ mode = "ws" /\ caller[i].at = "new"
    /\ IF shutdown THEN /\ fut' = Answered(fut, i, "shutdown")
                        /\ caller' = [caller EXCEPT ![i].at = "done"] /\ UNCHANGED list
       ELSE /\ list' = Append(list, i)
            /\ caller' = [caller EXCEPT ![i].at = "send"] /\ UNCHANGED fut
    /\ UNCHANGED <<mode, shutdown, conn, chan, inH, outH, dial, resend, ntfnState, server, post>>

\* sendMessage takes the disconnect channel of the moment, then waits for room
\* or for that channel.
sendMessage(i) ==
    /\ mode = "ws"
    /\ \/ /\ caller[i].at = "send"
          /\ caller' = [caller EXCEPT ![i] = [at |-> "sending", on |-> conn.cur]] /\ UNCHANGED chan
       \/ /\ caller[i].at = "sending" /\ Len(chan) < SendBuffer
          /\ chan' = Append(chan, i) /\ caller' = [caller EXCEPT ![i].at = "done"]
       \/ /\ caller[i].at = "sending" /\ Closed(caller[i].on)
          /\ caller' = [caller EXCEPT ![i].at = "done"] /\ UNCHANGED chan
    /\ UNCHANGED <<mode, shutdown, conn, list, fut, inH, outH, dial, resend, ntfnState, server, post>>

Receive(i) ==
    /\ ~Free(i) /\ i \in Users
    /\ fut' = [fut EXCEPT ![i] = [chan |-> None, got |-> Append(@.got, fut[i].chan)]]
    /\ UNCHANGED <<mode, shutdown, conn, list, chan, caller, inH, outH, dial, resend, ntfnState, server, post>>

\* Shutdown, under the request lock throughout.
Shutdown ==
    /\ ~shutdown
    /\ shutdown' = TRUE
    /\ \A i \in Range(list) : Free(i)
    /\ IF mode = "ws" THEN /\ fut' = AllAnswered(fut, Range(list), "shutdown") /\ list' = <<>>
                           /\ IF conn.disconnected THEN UNCHANGED conn ELSE doDisconnect
       ELSE UNCHANGED <<fut, list, conn>>
    /\ UNCHANGED <<mode, chan, caller, inH, outH, dial, resend, ntfnState, server, post>>

-----------------------------------------------------------------------------
(* wsInHandler of connection g: the connection it reads is the client's
   current one at the time of each read. *)

In(g, at) == inH' = [inH EXCEPT ![g].at = at]
\* The top of the loop: out on shutdown, else a read on the connection of now.
InLoops(g) == inH' = [inH EXCEPT ![g] = IF shutdown THEN [@ EXCEPT !.at = "disc", !.msg = None]
                                        ELSE [at |-> "read", on |-> conn.cur, msg |-> None]]

InReads(g) ==
    /\ inH[g].at = "read"
    /\ LET k == inH[g].on IN
       \/ Broken(k) /\ In(g, "disc") /\ UNCHANGED server
       \/ \E r \in server[k].replies :
            /\ ~Closed(k)
            /\ inH' = [inH EXCEPT ![g].at = "handle", ![g].msg = r]
            /\ server' = [server EXCEPT ![k].replies = @ \ {r}]
    /\ UNCHANGED <<mode, shutdown, conn, list, chan, fut, caller, outH, dial, resend, ntfnState, post>>

\* A reply nobody waits for any more is dropped.
handleMessage(g) ==
    /\ inH[g].at = "handle" /\ InLoops(g)
    /\ LET i == inH[g].msg.id
           ok == inH[g].msg.ok
       IN IF ~Listed(i) THEN UNCHANGED <<list, fut, ntfnState>>
          ELSE /\ removeRequest(i) /\ Free(i)
               /\ ntfnState' = IF ok THEN trackRegisteredNtfns(i) ELSE ntfnState
               /\ fut' = Answered(fut, i, IF ok THEN "ok" ELSE "error")
    /\ UNCHANGED <<mode, shutdown, conn, chan, caller, outH, dial, resend, server, post>>

InDisconnects(g) ==
    /\ \/ /\ inH[g].at = "disc"
          /\ In(g, IF AfterDisconnect = "pending" THEN "pending" ELSE "done")
          /\ IF AfterDisconnect = "pending" THEN doDisconnect ELSE UNCHANGED conn
          /\ UNCHANGED <<shutdown, list, fut>>
       \/ inH[g].at = "pending" /\ In(g, "done") /\ AnswerPending /\ UNCHANGED conn
    /\ UNCHANGED <<mode, chan, caller, outH, dial, resend, ntfnState, server, post>>

wsInHandler(g) == InReads(g) \/ handleMessage(g) \/ InDisconnects(g)

-----------------------------------------------------------------------------
(* wsOutHandler of connection g; it writes on the current connection, and
   empties the send channel when it ends. *)

Out(g, at) == outH' = [outH EXCEPT ![g].at = at]

OutSelects(g) ==
    /\ \/ /\ outH[g].at = "select" /\ chan # <<>>
          /\ outH' = [outH EXCEPT ![g].at = "write", ![g].msg = Head(chan)] /\ chan' = Tail(chan)
       \/ outH[g].at = "select" /\ Closed(outH[g].on) /\ Out(g, "drain") /\ UNCHANGED chan
       \/ outH[g].at = "drain" /\ chan' = <<>> /\ Out(g, "done")
    /\ UNCHANGED <<mode, shutdown, conn, list, fut, caller, inH, dial, resend, ntfnState, server, post>>

OutWrites(g) ==
    /\ outH[g].at = "write"
    /\ IF Broken(conn.cur) THEN Out(g, "disc") /\ UNCHANGED server
       ELSE /\ outH' = [outH EXCEPT ![g].at = "select", ![g].on = conn.cur, ![g].msg = None]
            /\ server' = [server EXCEPT ![conn.cur].todo = @ \cup {outH[g].msg}]
    /\ UNCHANGED <<mode, shutdown, conn, list, chan, fut, caller, inH, dial, resend, ntfnState, post>>

OutDisconnects(g) ==
    /\ \/ /\ outH[g].at = "disc"
          /\ Out(g, IF AfterDisconnect = "pending" THEN "pending" ELSE "drain")
          /\ IF AfterDisconnect = "pending" THEN doDisconnect ELSE UNCHANGED conn
          /\ UNCHANGED <<shutdown, list, fut>>
       \/ outH[g].at = "pending" /\ Out(g, "drain") /\ AnswerPending /\ UNCHANGED conn
    /\ UNCHANGED <<mode, chan, caller, inH, dial, resend, ntfnState, server, post>>

wsOutHandler(g) == OutSelects(g) \/ OutWrites(g) \/ OutDisconnects(g)

-----------------------------------------------------------------------------
(* wsReconnectHandler: a failed dial is tried again. *)

wsReconnectHandler ==
    /\ AutoReconnect
    /\ \/ /\ dial = "wait" /\ (shutdown \/ conn.disconnected)
          /\ \/ shutdown /\ dial' = "done"
             \/ ~shutdown /\ conn.disconnected /\ dial' = "dial"
          /\ UNCHANGED <<conn, inH, outH, resend>>
       \/ /\ dial = "dial" /\ conn.cur < MaxConns
          /\ dial' = "wait"
          /\ conn' = [conn EXCEPT !.cur = @ + 1, !.disconnected = FALSE]
          /\ inH' = [inH EXCEPT ![conn.cur + 1] = [at |-> "read", on |-> conn.cur + 1, msg |-> None]]
          /\ outH' = [outH EXCEPT ![conn.cur + 1] = [at |-> "select", on |-> conn.cur + 1, msg |-> None]]
          /\ resend' = [resend EXCEPT ![conn.cur + 1].at = "copy"]
    /\ UNCHANGED <<mode, shutdown, list, chan, fut, caller, ntfnState, server, post>>

-----------------------------------------------------------------------------
(* resendRequests on connection g. *)

ignoreResends == {"rescan"}
Kept(is) == SelectSeq(is, LAMBDA i : Method(i) \notin ignoreResends)

Re(g, at) == resend' = [resend EXCEPT ![g].at = at]

AfterReregister(r) == IF r = "ok" THEN "collect" ELSE "disc"

\* reregisterNtfns asks for a copy of the state and waits for the reply.
reregisterNtfns(g) ==
    LET i == Rereg(g) IN
    /\ \/ /\ resend[g].at = "copy"
          /\ resend' = [resend EXCEPT ![g].at = IF ntfnState = {} THEN "collect" ELSE "register",
                                      ![g].state = ntfnState]
          /\ UNCHANGED <<list, chan, fut>>
       \/ /\ resend[g].at = "register"
          /\ IF shutdown THEN fut' = Answered(fut, i, "shutdown") /\ Re(g, "await") /\ UNCHANGED list
             ELSE list' = Append(list, i) /\ Re(g, "send") /\ UNCHANGED fut
          /\ UNCHANGED chan
       \/ /\ resend[g].at = "send"
          /\ resend' = [resend EXCEPT ![g].at = "sending", ![g].on = conn.cur] /\ UNCHANGED <<list, chan, fut>>
       \/ /\ resend[g].at = "sending"
          /\ \/ Len(chan) < SendBuffer /\ chan' = Append(chan, i)
             \/ Closed(resend[g].on) /\ UNCHANGED chan
          /\ Re(g, "await") /\ UNCHANGED <<list, fut>>
       \/ /\ resend[g].at = "await" /\ ~Free(i)
          /\ Re(g, AfterReregister(fut[i].chan))
          /\ fut' = [fut EXCEPT ![i] = [chan |-> None, got |-> Append(@.got, fut[i].chan)]]
          /\ UNCHANGED <<list, chan>>
    /\ UNCHANGED <<mode, shutdown, conn, caller, inH, outH, dial, ntfnState, server, post>>

\* What is not to be sent again is removed from the list.
CollectResends(g) ==
    /\ resend[g].at = "collect"
    /\ list' = Kept(list)
    /\ resend' = [resend EXCEPT ![g].at = "resend", ![g].todo = Kept(list)]
    /\ UNCHANGED <<mode, shutdown, conn, chan, fut, caller, inH, outH, dial, ntfnState, server, post>>

Resends(g) ==
    /\ \/ /\ resend[g].at = "resend"
          /\ resend' = IF resend[g].todo = <<>> \/ conn.disconnected THEN [resend EXCEPT ![g].at = "done"]
                       ELSE [resend EXCEPT ![g].at = "resending", ![g].on = conn.cur]
          /\ UNCHANGED chan
       \/ /\ resend[g].at = "resending"
          /\ \/ Len(chan) < SendBuffer /\ chan' = Append(chan, Head(resend[g].todo))
             \/ Closed(resend[g].on) /\ UNCHANGED chan
          /\ resend' = [resend EXCEPT ![g].at = "resend", ![g].todo = Tail(@)]
    /\ UNCHANGED <<mode, shutdown, conn, list, fut, caller, inH, outH, dial, ntfnState, server, post>>

ResendDisconnects(g) ==
    /\ \/ /\ resend[g].at = "disc"
          /\ Re(g, IF AfterDisconnect = "pending" THEN "pending" ELSE "done")
          /\ IF AfterDisconnect = "pending" THEN doDisconnect ELSE UNCHANGED conn
          /\ UNCHANGED <<shutdown, list, fut>>
       \/ resend[g].at = "pending" /\ Re(g, "done") /\ AnswerPending /\ UNCHANGED conn
    /\ UNCHANGED <<mode, chan, caller, inH, outH, dial, ntfnState, server, post>>

resendRequests(g) == reregisterNtfns(g) \/ CollectResends(g) \/ Resends(g) \/ ResendDisconnects(g)

-----------------------------------------------------------------------------
(* The RPC server at the other end: it answers what it received, with an error
   or not, in any order, and the connection may break at any time. *)

ServerAnswers(g) ==
    /\ ~Broken(g)
    /\ \E i \in server[g].todo, ok \in BOOLEAN :
         LET asked == IF i \in Users THEN {Method(i)} ELSE resend[i - Len(MethodOf)].state IN
         server' = [server EXCEPT ![g] =
             [todo |-> @.todo \ {i}, replies |-> @.replies \cup {[id |-> i, ok |-> ok]},
              registered |-> IF ok THEN @.registered \cup asked ELSE @.registered]]
    /\ UNCHANGED <<mode, shutdown, conn, list, chan, fut, caller, inH, outH, dial, resend, ntfnState, post>>

ConnectionBreaks ==
    /\ mode = "ws" /\ ~Broken(conn.cur)
    /\ conn' = [conn EXCEPT !.dead = @ \cup {conn.cur}]
    /\ UNCHANGED <<mode, shutdown, list, chan, fut, caller, inH, outH, dial, resend, ntfnState, server, post>>

-----------------------------------------------------------------------------
(* HTTP POST modes. *)

\* sendPostRequest: after answering on shutdown it goes on to the second
\* select like any other.
sendPostRequest(i) ==
    /\ mode # "ws"
    /\ \/ /\ caller[i].at = "new" /\ (mode = "batch" => i = 0)
          /\ caller' = [caller EXCEPT ![i].at = "posting"]
          /\ fut' = IF shutdown THEN Answered(fut, i, "shutdown") ELSE fut
          /\ UNCHANGED chan
       \/ /\ caller[i].at = "posting"
          /\ \/ Len(chan) < SendBuffer /\ chan' = Append(chan, i)
             \/ shutdown /\ UNCHANGED chan
          /\ caller' = [caller EXCEPT ![i].at = "done"] /\ UNCHANGED fut
    /\ UNCHANGED <<mode, shutdown, conn, list, inH, outH, dial, resend, ntfnState, server, post>>

\* handleSendPostMessage, one attempt at a time; each failed attempt but the
\* last is followed by a pause that shutting down cuts short.
handleSendPostMessage ==
    LET i == post.msg IN
    /\ \/ /\ post.at = "do" /\ Free(i)
          /\ \E r \in {"ok", "error"} : fut' = Answered(fut, i, r)
          /\ post' = [post EXCEPT !.at = "select"]
       \/ /\ post.at = "do" /\ post.try < Tries
          /\ post' = [post EXCEPT !.at = "backoff"] /\ UNCHANGED fut
       \/ /\ post.at = "backoff"
          /\ post' = [post EXCEPT !.at = "do", !.try = @ + 1] /\ UNCHANGED fut
       \/ /\ post.at = "backoff" /\ shutdown
          /\ post' = [post EXCEPT !.at = "select"] /\ UNCHANGED fut
    /\ UNCHANGED <<mode, shutdown, conn, list, chan, caller, inH, outH, dial, resend, ntfnState, server>>

sendPostHandler ==
    /\ \/ /\ post.at = "select" /\ chan # <<>>
          /\ post' = [at |-> "do", msg |-> Head(chan), try |-> 1] /\ chan' = Tail(chan)
          /\ UNCHANGED fut
       \/ /\ post.at = "select" /\ shutdown
          /\ post' = [post EXCEPT !.at = "drain"] /\ UNCHANGED <<chan, fut>>
       \/ /\ post.at = "drain" /\ chan # <<>> /\ Free(Head(chan))
          /\ fut' = Answered(fut, Head(chan), "shutdown") /\ chan' = Tail(chan) /\ UNCHANGED post
       \/ /\ post.at = "drain" /\ chan = <<>>
          /\ post' = [post EXCEPT !.at = "done"] /\ UNCHANGED <<chan, fut>>
    /\ UNCHANGED <<mode, shutdown, conn, list, caller, inH, outH, dial, resend, ntfnState, server>>

\* A batch client only collects its requests; what cannot be added any more is
\* logged.
CollectRequest(i) ==
    /\ mode = "batch" /\ caller[i].at = "new" /\ i \in Users
    /\ caller[0].at \notin {"new", "posting"}
    /\ caller' = [caller EXCEPT ![i].at = "done"]
    /\ list' = IF shutdown THEN list ELSE Append(list, i)
    /\ UNCHANGED <<mode, shutdown, conn, chan, fut, inH, outH, dial, resend, ntfnState, server, post>>

\* sendAsync, then Send's wait for the batch: each request it held is taken
\* off the list and answered, or the list is emptied.
Send ==
    /\ mode = "batch"
    /\ \/ /\ caller[0].at = "idle" /\ list # <<>>
          /\ caller' = [caller EXCEPT ![0] = [at |-> "new", on |-> Len(list)]]
          /\ UNCHANGED <<list, fut>>
       \/ /\ caller[0].at = "done" /\ ~Free(0)
          /\ LET sent == SubSeq(list, 1, caller[0].on) IN
             IF fut[0].chan = "ok"
             THEN /\ \A i \in Range(sent) : Free(i)
                  /\ fut' = [AllAnswered(fut, Range(sent), "ok") EXCEPT ![0].chan = None]
                  /\ list' = SubSeq(list, caller[0].on + 1, Len(list))
             ELSE fut' = [fut EXCEPT ![0].chan = None] /\ list' = <<>>
          /\ caller' = [caller EXCEPT ![0].at = "idle"]
    /\ UNCHANGED <<mode, shutdown, conn, chan, inH, outH, dial, resend, ntfnState, server, post>>

-----------------------------------------------------------------------------
RcInit ==
    /\ mode \in Modes /\ shutdown = FALSE
    /\ conn = [cur |-> 1, disconnected |-> FALSE, closed |-> {}, dead |-> {}]
    /\ list = <<>> /\ chan = <<>>
    /\ fut = [i \in Requests |-> [chan |-> None, got |-> <<>>]]
    /\ caller = [i \in Users \cup {0} |-> [at |-> IF i = 0 THEN "idle" ELSE "new", on |-> 1]]
    /\ inH = [g \in Conns |-> [at |-> IF g = 1 /\ mode = "ws" THEN "read" ELSE "off", on |-> 1, msg |-> None]]
    /\ outH = [g \in Conns |-> [at |-> IF g = 1 /\ mode = "ws" THEN "select" ELSE "off", on |-> 1, msg |-> None]]
    /\ dial = "wait"
    /\ resend = [g \in Conns |-> [at |-> "off", on |-> 1, state |-> {}, todo |-> <<>>]]
    /\ ntfnState = {}
    /\ server = [g \in Conns |-> [todo |-> {}, replies |-> {}, registered |-> {}]]
    /\ post = [at |-> IF mode = "ws" THEN "off" ELSE "select", msg |-> None, try |-> 1]

WsNext == \/ \E i \in Users : addRequest(i) \/ sendMessage(i)
          \/ \E g \in Conns : wsInHandler(g) \/ wsOutHandler(g) \/ resendRequests(g) \/ ServerAnswers(g)
          \/ wsReconnectHandler \/ ConnectionBreaks
PostNext == \/ \E i \in Users \cup {0} : sendPostRequest(i)
            \/ \E i \in Users : CollectRequest(i)
            \/ handleSendPostMessage \/ sendPostHandler \/ Send
RcNext == (mode = "ws" /\ WsNext) \/ PostNext \/ Shutdown \/ \E i \in Users : Receive(i)

RcSpec == RcInit /\ [][RcNext]_rcVars

\* The client's goroutines run and its callers receive; the server answers
\* what a connection that lasts delivered to it.
FairRc == /\ \A i \in Users : WF_rcVars(sendMessage(i)) /\ WF_rcVars(Receive(i))
          /\ \A g \in Conns : /\ WF_rcVars(wsInHandler(g)) /\ WF_rcVars(wsOutHandler(g))
                              /\ WF_rcVars(resendRequests(g)) /\ WF_rcVars(ServerAnswers(g))
          /\ WF_rcVars(wsReconnectHandler)
          /\ \A i \in Users \cup {0} : WF_rcVars(sendPostRequest(i))
          /\ WF_rcVars(handleSendPostMessage) /\ WF_rcVars(sendPostHandler)
RcFairSpec == RcSpec /\ FairRc

-----------------------------------------------------------------------------
(* Properties. *)

Responses(i) == Len(fut[i].got) + (IF Free(i) THEN 0 ELSE 1)

\* Over a websocket and in a batch a future never gets two responses, however
\* replies, a lost connection, a resend and a shutdown overlap; and once a
\* websocket client is shut down, every request that was sent has one, but for
\* the long-running ones that a reconnect forgot.
AnsweredOnce ==
    /\ mode # "post" => \A i \in Users : Responses(i) <= 1
    /\ (mode = "ws" /\ shutdown) =>
          \A i \in Users : (caller[i].at # "new" /\ Method(i) \notin ignoreResends) =>
              Responses(i) = 1 \/ \E g \in Conns : inH[g].at = "handle" /\ inH[g].msg.id = i

\* When the requests are resent after a reconnect, the server has registered
\* this connection for all the notifications that had been registered when
\* the client looked.
RegistrationsRestored ==
    \A g \in Conns : resend[g].at \in {"collect", "resend"} /\ conn.cur = g =>
        resend[g].state \subseteq server[g].registered

\* Every request a caller sends is answered at last: by the server, or because
\* the client was disconnected or shut down.
Sent(i) == caller[i].at # "new"
FuturesAnswered == \A i \in Users : Sent(i) ~> Responses(i) > 0
====
