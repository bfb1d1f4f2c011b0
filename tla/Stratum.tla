------------------------------ MODULE Stratum ------------------------------
(***************************************************************************)
(* The Stratum server (mining/stratum/server.go): jobs made from block     *)
(* templates and pruned by tip, the job loop that refreshes and broadcasts *)
(* them, and the clients that subscribe, authorize and submit shares, each *)
(* served by its own goroutine.  A template, a snapshot of the best chain  *)
(* and the job table are read at different moments, as in the code.        *)
(***************************************************************************)
EXTENDS Integers, Sequences, FiniteSets, FiniteSetsExt

CONSTANTS Conns,                \* the clients that may connect
          Shares,               \* share keys: extranonces, time and nonce
          Solutions,            \* the shares that also solve the block
          maxJobsPerPrevBlock, MaxTips, MaxMoves, MaxJobs, NoJob

VARIABLES tip,       \* the best chain's tip
          moves,     \* moves of the tip so far (bounded by MaxMoves)
          jobs,      \* Server.jobs: job id to [prev, submitted]
          jobSeq,
          loop,      \* the job loop: [pc, last, prev, job]
          client,    \* each client: [pc, sub, auth, closed, listed, job, prev, share]
          server,    \* "running", "closing" (quit closed), "waiting" or "stopped"
          held,      \* the newest job each client was sent: [id, prev] or NoJob
          accepted   \* shares accepted: [id, share, prev, tip]

srVars == <<tip, moves, jobs, jobSeq, loop, client, server, held, accepted>>

NoClient == [pc |-> "out", sub |-> FALSE, auth |-> FALSE, closed |-> FALSE, listed |-> FALSE,
             job |-> 0, prev |-> 0, share |-> CHOOSE k \in Shares : TRUE]

\* canReceiveWork (a server configured with credentials)
canReceiveWork(c) == client[c].sub /\ client[c].auth

-----------------------------------------------------------------------------
(* Jobs. *)

\* Keeps the jobs of one tip only, and the newest of those.
pruneJobsLocked(js, best) ==
    LET same == { i \in DOMAIN js : js[i].prev = best }
    IN  [i \in { k \in same : Cardinality({ m \in same : m > k }) < maxJobsPerPrevBlock } |-> js[i]]

\* The second half of createJob: the template was made on tip prev.  After
\* MaxJobs jobs there is no template, an error every caller gives up on.
HasTemplate == jobSeq < MaxJobs
StoreJob(prev) ==
    /\ jobSeq' = jobSeq + 1
    /\ jobs' = pruneJobsLocked([i \in DOMAIN jobs \cup {jobSeq + 1} |->
                                  IF i = jobSeq + 1 THEN [prev |-> prev, submitted |-> {}] ELSE jobs[i]], prev)

-----------------------------------------------------------------------------
(* The job loop. *)

RefreshTick ==
    /\ loop.pc = "wait" /\ server = "running"
    /\ loop' = [loop EXCEPT !.pc = "template"]
    /\ UNCHANGED <<tip, moves, jobs, jobSeq, client, server, held, accepted>>
TipTick ==
    /\ loop.pc = "wait" /\ server = "running" /\ tip # loop.last
    /\ loop' = [loop EXCEPT !.pc = "template", !.last = tip]
    /\ UNCHANGED <<tip, moves, jobs, jobSeq, client, server, held, accepted>>
LoopTemplate ==
    /\ loop.pc = "template" /\ loop' = [loop EXCEPT !.pc = "store", !.prev = tip]
    /\ UNCHANGED <<tip, moves, jobs, jobSeq, client, server, held, accepted>>
LoopStore ==
    /\ loop.pc = "store"
    /\ IF HasTemplate THEN StoreJob(loop.prev) /\ loop' = [loop EXCEPT !.pc = "send", !.job = jobSeq + 1]
       ELSE loop' = [loop EXCEPT !.pc = "wait"] /\ UNCHANGED <<jobs, jobSeq>>
    /\ UNCHANGED <<tip, moves, client, server, held, accepted>>

\* Every client in the table that may have work is sent the job.
broadcastJob(c) == client[c].listed /\ canReceiveWork(c)
LoopSend ==
    /\ loop.pc = "send" /\ loop' = [loop EXCEPT !.pc = "wait"]
    /\ held' = [c \in Conns |-> IF broadcastJob(c) THEN [id |-> loop.job, prev |-> loop.prev] ELSE held[c]]
    /\ UNCHANGED <<tip, moves, jobs, jobSeq, client, server, accepted>>
LoopQuit ==
    /\ loop.pc = "wait" /\ server # "running" /\ loop' = [loop EXCEPT !.pc = "done"]
    /\ UNCHANGED <<tip, moves, jobs, jobSeq, client, server, held, accepted>>

-----------------------------------------------------------------------------
(* A client. *)

\* Accepted, but not in the table yet.
Accept(c) ==
    /\ client[c].pc = "out" /\ server = "running"
    /\ client' = [client EXCEPT ![c].pc = "accepted"]
    /\ UNCHANGED <<tip, moves, jobs, jobSeq, loop, server, held, accepted>>
Register(c) ==
    /\ client[c].pc = "accepted"
    /\ client' = [client EXCEPT ![c].pc = "serve", ![c].listed = TRUE]
    /\ UNCHANGED <<tip, moves, jobs, jobSeq, loop, server, held, accepted>>
\* The connection ends: closed here or there, or silent for too long.
Gone(c) ==
    /\ client[c].pc = "serve"
    /\ client' = [client EXCEPT ![c] = [NoClient EXCEPT !.pc = "gone"]]
    /\ held' = [held EXCEPT ![c] = NoJob]
    /\ UNCHANGED <<tip, moves, jobs, jobSeq, loop, server, accepted>>

Serving(c) == client[c].pc = "serve" /\ ~client[c].closed

handleSubscribe(c) ==
    /\ Serving(c) /\ ~client[c].sub
    /\ client' = [client EXCEPT ![c].sub = TRUE, ![c].pc = IF client[c].auth THEN "current" ELSE "serve"]
    /\ UNCHANGED <<tip, moves, jobs, jobSeq, loop, server, held, accepted>>
handleAuthorize(c, ok) ==
    /\ Serving(c) /\ client[c].auth # ok
    /\ client' = [client EXCEPT ![c].auth = ok, ![c].pc = IF client[c].sub /\ ok THEN "current" ELSE "serve"]
    /\ UNCHANGED <<tip, moves, jobs, jobSeq, loop, server, held, accepted>>

\* The newest job of the tip, or a new one.
currentJob(c) ==
    \/ /\ client[c].pc = "current" /\ UNCHANGED <<jobs, jobSeq, held>>
       /\ client' = [client EXCEPT ![c].pc = "lookup", ![c].prev = tip]
    \/ /\ client[c].pc = "lookup" /\ UNCHANGED <<jobs, jobSeq>>
       /\ LET latest == { i \in DOMAIN jobs : jobs[i].prev = client[c].prev } IN
          IF latest = {} THEN client' = [client EXCEPT ![c].pc = "template"] /\ UNCHANGED held
          ELSE /\ client' = [client EXCEPT ![c].pc = "serve"]
               /\ held' = [held EXCEPT ![c] = [id |-> Max(latest), prev |-> client[c].prev]]
    \/ /\ client[c].pc = "template" /\ UNCHANGED <<jobs, jobSeq, held>>
       /\ client' = [client EXCEPT ![c].pc = "store", ![c].prev = tip]
    \/ /\ client[c].pc = "store" /\ client' = [client EXCEPT ![c].pc = "serve"]
       /\ IF HasTemplate
          THEN StoreJob(client[c].prev) /\ held' = [held EXCEPT ![c] = [id |-> jobSeq + 1, prev |-> client[c].prev]]
          ELSE UNCHANGED <<jobs, jobSeq, held>>
Current(c) == currentJob(c) /\ UNCHANGED <<tip, moves, loop, server, accepted>>

\* A share arrives for the job the client holds; the job must be known and on
\* the tip when it does.
handleSubmit(c, k) ==
    /\ Serving(c) /\ canReceiveWork(c) /\ held[c] # NoJob
    /\ held[c].id \in DOMAIN jobs /\ jobs[held[c].id].prev = tip
    /\ client' = [client EXCEPT ![c].pc = "record", ![c].job = held[c].id, ![c].prev = jobs[held[c].id].prev, ![c].share = k]
    /\ UNCHANGED <<tip, moves, jobs, jobSeq, loop, server, held, accepted>>

\* The tip is looked at once more, then the table under its lock.
recordShare(c) ==
    /\ client[c].pc = "record"
    /\ client' = [client EXCEPT ![c].pc = IF client[c].prev = tip THEN "add" ELSE "serve"]
ShareFresh(id, k) == id \in DOMAIN jobs /\ k \notin jobs[id].submitted
AddShare(c) ==
    /\ client[c].pc = "add"
    /\ LET id == client[c].job
           k  == client[c].share
       IN  IF ShareFresh(id, k)
           THEN /\ jobs' = [jobs EXCEPT ![id].submitted = @ \cup {k}]
                /\ accepted' = Append(accepted, [id |-> id, share |-> k, prev |-> client[c].prev])
                /\ client' = [client EXCEPT ![c].pc = IF k \in Solutions THEN "process" ELSE "serve"]
           ELSE client' = [client EXCEPT ![c].pc = "serve"] /\ UNCHANGED <<jobs, accepted>>
    /\ UNCHANGED <<tip, moves, jobSeq, loop, server, held>>
\* ProcessBlock: the solved block extends the tip if it still can.
Process(c) ==
    /\ client[c].pc = "process" /\ client' = [client EXCEPT ![c].pc = "serve"]
    /\ IF tip = client[c].prev /\ tip < MaxTips THEN tip' = tip + 1 ELSE UNCHANGED tip
    /\ UNCHANGED <<moves, jobs, jobSeq, loop, server, held, accepted>>

-----------------------------------------------------------------------------
(* The rest of the node, and Stop. *)

TipMoves ==
    /\ moves < MaxMoves /\ moves' = moves + 1
    /\ \E t \in 1..MaxTips \ {tip} : tip' = t
    /\ UNCHANGED <<jobs, jobSeq, loop, client, server, held, accepted>>

Stop ==
    /\ server = "running" /\ server' = "closing"
    /\ UNCHANGED <<tip, moves, jobs, jobSeq, loop, client, held, accepted>>
StopClients ==
    /\ server = "closing" /\ server' = "waiting"
    /\ client' = [c \in Conns |-> [client[c] EXCEPT !.closed = client[c].listed]]
    /\ UNCHANGED <<tip, moves, jobs, jobSeq, loop, held, accepted>>
Awaited == loop.pc = "done" /\ \A c \in Conns : client[c].pc \in {"out", "gone"}
StopDone ==
    /\ server = "waiting" /\ Awaited /\ server' = "stopped"
    /\ UNCHANGED <<tip, moves, jobs, jobSeq, loop, client, held, accepted>>

-----------------------------------------------------------------------------
SrInit ==
    /\ tip = 1 /\ moves = 0 /\ jobs = [i \in {} |-> 0] /\ jobSeq = 0
    /\ loop = [pc |-> "wait", last |-> 1, prev |-> 1, job |-> 0]
    /\ client = [c \in Conns |-> NoClient] /\ server = "running"
    /\ held = [c \in Conns |-> NoJob] /\ accepted = <<>>

LoopStep == TipTick \/ LoopTemplate \/ LoopStore \/ LoopSend \/ LoopQuit
ServeStep(c) ==
    \/ Register(c) \/ Current(c) \/ AddShare(c) \/ Process(c)
    \/ recordShare(c) /\ UNCHANGED <<tip, moves, jobs, jobSeq, loop, server, held, accepted>>
SrNext ==
    \/ RefreshTick \/ LoopStep \/ TipMoves \/ Stop \/ StopClients \/ StopDone
    \/ \E c \in Conns : \/ Accept(c) \/ Gone(c) \/ handleSubscribe(c) \/ \E ok \in BOOLEAN : handleAuthorize(c, ok)
                        \/ \E k \in Shares : handleSubmit(c, k)
                        \/ ServeStep(c)

\* Goroutines run, tickers tick, a closed connection is noticed, and no client
\* talks for ever to a server that is stopping: one accepted as Stop closed the
\* others is not closed, and only its silence (the read deadline) ends it.
FairSr ==
    /\ WF_srVars(LoopStep) /\ SF_srVars(RefreshTick) /\ WF_srVars(StopClients) /\ WF_srVars(StopDone)
    /\ \A c \in Conns : WF_srVars(ServeStep(c)) /\ SF_srVars(server # "running" /\ Gone(c))

SrSpec == SrInit /\ [][SrNext]_srVars
SrFairSpec == SrSpec /\ FairSr

-----------------------------------------------------------------------------
(* Properties. *)

\* No share is credited twice (recordShare), however many clients hand it in at
\* once; the jobs kept are all of one tip and no more than the limit
\* (pruneJobsLocked); a client is sent work only while it is subscribed and was
\* authorized; and a stopped server serves nobody.
SharesSound ==
    /\ \A i, j \in DOMAIN accepted :
          i # j => <<accepted[i].id, accepted[i].share>> # <<accepted[j].id, accepted[j].share>>
    /\ Cardinality(DOMAIN jobs) <= maxJobsPerPrevBlock
    /\ \A i, j \in DOMAIN jobs : jobs[i].prev = jobs[j].prev
    /\ \A c \in Conns : held[c] # NoJob => client[c].listed /\ client[c].sub
    /\ server = "stopped" => \A c \in Conns : client[c].pc \in {"out", "gone"}

\* Stop returns: it waits for every client, the one being accepted included,
\* which it cannot close and which has to fall silent.
Closing == server = "closing"
Stopped == server = "stopped"
StratumStops == Closing ~> Stopped
====
