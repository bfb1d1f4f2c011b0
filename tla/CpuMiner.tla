------------------------------ MODULE CpuMiner ------------------------------
(***************************************************************************)
(* The CPU miner (mining/cpuminer): its workers, the controller that       *)
(* starts and stops them, the speed monitor they report to, and the RPC    *)
(* handlers that call it concurrently (setgenerate, generate,              *)
(* gethashespersec).  The miner's mutex, its two wait groups and its       *)
(* unbuffered channels are modelled; a block is the tip it extends.        *)
(***************************************************************************)
EXTENDS Integers, Sequences, FiniteSets, SequencesExt

\* CommandsOf gives each caller the commands it issues.  With Prompt the
\* controller is done with one change of numWorkers before the next is made.
CONSTANTS Callers, CommandsOf, Workers, Limits, Prompt, MaxTip, MaxCalls, NoOne

VARIABLES mtx,     \* holder of the miner's mutex
          miner,   \* started, discrete, numWorkers
          ctl,     \* the controller: "off", "launch", "loop", "compare", "grow", "shrink",
                   \* "drain", or "runaway" when the number to launch wrapped
          quit,    \* m.quit closed
          run,     \* runningWorkers: the workers not told to quit, in order
          wk,      \* each worker: [pc, quit, prev]
          mon,     \* the speed monitor: "off", "loop", "quit"
          submit,  \* holder of submitBlockLock
          tip,     \* the best chain's tip
          call     \* each caller: [cmd, pc, n, prev, left]

cmVars == <<mtx, miner, ctl, quit, run, wk, mon, submit, tip, call>>

Idle == [cmd |-> "none", pc |-> "idle", n |-> 0, prev |-> 0, left |-> MaxCalls]
NoWorker == [pc |-> "off", quit |-> FALSE, prev |-> 0]
Free == { w \in Workers : wk[w].pc = "off" }
At(c, cmds, pc) == call[c].cmd \in cmds /\ call[c].pc = pc
Goto(c, pc) == call' = [call EXCEPT ![c].pc = pc]
Return(c) == call' = [call EXCEPT ![c] = [Idle EXCEPT !.left = call[c].left]]
Lock(c) == mtx = NoOne /\ mtx' = c

Call(c, cmd, n) ==
    /\ call[c].pc = "idle" /\ call[c].left > 0
    /\ call' = [call EXCEPT ![c] = [cmd |-> cmd, pc |-> IF cmd = "setgen" THEN "setn" ELSE cmd, n |-> n, prev |-> 0,
                                    left |-> @.left - 1]]
    /\ UNCHANGED <<mtx, miner, ctl, quit, run, wk, mon, submit, tip>>

-----------------------------------------------------------------------------
(* The methods. *)

SetNumWorkers(c) ==
    /\ At(c, {"setgen"}, "setn") /\ Lock(c)
    /\ Prompt => ctl \notin {"compare", "grow", "shrink"}
    /\ miner' = [miner EXCEPT !.numWorkers = call[c].n]
    /\ Goto(c, IF miner.started THEN "update" ELSE "unlock")
    /\ UNCHANGED <<ctl, quit, run, wk, mon, submit, tip>>

\* The mutex is held while the update is handed over.
Update(c) ==
    /\ At(c, {"setgen"}, "update") /\ ctl = "loop"
    /\ ctl' = "compare" /\ Goto(c, "unlock")
    /\ UNCHANGED <<mtx, miner, quit, run, wk, mon, submit, tip>>

Unlock(c) ==
    /\ At(c, {"setgen"}, "unlock") /\ mtx' = NoOne /\ Goto(c, "start")
    /\ UNCHANGED <<miner, ctl, quit, run, wk, mon, submit, tip>>

Start(c) ==
    /\ At(c, {"setgen"}, "start") /\ mtx = NoOne
    /\ IF miner.started THEN UNCHANGED <<miner, ctl, quit, run, mon>>
       ELSE /\ miner' = [miner EXCEPT !.started = TRUE]
            /\ ctl' = "launch" /\ quit' = FALSE /\ run' = <<>> /\ mon' = "loop"
    /\ Return(c)
    /\ UNCHANGED <<mtx, wk, submit, tip>>

StopsMining(c) == ctl = "off" /\ mon = "off"

Stop(c) ==
    /\ At(c, {"stop"}, "stop") /\ mtx = NoOne
    /\ IF ~miner.started \/ miner.discrete THEN Return(c) /\ UNCHANGED <<mtx, quit>>
       ELSE mtx' = c /\ quit' = TRUE /\ Goto(c, "wait")
    /\ UNCHANGED <<miner, ctl, run, wk, mon, submit, tip>>
StopWaited(c) ==
    /\ At(c, {"stop"}, "wait") /\ StopsMining(c)
    /\ miner' = [miner EXCEPT !.started = FALSE] /\ mtx' = NoOne /\ Return(c)
    /\ UNCHANGED <<ctl, quit, run, wk, mon, submit, tip>>

HashesPerSecond(c) ==
    /\ At(c, {"hashes"}, "hashes") /\ mtx = NoOne
    /\ IF miner.started THEN mtx' = c /\ Goto(c, "query") ELSE Return(c) /\ UNCHANGED mtx
    /\ UNCHANGED <<miner, ctl, quit, run, wk, mon, submit, tip>>
Queried(c) ==
    /\ At(c, {"hashes"}, "query") /\ mon \in {"loop", "quit"}
    /\ mtx' = NoOne /\ Return(c)
    /\ UNCHANGED <<miner, ctl, quit, run, wk, mon, submit, tip>>

\* generate: one block at a time in the caller's own goroutine.
Generate(c) ==
    /\ At(c, {"generate"}, "generate") /\ mtx = NoOne
    /\ IF miner.started \/ miner.discrete THEN Return(c) /\ UNCHANGED <<miner, mon>>
       ELSE /\ miner' = [miner EXCEPT !.started = TRUE, !.discrete = TRUE] /\ mon' = "loop"
            /\ Goto(c, "top")
    /\ UNCHANGED <<mtx, ctl, quit, run, wk, submit, tip>>
\* A waiting update is taken, once per round, and ignored.
GenerateTop(c) ==
    /\ At(c, {"generate"}, "top")
    /\ LET waiting == { d \in Callers : At(d, {"setgen"}, "update") } IN
       IF waiting = {} THEN Goto(c, "template")
       ELSE \E d \in waiting : call' = [call EXCEPT ![c].pc = "template", ![d].pc = "unlock"]
    /\ UNCHANGED <<mtx, miner, ctl, quit, run, wk, mon, submit, tip>>
GenerateTemplate(c) ==
    /\ At(c, {"generate"}, "template") /\ submit = NoOne
    /\ call' = [call EXCEPT ![c].pc = "solve", ![c].prev = tip]
    /\ UNCHANGED <<mtx, miner, ctl, quit, run, wk, mon, submit, tip>>
GenerateStale(c) ==
    /\ At(c, {"generate"}, "solve") /\ call[c].prev # tip /\ mon = "loop"
    /\ Goto(c, "top")
    /\ UNCHANGED <<mtx, miner, ctl, quit, run, wk, mon, submit, tip>>
GenerateSolved(c) ==
    /\ At(c, {"generate"}, "solve") /\ submit = NoOne /\ mon = "loop" /\ tip < MaxTip
    /\ tip' = IF call[c].prev = tip THEN tip + 1 ELSE tip
    /\ call' = [call EXCEPT ![c].pc = IF call[c].n = 1 THEN "end" ELSE "top", ![c].n = @ - 1]
    /\ UNCHANGED <<mtx, miner, ctl, quit, run, wk, mon, submit>>
GenerateEnd(c) ==
    /\ At(c, {"generate"}, "end") /\ Lock(c)
    /\ mon' = "quit" /\ Goto(c, "ended")
    /\ UNCHANGED <<miner, ctl, quit, run, wk, submit, tip>>
GenerateEnded(c) ==
    /\ At(c, {"generate"}, "ended") /\ mon = "off"
    /\ miner' = [miner EXCEPT !.started = FALSE, !.discrete = FALSE] /\ mtx' = NoOne /\ Return(c)
    /\ UNCHANGED <<ctl, quit, run, wk, mon, submit, tip>>

-----------------------------------------------------------------------------
(* The goroutines. *)

\* Launches n workers; the count is a uint32, and one that wrapped never ends.
launchWorkers(n) ==
    IF n < 0 THEN ctl' = "runaway" /\ UNCHANGED <<run, wk>>
    ELSE \E new \in SUBSET Free :
            /\ Cardinality(new) = n /\ run' = run \o SetToSeq(new) /\ ctl' = "loop"
            /\ wk' = [w \in Workers |-> IF w \in new THEN [NoWorker EXCEPT !.pc = "top"] ELSE wk[w]]

\* The controller reads numWorkers afresh at each comparison, without the mutex.
ControllerStep ==
    /\ \/ ctl = "launch" /\ launchWorkers(miner.numWorkers)
       \/ /\ ctl = "compare" /\ UNCHANGED <<run, wk>>
          /\ ctl' = CASE miner.numWorkers = Len(run) -> "loop"
                      [] miner.numWorkers > Len(run) -> "grow"
                      [] OTHER -> "shrink"
       \/ ctl = "grow" /\ launchWorkers(miner.numWorkers - Len(run))
       \/ /\ ctl = "shrink"
          /\ IF Len(run) > miner.numWorkers
             THEN wk' = [wk EXCEPT ![Last(run)].quit = TRUE] /\ run' = Front(run) /\ UNCHANGED ctl
             ELSE ctl' = "loop" /\ UNCHANGED <<run, wk>>
       \/ /\ ctl = "loop" /\ quit /\ ctl' = "drain" /\ run' = <<>>
          /\ wk' = [w \in Workers |-> [wk[w] EXCEPT !.quit = @ \/ w \in Range(run)]]
    /\ UNCHANGED <<mtx, miner, quit, mon, submit, tip, call>>

\* Waits for the workers, which report to the monitor, before it ends it.
WorkersGone == \A w \in Workers : wk[w].pc = "off"
MonitorTold == "quit"
ControllerDone ==
    /\ ctl = "drain" /\ WorkersGone
    /\ ctl' = "off" /\ mon' = MonitorTold
    /\ UNCHANGED <<mtx, miner, quit, run, wk, submit, tip, call>>
MonitorQuit ==
    /\ mon = "quit" /\ mon' = "off"
    /\ UNCHANGED <<mtx, miner, ctl, quit, run, wk, submit, tip, call>>

\* A worker told to quit leaves, at the top of its loop or while solving.
WorkerQuit(w) ==
    /\ wk[w].pc \in {"top", "solve"} /\ wk[w].quit
    /\ wk' = [wk EXCEPT ![w] = NoWorker]
    /\ UNCHANGED <<mtx, miner, ctl, quit, run, mon, submit, tip, call>>
WorkerTemplate(w) ==
    /\ wk[w].pc = "top" /\ ~wk[w].quit /\ submit = NoOne
    /\ wk' = [wk EXCEPT ![w].pc = "solve", ![w].prev = tip]
    /\ UNCHANGED <<mtx, miner, ctl, quit, run, mon, submit, tip, call>>
\* The ticker: report, and start over when the chain moved or, after a minute,
\* the pool did.
WorkerTick(w) ==
    /\ wk[w].pc = "solve" /\ mon = "loop"
    /\ wk' = [wk EXCEPT ![w].pc = "top"]
    /\ UNCHANGED <<mtx, miner, ctl, quit, run, mon, submit, tip, call>>
\* A solution: report, then submit under the lock.
WorkerSolves(w) ==
    /\ wk[w].pc = "solve" /\ mon = "loop" /\ tip < MaxTip
    /\ wk' = [wk EXCEPT ![w].pc = "submit"]
    /\ UNCHANGED <<mtx, miner, ctl, quit, run, mon, submit, tip, call>>
Stale(w) == wk[w].prev # tip
submitBlock(w) ==
    \/ /\ wk[w].pc = "submit" /\ submit = NoOne
       /\ IF Stale(w) THEN wk' = [wk EXCEPT ![w].pc = "top"] /\ UNCHANGED submit
          ELSE submit' = w /\ wk' = [wk EXCEPT ![w].pc = "process"]
       /\ UNCHANGED <<mtx, miner, ctl, quit, run, mon, tip, call>>
    \/ /\ wk[w].pc = "process" /\ submit' = NoOne
       /\ tip' = IF wk[w].prev = tip THEN tip + 1 ELSE tip
       /\ wk' = [wk EXCEPT ![w].pc = "top"]
       /\ UNCHANGED <<mtx, miner, ctl, quit, run, mon, call>>

PeerBlock ==
    /\ tip < MaxTip /\ tip' = tip + 1
    /\ UNCHANGED <<mtx, miner, ctl, quit, run, wk, mon, submit, call>>

-----------------------------------------------------------------------------
CmInit ==
    /\ mtx = NoOne /\ miner = [started |-> FALSE, discrete |-> FALSE, numWorkers |-> 1]
    /\ ctl = "off" /\ quit = FALSE /\ run = <<>> /\ wk = [w \in Workers |-> NoWorker]
    /\ mon = "off" /\ submit = NoOne /\ tip = 1 /\ call = [c \in Callers |-> Idle]

CallerStep(c) ==
    \/ SetNumWorkers(c) \/ Update(c) \/ Unlock(c) \/ Start(c) \/ Stop(c) \/ StopWaited(c)
    \/ HashesPerSecond(c) \/ Queried(c)
    \/ Generate(c) \/ GenerateTop(c) \/ GenerateTemplate(c) \/ GenerateStale(c) \/ GenerateSolved(c) \/ GenerateEnd(c) \/ GenerateEnded(c)
WorkerStep(w) == WorkerQuit(w) \/ WorkerTemplate(w) \/ WorkerTick(w) \/ WorkerSolves(w) \/ submitBlock(w)

CmNext ==
    \/ \E c \in Callers : \E cmd \in CommandsOf[c], n \in Limits : Call(c, cmd, IF cmd \in {"setgen", "generate"} THEN n ELSE 1)
    \/ \E c \in Callers : CallerStep(c)
    \/ ControllerStep \/ ControllerDone \/ MonitorQuit
    \/ \E w \in Workers : WorkerStep(w)
    \/ PeerBlock

\* Every goroutine that can run does; which blocks are found is up to luck, and
\* generate finds its own.
FairCm ==
    /\ \A c \in Callers : WF_cmVars(CallerStep(c))
    /\ WF_cmVars(ControllerStep \/ ControllerDone) /\ WF_cmVars(MonitorQuit)
    /\ \A w \in Workers : WF_cmVars(WorkerQuit(w) \/ submitBlock(w))

CmSpec == CmInit /\ [][CmNext]_cmVars
CmFairSpec == CmSpec /\ FairCm

-----------------------------------------------------------------------------
(* Properties. *)

\* (Stop, SetNumWorkers, miningWorkerController)
\* Once the miner is stopped nothing of it is left running, workers on their
\* way out included; and while it mines with nobody changing it, the workers
\* that have not been told to quit are as many as asked for; a worker always
\* finds the monitor it reports to, and the controller never launches a number
\* of workers that wrapped below zero.
MinerObeys ==
    /\ mtx = NoOne /\ ~miner.started =>
          ctl = "off" /\ mon = "off" /\ run = <<>> /\ \A w \in Workers : wk[w].pc = "off"
    /\ mtx = NoOne /\ ctl = "loop" =>
          Cardinality({ w \in Workers : wk[w].pc # "off" /\ ~wk[w].quit }) = miner.numWorkers
    /\ \A w \in Workers : wk[w].pc # "off" => mon = "loop"
    /\ ctl # "runaway"

\* Every command answers: none waits for ever for the mutex, the controller or
\* the monitor.
Busy(c) == call[c].pc # "idle"
MinerAnswers == \A c \in Callers : Busy(c) ~> ~Busy(c)
====
