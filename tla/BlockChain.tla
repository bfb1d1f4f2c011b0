------------------------------ MODULE BlockChain ------------------------------
(***************************************************************************)
(* Chain selection: the block index and its status flags, the best chain,  *)
(* the best header chain, the orphan pool, reorganizations, and the manual *)
(* InvalidateBlock / ReconsiderBlock calls.                                *)
(*                                                                         *)
(* chainLock is held for a whole call EXCEPT while a notification callback *)
(* runs: connectBlock, disconnectBlock and maybeAcceptBlock all release it *)
(* around sendNotification.  A call is therefore a sequence of critical    *)
(* sections.  `lock` names the thread that is inside one between two steps *)
(* of the model; a step that ends in a notification, or that returns,      *)
(* leaves `lock` free, and any other thread may run there.  A crash may    *)
(* happen between any two steps.                                           *)
(*                                                                         *)
(* Threads: Sync is the netsync block handler, which runs every            *)
(* ProcessBlock and ProcessBlockHeader; Rpc are the RPC handlers, which    *)
(* call InvalidateBlock and ReconsiderBlock directly.                      *)
(***************************************************************************)
EXTENDS Integers, Sequences, FiniteSets

CONSTANTS
  Block,        \* the blocks that exist in the world, Genesis among them
  Genesis,
  Parent,       \* header.PrevBlock, for every block but Genesis
  Ancestors,    \* Ancestors[b]: b and every block below it
  Height,
  WorkSum,      \* cumulative work up to and including the block
  Checkpoint,   \* the last checkpoint (Genesis when there is none)
  MaybeBad,     \* the blocks that may break a consensus rule
  Sync, Rpc, NoThread,
  RpcCalls,     \* subset of {"invalidate", "reconsider"}
  Announced,    \* the blocks whose headers are sent ahead of them
  Sources,      \* where blocks come from: subset of {"peer", "submit"}
  OneCaller,    \* TRUE: a call starts only when no other call is in progress
  DbMayFail,    \* may a database transaction return an error?
  MayCrash      \* may the process die and be restarted?

Thread == {Sync} \cup Rpc

(***************************************************************************)
(* A tree of blocks linked by hash.                                        *)
(***************************************************************************)
ASSUME TreeAssumption ==
  /\ Genesis \in Block
  /\ Parent \in [Block \ {Genesis} -> Block]
  /\ Ancestors \in [Block -> SUBSET Block]
  /\ Ancestors[Genesis] = {Genesis}
  /\ \A b \in Block \ {Genesis} :
       /\ Ancestors[b] = {b} \cup Ancestors[Parent[b]]
       /\ b \notin Ancestors[Parent[b]]
  /\ \A b \in Block : Genesis \in Ancestors[b]
  /\ \A b \in Block : \A a \in Ancestors[b] : Ancestors[a] \subseteq Ancestors[b]

ASSUME WorkAssumption ==
  /\ WorkSum \in [Block -> Nat]
  /\ Height \in [Block -> Nat]
  /\ \A b \in Block \ {Genesis} : Height[b] = Height[Parent[b]] + 1
  /\ \A b \in Block : \A a \in Ancestors[b] \ {b} :
       WorkSum[a] < WorkSum[b] /\ Height[a] < Height[b]

ASSUME ConfigAssumption ==
  /\ Checkpoint \in Block
  /\ MaybeBad \subseteq Block \ Ancestors[Checkpoint]
  /\ Sync \notin Rpc /\ NoThread \notin Thread
  /\ RpcCalls \subseteq {"invalidate", "reconsider"}
  /\ Announced \subseteq Block \ {Genesis}
  /\ Sources \subseteq {"peer", "submit"}
  /\ OneCaller \in BOOLEAN /\ DbMayFail \in BOOLEAN /\ MayCrash \in BOOLEAN

VARIABLES
  verdict,     \* what full validation of each block would say; never changes
  status,      \* the in-memory block index: the flags of each node, {} = no node
  dbStatus,    \* the block index bucket in the database
  tip,         \* bestChain.Tip(); the best state in the database is the same
  bestHeader,  \* bestHeader.Tip()
  orphans,     \* hashes in the orphan pool
  lock,        \* the thread inside a critical section, between its steps
  pc,          \* where each thread is
  call,        \* the locals of the ProcessBlock call of each thread
  queue,       \* processHashes of processOrphans
  detach,      \* the detach list of reorganizeChain, front = highest
  attach       \* the attach list of reorganizeChain, front = lowest

threadVars == <<lock, pc, call, queue, detach, attach>>
vars == <<verdict, status, dbStatus, tip, bestHeader, orphans, lock, pc, call,
          queue, detach, attach>>

(***************************************************************************)
(* Status flags (blockindex.go).                                           *)
(***************************************************************************)
Flag == {"data", "header", "valid", "failed", "invalidAncestor"}

HaveData(s) == "data" \in s
KnownValid(s) == "valid" \in s
KnownInvalid(s) == "failed" \in s \/ "invalidAncestor" \in s

SetStatusFlags(st, S, f) ==
  [b \in Block |-> IF b \in S THEN st[b] \cup {f} ELSE st[b]]

UnsetStatusFlags(st, S, f) ==
  [b \in Block |-> IF b \in S THEN st[b] \ {f} ELSE st[b]]

Indexed(st) == {b \in Block : st[b] # {}}

\* Nodes off the view with no child off the view.
InactiveTips(st, viewTip) ==
  LET off == Indexed(st) \ Ancestors[viewTip]
  IN  {b \in off : \A c \in off : Parent[c] # b}

\* Mutant of FlushToDB: header-only nodes are written too.
FlushToDB_WritesHeaders(st) == st

\* What flushToDB leaves in the bucket: header-only nodes are never written,
\* and every node with data is written with its current flags.
FlushToDB(st) == [b \in Block |-> IF HaveData(st[b]) THEN st[b] ELSE {}]

\* The ends of a list of nodes of one branch, kept as a set.
IsHighest(b, S) == b \in S /\ \A c \in S : Height[c] <= Height[b]
IsLowest(b, S) == b \in S /\ \A c \in S : Height[b] <= Height[c]

MostWork(S) == {b \in S : \A c \in S : WorkSum[c] <= WorkSum[b]}

(***************************************************************************)
(* Initial state: createChainState.                                        *)
(***************************************************************************)
\* The locals of a call: the block delivered, the block (or orphan) at hand,
\* BFFastAdd, where it came from, the answer of connectBestChain, and what
\* follows reorganizeChain.
Call == [block : Block, cur : Block, fast : BOOLEAN, src : {"peer", "submit"},
         main : BOOLEAN,
         cont : {"accept", "extend", "invalidate", "activate", "reconsider"}]

NoCall == [block |-> Genesis, cur |-> Genesis, fast |-> FALSE,
           src |-> "submit", main |-> FALSE, cont |-> "accept"]

GenesisOnly == [b \in Block |-> IF b = Genesis THEN {"data", "valid"} ELSE {}]

Init ==
  /\ verdict \in [Block -> {"valid", "badContext", "badConnect"}]
  /\ \A b \in Block \ MaybeBad : verdict[b] = "valid"
  /\ status = GenesisOnly
  /\ dbStatus = GenesisOnly
  /\ tip = Genesis
  /\ bestHeader = Genesis
  /\ orphans = {}
  /\ lock = NoThread
  /\ pc = [t \in Thread |-> "idle"]
  /\ call = [t \in Thread |-> NoCall]
  /\ queue = [t \in Thread |-> << >>]
  /\ detach = [t \in Thread |-> {}]
  /\ attach = [t \in Thread |-> {}]

(***************************************************************************)
(* Moves of a thread.                                                      *)
(***************************************************************************)
MayRun(t) == lock \in {NoThread, t}

\* A new call takes chainLock.
MayCall(t) ==
  /\ lock = NoThread /\ pc[t] = "idle"
  /\ OneCaller => \A u \in Thread : pc[u] = "idle"

\* The thread goes on to label l inside the same critical section.
Stay(t, l) == lock' = t /\ pc' = [pc EXCEPT ![t] = l]

\* The thread goes on to label l and lets go of chainLock (a notification).
Release(t, l) == lock' = NoThread /\ pc' = [pc EXCEPT ![t] = l]

\* The call returns and its locals are gone.
Return(t) ==
  /\ Release(t, "idle")
  /\ call' = [call EXCEPT ![t] = NoCall]
  /\ queue' = [queue EXCEPT ![t] = << >>]
  /\ detach' = [detach EXCEPT ![t] = {}]
  /\ attach' = [attach EXCEPT ![t] = {}]

\* A rule error comes out of ProcessBlock.  handleBlockMsg marks the block it
\* delivered as rejected when its data is stored, whatever block the error is
\* about (errors about a known invalid ancestor excepted); a block submitted
\* over RPC or by a miner is only reported.
RuleError(t) ==
  IF call[t].src = "peer" /\ HaveData(status'[call[t].block])
  THEN /\ Release(t, "rejected")
       /\ UNCHANGED <<call, queue, detach, attach>>
  ELSE Return(t)

\* Enter the loops of reorganizeChain with the two lists.
StartReorganize(t, d, a, main, cont) ==
  /\ Stay(t, "reorg")
  /\ call' = [call EXCEPT ![t] = [@ EXCEPT !.main = main, !.cont = cont]]
  /\ detach' = [detach EXCEPT ![t] = d]
  /\ attach' = [attach EXCEPT ![t] = a]
  /\ UNCHANGED queue

(***************************************************************************)
(* Reorganizations.                                                        *)
(***************************************************************************)
GetReorganizeNodes(st, node) ==
  LET path == Ancestors[node] \ Ancestors[tip]
      bad == {n \in path : KnownInvalid(st[n])}
      unwound == {n \in path : \A m \in bad : Height[n] > Height[m]}
      none(s) == [st |-> s, detach |-> {}, attach |-> {}]
  IN  IF KnownInvalid(st[Parent[node]])
      THEN none(SetStatusFlags(st, {node}, "invalidAncestor"))
      ELSE IF bad # {}
      THEN none(SetStatusFlags(st, unwound, "invalidAncestor"))
      ELSE [st |-> st, detach |-> Ancestors[tip] \ Ancestors[node],
            attach |-> path]

\* Mutants of VerifyReorganizationValidity: the blocks are not checked; the
\* blocks below a rule breaker are marked with those above it.
VerifyReorganizationValidity_Trusts(st, d, a) ==
  [ok |-> \A n \in a : HaveData(st[n]), rule |-> FALSE,
   st |-> SetStatusFlags(st, a, "valid")]

VerifyReorganizationValidity_MarksAll(st, d, a) ==
  LET ok == \A n \in a : HaveData(st[n]) /\ (KnownValid(st[n]) \/ verdict[n] = "valid")
  IN  [ok |-> ok, rule |-> ~ok,
       st |-> SetStatusFlags(st, a, IF ok THEN "valid" ELSE "invalidAncestor")]

\* The blocks are fetched and checked in order; the first that cannot be
\* fetched, or breaks a rule, stops the verification, and everything listed
\* above a rule breaker gets an invalid ancestor.
VerifyReorganizationValidity(st, d, a) ==
  LET stops == {n \in a : \/ ~HaveData(st[n])
                          \/ ~KnownValid(st[n]) /\ verdict[n] # "valid"}
      broken == {n \in a : IsLowest(n, stops) /\ HaveData(st[n])}
      passed == {n \in a : \A m \in stops : Height[n] < Height[m]}
      above == {n \in a : \E m \in broken : Height[n] > Height[m]}
      lists == /\ d # {} => IsHighest(tip, d)
               /\ \A x \in a, y \in d : IsLowest(x, a) /\ IsLowest(y, d)
                                         => Parent[x] = Parent[y]
      marked == SetStatusFlags(
                  SetStatusFlags(SetStatusFlags(st, passed, "valid"),
                                 broken, "failed"),
                  above, "invalidAncestor")
  IN  [ok |-> lists /\ stops = {},
       rule |-> lists /\ broken # {},
       st |-> IF lists THEN marked ELSE st]

\* disconnectBlock: the top of the detach list leaves the best chain.
DisconnectBlock(t) ==
  /\ MayRun(t) /\ pc[t] = "reorg"
  /\ IsHighest(tip, detach[t])
  /\ tip' = Parent[tip]
  /\ dbStatus' = FlushToDB(status)
  /\ detach' = [detach EXCEPT ![t] = @ \ {tip}]
  /\ Release(t, "reorg")
  /\ UNCHANGED <<verdict, status, bestHeader, orphans, call, queue, attach>>

\* Mutant of ConnectBlock: the attach list is taken from the wrong end.
ConnectBlock_Reversed(t) ==
  /\ MayRun(t) /\ pc[t] = "reorg" /\ detach[t] = {}
  /\ \E n \in attach[t] :
       /\ IsHighest(n, attach[t])
       /\ tip' = n
       /\ attach' = [attach EXCEPT ![t] = @ \ {n}]
  /\ dbStatus' = FlushToDB(status)
  /\ Release(t, "reorg")
  /\ UNCHANGED <<verdict, status, bestHeader, orphans, call, queue, detach>>

\* connectBlock: the front of the attach list becomes the tip.
ConnectBlock(t) ==
  /\ MayRun(t) /\ pc[t] = "reorg" /\ detach[t] = {}
  /\ \E n \in attach[t] :
       /\ IsLowest(n, attach[t]) /\ Parent[n] = tip
       /\ tip' = n
       /\ attach' = [attach EXCEPT ![t] = @ \ {n}]
  /\ dbStatus' = FlushToDB(status)
  /\ Release(t, "reorg")
  /\ UNCHANGED <<verdict, status, bestHeader, orphans, call, queue, detach>>

\* Mutant of ReorganizeError: the lists are not compared with the tip.
ReorganizeError_NoAssert(t) ==
  /\ MayRun(t) /\ pc[t] = "reorg" /\ (detach[t] \cup attach[t]) # {}
  /\ DbMayFail
  /\ Return(t)
  /\ UNCHANGED <<verdict, status, dbStatus, tip, bestHeader, orphans>>

\* The asserts at the top of disconnectBlock and connectBlock, and every
\* database error inside them: reorganizeChain returns where it stands.
ReorganizeError(t) ==
  /\ MayRun(t) /\ pc[t] = "reorg" /\ (detach[t] \cup attach[t]) # {}
  /\ \/ DbMayFail
     \/ detach[t] # {} /\ ~IsHighest(tip, detach[t])
     \/ detach[t] = {} /\ \E n \in attach[t] :
                            IsLowest(n, attach[t]) /\ Parent[n] # tip
  /\ dbStatus' = IF call[t].cont \in {"accept", "extend", "activate"}
                 THEN FlushToDB(status) ELSE dbStatus
  /\ Return(t)
  /\ UNCHANGED <<verdict, status, tip, bestHeader, orphans>>

(***************************************************************************)
(* Blocks (process.go, accept.go).                                         *)
(***************************************************************************)

\* checkHeadersList: below a checkpoint that is in the best header chain a
\* block of that chain is added without full validation.
CheckHeadersList(b) ==
  LET valid(h) == h \in Ancestors[bestHeader] /\ ~KnownInvalid(status[h])
  IN  valid(b) /\ valid(Checkpoint) /\ Height[b] <= Height[Checkpoint]

\* A block whose parent's data is missing joins the pool; expired orphans and,
\* when the pool is full, the oldest one leave it (module OrphanPool).
AddOrphanBlock(b) ==
  /\ \E kept \in SUBSET orphans : orphans' = kept \cup {b}
  /\ UNCHANGED <<verdict, status, dbStatus, tip, bestHeader, threadVars>>

\* Mutant of ProcessBlock: a parent known by its header alone is enough.
ProcessBlock_HeaderParent(t, b, src, ibd) ==
  /\ MayCall(t)
  /\ ~HaveData(status[b]) /\ b \notin orphans
  /\ IF status[Parent[b]] # {}
     THEN /\ Stay(t, "accept")
          /\ call' = [call EXCEPT ![t] =
                       [NoCall EXCEPT !.block = b, !.cur = b, !.src = src]]
          /\ UNCHANGED <<verdict, status, dbStatus, tip, bestHeader, orphans,
                         queue, detach, attach>>
     ELSE AddOrphanBlock(b)

ProcessBlock(t, b, src, ibd) ==
  /\ MayCall(t)
  /\ ~HaveData(status[b]) /\ b \notin orphans
  /\ IF HaveData(status[Parent[b]])
     THEN /\ Stay(t, "accept")
          /\ call' = [call EXCEPT ![t] =
                       [NoCall EXCEPT !.block = b, !.cur = b, !.src = src,
                          !.fast = src = "peer" /\ ibd /\ CheckHeadersList(b)]]
          /\ UNCHANGED <<verdict, status, dbStatus, tip, bestHeader, orphans,
                         queue, detach, attach>>
     ELSE AddOrphanBlock(b)

\* maybeAcceptBlock up to the call of connectBestChain.
MaybeAcceptBlock(t) ==
  LET b == call[t].cur IN
  /\ MayRun(t) /\ pc[t] = "accept"
  /\ UNCHANGED <<verdict, tip, bestHeader, orphans>>
  /\ \/ /\ \/ KnownInvalid(status[Parent[b]])
           \/ verdict[b] = "badContext" /\ ~call[t].fast
        /\ UNCHANGED <<status, dbStatus>>
        /\ IF KnownInvalid(status[Parent[b]]) THEN Return(t) ELSE RuleError(t)
     \/ /\ ~KnownInvalid(status[Parent[b]])
        /\ verdict[b] # "badContext" \/ call[t].fast
        /\ status' = IF status[b] = {}
                     THEN [status EXCEPT ![b] = {"data", "header"}]
                     ELSE SetStatusFlags(status, {b}, "data")
        /\ dbStatus' = FlushToDB(status')
        /\ Stay(t, "connect")
        /\ UNCHANGED <<call, queue, detach, attach>>
     \/ /\ DbMayFail
        /\ UNCHANGED <<status, dbStatus>>
        /\ Return(t)

\* connectBestChain when the block extends the best chain.
ExtendBestChain(t, b) ==
  IF call[t].fast \/ KnownValid(status[b]) \/ verdict[b] = "valid"
  THEN /\ status' = IF call[t].fast THEN status
                    ELSE SetStatusFlags(status, {b}, "valid")
       /\ dbStatus' = FlushToDB(status')
       /\ StartReorganize(t, {}, {b}, TRUE, "extend")
  ELSE /\ status' = SetStatusFlags(status, {b}, "failed")
       /\ dbStatus' = FlushToDB(status')
       /\ RuleError(t)

\* connectBestChain when a side chain gets more work than the best chain.
ReorganizeTo(t, b) ==
  LET g == GetReorganizeNodes(status, b)
      v == VerifyReorganizationValidity(g.st, g.detach, g.attach)
  IN  /\ status' = v.st
      /\ IF v.ok
         THEN /\ dbStatus' = dbStatus
              /\ StartReorganize(t, g.detach, g.attach, TRUE, "accept")
         ELSE /\ dbStatus' = FlushToDB(v.st)
              /\ IF v.rule THEN RuleError(t) ELSE Return(t)

\* Mutant of ConnectBestChain: the longer branch wins, not the heavier one.
ConnectBestChain_ByHeight(t) ==
  LET b == call[t].cur IN
  /\ MayRun(t) /\ pc[t] = "connect"
  /\ UNCHANGED <<verdict, tip, bestHeader, orphans>>
  /\ \/ Parent[b] = tip /\ ExtendBestChain(t, b)
     \/ /\ Parent[b] # tip /\ Height[b] <= Height[tip]
        /\ Release(t, "accepted")
        /\ UNCHANGED <<status, dbStatus, call, queue, detach, attach>>
     \/ Parent[b] # tip /\ Height[b] > Height[tip] /\ ReorganizeTo(t, b)

ConnectBestChain(t) ==
  LET b == call[t].cur IN
  /\ MayRun(t) /\ pc[t] = "connect"
  /\ UNCHANGED <<verdict, tip, bestHeader, orphans>>
  /\ \/ Parent[b] = tip /\ ExtendBestChain(t, b)
     \/ /\ Parent[b] # tip /\ WorkSum[b] <= WorkSum[tip]
        /\ Release(t, "accepted")
        /\ call' = [call EXCEPT ![t].main = FALSE]
        /\ UNCHANGED <<status, dbStatus, queue, detach, attach>>
     \/ Parent[b] # tip /\ WorkSum[b] > WorkSum[tip] /\ ReorganizeTo(t, b)

\* The rest of connectBestChain and maybeAcceptBlock once the lists are empty,
\* up to the NTBlockAccepted notification.
FinishAccept(t) ==
  /\ MayRun(t) /\ pc[t] = "reorg" /\ detach[t] = {} /\ attach[t] = {}
  /\ call[t].cont \in {"accept", "extend"}
  /\ status' = IF call[t].cont = "extend"
               THEN SetStatusFlags(status, {call[t].cur}, "valid")
               ELSE status
  /\ dbStatus' = IF /\ call[t].cont = "extend" /\ ~call[t].fast
                    /\ KnownValid(status[call[t].cur])
                 THEN dbStatus ELSE FlushToDB(status')
  /\ Release(t, "accepted")
  /\ UNCHANGED <<verdict, tip, bestHeader, orphans, call, queue, detach, attach>>

\* processOrphans: the accepted block joins processHashes; the first hash with
\* an orphan child hands that child to maybeAcceptBlock.
ProcessOrphans(t) ==
  LET hashes == Append(queue[t], call[t].cur)
      children(h) == {o \in orphans : Parent[o] = h}
      busy == {i \in 1 .. Len(hashes) : children(hashes[i]) # {}}
  IN
  /\ lock = NoThread /\ pc[t] = "accepted"
  /\ UNCHANGED <<verdict, status, dbStatus, tip, bestHeader>>
  /\ \/ /\ busy = {} /\ Return(t) /\ UNCHANGED orphans
     \/ \E i \in busy : \E o \in children(hashes[i]) :
          /\ \A j \in busy : i <= j
          /\ orphans' = orphans \ {o}
          /\ queue' = [queue EXCEPT ![t] = SubSeq(hashes, i, Len(hashes))]
          /\ call' = [call EXCEPT ![t].cur = o]
          /\ Stay(t, "accept")
          /\ UNCHANGED <<detach, attach>>

\* maybeAcceptBlockHeader; a header already known and in the best header chain,
\* or refused, changes nothing.
ProcessBlockHeader(t, h) ==
  /\ MayCall(t)
  /\ status[Parent[h]] # {} /\ ~KnownInvalid(status[Parent[h]])
  /\ ~KnownInvalid(status[h])
  /\ status[h] # {} => h \notin Ancestors[bestHeader]
  /\ verdict[h] # "badContext"
  /\ status' = IF status[h] = {} THEN [status EXCEPT ![h] = {"header"}]
               ELSE status
  /\ dbStatus' = FlushToDB(status')
  /\ bestHeader' = IF Parent[h] = bestHeader \/ WorkSum[h] > WorkSum[bestHeader]
                   THEN h ELSE bestHeader
  /\ UNCHANGED <<verdict, tip, orphans, threadVars>>

(***************************************************************************)
(* InvalidateBlock and ReconsiderBlock.                                    *)
(***************************************************************************)

\* updateBestHeaderForInvalidation: the possible new tips of bestHeader.
BestHeaderAfter(st) ==
  LET sound(b) == ~KnownInvalid(st[b])
      chain == {b \in Ancestors[bestHeader] : sound(b)}
      candidates == {b \in InactiveTips(st, bestHeader) : sound(b)}
                      \cup {b \in chain : IsHighest(b, chain)}
  IN  IF sound(bestHeader) THEN {bestHeader} ELSE MostWork(candidates)

\* Marks the nodes that are not yet known invalid as having an invalid ancestor.
MarkInvalidAncestor(st, S) ==
  LET fresh == {n \in S : ~KnownInvalid(st[n])}
  IN  UnsetStatusFlags(SetStatusFlags(st, fresh, "invalidAncestor"),
                       fresh, "valid")

InvalidateBlock(t, node) ==
  LET failed == UnsetStatusFlags(SetStatusFlags(status, {node}, "failed"),
                                 {node}, "valid")
      tips == {x \in InactiveTips(failed, tip) : node \in Ancestors[x]}
      below == UNION {Ancestors[x] \ Ancestors[node] : x \in tips}
      chain == Ancestors[tip] \ Ancestors[node]
      st == MarkInvalidAncestor(failed, IF node \in Ancestors[tip]
                                        THEN chain ELSE below)
      d == {n \in chain : ~KnownInvalid(status[n])} \cup {node}
  IN
  /\ status' = st
  /\ IF node \notin Ancestors[tip]
     THEN /\ bestHeader' \in BestHeaderAfter(st)
          /\ dbStatus' = FlushToDB(st)
          /\ Return(t)
     ELSE /\ UNCHANGED <<bestHeader, dbStatus>>
          /\ IF VerifyReorganizationValidity(st, d, {}).ok
             THEN StartReorganize(t, d, {}, FALSE, "invalidate")
             ELSE Return(t)
  /\ UNCHANGED <<verdict, tip, orphans>>

\* The call is back at the parent of the block it invalidates.
Invalidated(t) ==
  /\ MayRun(t) /\ pc[t] = "reorg" /\ detach[t] = {} /\ attach[t] = {}
  /\ call[t].cont = "invalidate"

SoundTips == {b \in InactiveTips(status, tip) \cup {tip} : ~KnownInvalid(status[b])}

\* The second half: a branch with more work than the new tip is activated.
ActivateBestTip(t) ==
  LET best == IF MostWork(SoundTips) = {tip} THEN {tip} ELSE MostWork(SoundTips) \ {tip}
  IN
  /\ Invalidated(t) /\ SoundTips # {}
  /\ bestHeader' \in BestHeaderAfter(status)
  /\ \/ /\ best = {tip}
        /\ status' = status /\ dbStatus' = FlushToDB(status)
        /\ Return(t)
     \/ \E b \in best \ {tip} :
          LET g == GetReorganizeNodes(status, b)
              v == VerifyReorganizationValidity(g.st, g.detach, g.attach)
          IN  /\ status' = v.st
              /\ IF v.ok /\ g.attach # {}
                 THEN /\ dbStatus' = FlushToDB(status)
                      /\ StartReorganize(t, g.detach, g.attach, FALSE, "activate")
                 ELSE /\ dbStatus' = FlushToDB(v.st)
                      /\ Return(t)
  /\ UNCHANGED <<verdict, tip, orphans>>

FinishActivate(t) ==
  /\ MayRun(t) /\ pc[t] = "reorg" /\ detach[t] = {} /\ attach[t] = {}
  /\ call[t].cont \in {"activate", "reconsider"}
  /\ dbStatus' = IF call[t].cont = "activate" THEN FlushToDB(status) ELSE dbStatus
  /\ Return(t)
  /\ UNCHANGED <<verdict, status, tip, bestHeader, orphans>>

\* The invalidateblock RPC.
RpcInvalidateBlock(t, node) ==
  /\ MayCall(t)
  /\ node # Genesis /\ status[node] # {} /\ ~KnownInvalid(status[node])
  /\ InvalidateBlock(t, node)

\* handleBlockMsg marks a rejected block invalid.
MarkRejectedBlock(t) ==
  /\ lock = NoThread /\ pc[t] = "rejected"
  /\ IF KnownInvalid(status[call[t].block])
     THEN /\ Return(t)
          /\ UNCHANGED <<verdict, status, dbStatus, tip, bestHeader, orphans>>
     ELSE InvalidateBlock(t, call[t].block)

\* The map iteration order of InactiveTips decides which descendant tip is the
\* reconsider tip, except that the active tip, when it descends, comes last.
ReconsiderBlock(t, node) ==
  LET clear1 == UnsetStatusFlags(UnsetStatusFlags(status, {node}, "failed"),
                                 {node}, "invalidAncestor")
      tips == {x \in InactiveTips(status, tip) \cup {tip} : node \in Ancestors[x]}
      st == UnsetStatusFlags(clear1, UNION {Ancestors[x] \ Ancestors[node] :
                                            x \in tips}, "invalidAncestor")
  IN
  /\ MayCall(t)
  /\ status[node] # {} /\ ~KnownValid(status[node])
  /\ \E best \in (IF tip \in tips THEN {tip} ELSE tips) :
       LET g == GetReorganizeNodes(st, best)
           v == VerifyReorganizationValidity(g.st, g.detach, g.attach)
       IN  IF WorkSum[best] <= WorkSum[tip]
           THEN /\ status' = st /\ UNCHANGED dbStatus
                /\ Return(t)
           ELSE /\ status' = v.st /\ dbStatus' = FlushToDB(v.st)
                /\ IF v.ok
                   THEN StartReorganize(t, g.detach, g.attach, FALSE, "reconsider")
                   ELSE Return(t)
  /\ UNCHANGED <<verdict, tip, bestHeader, orphans>>

(***************************************************************************)
(* The process dies and initChainState loads the index again.              *)
(***************************************************************************)
InitChainState(db) ==
  /\ status' = SetStatusFlags(db, Ancestors[tip], "valid")
  /\ dbStatus' = status'
  /\ bestHeader' = tip
  /\ orphans' = {}
  /\ lock' = NoThread
  /\ pc' = [t \in Thread |-> "idle"]
  /\ call' = [t \in Thread |-> NoCall]
  /\ queue' = [t \in Thread |-> << >>]
  /\ detach' = [t \in Thread |-> {}]
  /\ attach' = [t \in Thread |-> {}]
  /\ UNCHANGED <<verdict, tip>>

Restart == MayCrash /\ InitChainState(dbStatus)

\* When InvalidateBlock finds every tip invalid, the tip it came back to included,
\* bestTip is nil and getReorganizeNodes panics, which nobody recovers.
NoBestTip(t) ==
  /\ Invalidated(t) /\ SoundTips = {}
  /\ InitChainState(FlushToDB(status))

(***************************************************************************)
(* Specification.                                                          *)
(***************************************************************************)
\* The steps of a call in progress.
Step(t) ==
  \/ MaybeAcceptBlock(t)
  \/ ConnectBestChain(t)
  \/ DisconnectBlock(t)
  \/ ConnectBlock(t)
  \/ ReorganizeError(t)
  \/ FinishAccept(t)
  \/ ProcessOrphans(t)
  \/ ActivateBestTip(t)
  \/ NoBestTip(t)
  \/ FinishActivate(t)
  \/ MarkRejectedBlock(t)

Next ==
  \/ \E b \in Block \ {Genesis}, src \in Sources, ibd \in BOOLEAN :
       ProcessBlock(Sync, b, src, ibd)
  \/ \E h \in Announced : ProcessBlockHeader(Sync, h)
  \/ \E t \in Rpc, b \in Block :
       \/ "invalidate" \in RpcCalls /\ RpcInvalidateBlock(t, b)
       \/ "reconsider" \in RpcCalls /\ ReconsiderBlock(t, b)
  \/ \E t \in Thread : Step(t)
  \/ Restart

Spec == Init /\ [][Next]_vars

\* A thread inside a call goes on.  Strong fairness: chainLock is a
\* sync.RWMutex, whose writers queue on a sync.Mutex that hands over in arrival
\* order once a waiter starves, so a thread that wants the lock back after a
\* notification gets it although other calls keep taking it.
FairSpec == Spec /\ \A t \in Thread : SF_vars(Step(t))

(***************************************************************************)
(* Properties.                                                             *)
(***************************************************************************)
TypeOK ==
  /\ verdict \in [Block -> {"valid", "badContext", "badConnect"}]
  /\ status \in [Block -> SUBSET Flag]
  /\ dbStatus \in [Block -> SUBSET Flag]
  /\ tip \in Block /\ bestHeader \in Block
  /\ orphans \subseteq Block
  /\ lock \in Thread \cup {NoThread}
  /\ pc \in [Thread -> {"idle", "accept", "connect", "reorg", "accepted",
                        "rejected"}]
  /\ call \in [Thread -> Call]
  /\ queue \in [Thread -> Seq(Block)]
  /\ detach \in [Thread -> SUBSET Block]
  /\ attach \in [Thread -> SUBSET Block]

\* The index is closed under ancestors, and so is the set of blocks whose data
\* is stored: a node never loses the branch it hangs from, whichever order
\* headers, blocks, orphans and manual calls come in.
IndexClosed ==
  \A b \in Block : \A a \in Ancestors[b] :
    /\ status[b] # {} => status[a] # {}
    /\ HaveData(status[b]) => HaveData(status[a])

\* Whenever the process dies, initChainState finds what it asserts: the parent
\* of every stored node, the node of the stored best block, and the data of
\* every block of the best chain.
RestartFindsChain ==
  /\ \A b \in Block : \A a \in Ancestors[b] :
       dbStatus[b] # {} => HaveData(dbStatus[a])
  /\ HaveData(dbStatus[tip])

\* Every block of the best chain is stored and obeys the rules.
BestChainObeysRules ==
  \A b \in Ancestors[tip] : HaveData(status[b]) /\ verdict[b] = "valid"

\* Every block of the best chain is stored and obeys the rules, and one that is
\* marked invalid is being disconnected.
BestChainSound ==
  /\ BestChainObeysRules
  /\ \A b \in Ancestors[tip] :
       KnownInvalid(status[b]) => \E t \in Thread : b \in detach[t]

\* A stored branch with no node marked invalid.
Activatable(b) ==
  \A a \in Ancestors[b] : HaveData(status[a]) /\ ~KnownInvalid(status[a])

\* Between calls no stored branch that is free of invalid blocks has more work
\* than the best chain.
HeaviestChain ==
  (\A t \in Thread : pc[t] = "idle") =>
     \A b \in Block : Activatable(b) => WorkSum[b] <= WorkSum[tip]

\* A block is marked invalid only for breaking a rule or for an ancestor that
\* does.
InvalidForCause ==
  \A b \in Block : KnownInvalid(status[b]) =>
     \E a \in Ancestors[b] : verdict[a] # "valid"

\* The best chain moves one block at a time, so the stream of connected and
\* disconnected notifications describes it.
TipMovesByOne ==
  [][\/ tip # Genesis /\ tip' = Parent[tip]
     \/ tip' # Genesis /\ Parent[tip'] = tip]_tip

\* Every call returns.
Inside(t) == pc[t] # "idle"
CallsReturn == \A t \in Thread : Inside(t) ~> ~Inside(t)
===============================================================================
