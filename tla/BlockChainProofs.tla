---------------------------- MODULE BlockChainProofs ----------------------------
(***************************************************************************)
(* BlockChain keeps its index and its database in a state a restart can    *)
(* load, for every tree of blocks, any number of threads, any orphan order *)
(* and any failure or crash the specification has.                         *)
(***************************************************************************)
EXTENDS BlockChain, TLAPS

\* A leaf that names no prover is for the SMT solver.
USE SMTT(60)

(***************************************************************************)
(* The inductive invariant.                                                *)
(***************************************************************************)

\* An index: closed under ancestors, and every node came in as a header or as a
\* block (so that clearing a verdict flag never makes a node vanish).
IndexOK(st) ==
  /\ st \in [Block -> SUBSET Flag]
  /\ \A b \in Block : st[b] # {} => "data" \in st[b] \/ "header" \in st[b]
  /\ \A b \in Block : \A a \in Ancestors[b] :
       /\ st[b] # {} => st[a] # {}
       /\ HaveData(st[b]) => HaveData(st[a])

\* Two indexes that differ in verdict flags only.
SameNodes(st, st2) ==
  /\ st2 \in [Block -> SUBSET Flag]
  /\ \A b \in Block : /\ HaveData(st2[b]) <=> HaveData(st[b])
                      /\ "header" \in st2[b] <=> "header" \in st[b]
                      /\ st2[b] = {} <=> st[b] = {}

\* A bucket a restart can load, next to the index it was written from.
BucketOK(st, db, best) ==
  /\ db \in [Block -> SUBSET Flag]
  /\ \A b \in Block : HaveData(db[b]) => HaveData(st[b])
  /\ \A b \in Block : \A a \in Ancestors[b] : db[b] # {} => HaveData(db[a])
  /\ HaveData(db[best])

ThreadTypes ==
  /\ lock \in Thread \cup {NoThread}
  /\ pc \in [Thread -> {"idle", "accept", "connect", "reorg", "accepted",
                        "rejected"}]
  /\ call \in [Thread -> Call]
  /\ queue \in [Thread -> Seq(Block)]
  /\ detach \in [Thread -> SUBSET Block]
  /\ attach \in [Thread -> SUBSET Block]

\* maybeAcceptBlock has stored the block the thread works on.
Stored(t) ==
  \/ pc[t] \in {"connect", "accepted"}
  \/ pc[t] = "reorg" /\ call[t].cont \in {"accept", "extend"}

\* What the locals of a call promise across the windows in which chainLock is
\* free: the blocks they name are in the index, with their data.
CallOK(t) ==
  /\ Stored(t) \/ pc[t] \in {"accept", "rejected"} =>
       call[t].block # Genesis /\ call[t].cur # Genesis
  /\ pc[t] = "accept" => HaveData(status[Parent[call[t].cur]])
  /\ Stored(t) => HaveData(status[call[t].cur])
  /\ pc[t] = "rejected" => HaveData(status[call[t].block])
  /\ \A i \in 1 .. Len(queue[t]) : HaveData(status[queue[t][i]])
  /\ Genesis \notin detach[t]
  /\ \A b \in attach[t] : b # Genesis /\ HaveData(status[b])

ThreadInv == \A t \in Thread : CallOK(t)

IInv ==
  /\ verdict \in [Block -> {"valid", "badContext", "badConnect"}]
  /\ tip \in Block /\ bestHeader \in Block
  /\ orphans \subseteq Block \ {Genesis}
  /\ IndexOK(status)
  /\ BucketOK(status, dbStatus, tip)
  /\ ThreadTypes
  /\ ThreadInv

DataKept == \A b \in Block : HaveData(status[b]) => HaveData(status'[b])

(***************************************************************************)
(* The locals of a call.                                                   *)
(***************************************************************************)

\* A thread that is in no call.
LEMMA NoCallType ==
  NoCall \in Call /\ << >> \in Seq(Block) /\ 1 .. Len(<< >>) = {}
BY TreeAssumption DEF NoCall, Call

\* The blocks that are left are stored as well.
LEMMA SuffixStored ==
  ASSUME NEW q \in Seq(Block), NEW st,
         \A i \in 1 .. Len(q) : HaveData(st[q[i]]), NEW k \in 1 .. Len(q)
  PROVE  LET s == SubSeq(q, k, Len(q))
         IN  s \in Seq(Block) /\ \A j \in 1 .. Len(s) : HaveData(st[s[j]])
<1> DEFINE s == SubSeq(q, k, Len(q))
<1>1. /\ s \in Seq(Block) /\ Len(s) = Len(q) - k + 1
      /\ \A j \in 1 .. Len(s) : s[j] = q[k + j - 1]
  OBVIOUS
<1> HIDE DEF s
<1>2. \A j \in 1 .. Len(s) : k + j - 1 \in 1 .. Len(q)
  BY <1>1
<1>3. s \in Seq(Block) /\ \A j \in 1 .. Len(s) : HaveData(st[s[j]])
  BY <1>1, <1>2, ZenonT(60)
<1> QED
  BY <1>3 DEF s

\* A stored block may join the blocks whose orphans are to be processed.
LEMMA AppendStored ==
  ASSUME NEW q \in Seq(Block), NEW x \in Block, NEW st,
         \A i \in 1 .. Len(q) : HaveData(st[q[i]]), HaveData(st[x])
  PROVE  /\ Append(q, x) \in Seq(Block)
         /\ \A i \in 1 .. Len(Append(q, x)) : HaveData(st[Append(q, x)[i]])
OBVIOUS

(***************************************************************************)
(* The tree and the flags.                                                 *)
(***************************************************************************)

\* A block is among its own ancestors, the ancestors of its parent are among
\* its ancestors, and Genesis is nobody's child.
LEMMA TreeFacts ==
  /\ \A b \in Block : b \in Ancestors[b] /\ Ancestors[b] \subseteq Block
  /\ \A b \in Block : Genesis \in Ancestors[b]
  /\ \A b \in Block \ {Genesis} :
       Parent[b] \in Block /\ Ancestors[b] = {b} \cup Ancestors[Parent[b]]
BY TreeAssumption

\* Setting a verdict flag on nodes of the index changes no other flag.
LEMMA SetKeepsNodes ==
  ASSUME NEW st, IndexOK(st), NEW S, S \subseteq Indexed(st),
         NEW f \in {"valid", "failed", "invalidAncestor"}
  PROVE  SameNodes(st, SetStatusFlags(st, S, f))
BY DEF IndexOK, SameNodes, SetStatusFlags, Indexed, HaveData, Flag

\* Clearing a verdict flag, wherever it is done, changes no other flag.
LEMMA UnsetKeepsNodes ==
  ASSUME NEW st, IndexOK(st), NEW S,
         NEW f \in {"valid", "failed", "invalidAncestor"}
  PROVE  SameNodes(st, UnsetStatusFlags(st, S, f))
BY DEF IndexOK, SameNodes, UnsetStatusFlags, HaveData, Flag

\* An index stays one when only verdict flags change, and such changes compose.
LEMMA SameNodesOK ==
  ASSUME NEW st, IndexOK(st), NEW st2, SameNodes(st, st2)
  PROVE  /\ IndexOK(st2)
         /\ Indexed(st2) = Indexed(st)
         /\ \A b \in Block : HaveData(st2[b]) <=> HaveData(st[b])
<1>1. /\ st2 \in [Block -> SUBSET Flag]
      /\ \A b \in Block : /\ HaveData(st2[b]) <=> HaveData(st[b])
                          /\ "header" \in st2[b] <=> "header" \in st[b]
                          /\ st2[b] = {} <=> st[b] = {}
  BY DEF SameNodes
<1>2. \A b \in Block : st2[b] # {} => "data" \in st2[b] \/ "header" \in st2[b]
  BY <1>1 DEF IndexOK, HaveData
<1>3. \A b \in Block : \A a \in Ancestors[b] :
       /\ st2[b] # {} => st2[a] # {}
       /\ HaveData(st2[b]) => HaveData(st2[a])
  BY <1>1, TreeFacts DEF IndexOK
<1> QED
  BY <1>1, <1>2, <1>3 DEF IndexOK, Indexed

\* Changes of verdict flags compose.
LEMMA SameNodesCompose ==
  ASSUME NEW st1, NEW st2, NEW st3, SameNodes(st1, st2), SameNodes(st2, st3)
  PROVE  SameNodes(st1, st3)
BY DEF SameNodes

\* An unchanged index differs in no flag at all.
LEMMA SameNodesReflexive ==
  ASSUME NEW st, IndexOK(st)
  PROVE  SameNodes(st, st)
BY DEF SameNodes, IndexOK

\* flushToDB writes a bucket a restart can load, whenever the tip has its data.
LEMMA FlushOK ==
  ASSUME NEW st, IndexOK(st), NEW best \in Block, HaveData(st[best])
  PROVE  BucketOK(st, FlushToDB(st), best)
<1>1. FlushToDB(st) \in [Block -> SUBSET Flag]
  BY DEF FlushToDB, IndexOK
<1>2. \A b \in Block : HaveData(FlushToDB(st)[b]) <=> HaveData(st[b])
  BY DEF FlushToDB, HaveData
<1>3. \A b \in Block : FlushToDB(st)[b] # {} => HaveData(st[b])
  BY DEF FlushToDB
<1> QED
  BY <1>1, <1>2, <1>3, TreeFacts DEF BucketOK, IndexOK

\* A bucket stays loadable when the index gains nodes or data and the tip moves
\* to a block the bucket has.
LEMMA BucketKept ==
  ASSUME NEW st, NEW st2, NEW db, NEW best \in Block, BucketOK(st, db, best),
         \A b \in Block : HaveData(st[b]) => HaveData(st2[b])
  PROVE  BucketOK(st2, db, best)
BY ZenonT(60) DEF BucketOK

(***************************************************************************)
(* Reorganization lists and manual marks.                                  *)
(***************************************************************************)

\* getReorganizeNodes marks nodes of the index only, and never lists Genesis.
LEMMA GetReorganizeNodesOK ==
  ASSUME NEW st, IndexOK(st), tip \in Block,
         NEW node \in Indexed(st), node # Genesis
  PROVE  LET g == GetReorganizeNodes(st, node)
         IN  /\ SameNodes(st, g.st)
             /\ g.detach \subseteq Block \ {Genesis}
             /\ g.attach \subseteq Indexed(st) \ {Genesis}
<1> DEFINE path == Ancestors[node] \ Ancestors[tip]
           bad == {n \in path : KnownInvalid(st[n])}
           unwound == {n \in path : \A m \in bad : Height[n] > Height[m]}
<1>1. path \subseteq Indexed(st) \ {Genesis} /\ {node} \subseteq Indexed(st)
  BY TreeFacts DEF IndexOK, Indexed
<1>2. SameNodes(st, SetStatusFlags(st, {node}, "invalidAncestor"))
  BY <1>1, SetKeepsNodes
<1>3. SameNodes(st, SetStatusFlags(st, unwound, "invalidAncestor"))
  <2>1. unwound \subseteq Indexed(st)
    BY <1>1
  <2> QED
    BY <2>1, SetKeepsNodes
<1>4. SameNodes(st, st)
  BY SameNodesReflexive
<1>5. Ancestors[tip] \ Ancestors[node] \subseteq Block \ {Genesis}
  BY TreeFacts DEF Indexed
<1> QED
  BY <1>1, <1>2, <1>3, <1>4, <1>5 DEF GetReorganizeNodes

\* verifyReorganizationValidity marks nodes of the attach list only, and a list
\* that passes has all its blocks stored.
LEMMA VerifyReorganizationValidityOK ==
  ASSUME NEW st, IndexOK(st), NEW d, NEW a, a \subseteq Indexed(st)
  PROVE  LET v == VerifyReorganizationValidity(st, d, a)
         IN  /\ SameNodes(st, v.st)
             /\ v.ok => \A n \in a : HaveData(st[n])
<1> DEFINE stops == {n \in a : \/ ~HaveData(st[n])
                               \/ ~KnownValid(st[n]) /\ verdict[n] # "valid"}
           broken == {n \in a : IsLowest(n, stops) /\ HaveData(st[n])}
           passed == {n \in a : \A m \in stops : Height[n] < Height[m]}
           above == {n \in a : \E m \in broken : Height[n] > Height[m]}
           s1 == SetStatusFlags(st, passed, "valid")
           s2 == SetStatusFlags(s1, broken, "failed")
           s3 == SetStatusFlags(s2, above, "invalidAncestor")
           lists == /\ d # {} => IsHighest(tip, d)
                    /\ \A x \in a, y \in d : IsLowest(x, a) /\ IsLowest(y, d)
                                              => Parent[x] = Parent[y]
<1>0. passed \subseteq a /\ broken \subseteq a /\ above \subseteq a
  OBVIOUS
<1> HIDE DEF passed, broken, above
<1>1. SameNodes(st, s1)
  BY <1>0, SetKeepsNodes
<1>2. IndexOK(s1) /\ Indexed(s1) = Indexed(st)
  BY <1>1, SameNodesOK
<1> HIDE DEF s1
<1>3. SameNodes(s1, s2)
  BY <1>0, <1>2, SetKeepsNodes
<1>4. IndexOK(s2) /\ Indexed(s2) = Indexed(st)
  BY <1>2, <1>3, SameNodesOK
<1> HIDE DEF s2
<1>5. SameNodes(s2, s3)
  BY <1>0, <1>4, SetKeepsNodes
<1> HIDE DEF s3
<1>6. SameNodes(st, s3) /\ SameNodes(st, st)
  BY <1>1, <1>3, <1>5, SameNodesCompose, SameNodesReflexive
<1> HIDE DEF stops, lists
<1>7. VerifyReorganizationValidity(st, d, a)
        = [ok |-> lists /\ stops = {}, rule |-> lists /\ broken # {},
           st |-> IF lists THEN s3 ELSE st]
  BY ZenonT(60) DEF VerifyReorganizationValidity, s1, s2, s3, stops, broken, passed, above, lists
<1>8. stops = {} => \A n \in a : HaveData(st[n])
  BY DEF stops
<1> DEFINE v == VerifyReorganizationValidity(st, d, a)
<1>9. v.ok = (lists /\ stops = {}) /\ v.st = IF lists THEN s3 ELSE st
  BY <1>7
<1> HIDE DEF v
<1>10. SameNodes(st, v.st) /\ (v.ok => \A n \in a : HaveData(st[n]))
  BY <1>6, <1>8, <1>9, ZenonT(60)
<1> QED
  BY <1>10 DEF v

\* MarkInvalidAncestor changes verdict flags of nodes of the index only.
LEMMA MarkInvalidAncestorOK ==
  ASSUME NEW st, IndexOK(st), NEW S, S \subseteq Indexed(st)
  PROVE  SameNodes(st, MarkInvalidAncestor(st, S))
<1> DEFINE fresh == {n \in S : ~KnownInvalid(st[n])}
           s1 == SetStatusFlags(st, fresh, "invalidAncestor")
<1>1. fresh \subseteq Indexed(st)
  OBVIOUS
<1> HIDE DEF fresh
<1>2. SameNodes(st, s1)
  BY <1>1, SetKeepsNodes
<1>3. IndexOK(s1)
  BY <1>2, SameNodesOK
<1> HIDE DEF s1
<1>4. SameNodes(s1, UnsetStatusFlags(s1, fresh, "valid"))
  BY <1>3, UnsetKeepsNodes
<1>5. SameNodes(st, UnsetStatusFlags(s1, fresh, "valid"))
  BY <1>2, <1>4, SameNodesCompose
<1> QED
  BY <1>5 DEF MarkInvalidAncestor, s1, fresh

\* The new tip of the best header chain is a block.
LEMMA BestHeaderAfterOK ==
  ASSUME NEW st, bestHeader \in Block
  PROVE  BestHeaderAfter(st) \subseteq Block
BY TreeFacts DEF BestHeaderAfter, MostWork, InactiveTips, Indexed, IsHighest

\* The nodes InactiveTips finds are in the index, and so are their ancestors.
LEMMA InactiveTipsOK ==
  ASSUME NEW st, IndexOK(st), NEW best \in Block, NEW x \in InactiveTips(st, best)
  PROVE  /\ x \in Indexed(st) /\ x # Genesis
         /\ Ancestors[x] \subseteq Indexed(st)
BY TreeFacts DEF InactiveTips, Indexed, IndexOK

(***************************************************************************)
(* Moves of a thread.                                                      *)
(***************************************************************************)

\* A thread the step leaves alone keeps what it relies on.
LEMMA OtherThreads ==
  ASSUME ThreadTypes, DataKept, NEW u \in Thread, CallOK(u),
         pc'[u] = pc[u], call'[u] = call[u], queue'[u] = queue[u],
         detach'[u] = detach[u], attach'[u] = attach[u]
  PROVE  CallOK(u)'
<1>1. /\ call[u].block \in Block /\ call[u].cur \in Block
      /\ attach[u] \subseteq Block /\ queue[u] \in Seq(Block)
  BY DEF ThreadTypes, Call
<1>2. \A i \in 1 .. Len(queue[u]) : queue[u][i] \in Block
  BY <1>1
<1>3. Stored(u)' <=> Stored(u)
  BY ZenonT(60) DEF Stored
<1>4. pc[u] = "accept" => Parent[call[u].cur] \in Block
  BY <1>1, TreeFacts DEF CallOK
<1> QED
  BY <1>1, <1>2, <1>3, <1>4 DEF CallOK, DataKept

\* A call that returns leaves nothing behind.
LEMMA ReturnOK ==
  ASSUME ThreadTypes, ThreadInv, DataKept, NEW t \in Thread, Return(t)
  PROVE  ThreadTypes' /\ ThreadInv'
<1>1. NoCall \in Call
  BY TreeAssumption DEF NoCall, Call
<1>2. ThreadTypes'
  <2>1. << >> \in Seq(Block)
    OBVIOUS
  <2> QED
    BY <1>1, <2>1 DEF ThreadTypes, Return, Release
<1>3. ASSUME NEW u \in Thread
      PROVE  CallOK(u)'
  <2>1. CASE u = t
    <3>1. /\ pc'[u] = "idle" /\ queue'[u] = << >>
          /\ detach'[u] = {} /\ attach'[u] = {}
      BY <2>1 DEF Return, Release, ThreadTypes
    <3> QED
      BY <3>1 DEF CallOK, Stored
  <2>2. CASE u # t
    <3>1. /\ pc'[u] = pc[u] /\ queue'[u] = queue[u] /\ call'[u] = call[u]
          /\ detach'[u] = detach[u] /\ attach'[u] = attach[u]
      BY <2>2 DEF Return, Release, ThreadTypes
    <3> QED
      BY <3>1, OtherThreads DEF ThreadInv
  <2> QED
    BY <2>1, <2>2, ZenonT(60)
<1> QED
  BY <1>2, <1>3 DEF ThreadInv

\* A step changes the locals of one thread only.
OnlyThread(t) ==
  \A u \in Thread \ {t} :
    /\ pc'[u] = pc[u] /\ queue'[u] = queue[u] /\ call'[u] = call[u]
    /\ detach'[u] = detach[u] /\ attach'[u] = attach[u]

\* It is enough to look at the thread that takes the step.
LEMMA MoveOK ==
  ASSUME ThreadTypes, ThreadInv, DataKept, NEW t \in Thread, OnlyThread(t),
         CallOK(t)'
  PROVE  ThreadInv'
BY OtherThreads DEF ThreadInv, OnlyThread

\* A thread whose block breaks a rule returns, or goes on to mark its block.
LEMMA RuleErrorOK ==
  ASSUME ThreadTypes, ThreadInv, DataKept, NEW t \in Thread,
         pc[t] \in {"accept", "connect"}, RuleError(t)
  PROVE  ThreadTypes' /\ ThreadInv'
<1>1. CASE Return(t)
  BY <1>1, ReturnOK
<1>2. CASE /\ HaveData(status'[call[t].block])
           /\ Release(t, "rejected")
           /\ UNCHANGED <<call, queue, detach, attach>>
  <2>1. ThreadTypes'
    BY <1>2 DEF ThreadTypes, Release
  <2>2. OnlyThread(t) /\ pc'[t] = "rejected"
    BY <1>2, ZenonT(60) DEF OnlyThread, Release, ThreadTypes
  <2>3. CallOK(t)'
    <3>1. /\ call[t].block # Genesis /\ call[t].cur # Genesis
          /\ \A i \in 1 .. Len(queue[t]) : HaveData(status[queue[t][i]])
          /\ Genesis \notin detach[t]
          /\ \A b \in attach[t] : b # Genesis /\ HaveData(status[b])
      BY ZenonT(60) DEF ThreadInv, CallOK, Stored
    <3>2. attach[t] \subseteq Block /\ \A i \in 1 .. Len(queue[t]) : queue[t][i] \in Block
      BY DEF ThreadTypes
    <3>3. ~Stored(t)'
      BY <2>2 DEF Stored
    <3> QED
      BY <1>2, <2>2, <3>1, <3>2, <3>3 DEF CallOK, DataKept
  <2> QED
    BY <2>1, <2>2, <2>3, MoveOK
<1> QED
  BY <1>1, <1>2 DEF RuleError

\* reorganizeChain starts with lists that leave Genesis alone and whose new
\* blocks are stored.
LEMMA StartReorganizeOK ==
  ASSUME ThreadTypes, ThreadInv, DataKept, NEW t \in Thread,
         NEW d \in SUBSET (Block \ {Genesis}), NEW a \in SUBSET (Block \ {Genesis}),
         NEW main \in BOOLEAN,
         NEW cont \in {"accept", "extend", "invalidate", "activate", "reconsider"},
         cont \in {"accept", "extend"} => Stored(t),
         \A b \in a : HaveData(status'[b]),
         StartReorganize(t, d, a, main, cont)
  PROVE  ThreadTypes' /\ ThreadInv'
<1> DEFINE c == [call[t] EXCEPT !.main = main, !.cont = cont]
<1>a. /\ c \in Call /\ c.cont = cont
      /\ c.cur = call[t].cur /\ c.block = call[t].block
  BY ZenonT(60) DEF ThreadTypes, Call
<1>b. call' = [call EXCEPT ![t] = c]
  BY DEF StartReorganize
<1> HIDE DEF c
<1>1. ThreadTypes'
  BY <1>a, <1>b DEF ThreadTypes, StartReorganize, Stay
<1>2. /\ OnlyThread(t) /\ pc'[t] = "reorg" /\ call'[t] = c
      /\ detach'[t] = d /\ attach'[t] = a /\ queue' = queue
  BY <1>b DEF OnlyThread, StartReorganize, Stay, ThreadTypes
<1>3. CallOK(t)'
  <2>1. Stored(t)' => Stored(t)
    BY <1>2, <1>a DEF Stored
  <2>2. /\ Stored(t) => /\ call[t].block # Genesis /\ call[t].cur # Genesis
                        /\ HaveData(status[call[t].cur])
        /\ \A i \in 1 .. Len(queue[t]) : HaveData(status[queue[t][i]])
    BY ZenonT(60) DEF ThreadInv, CallOK
  <2>3. call[t].cur \in Block /\ \A i \in 1 .. Len(queue[t]) : queue[t][i] \in Block
    BY DEF ThreadTypes, Call
  <2> QED
    BY <1>a, <1>2, <2>1, <2>2, <2>3 DEF CallOK, DataKept
<1> QED
  BY <1>1, <1>2, <1>3, MoveOK

(***************************************************************************)
(* Each action keeps the invariant.                                        *)
(***************************************************************************)

\* What a change of verdict flags does for the index and the bucket.
LEMMA VerdictStep ==
  ASSUME IInv, SameNodes(status, status')
  PROVE  /\ IndexOK(status') /\ DataKept
         /\ BucketOK(status', dbStatus, tip)
         /\ BucketOK(status', FlushToDB(status), tip)
         /\ BucketOK(status', FlushToDB(status'), tip)
<1>1. IndexOK(status) /\ BucketOK(status, dbStatus, tip) /\ tip \in Block
  BY DEF IInv
<1>2. /\ IndexOK(status')
      /\ \A b \in Block : HaveData(status'[b]) <=> HaveData(status[b])
  BY <1>1, SameNodesOK
<1>3. HaveData(status[tip])
  BY <1>1 DEF BucketOK
<1>4. BucketOK(status', dbStatus, tip)
  BY <1>1, <1>2, BucketKept, ZenonT(60)
<1>5. BucketOK(status', FlushToDB(status), tip)
  BY <1>1, <1>2, <1>3, FlushOK, BucketKept, ZenonT(60)
<1>6. BucketOK(status', FlushToDB(status'), tip)
  BY <1>1, <1>2, <1>3, FlushOK
<1> QED
  BY <1>2, <1>4, <1>5, <1>6 DEF DataKept

\* A step that leaves the index alone is a change of no verdict flag.
LEMMA NoChangeStep ==
  ASSUME IInv, status' = status
  PROVE  SameNodes(status, status') /\ DataKept
BY SameNodesReflexive DEF IInv, DataKept

\* disconnectBlock: the parent of the tip is stored, and the bucket it writes has it.
LEMMA DisconnectBlockOK ==
  ASSUME IInv, NEW t \in Thread, DisconnectBlock(t)
  PROVE  IInv'
<1>1. status' = status /\ tip # Genesis /\ tip' = Parent[tip] /\ tip' \in Block
  BY TreeFacts DEF DisconnectBlock, IsHighest, IInv, ThreadInv, CallOK
<1>2. DataKept
  BY <1>1, NoChangeStep
<1>3. BucketOK(status, FlushToDB(status), tip')
  <2>1. HaveData(status[tip])
    BY DEF IInv, BucketOK
  <2>2. HaveData(status[tip'])
    BY <1>1, <2>1, TreeFacts DEF IInv, IndexOK
  <2> QED
    BY <1>1, <2>2, FlushOK DEF IInv
<1>4. ThreadTypes'
  BY DEF DisconnectBlock, Release, IInv, ThreadTypes
<1>5. /\ OnlyThread(t) /\ pc'[t] = pc[t] /\ call' = call /\ queue' = queue
      /\ attach' = attach /\ detach'[t] \subseteq detach[t]
  BY ZenonT(60) DEF DisconnectBlock, Release, IInv, ThreadTypes, OnlyThread
<1>6. CallOK(t)'
  <2>1. CallOK(t) /\ (Stored(t)' <=> Stored(t))
    BY <1>5 DEF IInv, ThreadInv, Stored
  <2> QED
    BY <1>1, <1>5, <2>1, ZenonT(60) DEF CallOK
<1>7. ThreadInv'
  BY <1>2, <1>5, <1>6, MoveOK, ZenonT(60) DEF IInv
<1> QED
  BY <1>1, <1>3, <1>4, <1>7, ZenonT(60) DEF IInv, DisconnectBlock

\* connectBlock: the block it makes the tip is stored, whichever thread listed it.
LEMMA ConnectBlockOK ==
  ASSUME IInv, NEW t \in Thread, ConnectBlock(t)
  PROVE  IInv'
<1>1. status' = status /\ tip' \in attach[t]
  BY DEF ConnectBlock, IsLowest
<1>2. DataKept
  BY <1>1, NoChangeStep
<1>3. tip' \in Block /\ BucketOK(status, FlushToDB(status), tip')
  <2>1. HaveData(status[tip'])
    BY <1>1 DEF IInv, ThreadInv, CallOK
  <2>2. tip' \in Block
    BY <1>1, ZenonT(60) DEF IInv, ThreadTypes
  <2> QED
    BY <2>1, <2>2, FlushOK, ZenonT(60) DEF IInv
<1>4. ThreadTypes'
  BY ZenonT(60) DEF ConnectBlock, Release, IInv, ThreadTypes
<1>5. /\ OnlyThread(t) /\ pc'[t] = pc[t] /\ call' = call /\ queue' = queue
      /\ detach' = detach /\ attach'[t] \subseteq attach[t]
  BY ZenonT(60) DEF ConnectBlock, Release, IInv, ThreadTypes, OnlyThread
<1>6. CallOK(t)'
  <2>1. CallOK(t) /\ (Stored(t)' <=> Stored(t))
    BY <1>5 DEF IInv, ThreadInv, Stored
  <2> QED
    BY <1>1, <1>5, <2>1, ZenonT(60) DEF CallOK
<1>7. ThreadInv'
  BY <1>2, <1>5, <1>6, MoveOK, ZenonT(60) DEF IInv
<1> QED
  BY <1>1, <1>3, <1>4, <1>7, ZenonT(60) DEF IInv, ConnectBlock

\* A reorganization that stops half way leaves a chain a restart can load.
LEMMA ReorganizeErrorOK ==
  ASSUME IInv, NEW t \in Thread, ReorganizeError(t)
  PROVE  IInv'
<1>1. /\ status' = status /\ tip' = tip /\ Return(t)
      /\ dbStatus' \in {FlushToDB(status'), dbStatus}
  BY ZenonT(60) DEF ReorganizeError
<1>2. SameNodes(status, status')
  BY <1>1, NoChangeStep
<1>3. IndexOK(status') /\ BucketOK(status', dbStatus', tip') /\ DataKept
  BY <1>1, <1>2, VerdictStep
<1>4. ThreadTypes' /\ ThreadInv'
  BY <1>1, <1>3, ReturnOK, ZenonT(60) DEF IInv
<1> QED
  BY <1>1, <1>3, <1>4, ZenonT(60) DEF IInv, ReorganizeError

\* The end of a manual reorganization.
LEMMA FinishActivateOK ==
  ASSUME IInv, NEW t \in Thread, FinishActivate(t)
  PROVE  IInv'
<1>1. /\ status' = status /\ tip' = tip /\ Return(t)
      /\ dbStatus' \in {FlushToDB(status'), dbStatus}
  BY ZenonT(60) DEF FinishActivate
<1>2. SameNodes(status, status')
  BY <1>1, NoChangeStep
<1>3. IndexOK(status') /\ BucketOK(status', dbStatus', tip') /\ DataKept
  BY <1>1, <1>2, VerdictStep
<1>4. ThreadTypes' /\ ThreadInv'
  BY <1>1, <1>3, ReturnOK DEF IInv
<1> QED
  BY <1>1, <1>3, <1>4 DEF IInv, FinishActivate

\* The end of connectBestChain: the block stays in the index.
LEMMA FinishAcceptOK ==
  ASSUME IInv, NEW t \in Thread, FinishAccept(t)
  PROVE  IInv'
<1>1. Stored(t) /\ call[t].cur \in Block /\ call[t].cur \in Indexed(status)
  <2>1. Stored(t) /\ call[t].cur \in Block
    BY DEF FinishAccept, Stored, IInv, ThreadTypes, Call
  <2>2. HaveData(status[call[t].cur])
    BY <2>1, ZenonT(60) DEF IInv, ThreadInv, CallOK
  <2> QED
    BY <2>1, <2>2, ZenonT(60) DEF Indexed, HaveData
<1>2. SameNodes(status, status')
  <2>1. SameNodes(status, SetStatusFlags(status, {call[t].cur}, "valid"))
    BY <1>1, SetKeepsNodes DEF IInv
  <2>2. SameNodes(status, status)
    BY SameNodesReflexive, ZenonT(60) DEF IInv
  <2> QED
    BY <2>1, <2>2 DEF FinishAccept
<1>3. tip' = tip /\ dbStatus' \in {FlushToDB(status'), dbStatus}
  BY DEF FinishAccept
<1>4. IndexOK(status') /\ BucketOK(status', dbStatus', tip') /\ DataKept
  BY <1>2, <1>3, VerdictStep, ZenonT(60)
<1>5. ThreadTypes'
  BY ZenonT(60) DEF FinishAccept, Release, IInv, ThreadTypes
<1>6. /\ OnlyThread(t) /\ pc'[t] = "accepted" /\ call' = call /\ queue' = queue
      /\ detach' = detach /\ attach' = attach
  BY ZenonT(60) DEF FinishAccept, Release, IInv, ThreadTypes, OnlyThread
<1>7. CallOK(t)'
  <2>1. CallOK(t) /\ Stored(t)'
    BY <1>6, ZenonT(60) DEF IInv, ThreadInv, Stored
  <2>2. /\ call[t].block # Genesis /\ call[t].cur # Genesis
        /\ HaveData(status[call[t].cur])
        /\ \A i \in 1 .. Len(queue[t]) : HaveData(status[queue[t][i]])
        /\ Genesis \notin detach[t]
        /\ \A b \in attach[t] : b # Genesis /\ HaveData(status[b])
    BY <1>1, <2>1, ZenonT(60) DEF CallOK
  <2>3. attach[t] \subseteq Block /\ \A i \in 1 .. Len(queue[t]) : queue[t][i] \in Block
    BY DEF IInv, ThreadTypes
  <2> QED
    BY <1>1, <1>4, <1>6, <2>1, <2>2, <2>3, ZenonT(60) DEF CallOK, DataKept
<1>8. ThreadInv'
  BY <1>4, <1>6, <1>7, MoveOK, ZenonT(60) DEF IInv
<1> QED
  BY <1>3, <1>4, <1>5, <1>8 DEF IInv, FinishAccept

\* maybeAcceptBlock: the new data hangs from stored data.
LEMMA MaybeAcceptBlockOK ==
  ASSUME IInv, NEW t \in Thread, MaybeAcceptBlock(t)
  PROVE  IInv'
<1> DEFINE b == call[t].cur
<1>1. /\ b \in Block \ {Genesis} /\ call[t].block # Genesis
      /\ Parent[b] \in Block /\ HaveData(status[Parent[b]]) /\ pc[t] = "accept"
  <2>1. pc[t] = "accept" /\ b \in Block /\ CallOK(t)
    BY ZenonT(60) DEF MaybeAcceptBlock, IInv, ThreadTypes, Call, ThreadInv
  <2> QED
    BY <2>1, TreeFacts DEF CallOK
<1>2. verdict' = verdict /\ tip' = tip /\ bestHeader' = bestHeader /\ orphans' = orphans
  BY ZenonT(60) DEF MaybeAcceptBlock
<1>3. CASE /\ UNCHANGED <<status, dbStatus>>
           /\ Return(t) \/ RuleError(t)
  <2>1. SameNodes(status, status')
    BY <1>3, NoChangeStep
  <2>2. IndexOK(status') /\ BucketOK(status', dbStatus', tip') /\ DataKept
    BY <1>2, <1>3, <2>1, VerdictStep, ZenonT(60)
  <2>3. ThreadTypes' /\ ThreadInv'
    BY <1>1, <1>3, <2>2, ReturnOK, RuleErrorOK, ZenonT(60) DEF IInv
  <2> QED
    BY <1>2, <2>2, <2>3 DEF IInv
<1>4. CASE /\ status' = IF status[b] = {}
                        THEN [status EXCEPT ![b] = {"data", "header"}]
                        ELSE SetStatusFlags(status, {b}, "data")
           /\ dbStatus' = FlushToDB(status')
           /\ Stay(t, "connect")
           /\ UNCHANGED <<call, queue, detach, attach>>
  <2>1. IndexOK(status)
    BY ZenonT(60) DEF IInv
  <2>2. /\ status' \in [Block -> SUBSET Flag]
        /\ \A x \in Block \ {b} : status'[x] = status[x]
        /\ "data" \in status'[b]
        /\ \A x \in Block : HaveData(status[x]) => HaveData(status'[x])
        /\ \A x \in Block : status[x] # {} => status'[x] # {}
    BY <1>1, <1>4, <2>1, ZenonT(60) DEF IndexOK, SetStatusFlags, Flag, HaveData
  <2>3. \A x \in Ancestors[b] : HaveData(status'[x])
    <3>1. \A x \in Ancestors[Parent[b]] : HaveData(status[x]) /\ x \in Block
      BY <1>1, <2>1, TreeFacts, ZenonT(60) DEF IndexOK
    <3> QED
      BY <1>1, <2>2, <3>1, TreeFacts DEF HaveData
  <2>4. \A x \in Block : status'[x] # {} => "data" \in status'[x] \/ "header" \in status'[x]
    BY <2>1, <2>2, ZenonT(60) DEF IndexOK
  <2>5. ASSUME NEW x \in Block, NEW a \in Ancestors[x]
        PROVE  /\ status'[x] # {} => status'[a] # {}
               /\ HaveData(status'[x]) => HaveData(status'[a])
    <3>1. CASE x = b
      BY <2>3, <3>1, ZenonT(60) DEF HaveData
    <3>2. CASE x # b
      BY <2>1, <2>2, <3>2, TreeFacts, ZenonT(60) DEF IndexOK
    <3> QED
      BY <3>1, <3>2, ZenonT(60)
  <2>6. IndexOK(status')
    BY <2>2, <2>4, <2>5, ZenonT(60) DEF IndexOK
  <2>7. HaveData(status'[tip])
    BY <2>2 DEF IInv, BucketOK
  <2>8. BucketOK(status', dbStatus', tip')
    BY <1>2, <1>4, <2>6, <2>7, FlushOK, ZenonT(60) DEF IInv
  <2>9. ThreadTypes'
    BY <1>4, ZenonT(60) DEF Stay, IInv, ThreadTypes
  <2>10. OnlyThread(t) /\ pc'[t] = "connect"
    BY <1>4 DEF OnlyThread, Stay, IInv, ThreadTypes
  <2>11. CallOK(t)'
    <3>1. /\ \A i \in 1 .. Len(queue[t]) : HaveData(status[queue[t][i]])
          /\ Genesis \notin detach[t]
          /\ \A x \in attach[t] : x # Genesis /\ HaveData(status[x])
      BY ZenonT(60) DEF IInv, ThreadInv, CallOK
    <3>2. attach[t] \subseteq Block /\ \A i \in 1 .. Len(queue[t]) : queue[t][i] \in Block
      BY DEF IInv, ThreadTypes
    <3> QED
      BY <1>1, <1>4, <2>2, <2>10, <3>1, <3>2, ZenonT(60) DEF CallOK, HaveData
  <2>12. DataKept
    BY <2>2 DEF DataKept
  <2>13. ThreadInv'
    BY <2>10, <2>11, <2>12, MoveOK, ZenonT(60) DEF IInv
  <2> QED
    BY <1>2, <2>6, <2>8, <2>9, <2>13 DEF IInv
<1> QED
  BY <1>3, <1>4, ZenonT(60) DEF MaybeAcceptBlock

\* connectBestChain: extension, side chain, and the start of a reorganization.
LEMMA ConnectBestChainOK ==
  ASSUME IInv, NEW t \in Thread, ConnectBestChain(t)
  PROVE  IInv'
<1> DEFINE b == call[t].cur
<1>1. /\ b \in Block \ {Genesis} /\ HaveData(status[b]) /\ b \in Indexed(status)
      /\ Stored(t) /\ pc[t] = "connect" /\ IndexOK(status) /\ tip \in Block
  <2>1. pc[t] = "connect" /\ b \in Block /\ CallOK(t) /\ Stored(t)
    BY DEF ConnectBestChain, IInv, ThreadTypes, Call, ThreadInv, Stored
  <2> QED
    BY <2>1, ZenonT(60) DEF CallOK, IInv, Indexed, HaveData
<1>2. verdict' = verdict /\ tip' = tip /\ bestHeader' = bestHeader /\ orphans' = orphans
  BY DEF ConnectBestChain
<1>3. CASE ExtendBestChain(t, b)
  <2>1. \A f \in {"valid", "failed"} : SameNodes(status, SetStatusFlags(status, {b}, f))
    BY <1>1, SetKeepsNodes
  <2>2. SameNodes(status, status') /\ dbStatus' = FlushToDB(status')
    BY <1>1, <1>3, <2>1, SameNodesReflexive, ZenonT(60) DEF ExtendBestChain
  <2>3. IndexOK(status') /\ BucketOK(status', dbStatus', tip') /\ DataKept
    BY <1>2, <2>2, VerdictStep
  <2>4. StartReorganize(t, {}, {b}, TRUE, "extend") \/ RuleError(t)
    BY <1>3, ZenonT(60) DEF ExtendBestChain
  <2>5. HaveData(status'[b])
    BY <1>1, <2>3, ZenonT(60) DEF DataKept
  <2>6. CASE StartReorganize(t, {}, {b}, TRUE, "extend")
    <3>1. {b} \in SUBSET (Block \ {Genesis}) /\ \A x \in {b} : HaveData(status'[x])
      BY <1>1, <2>5
    <3> HIDE DEF b
    <3>2. ThreadTypes' /\ ThreadInv'
      BY <1>1, <2>3, <2>6, <3>1, StartReorganizeOK, ZenonT(60) DEF IInv
    <3> QED
      BY <1>2, <2>3, <3>2 DEF IInv
  <2>7. CASE RuleError(t)
    <3>1. ThreadTypes' /\ ThreadInv'
      <4>1. ThreadTypes /\ ThreadInv /\ DataKept /\ pc[t] \in {"accept", "connect"}
        BY <1>1, <2>3 DEF IInv
      <4> QED
        BY <2>7, <4>1, RuleErrorOK, ZenonT(60)
    <3> QED
      BY <1>2, <2>3, <3>1 DEF IInv
  <2> QED
    BY <2>4, <2>6, <2>7, ZenonT(60)
<1>4. CASE /\ Release(t, "accepted")
           /\ call' = [call EXCEPT ![t].main = FALSE]
           /\ UNCHANGED <<status, dbStatus, queue, detach, attach>>
  <2>1. IndexOK(status') /\ BucketOK(status', dbStatus', tip') /\ DataKept
    BY <1>2, <1>4, NoChangeStep, VerdictStep
  <2>2. ThreadTypes'
    <3> DEFINE c == [call[t] EXCEPT !.main = FALSE]
    <3>1. call[t] \in Call
      BY DEF IInv, ThreadTypes
    <3>a. c \in Call
      BY <3>1, ZenonT(60) DEF Call
    <3>b. call' = [call EXCEPT ![t] = c]
      BY <1>4
    <3> HIDE DEF c
    <3>2. call' \in [Thread -> Call]
      BY <3>a, <3>b DEF IInv, ThreadTypes
    <3> QED
      BY <1>4, <3>2, ZenonT(60) DEF Release, IInv, ThreadTypes
  <2>3. OnlyThread(t) /\ pc'[t] = "accepted" /\ call'[t] = [call[t] EXCEPT !.main = FALSE]
    BY <1>4 DEF OnlyThread, Release, IInv, ThreadTypes
  <2>4. call'[t].cur = b /\ call'[t].block = call[t].block
    BY <2>3 DEF IInv, ThreadTypes, Call
  <2>5. CallOK(t)'
    <3>1. CallOK(t) /\ Stored(t)
      BY <1>1 DEF IInv, ThreadInv
    <3> QED
      BY <1>1, <1>4, <2>3, <2>4, <3>1, ZenonT(60) DEF CallOK
  <2>6. ThreadInv'
    BY <2>1, <2>3, <2>5, MoveOK DEF IInv
  <2> QED
    BY <1>2, <2>1, <2>2, <2>6 DEF IInv
<1>5. CASE ReorganizeTo(t, b)
  <2> DEFINE g == GetReorganizeNodes(status, b)
             v == VerifyReorganizationValidity(g.st, g.detach, g.attach)
  <2>1. /\ SameNodes(status, g.st) /\ g.detach \subseteq Block \ {Genesis}
        /\ g.attach \subseteq Indexed(status) \ {Genesis}
    BY <1>1, GetReorganizeNodesOK
  <2>2. /\ status' = v.st
        /\ \/ /\ v.ok /\ dbStatus' = dbStatus
              /\ StartReorganize(t, g.detach, g.attach, TRUE, "accept")
           \/ /\ dbStatus' = FlushToDB(status')
              /\ RuleError(t) \/ Return(t)
    BY <1>5, ZenonT(60) DEF ReorganizeTo
  <2> HIDE DEF g, b
  <2>3. IndexOK(g.st) /\ Indexed(g.st) = Indexed(status)
    BY <1>1, <2>1, SameNodesOK, ZenonT(60)
  <2>4. SameNodes(g.st, v.st) /\ (v.ok => \A n \in g.attach : HaveData(g.st[n]))
    BY <2>1, <2>3, VerifyReorganizationValidityOK, ZenonT(60)
  <2> HIDE DEF v
  <2>5. SameNodes(status, status')
    BY <2>1, <2>2, <2>4, SameNodesCompose
  <2>6. /\ IndexOK(status') /\ DataKept
        /\ BucketOK(status', dbStatus, tip) /\ BucketOK(status', FlushToDB(status'), tip)
    BY <2>5, VerdictStep, ZenonT(60)
  <2>7. CASE v.ok /\ dbStatus' = dbStatus
             /\ StartReorganize(t, g.detach, g.attach, TRUE, "accept")
    <3>1. g.detach \in SUBSET (Block \ {Genesis}) /\ g.attach \in SUBSET (Block \ {Genesis})
      BY <2>1, ZenonT(60) DEF Indexed
    <3>2. \A n \in g.attach : HaveData(status'[n])
      BY <2>2, <2>3, <2>4, <2>7, <3>1, SameNodesOK
    <3>3. ThreadTypes' /\ ThreadInv'
      BY <1>1, <2>6, <2>7, <3>1, <3>2, StartReorganizeOK, ZenonT(60) DEF IInv
    <3> QED
      BY <1>2, <2>6, <2>7, <3>3 DEF IInv
  <2>8. CASE dbStatus' = FlushToDB(status') /\ (RuleError(t) \/ Return(t))
    <3>1. ThreadTypes' /\ ThreadInv'
      <4>1. ThreadTypes /\ ThreadInv /\ DataKept /\ pc[t] \in {"accept", "connect"}
        BY <1>1, <2>6, ZenonT(60) DEF IInv
      <4> QED
        BY <2>8, <4>1, RuleErrorOK, ReturnOK, ZenonT(60)
    <3> QED
      BY <1>2, <2>6, <2>8, <3>1 DEF IInv
  <2> QED
    BY <2>2, <2>7, <2>8, ZenonT(60)
<1> QED
  BY <1>3, <1>4, <1>5 DEF ConnectBestChain

\* An orphan touches neither the index nor the bucket.
LEMMA AddOrphanBlockOK ==
  ASSUME IInv, NEW b \in Block \ {Genesis}, AddOrphanBlock(b)
  PROVE  IInv'
<1>1. /\ orphans' \subseteq Block \ {Genesis}
      /\ UNCHANGED <<verdict, status, dbStatus, tip, bestHeader, lock, pc, call,
                     queue, detach, attach>>
  BY DEF AddOrphanBlock, IInv, threadVars
<1>2. ThreadTypes'
  BY <1>1 DEF IInv, ThreadTypes
<1>3. ThreadInv'
  BY <1>1, ZenonT(60) DEF IInv, ThreadInv, CallOK, Stored
<1> QED
  BY <1>1, <1>2, <1>3, ZenonT(60) DEF IInv

\* ProcessBlock starts on a block whose parent is stored, or adds an orphan.
LEMMA ProcessBlockOK ==
  ASSUME IInv, NEW t \in Thread, NEW b \in Block \ {Genesis},
         NEW src \in {"peer", "submit"}, NEW ibd \in BOOLEAN,
         ProcessBlock(t, b, src, ibd)
  PROVE  IInv'
<1>1. CASE AddOrphanBlock(b)
  BY <1>1, AddOrphanBlockOK, ZenonT(60)
<1>2. CASE ~AddOrphanBlock(b)
  <2> DEFINE f == (src = "peer" /\ ibd /\ CheckHeadersList(b))
             c == [NoCall EXCEPT !.block = b, !.cur = b, !.src = src, !.fast = f]
  <2>1. /\ HaveData(status[Parent[b]]) /\ Stay(t, "accept") /\ pc[t] = "idle"
        /\ call' = [call EXCEPT ![t] = c]
        /\ UNCHANGED <<verdict, status, dbStatus, tip, bestHeader, orphans,
                       queue, detach, attach>>
    BY <1>2 DEF ProcessBlock, MayCall
  <2>2. c \in Call /\ c.cur = b /\ c.block = b
    <3>1. f \in BOOLEAN
      BY ZenonT(60)
    <3> HIDE DEF f
    <3> QED
      BY <3>1, TreeAssumption, ZenonT(60) DEF NoCall, Call
  <2> HIDE DEF c
  <2>3. ThreadTypes'
    BY <2>1, <2>2, ZenonT(60) DEF IInv, ThreadTypes, Stay
  <2>4. OnlyThread(t) /\ pc'[t] = "accept" /\ call'[t] = c
    BY <2>1, ZenonT(60) DEF OnlyThread, Stay, IInv, ThreadTypes
  <2>5. CallOK(t)'
    <3>1. CallOK(t) /\ ~Stored(t)'
      BY <2>4 DEF IInv, ThreadInv, Stored
    <3> QED
      BY <2>1, <2>2, <2>4, <3>1, ZenonT(60) DEF CallOK
  <2>6. DataKept
    BY <2>1, ZenonT(60) DEF DataKept
  <2>7. ThreadInv'
    BY <2>4, <2>5, <2>6, MoveOK, ZenonT(60) DEF IInv
  <2> QED
    BY <2>1, <2>3, <2>7, ZenonT(60) DEF IInv
<1> QED
  BY <1>1, <1>2

\* A header joins the index below a node of it.
LEMMA ProcessBlockHeaderOK ==
  ASSUME IInv, NEW t \in Thread, NEW h \in Block \ {Genesis},
         ProcessBlockHeader(t, h)
  PROVE  IInv'
<1>1. /\ IndexOK(status) /\ tip \in Block /\ Parent[h] \in Block
      /\ status[Parent[h]] # {}
      /\ status' = IF status[h] = {} THEN [status EXCEPT ![h] = {"header"}]
                   ELSE status
  BY TreeFacts DEF IInv, ProcessBlockHeader
<1>2. /\ status' \in [Block -> SUBSET Flag]
      /\ \A x \in Block \ {h} : status'[x] = status[x]
      /\ \A x \in Block : HaveData(status'[x]) <=> HaveData(status[x])
      /\ \A x \in Block : status[x] # {} => status'[x] # {}
      /\ \A x \in Block : status'[x] # {} => "data" \in status'[x] \/ "header" \in status'[x]
  BY <1>1, ZenonT(60) DEF IndexOK, HaveData, Flag
<1>3. \A x \in Ancestors[h] : x # h => status'[x] # {}
  <2>1. \A x \in Ancestors[Parent[h]] : status[x] # {} /\ x \in Block
    BY <1>1, TreeFacts, ZenonT(60) DEF IndexOK
  <2> QED
    BY <1>2, <2>1, TreeFacts, ZenonT(60)
<1>4. ASSUME NEW x \in Block, NEW a \in Ancestors[x]
      PROVE  /\ status'[x] # {} => status'[a] # {}
             /\ HaveData(status'[x]) => HaveData(status'[a])
  <2>1. a \in Block
    BY TreeFacts, ZenonT(60)
  <2>2. HaveData(status'[x]) => HaveData(status'[a])
    BY <1>1, <1>2, <2>1 DEF IndexOK
  <2>3. CASE x = h
    BY <1>3, <2>2, <2>3, ZenonT(60)
  <2>4. CASE x # h
    BY <1>1, <1>2, <2>1, <2>2, <2>4, ZenonT(60) DEF IndexOK
  <2> QED
    BY <2>3, <2>4
<1>5. IndexOK(status')
  BY <1>2, <1>4, ZenonT(60) DEF IndexOK
<1>6. HaveData(status'[tip])
  BY <1>1, <1>2 DEF IInv, BucketOK
<1>7. BucketOK(status', FlushToDB(status'), tip)
  BY <1>1, <1>5, <1>6, FlushOK, ZenonT(60)
<1>8. DataKept
  BY <1>2, ZenonT(60) DEF DataKept
<1>9. UNCHANGED <<lock, pc, call, queue, detach, attach>>
  BY DEF ProcessBlockHeader, threadVars
<1>10. ThreadTypes' /\ ThreadInv'
  <2>1. ThreadTypes'
    BY <1>9, ZenonT(60) DEF IInv, ThreadTypes
  <2>2. OnlyThread(t) /\ CallOK(t)'
    BY <1>8, <1>9, OtherThreads DEF OnlyThread, IInv, ThreadInv
  <2> QED
    BY <1>8, <2>1, <2>2, MoveOK DEF IInv
<1> QED
  BY <1>5, <1>7, <1>10, ZenonT(60) DEF IInv, ProcessBlockHeader

\* processOrphans: the parent of the orphan it takes is stored.
LEMMA ProcessOrphansOK ==
  ASSUME IInv, NEW t \in Thread, ProcessOrphans(t)
  PROVE  IInv'
<1> DEFINE hashes == Append(queue[t], call[t].cur)
           children(h) == {o \in orphans : Parent[o] = h}
           busy == {i \in 1 .. Len(hashes) : children(hashes[i]) # {}}
<1>1. pc[t] = "accepted" /\ UNCHANGED <<verdict, status, dbStatus, tip, bestHeader>>
  BY DEF ProcessOrphans
<1>2. DataKept
  BY <1>1 DEF DataKept
<1>3. CASE Return(t) /\ UNCHANGED orphans
  <2>1. ThreadTypes' /\ ThreadInv'
    BY <1>2, <1>3, ReturnOK DEF IInv
  <2> QED
    BY <1>1, <1>3, <2>1 DEF IInv
<1>4. ASSUME NEW i \in busy, NEW o \in children(hashes[i]),
             orphans' = orphans \ {o},
             queue' = [queue EXCEPT ![t] = SubSeq(hashes, i, Len(hashes))],
             call' = [call EXCEPT ![t].cur = o],
             Stay(t, "accept"), UNCHANGED <<detach, attach>>
      PROVE  IInv'
  <2>1. /\ CallOK(t) /\ Stored(t) /\ queue[t] \in Seq(Block) /\ call[t].cur \in Block
        /\ call[t] \in Call
    BY <1>1, ZenonT(60) DEF IInv, ThreadInv, ThreadTypes, Call, Stored
  <2>2. hashes \in Seq(Block) /\ \A j \in 1 .. Len(hashes) : HaveData(status[hashes[j]])
    <3>1. \A j \in 1 .. Len(queue[t]) : HaveData(status[queue[t][j]])
      BY <2>1, ZenonT(60) DEF CallOK
    <3>2. HaveData(status[call[t].cur])
      BY <2>1, ZenonT(60) DEF CallOK
    <3> QED
      BY <2>1, <3>1, <3>2, AppendStored, ZenonT(60)
  <2>3. o \in Block \ {Genesis} /\ HaveData(status[Parent[o]])
    BY <2>2, ZenonT(60) DEF IInv
  <2> DEFINE s == SubSeq(hashes, i, Len(hashes))
             c == [call[t] EXCEPT !.cur = o]
  <2>4. s \in Seq(Block) /\ \A j \in 1 .. Len(s) : HaveData(status[s[j]])
    <3>1. i \in 1 .. Len(hashes)
      BY ZenonT(60)
    <3> HIDE DEF hashes, busy
    <3> QED
      BY <2>2, <3>1, SuffixStored, ZenonT(60)
  <2>5. c \in Call /\ c.cur = o /\ c.block = call[t].block
    BY <2>1, <2>3 DEF Call
  <2>6. queue' = [queue EXCEPT ![t] = s] /\ call' = [call EXCEPT ![t] = c]
    BY <1>4, ZenonT(60)
  <2> HIDE DEF s, c
  <2>7. ThreadTypes'
    <3>1. queue' \in [Thread -> Seq(Block)] /\ call' \in [Thread -> Call]
      BY <2>4, <2>5, <2>6 DEF IInv, ThreadTypes
    <3>2. /\ lock' \in Thread \cup {NoThread}
          /\ pc' \in [Thread -> {"idle", "accept", "connect", "reorg", "accepted",
                                 "rejected"}]
          /\ detach' = detach /\ attach' = attach
      BY <1>4 DEF IInv, ThreadTypes, Stay
    <3> QED
      BY <3>1, <3>2, ZenonT(60) DEF IInv, ThreadTypes
  <2>8. OnlyThread(t) /\ pc'[t] = "accept" /\ call'[t] = c /\ queue'[t] = s
    BY <1>4, <2>6 DEF OnlyThread, Stay, IInv, ThreadTypes
  <2>9. CallOK(t)'
    <3>1. ~Stored(t)'
      BY <2>8, ZenonT(60) DEF Stored
    <3> QED
      BY <1>1, <1>4, <2>1, <2>3, <2>4, <2>5, <2>8, <3>1, ZenonT(60) DEF CallOK
  <2>10. ThreadInv'
    BY <1>2, <2>8, <2>9, MoveOK DEF IInv
  <2> QED
    BY <1>1, <1>4, <2>7, <2>10 DEF IInv
<1> QED
  BY <1>3, <1>4, ZenonT(60) DEF ProcessOrphans

\* InvalidateBlock, whoever calls it, marks nodes of the index only.
LEMMA InvalidateBlockOK ==
  ASSUME IInv, NEW t \in Thread, NEW node \in Indexed(status), node # Genesis,
         InvalidateBlock(t, node)
  PROVE  IInv'
<1> DEFINE s1 == SetStatusFlags(status, {node}, "failed")
           failed == UnsetStatusFlags(s1, {node}, "valid")
           tips == {x \in InactiveTips(failed, tip) : node \in Ancestors[x]}
           below == UNION {Ancestors[x] \ Ancestors[node] : x \in tips}
           chain == Ancestors[tip] \ Ancestors[node]
           S == IF node \in Ancestors[tip] THEN chain ELSE below
           st == MarkInvalidAncestor(failed, S)
           d == {n \in chain : ~KnownInvalid(status[n])} \cup {node}
<1>1. IndexOK(status) /\ tip \in Block /\ bestHeader \in Block /\ HaveData(status[tip])
  BY DEF IInv, BucketOK
<1>2. SameNodes(status, failed)
  <2>1. SameNodes(status, s1)
    BY <1>1, SetKeepsNodes
  <2>2. IndexOK(s1)
    BY <1>1, <2>1, SameNodesOK, ZenonT(60)
  <2> HIDE DEF s1
  <2> QED
    BY <2>1, <2>2, UnsetKeepsNodes, SameNodesCompose
<1>3. IndexOK(failed) /\ Indexed(failed) = Indexed(status)
  BY <1>1, <1>2, SameNodesOK
<1>4. S \subseteq Indexed(failed)
  <2>1. chain \subseteq Indexed(status)
    BY <1>1, TreeFacts, ZenonT(60) DEF IndexOK, Indexed, HaveData
  <2>2. below \subseteq Indexed(failed)
    <3> HIDE DEF failed
    <3> QED
      BY <1>1, <1>3, InactiveTipsOK
  <2> QED
    BY <1>3, <2>1, <2>2, ZenonT(60)
<1>5. SameNodes(status, st)
  <2> HIDE DEF failed, S
  <2> QED
    BY <1>2, <1>3, <1>4, MarkInvalidAncestorOK, SameNodesCompose, ZenonT(60)
<1>6. d \in SUBSET (Block \ {Genesis})
  BY <1>1, TreeFacts DEF Indexed
<1>7. /\ status' = st /\ UNCHANGED <<verdict, tip, orphans>>
      /\ \/ /\ bestHeader' \in BestHeaderAfter(st)
            /\ dbStatus' = FlushToDB(st) /\ Return(t)
         \/ /\ UNCHANGED <<bestHeader, dbStatus>>
            /\ StartReorganize(t, d, {}, FALSE, "invalidate") \/ Return(t)
  BY ZenonT(60) DEF InvalidateBlock
<1> HIDE DEF st, d
<1>8. /\ IndexOK(status') /\ DataKept
      /\ BucketOK(status', dbStatus, tip) /\ BucketOK(status', FlushToDB(status'), tip)
  BY <1>5, <1>7, VerdictStep
<1>9. bestHeader' \in Block
  BY <1>1, <1>7, BestHeaderAfterOK, ZenonT(60)
<1>10. ThreadTypes' /\ ThreadInv'
  <2>1. CASE Return(t)
    BY <1>8, <2>1, ReturnOK DEF IInv
  <2>2. CASE StartReorganize(t, d, {}, FALSE, "invalidate")
    <3> DEFINE none == {}
    <3>1. none \in SUBSET (Block \ {Genesis}) /\ \A x \in none : HaveData(status'[x])
      OBVIOUS
    <3>2. StartReorganize(t, d, none, FALSE, "invalidate")
      BY <2>2, ZenonT(60)
    <3> HIDE DEF none
    <3> QED
      BY <1>6, <1>8, <3>1, <3>2, StartReorganizeOK, ZenonT(60) DEF IInv
  <2> QED
    BY <1>7, <2>1, <2>2, ZenonT(60)
<1> QED
  BY <1>7, <1>8, <1>9, <1>10, ZenonT(60) DEF IInv

\* The block handleBlockMsg marks as rejected is in the index.
LEMMA MarkRejectedBlockOK ==
  ASSUME IInv, NEW t \in Thread, MarkRejectedBlock(t)
  PROVE  IInv'
<1>1. call[t].block \in Indexed(status) /\ call[t].block # Genesis
  <2>1. pc[t] = "rejected" /\ call[t].block \in Block /\ CallOK(t)
    BY DEF MarkRejectedBlock, IInv, ThreadTypes, Call, ThreadInv
  <2> QED
    BY <2>1, ZenonT(60) DEF CallOK, Indexed, HaveData
<1>2. CASE InvalidateBlock(t, call[t].block)
  BY <1>1, <1>2, InvalidateBlockOK, ZenonT(60)
<1>3. CASE /\ Return(t)
           /\ UNCHANGED <<verdict, status, dbStatus, tip, bestHeader, orphans>>
  <2>1. DataKept
    BY <1>3, NoChangeStep
  <2>2. ThreadTypes' /\ ThreadInv'
    BY <1>3, <2>1, ReturnOK DEF IInv
  <2> QED
    BY <1>3, <2>2 DEF IInv
<1> QED
  BY <1>2, <1>3, ZenonT(60) DEF MarkRejectedBlock

\* The second half of InvalidateBlock: the branch it activates is stored.
LEMMA ActivateBestTipOK ==
  ASSUME IInv, NEW t \in Thread, ActivateBestTip(t)
  PROVE  IInv'
<1>1. IndexOK(status) /\ tip \in Block /\ bestHeader \in Block
  BY DEF IInv
<1>2. bestHeader' \in Block /\ UNCHANGED <<verdict, tip, orphans>>
  BY <1>1, BestHeaderAfterOK, ZenonT(60) DEF ActivateBestTip
<1>3. CASE status' = status /\ dbStatus' = FlushToDB(status) /\ Return(t)
  <2>1. IndexOK(status') /\ BucketOK(status', dbStatus', tip) /\ DataKept
    BY <1>3, NoChangeStep, VerdictStep, ZenonT(60)
  <2>2. ThreadTypes' /\ ThreadInv'
    BY <1>3, <2>1, ReturnOK DEF IInv
  <2> QED
    BY <1>2, <2>1, <2>2 DEF IInv
<1>4. ASSUME NEW b \in InactiveTips(status, tip),
             LET g == GetReorganizeNodes(status, b)
                 v == VerifyReorganizationValidity(g.st, g.detach, g.attach)
             IN  /\ status' = v.st
                 /\ \/ /\ v.ok /\ dbStatus' = FlushToDB(status)
                       /\ StartReorganize(t, g.detach, g.attach, FALSE, "activate")
                    \/ dbStatus' = FlushToDB(status') /\ Return(t)
      PROVE  IInv'
  <2> DEFINE g == GetReorganizeNodes(status, b)
             v == VerifyReorganizationValidity(g.st, g.detach, g.attach)
  <2>0. b \in Indexed(status) /\ b # Genesis
    BY <1>1, InactiveTipsOK, ZenonT(60)
  <2>1. /\ SameNodes(status, g.st) /\ g.detach \subseteq Block \ {Genesis}
        /\ g.attach \subseteq Indexed(status) \ {Genesis}
    BY <1>1, <2>0, GetReorganizeNodesOK
  <2>2. /\ status' = v.st
        /\ \/ /\ v.ok /\ dbStatus' = FlushToDB(status)
              /\ StartReorganize(t, g.detach, g.attach, FALSE, "activate")
           \/ dbStatus' = FlushToDB(status') /\ Return(t)
    BY <1>4, ZenonT(60)
  <2> HIDE DEF g
  <2>3. IndexOK(g.st) /\ Indexed(g.st) = Indexed(status)
    BY <1>1, <2>1, SameNodesOK, ZenonT(60)
  <2>4. SameNodes(g.st, v.st) /\ (v.ok => \A n \in g.attach : HaveData(g.st[n]))
    BY <2>1, <2>3, VerifyReorganizationValidityOK, ZenonT(60)
  <2> HIDE DEF v
  <2>5. SameNodes(status, status')
    BY <2>1, <2>2, <2>4, SameNodesCompose, ZenonT(60)
  <2>6. /\ IndexOK(status') /\ DataKept
        /\ BucketOK(status', FlushToDB(status), tip)
        /\ BucketOK(status', FlushToDB(status'), tip)
    BY <2>5, VerdictStep
  <2>7. ThreadTypes' /\ ThreadInv'
    <3>1. CASE Return(t)
      BY <2>6, <3>1, ReturnOK DEF IInv
    <3>2. CASE v.ok /\ StartReorganize(t, g.detach, g.attach, FALSE, "activate")
      <4>1. g.detach \in SUBSET (Block \ {Genesis}) /\ g.attach \in SUBSET (Block \ {Genesis})
        BY <2>1 DEF Indexed
      <4>2. \A n \in g.attach : HaveData(status'[n])
        BY <2>2, <2>3, <2>4, <3>2, <4>1, SameNodesOK, ZenonT(60)
      <4> QED
        BY <2>6, <3>2, <4>1, <4>2, StartReorganizeOK, ZenonT(60) DEF IInv
    <3> QED
      BY <2>2, <3>1, <3>2, ZenonT(60)
  <2> QED
    BY <1>2, <2>2, <2>6, <2>7, ZenonT(60) DEF IInv
<1> QED
  <2>1. CASE \E b \in InactiveTips(status, tip) :
             LET g == GetReorganizeNodes(status, b)
                 v == VerifyReorganizationValidity(g.st, g.detach, g.attach)
             IN  /\ status' = v.st
                 /\ \/ /\ v.ok /\ dbStatus' = FlushToDB(status)
                       /\ StartReorganize(t, g.detach, g.attach, FALSE, "activate")
                    \/ dbStatus' = FlushToDB(status') /\ Return(t)
    BY <1>4, <2>1, ZenonT(60)
  <2> QED
    BY <1>3, <2>1, ZenonT(60) DEF ActivateBestTip, SoundTips, MostWork

\* ReconsiderBlock clears verdict flags and lists stored blocks only.
LEMMA ReconsiderBlockOK ==
  ASSUME IInv, NEW t \in Thread, NEW node \in Block, ReconsiderBlock(t, node)
  PROVE  IInv'
<1> DEFINE s1 == UnsetStatusFlags(status, {node}, "failed")
           clear1 == UnsetStatusFlags(s1, {node}, "invalidAncestor")
           tips == {x \in InactiveTips(status, tip) \cup {tip} : node \in Ancestors[x]}
           S == UNION {Ancestors[x] \ Ancestors[node] : x \in tips}
           st == UnsetStatusFlags(clear1, S, "invalidAncestor")
<1>1. IndexOK(status) /\ tip \in Block
  BY DEF IInv
<1>2. SameNodes(status, st)
  <2>1. SameNodes(status, s1)
    BY <1>1, UnsetKeepsNodes
  <2>2. IndexOK(s1)
    BY <1>1, <2>1, SameNodesOK
  <2> HIDE DEF s1
  <2>3. SameNodes(s1, clear1)
    BY <2>2, UnsetKeepsNodes
  <2>4. IndexOK(clear1)
    BY <2>2, <2>3, SameNodesOK, ZenonT(60)
  <2> HIDE DEF clear1, S
  <2>5. SameNodes(clear1, st)
    BY <2>4, UnsetKeepsNodes
  <2> HIDE DEF st
  <2> QED
    BY <2>1, <2>3, <2>5, SameNodesCompose
<1>3. PICK best \in tips :
        LET g == GetReorganizeNodes(st, best)
            v == VerifyReorganizationValidity(g.st, g.detach, g.attach)
        IN  \/ status' = st /\ dbStatus' = dbStatus /\ Return(t)
            \/ /\ WorkSum[best] > WorkSum[tip]
               /\ status' = v.st /\ dbStatus' = FlushToDB(v.st)
               /\ \/ v.ok /\ StartReorganize(t, g.detach, g.attach, FALSE, "reconsider")
                  \/ Return(t)
  <2> HIDE DEF st
  <2>1. tips \subseteq Block
    BY <1>1, ZenonT(60) DEF InactiveTips, Indexed
  <2>2. \A b \in tips : WorkSum[b] <= WorkSum[tip] \/ WorkSum[b] > WorkSum[tip]
    BY <1>1, <2>1, WorkAssumption
  <2> QED
    BY <2>2, ZenonT(60) DEF ReconsiderBlock, st
<1>4. UNCHANGED <<verdict, tip, bestHeader, orphans>>
  BY ZenonT(60) DEF ReconsiderBlock
<1>5. best = tip \/ (best \in Indexed(status) /\ best # Genesis)
  BY <1>1, <1>3, InactiveTipsOK, ZenonT(60)
<1> HIDE DEF st, tips
<1>6. CASE status' = st /\ dbStatus' = dbStatus /\ Return(t)
  <2>1. IndexOK(status') /\ BucketOK(status', dbStatus', tip) /\ DataKept
    BY <1>2, <1>6, VerdictStep, ZenonT(60)
  <2>2. ThreadTypes' /\ ThreadInv'
    BY <1>6, <2>1, ReturnOK, ZenonT(60) DEF IInv
  <2> QED
    BY <1>4, <2>1, <2>2, ZenonT(60) DEF IInv
<1>7. CASE ~(status' = st /\ dbStatus' = dbStatus /\ Return(t))
  <2> DEFINE g == GetReorganizeNodes(st, best)
             v == VerifyReorganizationValidity(g.st, g.detach, g.attach)
  <2>1. /\ WorkSum[best] > WorkSum[tip]
        /\ status' = v.st /\ dbStatus' = FlushToDB(status')
        /\ \/ v.ok /\ StartReorganize(t, g.detach, g.attach, FALSE, "reconsider")
           \/ Return(t)
    BY <1>3, <1>7, ZenonT(60)
  <2>2. IndexOK(st) /\ Indexed(st) = Indexed(status)
    BY <1>1, <1>2, SameNodesOK
  <2>3. best \in Indexed(st) /\ best # Genesis
    <3>1. WorkSum[best] > WorkSum[tip]
      BY <2>1, ZenonT(60)
    <3>2. best \in Block /\ tip \in Block
      BY <1>1, <1>3, <1>5, ZenonT(60) DEF Indexed
    <3>3. best # tip
      BY <3>1, <3>2, WorkAssumption
    <3> QED
      BY <1>5, <2>2, <3>3, ZenonT(60)
  <2>4. /\ SameNodes(st, g.st) /\ g.detach \subseteq Block \ {Genesis}
        /\ g.attach \subseteq Indexed(st) \ {Genesis}
    BY <1>1, <2>2, <2>3, GetReorganizeNodesOK, ZenonT(60)
  <2> HIDE DEF g
  <2>5. IndexOK(g.st) /\ Indexed(g.st) = Indexed(st)
    BY <2>2, <2>4, SameNodesOK, ZenonT(60)
  <2>6. SameNodes(g.st, v.st) /\ (v.ok => \A n \in g.attach : HaveData(g.st[n]))
    BY <2>4, <2>5, VerifyReorganizationValidityOK
  <2> HIDE DEF v
  <2>7. SameNodes(status, status')
    BY <1>2, <2>1, <2>4, <2>6, SameNodesCompose, ZenonT(60)
  <2>8. IndexOK(status') /\ DataKept /\ BucketOK(status', dbStatus', tip)
    BY <2>1, <2>7, VerdictStep
  <2>9. ThreadTypes' /\ ThreadInv'
    <3>1. CASE Return(t)
      BY <2>8, <3>1, ReturnOK DEF IInv
    <3>2. CASE v.ok /\ StartReorganize(t, g.detach, g.attach, FALSE, "reconsider")
      <4>1. g.detach \in SUBSET (Block \ {Genesis}) /\ g.attach \in SUBSET (Block \ {Genesis})
        BY <2>4 DEF Indexed
      <4>2. \A n \in g.attach : HaveData(status'[n])
        BY <2>1, <2>5, <2>6, <3>2, <4>1, SameNodesOK, ZenonT(60)
      <4> QED
        BY <2>8, <3>2, <4>1, <4>2, StartReorganizeOK, ZenonT(60) DEF IInv
    <3> QED
      BY <2>1, <3>1, <3>2, ZenonT(60)
  <2> QED
    BY <1>4, <2>8, <2>9 DEF IInv
<1> QED
  BY <1>6, <1>7

\* initChainState rebuilds an index from the bucket.
LEMMA InitChainStateOK ==
  ASSUME IInv, NEW db, BucketOK(status, db, tip), InitChainState(db)
  PROVE  IInv'
<1>1. db \in [Block -> SUBSET Flag] /\ tip \in Block
  BY ZenonT(60) DEF IInv, BucketOK
<1>2. \A b \in Block : \A a \in Ancestors[b] : db[b] # {} => HaveData(db[a])
  BY ZenonT(60) DEF BucketOK
<1>3. IndexOK(db)
  BY <1>1, <1>2, TreeFacts, ZenonT(60) DEF IndexOK, HaveData
<1>4. Ancestors[tip] \subseteq Indexed(db)
  <2>1. HaveData(db[tip])
    BY ZenonT(60) DEF BucketOK
  <2> QED
    BY <1>1, <1>2, <2>1, TreeFacts DEF Indexed, HaveData
<1>5. SameNodes(db, status') /\ dbStatus' = status' /\ tip' = tip
  BY <1>3, <1>4, SetKeepsNodes, ZenonT(60) DEF InitChainState
<1>6. IndexOK(status')
  BY <1>3, <1>5, SameNodesOK
<1>7. BucketOK(status', dbStatus', tip')
  <2>1. /\ status' \in [Block -> SUBSET Flag]
        /\ \A b \in Block : HaveData(status'[b]) <=> HaveData(db[b])
        /\ \A b \in Block : status'[b] = {} <=> db[b] = {}
    BY <1>5, ZenonT(60) DEF SameNodes
  <2> QED
    BY <1>1, <1>2, <1>5, <2>1, TreeFacts, ZenonT(60) DEF BucketOK, IInv
<1>8. ThreadTypes'
  BY NoCallType, ZenonT(60) DEF InitChainState, ThreadTypes
<1>9. ThreadInv'
  <2>1. ASSUME NEW u \in Thread
        PROVE  /\ pc'[u] = "idle" /\ queue'[u] = << >>
               /\ detach'[u] = {} /\ attach'[u] = {}
    BY ZenonT(60) DEF InitChainState
  <2> QED
    BY <2>1, NoCallType, ZenonT(60) DEF ThreadInv, CallOK, Stored
<1> QED
  BY <1>1, <1>5, <1>6, <1>7, <1>8, <1>9 DEF IInv, InitChainState

\* A crash: the bucket is as it is.
LEMMA RestartOK ==
  ASSUME IInv, Restart
  PROVE  IInv'
BY InitChainStateOK DEF IInv, Restart

\* A panic of InvalidateBlock: the bucket has just been written.
LEMMA NoBestTipOK ==
  ASSUME IInv, NEW t \in Thread, NoBestTip(t)
  PROVE  IInv'
<1>1. BucketOK(status, FlushToDB(status), tip)
  BY FlushOK, ZenonT(60) DEF IInv, BucketOK
<1>2. InitChainState(FlushToDB(status))
  BY ZenonT(60) DEF NoBestTip
<1> HIDE DEF FlushToDB
<1> QED
  BY <1>1, <1>2, InitChainStateOK

(***************************************************************************)
(* The theorems.                                                           *)
(***************************************************************************)
\* The chain createChainState makes satisfies the invariant.
LEMMA InitOK == Init => IInv
<1> SUFFICES ASSUME Init PROVE IInv
  OBVIOUS
<1>1. IndexOK(GenesisOnly)
  BY TreeAssumption, ZenonT(60) DEF IndexOK, GenesisOnly, Flag, HaveData
<1>2. BucketOK(GenesisOnly, GenesisOnly, Genesis)
  BY TreeAssumption DEF BucketOK, GenesisOnly, Flag, HaveData
<1>3. ThreadTypes
  BY NoCallType, ZenonT(60) DEF Init, ThreadTypes
<1>4. ThreadInv
  <2>1. ASSUME NEW u \in Thread
        PROVE  /\ pc[u] = "idle" /\ queue[u] = << >> /\ detach[u] = {} /\ attach[u] = {}
    BY ZenonT(60) DEF Init
  <2> QED
    BY <2>1, NoCallType, ZenonT(60) DEF ThreadInv, CallOK, Stored
<1> QED
  BY <1>1, <1>2, <1>3, <1>4, TreeAssumption DEF Init, IInv

\* Every step of Next keeps the invariant, one case for each action.
LEMMA NextOK == IInv /\ [Next]_vars => IInv'
<1> SUFFICES ASSUME IInv, [Next]_vars PROVE IInv'
  OBVIOUS
<1>0. Sync \in Thread /\ Rpc \subseteq Thread
  BY DEF Thread
<1>1. ASSUME NEW b \in Block \ {Genesis}, NEW src \in Sources, NEW ibd \in BOOLEAN,
             ProcessBlock(Sync, b, src, ibd)
      PROVE  IInv'
  BY <1>0, <1>1, ProcessBlockOK, ConfigAssumption, ZenonT(60)
<1>2. ASSUME NEW h \in Announced, ProcessBlockHeader(Sync, h)
      PROVE  IInv'
  BY <1>0, <1>2, ProcessBlockHeaderOK, ConfigAssumption, ZenonT(60)
<1>3. ASSUME NEW t \in Rpc, NEW b \in Block, RpcInvalidateBlock(t, b)
      PROVE  IInv'
  BY <1>0, <1>3, InvalidateBlockOK DEF RpcInvalidateBlock, Indexed
<1>4. ASSUME NEW t \in Rpc, NEW b \in Block, ReconsiderBlock(t, b)
      PROVE  IInv'
  BY <1>0, <1>4, ReconsiderBlockOK, ZenonT(60)
<1>5. ASSUME NEW t \in Thread, Step(t)
      PROVE  IInv'
  BY <1>5, MaybeAcceptBlockOK, ConnectBestChainOK, DisconnectBlockOK,
     ConnectBlockOK, ReorganizeErrorOK, FinishAcceptOK, ProcessOrphansOK,
     ActivateBestTipOK, NoBestTipOK, FinishActivateOK, MarkRejectedBlockOK, ZenonT(60) DEF Step
<1>6. CASE Restart
  BY <1>6, RestartOK
<1>7. CASE UNCHANGED vars
  BY <1>7, ZenonT(60) DEF vars, IInv, ThreadTypes, ThreadInv, CallOK, Stored
<1> QED
  BY <1>1, <1>2, <1>3, <1>4, <1>5, <1>6, <1>7 DEF Next

\* The invariant holds in every state of every behaviour.
LEMMA Invariance == Spec => []IInv
BY InitOK, NextOK, PTL DEF Spec

\* Type correctness.
THEOREM TypeCorrect == Spec => []TypeOK
<1>1. IInv => TypeOK
  BY ZenonT(60) DEF IInv, TypeOK, IndexOK, BucketOK, ThreadTypes
<1> QED
  BY <1>1, Invariance, PTL

\* The block index is closed under ancestors, nodes and stored data alike, for
\* every order in which headers, blocks, orphans, manual calls, failures and
\* restarts can come.
THEOREM IndexStaysClosed == Spec => []IndexClosed
<1>1. IInv => IndexClosed
  BY ZenonT(60) DEF IInv, IndexClosed, IndexOK
<1> QED
  BY <1>1, Invariance, PTL

\* Whenever the process dies, the database holds what initChainState asserts.
THEOREM RestartAlwaysFindsChain == Spec => []RestartFindsChain
<1>1. IInv => RestartFindsChain
  BY DEF IInv, RestartFindsChain, BucketOK
<1> QED
  BY <1>1, Invariance, PTL

\* The best chain moves one block at a time, also while two calls interleave
\* their reorganizations.
THEOREM TipAlwaysMovesByOne == Spec => TipMovesByOne
<1> DEFINE Move == \/ tip # Genesis /\ tip' = Parent[tip]
                   \/ tip' # Genesis /\ Parent[tip'] = tip
<1>1. IInv /\ [Next]_vars => [Move]_tip
  <2> SUFFICES ASSUME IInv, [Next]_vars, tip' # tip PROVE Move
    BY ZenonT(60)
  <2>1. ASSUME NEW b, NEW src, NEW ibd, ProcessBlock(Sync, b, src, ibd)
        PROVE  FALSE
    BY <2>1, ZenonT(60) DEF ProcessBlock, AddOrphanBlock
  <2>2. ASSUME NEW h, ProcessBlockHeader(Sync, h)
        PROVE  FALSE
    BY <2>2 DEF ProcessBlockHeader
  <2>3. ASSUME NEW t, NEW b, RpcInvalidateBlock(t, b) \/ ReconsiderBlock(t, b)
        PROVE  FALSE
    BY <2>3, ZenonT(60) DEF RpcInvalidateBlock, InvalidateBlock, ReconsiderBlock
  <2>4. ASSUME NEW t \in Thread, Step(t)
        PROVE  Move
    <3>1. CASE DisconnectBlock(t)
      BY <3>1, ZenonT(60) DEF DisconnectBlock, IsHighest, IInv, ThreadInv, CallOK
    <3>2. CASE ConnectBlock(t)
      BY <3>2, ZenonT(60) DEF ConnectBlock, IInv, ThreadInv, CallOK
    <3>3. CASE MaybeAcceptBlock(t) \/ ConnectBestChain(t)
      BY <3>3 DEF MaybeAcceptBlock, ConnectBestChain
    <3>4. CASE ReorganizeError(t) \/ FinishAccept(t) \/ FinishActivate(t)
      BY <3>4, ZenonT(60) DEF ReorganizeError, FinishAccept, FinishActivate
    <3>5. CASE ProcessOrphans(t) \/ ActivateBestTip(t) \/ NoBestTip(t)
      BY <3>5, ZenonT(60) DEF ProcessOrphans, ActivateBestTip, NoBestTip, InitChainState
    <3>6. CASE MarkRejectedBlock(t)
      BY <3>6, ZenonT(60) DEF MarkRejectedBlock, InvalidateBlock
    <3> QED
      BY <2>4, <3>1, <3>2, <3>3, <3>4, <3>5, <3>6, ZenonT(60) DEF Step
  <2>5. ~Restart /\ ~UNCHANGED vars
    BY DEF Restart, InitChainState, vars
  <2> QED
    BY <2>1, <2>2, <2>3, <2>4, <2>5, ZenonT(60) DEF Next
<1> QED
  BY <1>1, Invariance, PTL DEF Spec, TipMovesByOne
=================================================================================
