------------------------------ MODULE BestChainProofs ------------------------------
(***************************************************************************)
(* Blocks that come one by one, for every tree of blocks: an invalid block *)
(* of the best chain is being disconnected, and between two calls the best *)
(* chain is the heaviest that can be.                                      *)
(***************************************************************************)
EXTENDS ChainSelectionProofs

\* A leaf that names no prover is for Zenon.
USE ZenonT(60)

(***************************************************************************)
(* The best chain is sound.  A call may overtake another one in the        *)
(* windows where the chain lock is released, a failure or a crash may stop *)
(* a reorganization half way, and a header may be marked invalid before    *)
(* its data arrives: each leaves a block marked invalid on the best chain. *)
(* Without the three, the invariant is that the lists of the one call that *)
(* runs lead from the tip to some block, and that every marked block of    *)
(* the best chain is on the list to be disconnected.                       *)
(***************************************************************************)

NoManual == Rpc = {} \/ RpcCalls = {}

Undisturbed == "peer" \notin Sources /\ NoManual

OneByOne ==
  /\ OneCaller \/ NoManual
  /\ ~DbMayFail /\ ~MayCrash
  /\ FullyValidated
  /\ Announced = {} \/ Undisturbed

\* The lists of a reorganization that leads from the tip to target.
Heading(t, target) ==
  /\ detach[t] = Ancestors[tip] \ Ancestors[target]
  /\ attach[t] = Ancestors[target] \ Ancestors[tip]

\* What is marked is stored, and so is every node when no header comes alone.
StoredOK ==
  /\ \A o \in orphans : ~HaveData(status[o])
  /\ Announced = {} => \A b \in Block : "header" \in status[b] => HaveData(status[b])
  /\ \A b \in Block : KnownInvalid(status[b]) => HaveData(status[b])

\* The locals of the call that runs.
SoleCall(t) ==
  /\ Undisturbed => /\ pc[t] # "rejected" /\ call[t].src = "submit"
                    /\ call[t].cont \in {"accept", "extend"}
  /\ pc[t] = "accept" => ~HaveData(status[call[t].cur]) /\ call[t].cur \notin orphans
  /\ pc[t] = "connect" => ~KnownInvalid(status[call[t].cur])
  /\ pc[t] # "reorg" => detach[t] = {} /\ attach[t] = {}
  /\ pc[t] = "reorg" => \E target \in Block : Heading(t, target)
  /\ \A b \in attach[t] : ~KnownInvalid(status[b])

\* A marked block of the best chain is being disconnected.
MarkedLeave ==
  \A b \in Ancestors[tip] : KnownInvalid(status[b]) => \E t \in Thread : b \in detach[t]

SoleInv ==
  /\ \A t, u \in Thread : pc[t] # "idle" /\ pc[u] # "idle" => t = u
  /\ NoManual => \A t \in Rpc : pc[t] = "idle"
  /\ StoredOK
  /\ \A t \in Thread : SoleCall(t)
  /\ MarkedLeave

\* The thread that takes a step: no other one is in a call.
Runs(t) ==
  /\ \A u \in Thread \ {t} : pc[u] = "idle"
  /\ NoManual => t \notin Rpc

\* A step is taken by the one thread that may be in a call.
LEMMA StepAlone ==
  ASSUME OneByOne, SoleInv, NEW t \in Thread,
         \/ pc[t] # "idle"
         \/ MayCall(t) /\ (t = Sync \/ ~NoManual)
  PROVE  Runs(t)
<1>1. CASE pc[t] # "idle"
  BY <1>1 DEF Runs, SoleInv
<1>2. CASE MayCall(t) /\ t = Sync /\ NoManual
  BY <1>2, ConfigAssumption DEF Runs, SoleInv, Thread
<1>3. CASE MayCall(t) /\ ~NoManual
  BY <1>3 DEF Runs, OneByOne, MayCall
<1> QED
  BY <1>1, <1>2, <1>3

\* It is enough to look at that thread.
LEMMA SoleStep ==
  ASSUME SoleInv, NEW t \in Thread, Runs(t), OnlyThread(t),
         StoredOK', SoleCall(t)', MarkedLeave'
  PROVE  SoleInv'
<1>1. \A u \in Thread \ {t} : /\ pc'[u] = "idle" /\ call'[u] = call[u]
                              /\ detach'[u] = {} /\ attach'[u] = {}
  BY DEF Runs, OnlyThread, SoleInv, SoleCall
<1>2. \A u \in Thread \ {t} : SoleCall(u)'
  BY <1>1 DEF SoleCall, SoleInv
<1>3. \A u, w \in Thread : pc'[u] # "idle" /\ pc'[w] # "idle" => u = w
  BY <1>1
<1>4. NoManual => \A u \in Rpc : pc'[u] = "idle"
  BY <1>1 DEF Thread, Runs
<1>5. \A u \in Thread : SoleCall(u)'
  BY <1>2
<1> QED
  BY <1>3, <1>4, <1>5 DEF SoleInv

\* The thread that runs is the one that disconnects what is marked, so nothing is
\* when its list is empty.
LEMMA MarkedHere ==
  ASSUME SoleInv, NEW t \in Thread, Runs(t)
  PROVE  /\ \A b \in Ancestors[tip] : KnownInvalid(status[b]) => b \in detach[t]
         /\ pc[t] # "reorg" \/ detach[t] = {} =>
              \A b \in Ancestors[tip] : ~KnownInvalid(status[b])
BY DEF SoleInv, MarkedLeave, SoleCall, Runs

\* A step that stores nothing and marks only what is stored.
LEMMA StoredKept ==
  ASSUME StoredOK, orphans' \subseteq orphans, orphans \subseteq Block,
         \A b \in Block : \A e \in {"data", "header"} : e \in status'[b] <=> e \in status[b],
         \/ \A b \in Block : KnownInvalid(status'[b]) => KnownInvalid(status[b]) \/ HaveData(status[b])
         \/ Announced = {} /\ IndexOK(status')
  PROVE  StoredOK'
<1>1. \A b \in Block : HaveData(status'[b]) <=> HaveData(status[b])
  BY DEF HaveData
<1>2. Announced = {} => \A b \in Block : "header" \in status'[b] => HaveData(status'[b])
  BY <1>1 DEF StoredOK
<1>3. \A b \in Block : KnownInvalid(status'[b]) => HaveData(status'[b])
  <2>1. CASE \A b \in Block : KnownInvalid(status'[b]) => KnownInvalid(status[b]) \/ HaveData(status[b])
    BY <1>1, <2>1 DEF StoredOK
  <2>2. CASE Announced = {} /\ IndexOK(status')
    BY <1>2, <2>2 DEF IndexOK, KnownInvalid, HaveData
  <2> QED
    BY <2>1, <2>2
<1>4. \A o \in orphans' : ~HaveData(status'[o])
  BY <1>1 DEF StoredOK
<1> QED
  BY <1>2, <1>3, <1>4 DEF StoredOK

\* A call that returns.
LEMMA SoleReturn ==
  ASSUME ThreadTypes, NEW t \in Thread, Return(t)
  PROVE  OnlyThread(t) /\ SoleCall(t)'
<1>1. /\ OnlyThread(t) /\ pc'[t] = "idle" /\ call'[t] = NoCall
      /\ detach'[t] = {} /\ attach'[t] = {}
  BY ReturnFacts
<1> QED
  BY <1>1, SMTT(60) DEF SoleCall, NoCall

\* A call whose block breaks a rule.
LEMMA SoleRuleError ==
  ASSUME ThreadTypes, NEW t \in Thread, SoleCall(t), pc[t] # "reorg",
         Return(t) \/ RuleError(t)
  PROVE  OnlyThread(t) /\ SoleCall(t)'
<1>1. CASE Return(t)
  BY <1>1, SoleReturn
<1>2. CASE /\ OnlyThread(t) /\ pc'[t] = "rejected" /\ call[t].src = "peer"
           /\ call' = call /\ detach' = detach /\ attach' = attach
  <2>1. ~Undisturbed
    BY <1>2 DEF SoleCall
  <2> QED
    BY <1>2, <2>1 DEF SoleCall
<1> QED
  BY <1>1, <1>2, RuleErrorFacts

\* A reorganization that starts leads to a block, through blocks without a mark.
LEMMA SoleStart ==
  ASSUME ThreadTypes, NEW t \in Thread, SoleCall(t), NEW d, NEW a, NEW main, NEW cont,
         StartReorganize(t, d, a, main, cont), tip' = tip,
         Undisturbed => cont \in {"accept", "extend"},
         NEW target \in Block,
         d = Ancestors[tip] \ Ancestors[target], a = Ancestors[target] \ Ancestors[tip],
         \A b \in a : ~KnownInvalid(status'[b])
  PROVE  OnlyThread(t) /\ SoleCall(t)' /\ detach'[t] = d /\ Heading(t, target)'
<1>1. /\ OnlyThread(t) /\ pc'[t] = "reorg"
      /\ detach'[t] = d /\ attach'[t] = a
      /\ call'[t].cont = cont /\ call'[t].src = call[t].src
  BY StartFacts, SMTT(60)
<1>2. Heading(t, target)'
  BY <1>1 DEF Heading
<1> QED
  BY <1>1, <1>2 DEF SoleCall

\* Each action keeps SoleInv.
LEMMA SoleProcessBlock ==
  ASSUME OneByOne, IInv, SoleInv, NEW t \in Thread, t = Sync, NEW b \in Block \ {Genesis},
         NEW src \in Sources, NEW ibd \in BOOLEAN, ProcessBlock(t, b, src, ibd)
  PROVE  SoleInv'
<1>0. /\ Runs(t) /\ pc[t] = "idle" /\ ~HaveData(status[b]) /\ b \notin orphans
      /\ ThreadTypes /\ SoleCall(t)
  BY StepAlone DEF ProcessBlock, MayCall, IInv, SoleInv
<1>1. CASE AddOrphanBlock(b)
  <2>1. /\ orphans' \subseteq orphans \cup {b}
        /\ UNCHANGED <<verdict, status, tip, pc, call, queue, detach, attach>>
    BY <1>1 DEF AddOrphanBlock, threadVars
  <2>2. StoredOK'
    BY <1>0, <2>1 DEF StoredOK, SoleInv
  <2>3. MarkedLeave'
    BY <2>1 DEF MarkedLeave, SoleInv
  <2>4. OnlyThread(t) /\ SoleCall(t)'
    BY <1>0, <2>1 DEF OnlyThread, SoleCall
  <2> QED
    BY <1>0, <2>2, <2>3, <2>4, SoleStep
<1>2. CASE ~AddOrphanBlock(b)
  <2> DEFINE f == (src = "peer" /\ ibd /\ CheckHeadersList(b))
             c == [NoCall EXCEPT !.block = b, !.cur = b, !.src = src, !.fast = f]
  <2>1. /\ Stay(t, "accept") /\ call' = [call EXCEPT ![t] = c]
        /\ UNCHANGED <<verdict, status, tip, orphans, queue, detach, attach>>
    BY <1>2 DEF ProcessBlock
  <2> HIDE DEF f
  <2>2. c.src = src /\ c.cur = b /\ c.cont = "accept"
    BY DEF NoCall
  <2> HIDE DEF c
  <2>3. Undisturbed => src = "submit"
    BY ConfigAssumption DEF Undisturbed
  <2>4. OnlyThread(t) /\ pc'[t] = "accept" /\ call'[t] = c
    BY <1>0, <2>1 DEF OnlyThread, Stay, ThreadTypes
  <2>5. SoleCall(t)'
    BY <1>0, <2>1, <2>2, <2>3, <2>4, SMTT(60) DEF SoleCall
  <2>6. StoredOK' /\ MarkedLeave'
    BY <2>1 DEF StoredOK, MarkedLeave, SoleInv
  <2> QED
    BY <1>0, <2>4, <2>5, <2>6, SoleStep
<1> QED
  BY <1>1, <1>2

\* A header changes no chain and marks no block.
LEMMA SoleProcessBlockHeader ==
  ASSUME OneByOne, IInv, SoleInv, NEW t \in Thread, t = Sync, NEW h \in Announced,
         ProcessBlockHeader(t, h)
  PROVE  SoleInv'
<1>0. Runs(t) /\ pc[t] = "idle" /\ SoleCall(t) /\ tip \in Block
  BY StepAlone DEF ProcessBlockHeader, MayCall, IInv, SoleInv
<1>1. /\ UNCHANGED <<verdict, tip, orphans, pc, call, queue, detach, attach>>
      /\ status' = IF status[h] = {} THEN [status EXCEPT ![h] = {"header"}] ELSE status
  BY DEF ProcessBlockHeader, threadVars
<1>2. \A b \in Block : /\ KnownInvalid(status'[b]) <=> KnownInvalid(status[b])
                       /\ HaveData(status'[b]) <=> HaveData(status[b])
  BY <1>1 DEF IInv, IndexOK, KnownInvalid, HaveData
<1>3. StoredOK'
  BY <1>1, <1>2 DEF StoredOK, SoleInv, IInv
<1>4. OnlyThread(t) /\ SoleCall(t)'
  BY <1>0, <1>1 DEF OnlyThread, SoleCall
<1>5. MarkedLeave'
  BY <1>0, <1>1, <1>2, TreeFacts DEF MarkedLeave, SoleInv
<1> QED
  BY <1>0, <1>3, <1>4, <1>5, SoleStep

\* maybeAcceptBlock stores a block off the best chain, or returns.
LEMMA SoleMaybeAcceptBlock ==
  ASSUME OneByOne, IInv, SoleInv, NEW t \in Thread, MaybeAcceptBlock(t)
  PROVE  SoleInv'
<1> DEFINE b == call[t].cur
<1>0. /\ UNCHANGED <<verdict, tip, orphans>> /\ pc[t] = "accept" /\ Runs(t)
      /\ ThreadTypes /\ SoleCall(t) /\ b \in Block /\ tip \in Block
      /\ orphans \subseteq Block
  BY StepAlone DEF MaybeAcceptBlock, IInv, SoleInv, ThreadTypes, Call
<1>a. \A x \in Ancestors[tip] : ~KnownInvalid(status[x])
  BY <1>0, MarkedHere
<1>1. CASE UNCHANGED status /\ (Return(t) \/ RuleError(t))
  <2>1. OnlyThread(t) /\ SoleCall(t)'
    BY <1>0, <1>1, SoleRuleError
  <2>2. StoredOK'
    BY <1>0, <1>1 DEF StoredOK, SoleInv
  <2>3. MarkedLeave'
    BY <1>0, <1>1, <1>a DEF MarkedLeave
  <2> QED
    BY <1>0, <2>1, <2>2, <2>3, SoleStep
<1>2. CASE /\ status' = IF status[b] = {} THEN [status EXCEPT ![b] = {"data", "header"}]
                        ELSE SetStatusFlags(status, {b}, "data")
           /\ Stay(t, "connect")
           /\ UNCHANGED <<call, queue, detach, attach>>
  <2>1. ~HaveData(status[b]) /\ b \notin orphans /\ ~KnownInvalid(status[b])
    BY <1>0 DEF SoleCall, SoleInv, StoredOK
  <2>2. \A x \in Block : x # b => status'[x] = status[x]
    BY <1>2 DEF IInv, IndexOK, SetStatusFlags
  <2>3. HaveData(status'[b]) /\ ~KnownInvalid(status'[b])
    BY <1>0, <1>2, <2>1 DEF IInv, IndexOK, SetStatusFlags, HaveData, KnownInvalid
  <2>4. OnlyThread(t) /\ pc'[t] = "connect"
    BY <1>0, <1>2 DEF OnlyThread, Stay, ThreadTypes
  <2>5. SoleCall(t)'
    <3>1. detach'[t] = {} /\ attach'[t] = {} /\ call' = call
      BY <1>0, <1>2 DEF SoleCall
    <3> QED
      BY <1>0, <2>3, <2>4, <3>1 DEF SoleCall
  <2>6. StoredOK'
    BY <1>0, <2>1, <2>2, <2>3 DEF StoredOK, SoleInv
  <2>7. MarkedLeave'
    BY <1>0, <1>a, <2>2, <2>3, TreeFacts DEF MarkedLeave
  <2> QED
    BY <1>0, <2>4, <2>5, <2>6, <2>7, SoleStep
<1> QED
  BY <1>1, <1>2 DEF MaybeAcceptBlock

\* Looking for a better chain marks nothing on the best chain, and what is to be
\* connected carries no mark.
LEMMA SoleSwitch ==
  ASSUME IInv, NEW st, \A b \in Ancestors[tip] : ~KnownInvalid(st[b]),
         NEW node, NEW g, NEW v, Switch(st, node, g, v)
  PROVE  /\ \A b \in Ancestors[tip] : ~KnownInvalid(v.st[b])
         /\ \A b \in Block : KnownInvalid(v.st[b]) => KnownInvalid(st[b]) \/ b \in Path(node)
         /\ \A b \in Block : \A e \in {"data", "header"} : e \in v.st[b] <=> e \in st[b]
         /\ v.ok => \E target \in {tip, node} :
                      /\ target = tip => \E a \in Ancestors[node] : KnownInvalid(v.st[a])
                      /\ g.detach = Ancestors[tip] \ Ancestors[target]
                      /\ g.attach = Ancestors[target] \ Ancestors[tip]
                      /\ \A b \in g.attach : ~KnownInvalid(v.st[b])
<1>0. /\ tip \in Block /\ node \in Block /\ node \notin Ancestors[tip]
      /\ g = GetReorganizeNodes(st, node)
      /\ v = VerifyReorganizationValidity(g.st, g.detach, g.attach)
      /\ Ancestors[tip] \subseteq Block /\ Ancestors[node] \subseteq Block
  BY TreeFacts DEF IInv, Switch
<1>1. \A b \in Block : KnownInvalid(v.st[b]) => KnownInvalid(st[b]) \/ b \in Path(node)
  BY <1>0, SwitchFacts, SMTT(60)
<1>2. \A b \in Ancestors[tip] : ~KnownInvalid(v.st[b])
  BY <1>0, <1>1 DEF Path
<1>3. \A b \in Block : \A e \in {"data", "header"} : e \in v.st[b] <=> e \in st[b]
  BY <1>0, SwitchNodes, SMTT(60)
<1>4. v.ok => \/ /\ g.detach = {} /\ g.attach = {}
                 /\ \E a \in Ancestors[node] : KnownInvalid(st[a])
              \/ /\ g.detach = Ancestors[tip] \ Ancestors[node]
                 /\ g.attach = Path(node)
                 /\ \A n \in Path(node) : ~KnownInvalid(v.st[n])
  BY <1>0, SwitchFacts, SMTT(60)
<1>5. \A b \in Block : KnownInvalid(st[b]) => KnownInvalid(v.st[b])
  BY <1>0, SwitchFacts, SMTT(60)
<1>6. ASSUME g.detach = {}, g.attach = {}, NEW a \in Ancestors[node], KnownInvalid(st[a])
      PROVE  \E target \in {tip, node} :
                      /\ target = tip => \E x \in Ancestors[node] : KnownInvalid(v.st[x])
                      /\ g.detach = Ancestors[tip] \ Ancestors[target]
                      /\ g.attach = Ancestors[target] \ Ancestors[tip]
                      /\ \A b \in g.attach : ~KnownInvalid(v.st[b])
  <2>1. KnownInvalid(v.st[a]) /\ Ancestors[tip] \ Ancestors[tip] = {}
    BY <1>0, <1>5, <1>6
  <2> QED
    BY <1>6, <2>1
<1>7. ASSUME g.detach = Ancestors[tip] \ Ancestors[node], g.attach = Path(node),
             \A n \in Path(node) : ~KnownInvalid(v.st[n])
      PROVE  \E target \in {tip, node} :
                      /\ target = tip => \E x \in Ancestors[node] : KnownInvalid(v.st[x])
                      /\ g.detach = Ancestors[tip] \ Ancestors[target]
                      /\ g.attach = Ancestors[target] \ Ancestors[tip]
                      /\ \A b \in g.attach : ~KnownInvalid(v.st[b])
  <2>1. node # tip
    BY <1>0, TreeFacts
  <2> QED
    BY <1>7, <2>1 DEF Path
<1> QED
  BY <1>1, <1>2, <1>3, <1>4, <1>6, <1>7

\* A search for a better chain by the thread that runs, and what follows it.
LEMMA SoleSearch ==
  ASSUME IInv, SoleInv, NEW t \in Thread, Runs(t), pc[t] # "reorg" \/ detach[t] = {},
         tip' = tip, orphans' = orphans,
         NEW st, \A b \in Block : KnownInvalid(st[b]) => KnownInvalid(status[b]),
         \A b \in Block : \A e \in {"data", "header"} : e \in st[b] <=> e \in status[b],
         NEW node, NEW g, NEW v, Switch(st, node, g, v), status' = v.st,
         HaveData(status[node]) \/ (Announced = {} /\ IndexOK(status')),
         NEW main, NEW cont, Undisturbed => cont \in {"accept", "extend"},
         \/ v.ok /\ StartReorganize(t, g.detach, g.attach, main, cont)
         \/ Return(t)
         \/ RuleError(t) /\ pc[t] # "reorg"
  PROVE  SoleInv'
<1>0. /\ ThreadTypes /\ SoleCall(t) /\ tip \in Block /\ Ancestors[tip] \subseteq Block
      /\ orphans \subseteq Block /\ node \in Block
  BY TreeFacts DEF IInv, SoleInv, Switch
<1>1. \A b \in Ancestors[tip] : ~KnownInvalid(st[b])
  BY <1>0, MarkedHere
<1>2. /\ \A b \in Ancestors[tip] : ~KnownInvalid(status'[b])
      /\ \A b \in Block : KnownInvalid(status'[b]) => KnownInvalid(status[b]) \/ b \in Path(node)
      /\ \A b \in Block : \A e \in {"data", "header"} : e \in status'[b] <=> e \in status[b]
      /\ v.ok => \E target \in {tip, node} :
                   /\ g.detach = Ancestors[tip] \ Ancestors[target]
                   /\ g.attach = Ancestors[target] \ Ancestors[tip]
                   /\ \A b \in g.attach : ~KnownInvalid(status'[b])
  BY <1>1, SoleSwitch, SMTT(60)
<1>3. StoredOK'
  <2>1. HaveData(status[node]) => \A b \in Path(node) : HaveData(status[b])
    BY <1>0 DEF IInv, IndexOK, Path
  <2>2. \/ \A b \in Block : KnownInvalid(status'[b]) => KnownInvalid(status[b]) \/ HaveData(status[b])
        \/ Announced = {} /\ IndexOK(status')
    BY <1>2, <2>1
  <2> QED
    BY <1>0, <1>2, <2>2, StoredKept DEF SoleInv
<1>4. MarkedLeave'
  BY <1>2 DEF MarkedLeave
<1>5. OnlyThread(t) /\ SoleCall(t)'
  <2>1. CASE v.ok /\ StartReorganize(t, g.detach, g.attach, main, cont)
    <3>1. PICK target \in {tip, node} :
                   /\ g.detach = Ancestors[tip] \ Ancestors[target]
                   /\ g.attach = Ancestors[target] \ Ancestors[tip]
                   /\ \A b \in g.attach : ~KnownInvalid(status'[b])
      BY <1>2, <2>1
    <3>2. target \in Block
      BY <1>0
    <3> QED
      BY <1>0, <2>1, <3>1, <3>2, SoleStart, SMTT(60)
  <2>2. CASE Return(t)
    BY <1>0, <2>2, SoleReturn
  <2>3. CASE RuleError(t) /\ pc[t] # "reorg"
    BY <1>0, <2>3, SoleRuleError
  <2> QED
    BY <2>1, <2>2, <2>3
<1> QED
  BY <1>3, <1>4, <1>5, SoleStep

\* connectBestChain marks no block of the best chain, and starts a reorganization
\* that leads somewhere.
LEMMA SoleConnectBestChain ==
  ASSUME OneByOne, IInv, SoleInv, NEW t \in Thread, ConnectBestChain(t)
  PROVE  SoleInv'
<1> DEFINE b == call[t].cur
<1>0. /\ UNCHANGED <<verdict, tip, orphans>> /\ pc[t] = "connect" /\ Runs(t)
      /\ ThreadTypes /\ SoleCall(t) /\ b \in Block \ {Genesis} /\ tip \in Block
      /\ orphans \subseteq Block /\ HaveData(status[b]) /\ ~KnownInvalid(status[b])
  <2>1. UNCHANGED <<verdict, tip, orphans>> /\ pc[t] = "connect" /\ ThreadTypes /\ SoleCall(t)
    BY DEF ConnectBestChain, IInv, SoleInv
  <2>2. Runs(t) /\ tip \in Block /\ orphans \subseteq Block /\ b \in Block
    BY <2>1, StepAlone DEF IInv, ThreadTypes, Call
  <2>3. HaveData(status[b]) /\ b # Genesis
    BY <2>1 DEF IInv, ThreadInv, CallOK, Stored
  <2> QED
    BY <2>1, <2>2, <2>3 DEF SoleCall
<1>a. \A x \in Ancestors[tip] : ~KnownInvalid(status[x]) /\ x \in Block
  BY <1>0, MarkedHere, TreeFacts
<1>1. CASE Parent[b] = tip /\ ExtendBestChain(t, b)
  <2>1. b \notin Ancestors[tip] /\ Ancestors[b] = {b} \cup Ancestors[tip]
    <3>1. Ancestors[b] = {b} \cup Ancestors[tip] /\ tip \in Ancestors[b] /\ b \in Ancestors[b]
      BY <1>0, <1>1, TreeFacts
    <3>2. b # tip
      BY <1>0, <1>1, WorkAssumption, SMTT(60)
    <3> QED
      BY <1>0, <3>1, <3>2, Order
  <2>2. CASE call[t].fast \/ KnownValid(status[b]) \/ verdict[b] = "valid"
    <3>1. /\ status' = status \/ status' = SetStatusFlags(status, {b}, "valid")
          /\ StartReorganize(t, {}, {b}, TRUE, "extend")
      BY <1>1, <2>2 DEF ExtendBestChain
    <3>2. /\ \A x \in Block : KnownInvalid(status'[x]) <=> KnownInvalid(status[x])
          /\ \A x \in Block : \A e \in {"data", "header"} : e \in status'[x] <=> e \in status[x]
      BY <3>1, SetFlag, NodesKept, SMTT(60)
    <3>3. StoredOK'
      BY <1>0, <3>2, StoredKept DEF SoleInv
    <3>4. {} = Ancestors[tip] \ Ancestors[b] /\ {b} = Ancestors[b] \ Ancestors[tip]
          /\ \A x \in {b} : ~KnownInvalid(status'[x])
      BY <1>0, <2>1, <3>2
    <3>5. OnlyThread(t) /\ SoleCall(t)'
      <4>1. tip' = tip /\ b \in Block /\ "extend" \in {"accept", "extend"}
        BY <1>0
      <4>2. /\ ThreadTypes /\ SoleCall(t) /\ StartReorganize(t, {}, {b}, TRUE, "extend")
            /\ {} = Ancestors[tip] \ Ancestors[b] /\ {b} = Ancestors[b] \ Ancestors[tip]
            /\ \A x \in {b} : ~KnownInvalid(status'[x])
        BY <1>0, <3>1, <3>4
      <4> HIDE DEF b
      <4> QED
        BY <4>1, <4>2, SoleStart
    <3>6. MarkedLeave'
      BY <1>0, <1>a, <3>2 DEF MarkedLeave
    <3> QED
      BY <1>0, <3>3, <3>5, <3>6, SoleStep
  <2>3. CASE ~(call[t].fast \/ KnownValid(status[b]) \/ verdict[b] = "valid")
    <3>1. status' = SetStatusFlags(status, {b}, "failed") /\ RuleError(t)
      BY <1>1, <2>3 DEF ExtendBestChain
    <3>2. /\ \A x \in Block : KnownInvalid(status'[x]) <=> x = b \/ KnownInvalid(status[x])
          /\ \A x \in Block : \A e \in {"data", "header"} : e \in status'[x] <=> e \in status[x]
      BY <3>1, SetFlag, NodesKept, SMTT(60)
    <3>3. StoredOK'
      BY <1>0, <3>2, StoredKept DEF SoleInv
    <3>4. OnlyThread(t) /\ SoleCall(t)'
      BY <1>0, <3>1, SoleRuleError
    <3>5. MarkedLeave'
      BY <1>0, <1>a, <2>1, <3>2 DEF MarkedLeave
    <3> QED
      BY <1>0, <3>3, <3>4, <3>5, SoleStep
  <2> QED
    BY <2>2, <2>3
<1>2. CASE /\ Release(t, "accepted")
           /\ call' = [call EXCEPT ![t].main = FALSE]
           /\ UNCHANGED <<status, dbStatus, queue, detach, attach>>
  <2>1. OnlyThread(t) /\ pc'[t] = "accepted" /\ call'[t] = [call[t] EXCEPT !.main = FALSE]
    BY <1>0, <1>2 DEF OnlyThread, Release, ThreadTypes
  <2>2. call'[t].src = call[t].src /\ call'[t].cont = call[t].cont
    BY <1>0, <2>1, SMTT(60) DEF ThreadTypes, Call
  <2>3. SoleCall(t)'
    BY <1>0, <1>2, <2>1, <2>2 DEF SoleCall
  <2>4. StoredOK' /\ MarkedLeave'
    BY <1>0, <1>2 DEF StoredOK, MarkedLeave, SoleInv
  <2> QED
    BY <1>0, <2>1, <2>3, <2>4, SoleStep
<1>3. CASE WorkSum[b] > WorkSum[tip] /\ ReorganizeTo(t, b)
  <2>1. PICK g, v :
           /\ Switch(status, b, g, v) /\ status' = v.st
           /\ \/ /\ v.ok /\ dbStatus' = dbStatus
                 /\ StartReorganize(t, g.detach, g.attach, TRUE, "accept")
              \/ /\ ~v.ok /\ dbStatus' = FlushToDB(status')
                 /\ RuleError(t) \/ Return(t)
    BY <1>0, <1>3, ReorganizeToCases
  <2>2. tip' = tip /\ orphans' = orphans /\ pc[t] # "reorg"
    BY <1>0
  <2>3. \/ v.ok /\ StartReorganize(t, g.detach, g.attach, TRUE, "accept")
        \/ Return(t)
        \/ RuleError(t) /\ pc[t] # "reorg"
    BY <2>1, <2>2
  <2>4. "accept" \in {"accept", "extend"} /\ HaveData(status[b]) /\ Runs(t)
    BY <1>0
  <2>5. Switch(status, b, g, v) /\ status' = v.st
    BY <2>1
  <2> HIDE DEF b
  <2>6. CASE v.ok /\ StartReorganize(t, g.detach, g.attach, TRUE, "accept")
    BY <2>2, <2>4, <2>5, <2>6, SoleSearch
  <2>7. CASE Return(t)
    BY <2>2, <2>4, <2>5, <2>7, SoleSearch
  <2>8. CASE RuleError(t) /\ pc[t] # "reorg"
    BY <2>2, <2>4, <2>5, <2>8, SoleSearch
  <2> QED
    BY <2>3, <2>6, <2>7, <2>8
<1> QED
  BY <1>1, <1>2, <1>3 DEF ConnectBestChain

\* The branch chosen after an invalidation starts from a best chain without
\* marks.
LEMMA SoleActivateBestTip ==
  ASSUME OneByOne, IInv, IInv', SoleInv, NEW t \in Thread, ActivateBestTip(t)
  PROVE  SoleInv'
<1>0. /\ UNCHANGED <<tip, orphans>> /\ pc[t] = "reorg" /\ detach[t] = {} /\ attach[t] = {}
      /\ call[t].cont = "invalidate" /\ ThreadTypes /\ IndexOK(status')
  BY DEF ActivateBestTip, Invalidated, IInv
<1>1. Runs(t) /\ SoleCall(t) /\ ~Undisturbed
  BY <1>0, StepAlone DEF SoleInv, SoleCall
<1>2. Announced = {}
  BY <1>1 DEF OneByOne
<1>3. CASE status' = status /\ Return(t)
  <2>1. OnlyThread(t) /\ SoleCall(t)'
    BY <1>0, <1>3, SoleReturn
  <2>2. MarkedLeave'
    BY <1>0, <1>1, <1>3, MarkedHere DEF MarkedLeave
  <2>3. StoredOK'
    BY <1>0, <1>3 DEF StoredOK, SoleInv
  <2> QED
    BY <1>1, <2>1, <2>2, <2>3, SoleStep
<1>4. ASSUME NEW b, NEW g, NEW v, Switch(status, b, g, v), status' = v.st,
             \/ v.ok /\ StartReorganize(t, g.detach, g.attach, FALSE, "activate")
             \/ Return(t)
      PROVE  SoleInv'
  <2>1. Undisturbed => "activate" \in {"accept", "extend"}
    BY <1>1
  <2> QED
    BY <1>0, <1>1, <1>2, <1>4, <2>1, SoleSearch
<1> QED
  BY <1>3, <1>4, ActivateCases

\* ReconsiderBlock leaves the best chain without marks.
LEMMA SoleReconsiderBlock ==
  ASSUME OneByOne, IInv, IInv', SoleInv, NEW t \in Thread, NEW node \in Block,
         ~NoManual, ReconsiderBlock(t, node)
  PROVE  SoleInv'
<1>0. /\ UNCHANGED <<tip, orphans>> /\ MayCall(t) /\ pc[t] = "idle"
      /\ ThreadTypes /\ IndexOK(status') /\ orphans \subseteq Block
      /\ tip \in Block /\ Ancestors[tip] \subseteq Block
  BY TreeFacts DEF ReconsiderBlock, MayCall, IInv
<1>1. Runs(t) /\ ~Undisturbed /\ Announced = {}
  BY <1>0, StepAlone DEF Undisturbed, OneByOne
<1>2. PICK st :
           /\ \A b \in Block : KnownInvalid(st[b]) => KnownInvalid(status[b])
           /\ \A b \in Block : \A e \in {"data", "header"} : e \in st[b] <=> e \in status[b]
           /\ \/ status' = st /\ Return(t)
              \/ \E b, g, v :
                   /\ Switch(st, b, g, v)
                   /\ status' = v.st
                   /\ \/ /\ v.ok
                         /\ StartReorganize(t, g.detach, g.attach, FALSE, "reconsider")
                      \/ Return(t)
  BY ReconsiderCases
<1>3. CASE status' = st /\ Return(t)
  <2>1. OnlyThread(t) /\ SoleCall(t)'
    BY <1>0, <1>3, SoleReturn
  <2>2. \A b \in Ancestors[tip] : ~KnownInvalid(status'[b])
    BY <1>0, <1>1, <1>2, <1>3, MarkedHere
  <2>3. MarkedLeave'
    BY <1>0, <2>2 DEF MarkedLeave
  <2>4. StoredOK'
    BY <1>0, <1>2, <1>3, StoredKept DEF SoleInv
  <2> QED
    BY <1>1, <2>1, <2>3, <2>4, SoleStep
<1>4. ASSUME NEW b, NEW g, NEW v, Switch(st, b, g, v), status' = v.st,
             \/ v.ok /\ StartReorganize(t, g.detach, g.attach, FALSE, "reconsider")
             \/ Return(t)
      PROVE  SoleInv'
  <2>1. Undisturbed => "reconsider" \in {"accept", "extend"}
    BY <1>1
  <2>2. pc[t] # "reorg" /\ tip' = tip /\ orphans' = orphans
    BY <1>0
  <2> QED
    BY <1>0, <1>1, <1>2, <1>4, <2>1, <2>2, SoleSearch
<1> QED
  BY <1>2, <1>3, <1>4

\* One step of a reorganization leads to the same block.
LEMMA HeadingDisconnect ==
  ASSUME IInv, NEW t \in Thread, DisconnectBlock(t), NEW target \in Block, Heading(t, target)
  PROVE  Heading(t, target)'
<1>1. /\ tip' = Parent[tip] /\ attach' = attach /\ tip \in detach[t]
      /\ detach'[t] = detach[t] \ {tip}
  BY DEF DisconnectBlock, IsHighest, IInv, ThreadTypes
<1>2. tip \in Block \ {Genesis}
  BY <1>1 DEF IInv, ThreadInv, CallOK
<1>3. /\ Ancestors[tip] = {tip} \cup Ancestors[tip'] /\ tip' \in Block
      /\ tip' # tip /\ tip' \in Ancestors[tip]
  BY <1>1, <1>2, TreeFacts, WorkAssumption, SMTT(60)
<1>4. tip \notin Ancestors[tip']
  BY <1>2, <1>3, Order
<1>5. tip \notin Ancestors[target]
  BY <1>1 DEF Heading
<1> QED
  BY <1>1, <1>3, <1>4, <1>5 DEF Heading

\* Connecting the lowest attached block keeps the direction.
LEMMA HeadingConnect ==
  ASSUME IInv, NEW t \in Thread, ConnectBlock(t), NEW target \in Block, Heading(t, target)
  PROVE  Heading(t, target)'
<1>1. /\ detach' = detach /\ detach[t] = {} /\ tip' \in attach[t] /\ Parent[tip'] = tip
      /\ attach'[t] = attach[t] \ {tip'}
  BY DEF ConnectBlock, IsLowest, IInv, ThreadTypes
<1>2. tip' \in Block \ {Genesis}
  BY <1>1 DEF IInv, ThreadTypes, ThreadInv, CallOK
<1>3. Ancestors[tip'] = {tip'} \cup Ancestors[tip]
  BY <1>1, <1>2, TreeFacts
<1> QED
  BY <1>1, <1>3 DEF Heading

\* With empty lists the tip is the block they led to.
LEMMA HeadingReached ==
  ASSUME tip \in Block, NEW t \in Thread, NEW target \in Block, Heading(t, target),
         detach[t] = {}, attach[t] = {}
  PROVE  target = tip
<1>1. Ancestors[tip] = Ancestors[target]
  BY DEF Heading
<1>2. tip \in Ancestors[target] /\ target \in Ancestors[tip]
  BY <1>1, TreeFacts
<1> QED
  BY <1>2, Order

\* The lists are never refused half way.
LEMMA NoReorganizeError ==
  ASSUME OneByOne, IInv, SoleInv, NEW t \in Thread
  PROVE  ~ReorganizeError(t)
<1> SUFFICES ASSUME ReorganizeError(t) PROVE FALSE
  OBVIOUS
<1>1. /\ pc[t] = "reorg" /\ tip \in Block
      /\ \/ detach[t] # {} /\ ~IsHighest(tip, detach[t])
         \/ detach[t] = {} /\ \E n \in attach[t] : IsLowest(n, attach[t]) /\ Parent[n] # tip
  BY DEF ReorganizeError, OneByOne, IInv
<1>2. PICK target \in Block : Heading(t, target)
  BY <1>1 DEF SoleInv, SoleCall
<1>3. CASE detach[t] # {} /\ ~IsHighest(tip, detach[t])
  BY <1>1, <1>2, <1>3, DetachFront DEF Heading
<1>4. ASSUME detach[t] = {}, NEW n \in attach[t], IsLowest(n, attach[t]), Parent[n] # tip
      PROVE  FALSE
  BY <1>1, <1>2, <1>4, AttachFront DEF Heading
<1> QED
  BY <1>1, <1>3, <1>4

\* A step of a reorganization goes on towards the same block.
LEMMA SoleReorganize ==
  ASSUME OneByOne, IInv, SoleInv, NEW t \in Thread, DisconnectBlock(t) \/ ConnectBlock(t)
  PROVE  SoleInv'
<1>0. /\ pc[t] = "reorg" /\ ThreadTypes /\ SoleCall(t) /\ tip \in Block
      /\ UNCHANGED <<status, orphans, call, queue>> /\ pc' = [pc EXCEPT ![t] = "reorg"]
  BY DEF DisconnectBlock, ConnectBlock, Release, IInv, SoleInv
<1>1. Runs(t) /\ pc' = pc
  BY <1>0, StepAlone DEF ThreadTypes
<1>2. PICK target \in Block : Heading(t, target)
  BY <1>0 DEF SoleCall
<1>3. Heading(t, target)'
  BY <1>2, HeadingDisconnect, HeadingConnect
<1>4. StoredOK'
  BY <1>0 DEF StoredOK, SoleInv
<1>5. CASE DisconnectBlock(t)
  <2>1. /\ tip' = Parent[tip] /\ attach' = attach /\ detach' = [detach EXCEPT ![t] = @ \ {tip}]
        /\ tip \in detach[t]
    BY <1>5 DEF DisconnectBlock, IsHighest
  <2>2. OnlyThread(t) /\ detach'[t] = detach[t] \ {tip}
    BY <1>0, <1>1, <2>1 DEF OnlyThread, ThreadTypes
  <2>3. SoleCall(t)'
    BY <1>0, <1>1, <1>3, <2>1 DEF SoleCall
  <2>4. tip \in Block \ {Genesis}
    BY <1>0, <2>1 DEF IInv, ThreadInv, CallOK
  <2>5. Ancestors[tip] = {tip} \cup Ancestors[tip'] /\ tip' \in Ancestors[tip] /\ tip' # tip
    BY <2>1, <2>4, TreeFacts, WorkAssumption, SMTT(60)
  <2>6. tip \notin Ancestors[tip']
    BY <2>4, <2>5, Order
  <2>7. \A b \in Ancestors[tip'] : KnownInvalid(status'[b]) => b \in detach'[t]
    BY <1>0, <1>1, <2>2, <2>5, <2>6, MarkedHere
  <2>8. MarkedLeave'
    BY <2>7 DEF MarkedLeave
  <2> QED
    BY <1>1, <1>4, <2>2, <2>3, <2>8, SoleStep
<1>6. CASE ConnectBlock(t)
  <2>1. /\ detach' = detach /\ detach[t] = {} /\ tip' \in attach[t] /\ Parent[tip'] = tip
        /\ attach' = [attach EXCEPT ![t] = @ \ {tip'}]
    BY <1>6 DEF ConnectBlock, IsLowest
  <2>2. OnlyThread(t) /\ attach'[t] = attach[t] \ {tip'}
    BY <1>0, <1>1, <2>1 DEF OnlyThread, ThreadTypes
  <2>3. SoleCall(t)'
    BY <1>0, <1>1, <1>3, <2>1, <2>2 DEF SoleCall
  <2>4. tip' \in Block \ {Genesis} /\ ~KnownInvalid(status[tip'])
    BY <1>0, <2>1 DEF IInv, ThreadTypes, ThreadInv, CallOK, SoleCall
  <2>5. Ancestors[tip'] = {tip'} \cup Ancestors[tip]
    BY <2>1, <2>4, TreeFacts
  <2>6. \A b \in Ancestors[tip'] : ~KnownInvalid(status'[b])
    BY <1>0, <1>1, <2>1, <2>4, <2>5, MarkedHere
  <2>7. MarkedLeave'
    BY <2>6 DEF MarkedLeave
  <2> QED
    BY <1>1, <1>4, <2>2, <2>3, <2>7, SoleStep
<1> QED
  BY <1>5, <1>6

\* The end of a reorganization leaves a best chain without marks.
LEMMA SoleFinish ==
  ASSUME OneByOne, IInv, SoleInv, NEW t \in Thread, FinishActivate(t) \/ FinishAccept(t)
  PROVE  SoleInv'
<1>0. /\ ThreadTypes /\ SoleCall(t) /\ UNCHANGED <<tip, orphans>> /\ orphans \subseteq Block
      /\ pc[t] = "reorg" /\ detach[t] = {} /\ attach[t] = {}
      /\ tip \in Block /\ Ancestors[tip] \subseteq Block
  BY TreeFacts DEF IInv, SoleInv, FinishActivate, FinishAccept
<1>1. Runs(t)
  BY <1>0, StepAlone
<1>2. \A b \in Ancestors[tip] : ~KnownInvalid(status[b])
  BY <1>0, <1>1, MarkedHere
<1>3. CASE FinishActivate(t)
  <2>1. status' = status /\ Return(t)
    BY <1>3 DEF FinishActivate
  <2>2. OnlyThread(t) /\ SoleCall(t)'
    BY <1>0, <2>1, SoleReturn
  <2>3. StoredOK' /\ MarkedLeave'
    BY <1>0, <1>2, <2>1 DEF StoredOK, MarkedLeave, SoleInv
  <2> QED
    BY <1>1, <2>2, <2>3, SoleStep
<1>4. CASE FinishAccept(t)
  <2>1. /\ UNCHANGED <<call, queue, detach, attach>> /\ pc' = [pc EXCEPT ![t] = "accepted"]
        /\ status' = status \/ status' = SetStatusFlags(status, {call[t].cur}, "valid")
    BY <1>4 DEF FinishAccept, Release
  <2>2. /\ \A x \in Block : KnownInvalid(status'[x]) <=> KnownInvalid(status[x])
        /\ \A x \in Block : \A e \in {"data", "header"} : e \in status'[x] <=> e \in status[x]
    BY <2>1, SetFlag, NodesKept, SMTT(60)
  <2>3. StoredOK'
    BY <1>0, <2>2, StoredKept DEF SoleInv
  <2>4. OnlyThread(t) /\ pc'[t] = "accepted"
    BY <1>0, <2>1 DEF OnlyThread, ThreadTypes
  <2>5. SoleCall(t)'
    BY <1>0, <2>1, <2>4 DEF SoleCall
  <2>6. MarkedLeave'
    BY <1>0, <1>2, <2>2 DEF MarkedLeave
  <2> QED
    BY <1>1, <2>3, <2>4, <2>5, <2>6, SoleStep
<1> QED
  BY <1>3, <1>4

\* processOrphans takes an orphan that is not stored, or returns.
LEMMA SoleProcessOrphans ==
  ASSUME OneByOne, IInv, SoleInv, NEW t \in Thread, ProcessOrphans(t)
  PROVE  SoleInv'
<1>0. /\ ThreadTypes /\ SoleCall(t) /\ pc[t] = "accepted"
      /\ UNCHANGED <<status, tip>>
  BY DEF IInv, SoleInv, ProcessOrphans
<1>1. Runs(t)
  BY <1>0, StepAlone
<1>2. CASE Return(t) /\ UNCHANGED orphans
  <2>1. OnlyThread(t) /\ SoleCall(t)'
    BY <1>0, <1>2, SoleReturn
  <2>2. \A b \in Ancestors[tip] : ~KnownInvalid(status[b])
    BY <1>0, <1>1, MarkedHere
  <2>3. StoredOK' /\ MarkedLeave'
    BY <1>0, <1>2, <2>2 DEF StoredOK, MarkedLeave, SoleInv
  <2> QED
    BY <1>1, <2>1, <2>3, SoleStep
<1>3. ASSUME NEW o \in orphans, orphans' = orphans \ {o},
             call' = [call EXCEPT ![t].cur = o], Stay(t, "accept"),
             OnlyQueue(t), UNCHANGED <<detach, attach>>
      PROVE  SoleInv'
  <2>1. OnlyThread(t) /\ pc'[t] = "accept" /\ call'[t] = [call[t] EXCEPT !.cur = o]
    BY <1>0, <1>3 DEF OnlyThread, OnlyQueue, Stay, ThreadTypes
  <2>2. call'[t].src = call[t].src /\ call'[t].cont = call[t].cont /\ call'[t].cur = o
    BY <1>0, <2>1, SMTT(60) DEF ThreadTypes, Call
  <2>3. ~HaveData(status[o])
    BY DEF SoleInv, StoredOK
  <2>4. SoleCall(t)'
    BY <1>0, <1>3, <2>1, <2>2, <2>3, SMTT(60) DEF SoleCall
  <2>5. StoredOK' /\ MarkedLeave'
    BY <1>0, <1>3 DEF StoredOK, MarkedLeave, SoleInv
  <2> QED
    BY <1>1, <2>1, <2>4, <2>5, SoleStep
<1> QED
  BY <1>2, <1>3, OrphansCases

\* InvalidateBlock of a block of a best chain without marks starts to disconnect it
\* and all that is above it.
LEMMA InvalidateStarts ==
  ASSUME tip \in Block, \A b \in Ancestors[tip] : ~KnownInvalid(status[b]),
         NEW t \in Thread, NEW node \in Block \ {Genesis}, node \in Ancestors[tip],
         InvalidateBlock(t, node)
  PROVE  StartReorganize(t, Ancestors[tip] \ Ancestors[Parent[node]], {}, FALSE, "invalidate")
<1> DEFINE failed == UnsetStatusFlags(SetStatusFlags(status, {node}, "failed"),
                                      {node}, "valid")
           tips == {x \in InactiveTips(failed, tip) : node \in Ancestors[x]}
           below == UNION {Ancestors[x] \ Ancestors[node] : x \in tips}
           chain == Ancestors[tip] \ Ancestors[node]
           st == MarkInvalidAncestor(failed, IF node \in Ancestors[tip]
                                             THEN chain ELSE below)
           d == {n \in chain : ~KnownInvalid(status[n])} \cup {node}
<1>1. IF VerifyReorganizationValidity(st, d, {}).ok
      THEN StartReorganize(t, d, {}, FALSE, "invalidate")
      ELSE Return(t)
  BY DEF InvalidateBlock
<1> HIDE DEF st
<1>2. d = Ancestors[tip] \ Ancestors[Parent[node]]
  <2>1. /\ Ancestors[node] = {node} \cup Ancestors[Parent[node]]
        /\ Parent[node] \in Block /\ Parent[node] \in Ancestors[node] /\ Parent[node] # node
    BY TreeFacts, WorkAssumption, SMTT(60)
  <2>2. node \notin Ancestors[Parent[node]]
    BY <2>1, Order
  <2>3. {n \in chain : ~KnownInvalid(status[n])} = chain
    OBVIOUS
  <2>4. d = chain \cup {node}
    BY <2>3
  <2> HIDE DEF d
  <2> QED
    BY <2>1, <2>2, <2>4
<1>3. Parent[node] \in Block /\ node \in d
  BY TreeFacts
<1> HIDE DEF d
<1>4. IsHighest(tip, d)
  BY <1>2, <1>3, DetachFront
<1>5. VerifyReorganizationValidity(st, d, {}).ok
  <2> DEFINE stops == {n \in {} : \/ ~HaveData(st[n])
                                  \/ ~KnownValid(st[n]) /\ verdict[n] # "valid"}
             broken == {n \in {} : IsLowest(n, stops) /\ HaveData(st[n])}
             passed == {n \in {} : \A m \in stops : Height[n] < Height[m]}
             above == {n \in {} : \E m \in broken : Height[n] > Height[m]}
             marked == SetStatusFlags(SetStatusFlags(SetStatusFlags(st, passed, "valid"),
                                        broken, "failed"), above, "invalidAncestor")
             v == VerifyReorganizationValidity(st, d, {})
  <2>1. v = [ok |-> ListsMatch(d, {}) /\ stops = {},
             rule |-> ListsMatch(d, {}) /\ broken # {},
             st |-> IF ListsMatch(d, {}) THEN marked ELSE st]
    BY DEF VerifyReorganizationValidity, ListsMatch
  <2>2. stops = {} /\ ListsMatch(d, {})
    BY <1>4 DEF ListsMatch
  <2> HIDE DEF stops, broken, marked, v
  <2>3. v.ok = (ListsMatch(d, {}) /\ stops = {})
    BY <2>1
  <2>4. v.ok
    BY <2>2, <2>3
  <2> QED
    BY <2>4 DEF v
<1>6. StartReorganize(t, d, {}, FALSE, "invalidate")
  BY <1>1, <1>5
<1> QED
  BY <1>2, <1>6

\* InvalidateBlock marks only blocks it then disconnects, or blocks off the best
\* chain.
LEMMA SoleInvalidateBlock ==
  ASSUME OneByOne, IInv, IInv', SoleInv, NEW t \in Thread, Runs(t), pc[t] # "reorg",
         ~Undisturbed, NEW node \in Block \ {Genesis}, InvalidateBlock(t, node)
  PROVE  SoleInv'
<1>0. /\ ThreadTypes /\ SoleCall(t) /\ tip \in Block /\ Ancestors[tip] \subseteq Block
      /\ orphans \subseteq Block /\ Announced = {} /\ IndexOK(status')
  BY TreeFacts DEF IInv, SoleInv, OneByOne
<1>1. tip' = tip /\ orphans' = orphans /\ node \in Block
  BY DEF InvalidateBlock
<1>2. \A b \in Ancestors[tip] : ~KnownInvalid(status[b])
  BY MarkedHere
<1>3. PICK S :
           /\ node \in Ancestors[tip] => S = Ancestors[tip] \ Ancestors[node]
           /\ node \notin Ancestors[tip] => \A n \in S : node \in Ancestors[n]
           /\ \A b \in Block :
                /\ KnownInvalid(status'[b]) <=> KnownInvalid(status[b]) \/ b = node \/ b \in S
                /\ KnownValid(status'[b]) => KnownValid(status[b])
                /\ \A e \in {"data", "header"} : e \in status'[b] <=> e \in status[b]
  BY <1>0, <1>1, InvalidateFlags
<1>4. StoredOK'
  BY <1>0, <1>1, <1>3, StoredKept DEF SoleInv
<1>5. CASE node \in Ancestors[tip]
  <2> DEFINE low == Parent[node]
  <2>0. StartReorganize(t, Ancestors[tip] \ Ancestors[low], {}, FALSE, "invalidate")
    BY <1>0, <1>2, <1>5, InvalidateStarts
  <2>1. PICK d, a, main : /\ d = Ancestors[tip] \ Ancestors[low] /\ a = {}
                          /\ StartReorganize(t, d, a, main, "invalidate")
    BY <2>0
  <2>2. /\ low \in Block /\ Ancestors[node] = {node} \cup Ancestors[low]
        /\ low \in Ancestors[node] /\ low # node
    BY TreeFacts, WorkAssumption, SMTT(60)
  <2>3. node \notin Ancestors[low] /\ Ancestors[low] \subseteq Ancestors[tip]
    BY <1>0, <1>5, <2>2, Order
  <2>4. /\ {} = Ancestors[low] \ Ancestors[tip]
        /\ \A b \in Ancestors[tip] : KnownInvalid(status'[b]) => b \in d
    BY <1>0, <1>2, <1>3, <1>5, <2>1, <2>2, <2>3
  <2> HIDE DEF low
  <2>7. OnlyThread(t) /\ SoleCall(t)' /\ detach'[t] = d
    <3>1. OnlyThread(t) /\ pc'[t] = "reorg" /\ detach'[t] = d /\ attach'[t] = {}
      BY <1>0, <2>1, StartFacts, SMTT(60)
    <3>2. Heading(t, low)'
      BY <1>1, <2>1, <2>4, <3>1 DEF Heading
    <3> QED
      BY <2>2, <3>1, <3>2 DEF SoleCall
  <2>8. MarkedLeave'
    BY <1>1, <2>4, <2>7 DEF MarkedLeave
  <2> QED
    BY <1>4, <2>7, <2>8, SoleStep
<1>6. CASE node \notin Ancestors[tip]
  <2>1. Return(t)
    BY <1>6 DEF InvalidateBlock
  <2>2. OnlyThread(t) /\ SoleCall(t)'
    BY <1>0, <2>1, SoleReturn
  <2>3. \A b \in Ancestors[tip] : b # node /\ b \notin S
    BY <1>0, <1>3, <1>6, Order
  <2>4. MarkedLeave'
    BY <1>0, <1>1, <1>2, <1>3, <2>3 DEF MarkedLeave
  <2> QED
    BY <1>4, <2>2, <2>4, SoleStep
<1> QED
  BY <1>5, <1>6

\* So does the mark for a peer's rejected block.
LEMMA SoleMarkRejectedBlock ==
  ASSUME OneByOne, IInv, IInv', SoleInv, NEW t \in Thread, MarkRejectedBlock(t)
  PROVE  SoleInv'
<1>0. /\ ThreadTypes /\ SoleCall(t) /\ pc[t] = "rejected"
      /\ call[t].block \in Block \ {Genesis} /\ tip \in Block
  BY DEF IInv, SoleInv, MarkRejectedBlock, ThreadTypes, Call, ThreadInv, CallOK
<1>1. Runs(t) /\ ~Undisturbed
  BY <1>0, StepAlone DEF SoleCall
<1>2. CASE Return(t) /\ UNCHANGED <<status, tip, orphans>>
  <2>1. OnlyThread(t) /\ SoleCall(t)'
    BY <1>0, <1>2, SoleReturn
  <2>2. \A b \in Ancestors[tip] : ~KnownInvalid(status[b])
    BY <1>0, <1>1, MarkedHere
  <2>3. StoredOK' /\ MarkedLeave'
    BY <1>2, <2>2 DEF StoredOK, MarkedLeave, SoleInv
  <2> QED
    BY <1>1, <2>1, <2>3, SoleStep
<1>3. CASE InvalidateBlock(t, call[t].block)
  BY <1>0, <1>1, <1>3, SoleInvalidateBlock
<1> QED
  BY <1>2, <1>3 DEF MarkRejectedBlock

\* Every step preserves SoleInv.
LEMMA SoleNext ==
  ASSUME OneByOne, IInv, IInv', SoleInv, [Next]_vars
  PROVE  SoleInv'
<1>0. Sync \in Thread /\ Rpc \subseteq Thread
  BY DEF Thread
<1>1. ASSUME NEW b \in Block \ {Genesis}, NEW src \in Sources, NEW ibd \in BOOLEAN,
             ProcessBlock(Sync, b, src, ibd)
      PROVE  SoleInv'
  BY <1>0, <1>1, SoleProcessBlock
<1>2. ASSUME NEW h \in Announced, ProcessBlockHeader(Sync, h)
      PROVE  SoleInv'
  BY <1>0, <1>2, SoleProcessBlockHeader
<1>3. ASSUME NEW t \in Rpc, NEW b \in Block, "invalidate" \in RpcCalls, RpcInvalidateBlock(t, b)
      PROVE  SoleInv'
  <2>1. /\ t \in Thread /\ ~NoManual /\ ~Undisturbed /\ MayCall(t) /\ pc[t] = "idle"
        /\ b \in Block \ {Genesis} /\ InvalidateBlock(t, b)
    BY <1>0, <1>3 DEF NoManual, Undisturbed, RpcInvalidateBlock, MayCall
  <2>2. Runs(t)
    BY <2>1, StepAlone
  <2> QED
    BY <2>1, <2>2, SoleInvalidateBlock
<1>4. ASSUME NEW t \in Rpc, NEW b \in Block, "reconsider" \in RpcCalls, ReconsiderBlock(t, b)
      PROVE  SoleInv'
  <2>1. t \in Thread /\ ~NoManual
    BY <1>0, <1>4 DEF NoManual
  <2> QED
    BY <1>4, <2>1, SoleReconsiderBlock
<1>5. ASSUME NEW t \in Thread, NoBestTip(t)
      PROVE  SoleInv'
  <2>1. /\ pc[t] = "reorg" /\ detach[t] = {} /\ SoundTips = {} /\ tip \in Block
    BY <1>5 DEF NoBestTip, Invalidated, IInv
  <2>2. ~KnownInvalid(status[tip])
    BY <2>1, StepAlone, MarkedHere, TreeFacts
  <2>3. tip \in SoundTips
    BY <2>2 DEF SoundTips
  <2> QED
    BY <2>1, <2>3
<1>6. ASSUME NEW t \in Thread, Step(t)
      PROVE  SoleInv'
  BY <1>5, <1>6, NoReorganizeError, SoleMaybeAcceptBlock, SoleConnectBestChain,
     SoleReorganize, SoleFinish, SoleProcessOrphans, SoleActivateBestTip,
     SoleMarkRejectedBlock DEF Step
<1>7. ~Restart
  BY DEF Restart, OneByOne
<1>8. CASE UNCHANGED vars
  <2>1. UNCHANGED <<status, tip, orphans, pc, call, detach, attach>>
    BY <1>8 DEF vars
  <2>2. \A t \in Thread : SoleCall(t)'
    BY <2>1 DEF SoleInv, SoleCall, Heading
  <2>3. StoredOK' /\ MarkedLeave'
    BY <2>1 DEF SoleInv, StoredOK, MarkedLeave
  <2> QED
    BY <2>1, <2>2, <2>3 DEF SoleInv
<1> QED
  BY <1>1, <1>2, <1>3, <1>4, <1>6, <1>7, <1>8 DEF Next

\* SoleInv holds when the node starts with the genesis block.
LEMMA SoleInit == Init => SoleInv
<1> SUFFICES ASSUME Init PROVE SoleInv
  OBVIOUS
<1>1. \A t \in Thread : SoleCall(t) /\ pc[t] = "idle"
  BY DEF Init, SoleCall, NoCall
<1>2. \A b \in Block : /\ ~KnownInvalid(status[b])
                       /\ "header" \in status[b] => HaveData(status[b])
  BY DEF Init, GenesisOnly, KnownInvalid, HaveData
<1>3. StoredOK
  BY <1>2 DEF StoredOK, Init
<1>4. MarkedLeave
  BY <1>2, TreeFacts, TreeAssumption DEF MarkedLeave, Init
<1> QED
  BY <1>1, <1>3, <1>4 DEF SoleInv, Thread

\* When calls come one by one and none fails, every block of the best chain is
\* stored, obeys the rules and carries no mark, unless it is being disconnected.
THEOREM BestChainAlwaysSound ==
  ASSUME OneByOne
  PROVE  Spec => []BestChainSound
<1>1. FullyValidated
  BY DEF OneByOne
<1>2. Spec => []BestChainObeysRules
  BY <1>1, BestChainAlwaysObeysRules
<1>3. IInv /\ IInv' /\ SoleInv /\ [Next]_vars => SoleInv'
  BY SoleNext
<1>4. SoleInv /\ BestChainObeysRules => BestChainSound
  BY DEF SoleInv, MarkedLeave, BestChainSound
<1> QED
  BY <1>2, <1>3, <1>4, SoleInit, Invariance, PTL DEF Spec

(***************************************************************************)
(* The best chain is the heaviest one that can be.  InvalidateBlock and a  *)
(* peer's rejected block send the node to another branch without comparing *)
(* all of them, so the theorem is about blocks that are submitted one by   *)
(* one; they may come in any order, as orphans, after their headers, and   *)
(* break a rule.  Between two calls no branch has more work; while a block *)
(* is being connected it may, and a reorganization leads to a block that   *)
(* has the most.                                                           *)
(***************************************************************************)

Heaviest(b) == \A x \in Block : Activatable(x) => WorkSum[x] <= WorkSum[b]

HeavyInv ==
  /\ pc[Sync] \in {"idle", "accept", "accepted"} => Heaviest(tip)
  /\ pc[Sync] = "connect" =>
       \A x \in Block \ {call[Sync].cur} : Activatable(x) => WorkSum[x] <= WorkSum[tip]
  /\ pc[Sync] = "reorg" => \E target \in Block : Heading(Sync, target) /\ Heaviest(target)

\* A branch that can be activated after a step that stores nothing and clears no
\* mark could be before it.
LEMMA ActivatableKept ==
  ASSUME \A b \in Block : /\ HaveData(status'[b]) => HaveData(status[b])
                          /\ KnownInvalid(status[b]) => KnownInvalid(status'[b])
  PROVE  \A x \in Block : Activatable(x)' => Activatable(x)
BY TreeFacts DEF Activatable

\* Every thread but the sync handler is idle, and its calls are submissions.
LEMMA OnlySync ==
  ASSUME Undisturbed, SoleInv, NEW t \in Thread, pc[t] # "idle"
  PROVE  /\ t = Sync /\ pc[t] # "rejected" /\ call[t].src = "submit"
         /\ call[t].cont \in {"accept", "extend"}
BY DEF SoleInv, SoleCall, Undisturbed, NoManual, Thread

\* A call that is not from a peer returns when its block breaks a rule.
LEMMA SubmitReturns ==
  ASSUME ThreadTypes, NEW t \in Thread, call[t].src = "submit", Return(t) \/ RuleError(t)
  PROVE  pc'[t] = "idle"
<1>1. Return(t)
  BY RuleErrorFacts
<1> QED
  BY <1>1, ReturnFacts

\* A call begins, or a header is indexed: no branch becomes complete.
LEMMA HeavyCalls ==
  ASSUME OneByOne, Undisturbed, IInv, SoleInv, HeavyInv, NEW t \in Thread, t = Sync,
         \/ \E b \in Block \ {Genesis}, src \in Sources, ibd \in BOOLEAN : ProcessBlock(t, b, src, ibd)
         \/ \E h \in Announced : ProcessBlockHeader(t, h)
  PROVE  HeavyInv'
<1>1. pc[t] = "idle" /\ ThreadTypes /\ tip' = tip /\ pc'[t] \in {"idle", "accept"}
  BY DEF ProcessBlock, ProcessBlockHeader, MayCall, AddOrphanBlock, Stay, threadVars,
                    IInv, ThreadTypes
<1>2. status' = status \/ \E h \in Announced :
        status' = IF status[h] = {} THEN [status EXCEPT ![h] = {"header"}] ELSE status
  BY DEF ProcessBlock, ProcessBlockHeader, AddOrphanBlock
<1>3. \A b \in Block : /\ HaveData(status'[b]) => HaveData(status[b])
                       /\ KnownInvalid(status[b]) => KnownInvalid(status'[b])
  BY <1>2, SMTT(60) DEF IInv, IndexOK, KnownInvalid, HaveData
<1>4. \A x \in Block : Activatable(x)' => Activatable(x)
  BY <1>3, ActivatableKept
<1>5. Heaviest(tip)'
  BY <1>1, <1>4 DEF HeavyInv, Heaviest
<1> QED
  BY <1>1, <1>5 DEF HeavyInv

\* Storing a block completes no branch but the one that ends in it: nothing above
\* it is stored.
LEMMA HeavyMaybeAcceptBlock ==
  ASSUME OneByOne, Undisturbed, IInv, SoleInv, HeavyInv, NEW t \in Thread, MaybeAcceptBlock(t)
  PROVE  HeavyInv'
<1> DEFINE b == call[t].cur
<1>0. /\ UNCHANGED <<verdict, tip, orphans>> /\ pc[t] = "accept" /\ ThreadTypes
      /\ SoleCall(t) /\ b \in Block
  BY DEF MaybeAcceptBlock, IInv, SoleInv, ThreadTypes, Call
<1>1. t = Sync /\ call[t].src = "submit" /\ Heaviest(tip)
  BY <1>0, OnlySync DEF HeavyInv
<1>2. CASE UNCHANGED status /\ (Return(t) \/ RuleError(t))
  <2>1. pc'[t] = "idle"
    BY <1>0, <1>1, <1>2, SubmitReturns
  <2>2. Heaviest(tip)'
    BY <1>0, <1>1, <1>2 DEF Heaviest, Activatable
  <2> QED
    BY <1>1, <2>1, <2>2 DEF HeavyInv
<1>3. CASE /\ status' = IF status[b] = {} THEN [status EXCEPT ![b] = {"data", "header"}]
                        ELSE SetStatusFlags(status, {b}, "data")
           /\ Stay(t, "connect")
           /\ UNCHANGED <<call, queue, detach, attach>>
  <2>1. \A x \in Block : x # b => status'[x] = status[x]
    BY <1>3 DEF IInv, IndexOK, SetStatusFlags
  <2>2. pc'[t] = "connect" /\ call' = call
    BY <1>0, <1>3 DEF Stay, ThreadTypes
  <2>3. ASSUME NEW x \in Block \ {b}, Activatable(x)'
        PROVE  Activatable(x)
    <3>1. HaveData(status'[x]) /\ x \in Ancestors[x]
      BY <2>3, TreeFacts DEF Activatable
    <3>2. b \notin Ancestors[x]
      BY <1>0, <2>1, <3>1 DEF SoleCall, IInv, IndexOK
    <3> QED
      BY <2>1, <2>3, <3>2, TreeFacts DEF Activatable
  <2>4. \A x \in Block \ {call'[Sync].cur} : Activatable(x)' => WorkSum[x] <= WorkSum[tip']
    BY <1>0, <1>1, <2>2, <2>3 DEF Heaviest
  <2> QED
    BY <1>1, <2>2, <2>4 DEF HeavyInv
<1> QED
  BY <1>2, <1>3 DEF MaybeAcceptBlock

\* A reorganization's check stores nothing and clears no mark, and when it fails for
\* a branch that is stored it leaves a mark there.
LEMMA HeavySwitch ==
  ASSUME IInv, NEW b, NEW g, NEW v, Switch(status, b, g, v), status' = v.st,
         \A n \in Path(b) : HaveData(status[n])
  PROVE  /\ \A x \in Block : Activatable(x)' => Activatable(x)
         /\ ~v.ok => ~Activatable(b)'
<1>0. /\ tip \in Block /\ b \in Block /\ b \notin Ancestors[tip]
      /\ g = GetReorganizeNodes(status, b)
      /\ v = VerifyReorganizationValidity(g.st, g.detach, g.attach)
  BY DEF Switch, IInv
<1>1. \A x \in Block : KnownInvalid(status[x]) => KnownInvalid(v.st[x])
  BY <1>0, SwitchFacts, SMTT(60)
<1>2. \A x \in Block : "data" \in v.st[x] <=> "data" \in status[x]
  BY <1>0, SwitchNodes, SMTT(60)
<1>3. ~v.ok => \E n \in Ancestors[b] : KnownInvalid(v.st[n])
  BY <1>0, SwitchFacts, SMTT(60)
<1>4. \A x \in Block : Activatable(x)' => Activatable(x)
  BY <1>1, <1>2, ActivatableKept DEF HaveData
<1> QED
  BY <1>3, <1>4 DEF Activatable

\* connectBestChain leads to the stored block if it is heavier and obeys the
\* rules, else marks it or leaves it as the lighter one.
LEMMA HeavyConnectBestChain ==
  ASSUME OneByOne, Undisturbed, IInv, SoleInv, HeavyInv, NEW t \in Thread, ConnectBestChain(t)
  PROVE  HeavyInv'
<1> PICK b : b = call[t].cur
  OBVIOUS
<1>0. /\ tip' = tip /\ pc[t] = "connect" /\ ThreadTypes
      /\ SoleCall(t) /\ b \in Block /\ tip \in Block
  <2>1. /\ UNCHANGED <<verdict, tip, orphans>> /\ pc[t] = "connect" /\ ThreadTypes
        /\ SoleCall(t) /\ tip \in Block
    BY DEF ConnectBestChain, IInv, SoleInv
  <2> QED
    BY <2>1 DEF ThreadTypes, Call
<1>1. /\ t = Sync /\ call[t].src = "submit" /\ Runs(t)
      /\ \A x \in Block \ {b} : Activatable(x) => WorkSum[x] <= WorkSum[tip]
      /\ \A x \in Block : WorkSum[x] \in Nat
  BY <1>0, OnlySync, StepAlone, WorkAssumption DEF HeavyInv
<1>2. HaveData(status[b]) /\ b # Genesis
  BY <1>0 DEF IInv, ThreadInv, CallOK, Stored
<1>3. CASE Parent[b] = tip /\ ExtendBestChain(t, b)
  <2>1. tip \in Ancestors[b] /\ WorkSum[tip] <= WorkSum[b] /\ b \in Ancestors[b]
    BY <1>0, <1>2, <1>3, TreeFacts, Order, SMTT(60)
  <2>2. CASE call[t].fast \/ KnownValid(status[b]) \/ verdict[b] = "valid"
    <3>1. /\ status' = status \/ status' = SetStatusFlags(status, {b}, "valid")
          /\ StartReorganize(t, {}, {b}, TRUE, "extend")
      BY <1>3, <2>2 DEF ExtendBestChain
    <3>2. \A x \in Block : /\ HaveData(status'[x]) => HaveData(status[x])
                           /\ KnownInvalid(status[x]) => KnownInvalid(status'[x])
      BY <3>1, SetFlag, NodesKept DEF HaveData
    <3>3. \A x \in Block : Activatable(x)' => Activatable(x)
      BY <3>2, ActivatableKept
    <3>4. Heaviest(b)'
      BY <1>0, <1>1, <2>1, <3>3, SMTT(60) DEF Heaviest
    <3>5. pc'[t] = "reorg" /\ detach'[t] = {} /\ attach'[t] = {b}
      BY <1>0, <3>1 DEF StartReorganize, Stay, ThreadTypes
    <3>6. Ancestors[b] = {b} \cup Ancestors[tip] /\ b \notin Ancestors[tip]
      <4>1. Ancestors[b] = {b} \cup Ancestors[tip] /\ b # tip
        BY <1>0, <1>2, <1>3, TreeFacts, WorkAssumption, SMTT(60)
      <4> QED
        BY <1>0, <2>1, <4>1, Order
    <3>7. Heading(t, b)'
      BY <1>0, <3>5, <3>6 DEF Heading
    <3> QED
      BY <1>0, <1>1, <3>4, <3>5, <3>7 DEF HeavyInv
  <2>3. CASE ~(call[t].fast \/ KnownValid(status[b]) \/ verdict[b] = "valid")
    <3>1. status' = SetStatusFlags(status, {b}, "failed") /\ RuleError(t)
      BY <1>3, <2>3 DEF ExtendBestChain
    <3>2. /\ KnownInvalid(status'[b])
          /\ \A x \in Block : /\ HaveData(status'[x]) => HaveData(status[x])
                              /\ KnownInvalid(status[x]) => KnownInvalid(status'[x])
      <4>1. \A x \in Block :
              /\ KnownInvalid(SetStatusFlags(status, {b}, "failed")[x])
                   <=> x \in {b} \/ KnownInvalid(status[x])
              /\ "data" \in SetStatusFlags(status, {b}, "failed")[x] <=> "data" \in status[x]
        BY SetFlag, NodesKept
      <4>2. b \in {b} /\ b \in Block
        BY <1>0
      <4> QED
        BY <3>1, <4>1, <4>2 DEF HaveData
    <3>3. \A x \in Block : Activatable(x)' => Activatable(x)
      BY <3>2, ActivatableKept
    <3>4. ~Activatable(b)'
      BY <2>1, <3>2 DEF Activatable
    <3>5. Heaviest(tip)'
      BY <1>0, <1>1, <3>3, <3>4 DEF Heaviest
    <3>6. pc'[t] = "idle"
      BY <1>0, <1>1, <3>1, SubmitReturns
    <3> QED
      BY <1>1, <3>5, <3>6 DEF HeavyInv
  <2> QED
    BY <2>2, <2>3
<1>4. CASE /\ WorkSum[b] <= WorkSum[tip] /\ Release(t, "accepted")
           /\ UNCHANGED <<status, dbStatus, queue, detach, attach>>
  <2>1. pc'[t] = "accepted"
    BY <1>0, <1>4 DEF Release, ThreadTypes
  <2>2. Heaviest(tip)'
    BY <1>0, <1>1, <1>4 DEF Heaviest, Activatable
  <2> QED
    BY <1>1, <2>1, <2>2 DEF HeavyInv
<1>5. CASE WorkSum[b] > WorkSum[tip] /\ ReorganizeTo(t, b)
  <2>1. PICK g, v :
           /\ Switch(status, b, g, v) /\ status' = v.st
           /\ \/ /\ v.ok /\ dbStatus' = dbStatus
                 /\ StartReorganize(t, g.detach, g.attach, TRUE, "accept")
              \/ /\ ~v.ok /\ dbStatus' = FlushToDB(status')
                 /\ RuleError(t) \/ Return(t)
    BY <1>0, <1>5, ReorganizeToCases
  <2>2. \A x \in Ancestors[tip] : ~KnownInvalid(status[x])
    BY <1>0, <1>1, MarkedHere
  <2>3. \A n \in Path(b) : HaveData(status[n])
    BY <1>0, <1>2 DEF IInv, IndexOK, Path
  <2>4. /\ \A x \in Block : Activatable(x)' => Activatable(x)
        /\ ~v.ok => ~Activatable(b)'
    BY <2>1, <2>3, HeavySwitch
  <2>5. CASE v.ok /\ StartReorganize(t, g.detach, g.attach, TRUE, "accept")
    <3>1. PICK target \in {tip, b} :
                      /\ target = tip => \E a \in Ancestors[b] : KnownInvalid(v.st[a])
                      /\ g.detach = Ancestors[tip] \ Ancestors[target]
                      /\ g.attach = Ancestors[target] \ Ancestors[tip]
                      /\ \A x \in g.attach : ~KnownInvalid(v.st[x])
      <4>1. Switch(status, b, g, v) /\ v.ok
        BY <2>1, <2>5
      <4> QED
        BY <2>2, <4>1, SoleSwitch, SMTT(60)
    <3>0. ThreadTypes /\ StartReorganize(t, g.detach, g.attach, TRUE, "accept")
      BY <1>0, <2>5
    <3>2. pc'[t] = "reorg" /\ detach'[t] = g.detach /\ attach'[t] = g.attach
      BY <3>0 DEF StartReorganize, Stay, ThreadTypes
    <3>a. tip' = tip /\ status' = v.st /\ target \in Block
      BY <1>0, <2>1, <3>1
    <3>3. target \in Block /\ Heading(t, target)'
      BY <3>1, <3>2, <3>a DEF Heading
    <3>4. target = tip => ~Activatable(b)'
      BY <2>1, <3>1 DEF Activatable
    <3>5. Heaviest(target)'
      BY <1>0, <1>1, <1>5, <2>4, <3>1, <3>4, SMTT(60) DEF Heaviest
    <3> QED
      BY <1>1, <3>2, <3>3, <3>5 DEF HeavyInv
  <2>6. CASE ~v.ok /\ (RuleError(t) \/ Return(t))
    <3>1. pc'[t] = "idle"
      BY <1>0, <1>1, <2>6, SubmitReturns
    <3>5. Heaviest(tip)'
      BY <1>0, <1>1, <2>4, <2>6 DEF Heaviest
    <3> QED
      BY <1>1, <3>1, <3>5 DEF HeavyInv
  <2> QED
    BY <2>1, <2>5, <2>6
<1> QED
  BY <1>3, <1>4, <1>5 DEF ConnectBestChain

\* A reorganization goes on towards the heaviest block, and ends there.
LEMMA HeavyReorganize ==
  ASSUME OneByOne, Undisturbed, IInv, SoleInv, HeavyInv, NEW t \in Thread,
         DisconnectBlock(t) \/ ConnectBlock(t) \/ FinishAccept(t)
  PROVE  HeavyInv'
<1>0. pc[t] = "reorg" /\ ThreadTypes /\ tip \in Block
  BY DEF DisconnectBlock, ConnectBlock, FinishAccept, IInv
<1>1. t = Sync
  BY <1>0, OnlySync
<1>2. PICK target \in Block : Heading(t, target) /\ Heaviest(target)
  BY <1>0, <1>1 DEF HeavyInv
<1>3. CASE DisconnectBlock(t) \/ ConnectBlock(t)
  <2>1. status' = status /\ pc' = [pc EXCEPT ![t] = "reorg"]
    BY <1>3 DEF DisconnectBlock, ConnectBlock, Release
  <2>2. Heading(t, target)'
    BY <1>2, <1>3, HeadingDisconnect, HeadingConnect
  <2>3. Heaviest(target)'
    BY <1>2, <2>1 DEF Heaviest, Activatable
  <2>4. pc'[t] = "reorg"
    BY <1>0, <2>1 DEF ThreadTypes
  <2> QED
    BY <1>1, <2>2, <2>3, <2>4 DEF HeavyInv
<1>4. CASE FinishAccept(t)
  <2>1. /\ tip' = tip /\ pc' = [pc EXCEPT ![t] = "accepted"] /\ detach[t] = {} /\ attach[t] = {}
        /\ status' = status \/ status' = SetStatusFlags(status, {call[t].cur}, "valid")
    BY <1>4 DEF FinishAccept, Release
  <2>2. \A x \in Block : /\ HaveData(status'[x]) => HaveData(status[x])
                         /\ KnownInvalid(status[x]) => KnownInvalid(status'[x])
    BY <2>1, SetFlag, NodesKept, SMTT(60) DEF HaveData
  <2>3. \A x \in Block : Activatable(x)' => Activatable(x)
    BY <2>2, ActivatableKept
  <2>4. target = tip
    BY <1>0, <1>2, <2>1, HeadingReached
  <2>5. Heaviest(tip)'
    BY <1>2, <2>1, <2>3, <2>4 DEF Heaviest
  <2>6. pc'[t] = "accepted"
    BY <1>0, <2>1 DEF ThreadTypes
  <2> QED
    BY <1>1, <2>5, <2>6 DEF HeavyInv
<1> QED
  BY <1>3, <1>4

\* processOrphans changes neither the index nor the best chain.
LEMMA HeavyProcessOrphans ==
  ASSUME OneByOne, Undisturbed, IInv, SoleInv, HeavyInv, NEW t \in Thread, ProcessOrphans(t)
  PROVE  HeavyInv'
<1>0. pc[t] = "accepted" /\ ThreadTypes /\ status' = status /\ tip' = tip
  BY DEF ProcessOrphans, IInv
<1>1. t = Sync /\ Heaviest(tip)
  BY <1>0, OnlySync DEF HeavyInv
<1>2. Heaviest(tip)'
  BY <1>0, <1>1 DEF Heaviest, Activatable
<1>3. pc'[t] \in {"idle", "accept"}
  <2>1. CASE Return(t)
    BY <1>0, <2>1, ReturnFacts
  <2>2. CASE Stay(t, "accept")
    BY <1>0, <2>2 DEF Stay, ThreadTypes
  <2> QED
    BY <2>1, <2>2, OrphansCases
<1> QED
  BY <1>1, <1>2, <1>3 DEF HeavyInv

\* Every step preserves HeavyInv.
LEMMA HeavyNext ==
  ASSUME OneByOne, Undisturbed, IInv, SoleInv, HeavyInv, [Next]_vars
  PROVE  HeavyInv'
<1>0. Sync \in Thread
  BY DEF Thread
<1>1. ASSUME NEW b \in Block \ {Genesis}, NEW src \in Sources, NEW ibd \in BOOLEAN,
             ProcessBlock(Sync, b, src, ibd)
      PROVE  HeavyInv'
  BY <1>0, <1>1, HeavyCalls
<1>2. ASSUME NEW h \in Announced, ProcessBlockHeader(Sync, h)
      PROVE  HeavyInv'
  BY <1>0, <1>2, HeavyCalls
<1>3. ASSUME NEW t \in Rpc PROVE RpcCalls = {}
  BY DEF Undisturbed, NoManual
<1>4. ASSUME NEW t \in Thread, Step(t)
      PROVE  HeavyInv'
  <2>1. ~ActivateBestTip(t) /\ ~NoBestTip(t) /\ ~FinishActivate(t)
    <3>1. pc[t] = "reorg" => /\ call[t].cont # "invalidate"
                             /\ call[t].cont \notin {"activate", "reconsider"}
      BY OnlySync
    <3> QED
      BY <3>1 DEF ActivateBestTip, NoBestTip, Invalidated, FinishActivate
  <2>2. ~MarkRejectedBlock(t)
    BY OnlySync DEF MarkRejectedBlock
  <2> QED
    BY <1>4, <2>1, <2>2, NoReorganizeError, HeavyMaybeAcceptBlock, HeavyConnectBestChain,
       HeavyReorganize, HeavyProcessOrphans DEF Step
<1>5. ~Restart
  BY DEF Restart, OneByOne
<1>6. CASE UNCHANGED vars
  BY <1>6 DEF vars, HeavyInv, Heaviest, Activatable, Heading
<1>7. \A t \in Rpc : ~("invalidate" \in RpcCalls) /\ ~("reconsider" \in RpcCalls)
  BY <1>3
<1> QED
  BY <1>1, <1>2, <1>4, <1>5, <1>6, <1>7 DEF Next

\* When blocks are submitted one by one, and nothing else disturbs the chain, no
\* stored branch without an invalid block has more work than the best chain between
\* two calls.
THEOREM BestChainAlwaysHeaviest ==
  ASSUME OneByOne, Undisturbed
  PROVE  Spec => []HeaviestChain
<1>1. Init => HeavyInv
  <2> SUFFICES ASSUME Init PROVE HeavyInv
    OBVIOUS
  <2>1. pc[Sync] = "idle" /\ tip = Genesis
    BY DEF Init, Thread
  <2>2. \A b \in Block : HaveData(status[b]) => b = Genesis
    BY DEF Init, GenesisOnly, HaveData
  <2>3. \A x \in Block : Activatable(x) => x = Genesis
    BY <2>2, TreeFacts DEF Activatable
  <2>4. Heaviest(tip)
    BY <2>1, <2>3, WorkAssumption, SMTT(60) DEF Heaviest
  <2> QED
    BY <2>1, <2>4 DEF HeavyInv
<1>2. IInv /\ SoleInv /\ HeavyInv /\ [Next]_vars => HeavyInv'
  BY HeavyNext
<1>3. IInv /\ IInv' /\ SoleInv /\ [Next]_vars => SoleInv'
  BY SoleNext
<1>4. HeavyInv => HeaviestChain
  BY DEF HeavyInv, HeaviestChain, Heaviest, Thread
<1> QED
  BY <1>1, <1>2, <1>3, <1>4, SoleInit, Invariance, PTL DEF Spec

=============================================================================
