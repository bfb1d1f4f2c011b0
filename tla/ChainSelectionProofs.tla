---------------------------- MODULE ChainSelectionProofs ----------------------------
(***************************************************************************)
(* What chain selection chooses, for every tree of blocks: what one step   *)
(* of it does to the index and to the lists of blocks to disconnect and to *)
(* connect, that the best chain obeys the rules, and that a block is       *)
(* called invalid for a cause.                                             *)
(***************************************************************************)
EXTENDS BlockChainProofs, WellFoundedInduction

\* A leaf that names no prover is for Zenon.
USE ZenonT(60)

(***************************************************************************)
(* The tree of blocks.                                                     *)
(***************************************************************************)

\* A set of natural numbers has a least element.
LEMMA LeastElement ==
  ASSUME NEW T \in SUBSET Nat, T # {}
  PROVE  \E x \in T : \A y \in T : x <= y
<1>1. PICK x \in T : \A y \in T : ~(<<y, x>> \in OpToRel(<, Nat))
  BY NatLessThanWellFounded, WFMin
<1>2. ASSUME NEW y \in T
      PROVE  x <= y
  <2>1. x \in Nat /\ y \in Nat
    OBVIOUS
  <2>2. y < x => <<y, x>> \in {ss \in Nat \X Nat : ss[1] < ss[2]}
    BY <2>1
  <2>3. ~(<<y, x>> \in {ss \in Nat \X Nat : ss[1] < ss[2]})
    BY <1>1 DEF OpToRel
  <2> QED
    BY <2>1, <2>2, <2>3, SMTT(60)
<1> QED
  BY <1>2

\* A list of nodes that is not empty has a front.
LEMMA LowestExists ==
  ASSUME NEW S \in SUBSET Block, S # {}
  PROVE  \E n \in S : IsLowest(n, S)
<1> DEFINE H == {Height[n] : n \in S}
<1>1. H \in SUBSET Nat /\ H # {}
  <2>1. \A n \in S : Height[n] \in Nat
    BY WorkAssumption
  <2> QED
    BY <2>1
<1>2. PICK h \in H : \A k \in H : h <= k
  <2> HIDE DEF H
  <2> QED
    BY <1>1, LeastElement
<1>3. PICK n \in S : h = Height[n]
  BY <1>2
<1>4. \A m \in S : Height[m] \in H
  OBVIOUS
<1> QED
  BY <1>2, <1>3, <1>4 DEF IsLowest

\* Work and height grow along a branch, and no two blocks are above each other.
LEMMA Order ==
  ASSUME NEW b \in Block, NEW a \in Ancestors[b]
  PROVE  /\ a \in Block /\ Ancestors[a] \subseteq Ancestors[b]
         /\ Height[a] \in Nat /\ Height[b] \in Nat /\ Height[a] <= Height[b]
         /\ WorkSum[a] \in Nat /\ WorkSum[b] \in Nat /\ WorkSum[a] <= WorkSum[b]
         /\ a # b => Height[a] < Height[b] /\ WorkSum[a] < WorkSum[b]
         /\ b \in Ancestors[a] => a = b
<1>1. a \in Block /\ Ancestors[a] \subseteq Ancestors[b]
  BY TreeAssumption
<1>2. /\ Height[a] \in Nat /\ Height[b] \in Nat
      /\ WorkSum[a] \in Nat /\ WorkSum[b] \in Nat
      /\ a # b => Height[a] < Height[b] /\ WorkSum[a] < WorkSum[b]
  BY <1>1, WorkAssumption
<1>3. b \in Ancestors[a] /\ a # b => Height[b] < Height[a]
  BY <1>1, WorkAssumption
<1> QED
  BY <1>1, <1>2, <1>3, SMTT(60)

\* The blocks of one branch are above one another.
LEMMA Linear ==
  \A b \in Block : \A x, y \in Ancestors[b] : x \in Ancestors[y] \/ y \in Ancestors[x]
<1> DEFINE Ok(b) == \A x, y \in Ancestors[b] : x \in Ancestors[y] \/ y \in Ancestors[x]
           Broken == {c \in Block : ~Ok(c)}
           Bad == {Height[c] : c \in Broken}
<1>0. SUFFICES ASSUME Bad # {} PROVE FALSE
  <2> HIDE DEF Ok
  <2>1. Bad = {} => \A b \in Block : Ok(b)
    OBVIOUS
  <2> QED
    BY <2>1 DEF Ok
<1>1. Bad \in SUBSET Nat
  BY WorkAssumption
<1>2. PICK h \in Bad : \A k \in Bad : h <= k
  <2> HIDE DEF Bad
  <2> QED
    BY <1>0, <1>1, LeastElement
<1>3. PICK b \in Block : ~Ok(b) /\ h = Height[b]
  BY <1>2
<1>4. b # Genesis
  BY <1>3, TreeAssumption
<1>5. Parent[b] \in Block /\ Height[Parent[b]] \in Nat /\ Height[b] = Height[Parent[b]] + 1
  BY <1>4, TreeAssumption, WorkAssumption
<1>6. Ok(Parent[b])
  <2> SUFFICES ASSUME ~Ok(Parent[b]) PROVE FALSE
    OBVIOUS
  <2> HIDE DEF Ok
  <2>0. Parent[b] \in Broken
    BY <1>5
  <2>1. Height[Parent[b]] \in Bad
    BY <2>0
  <2> QED
    BY <1>2, <1>3, <1>5, <2>1, SMTT(60)
<1>7. Ancestors[b] = {b} \cup Ancestors[Parent[b]]
  BY <1>4, TreeAssumption
<1> QED
  BY <1>3, <1>6, <1>7

\* The lower of two blocks of a branch is below the other.
LEMMA LowerIsBelow ==
  ASSUME NEW b \in Block, NEW x \in Ancestors[b], NEW y \in Ancestors[b],
         Height[x] < Height[y]
  PROVE  x \in Ancestors[y]
<1>1. x \in Block /\ y \in Block /\ Height[x] \in Nat /\ Height[y] \in Nat
  BY Order
<1>2. y \in Ancestors[x] => Height[y] <= Height[x]
  BY <1>1, Order
<1> QED
  BY <1>1, <1>2, Linear, SMTT(60)

(***************************************************************************)
(* The lists of a reorganization from the tip to a node.                   *)
(***************************************************************************)

\* The tip is the front of the detach list.
LEMMA DetachFront ==
  ASSUME tip \in Block, NEW node \in Block, Ancestors[tip] \ Ancestors[node] # {}
  PROVE  IsHighest(tip, Ancestors[tip] \ Ancestors[node])
<1>1. tip \in Ancestors[tip] /\ tip \notin Ancestors[node]
  BY TreeFacts, Order
<1>2. \A c \in Ancestors[tip] : Height[c] <= Height[tip]
  BY Order
<1> QED
  BY <1>1, <1>2 DEF IsHighest

\* The front of the attach list extends the tip once nothing is left to detach.
LEMMA AttachFront ==
  ASSUME tip \in Block, NEW node \in Block, Ancestors[tip] \subseteq Ancestors[node],
         NEW n, IsLowest(n, Ancestors[node] \ Ancestors[tip])
  PROVE  n \in Block \ {Genesis} /\ Parent[n] = tip
<1>1. n \in Ancestors[node] /\ n \notin Ancestors[tip] /\ n \in Block /\ n # Genesis
  BY TreeFacts, SMTT(60) DEF IsLowest
<1>2. /\ Parent[n] \in Block /\ Ancestors[n] = {n} \cup Ancestors[Parent[n]]
      /\ Parent[n] \in Ancestors[n] /\ Parent[n] # n
  BY <1>1, TreeFacts, TreeAssumption, SMTT(60)
<1>3. Height[Parent[n]] \in Nat /\ Height[n] \in Nat /\ Height[Parent[n]] < Height[n]
  BY <1>1, <1>2, Order
<1>4. Parent[n] \in Ancestors[node]
  BY <1>1, <1>2, Order
<1>5. Parent[n] \in Ancestors[tip]
  BY <1>3, <1>4, SMTT(60) DEF IsLowest
<1>6. tip \in Ancestors[node]
  BY TreeFacts
<1>7. tip \in Ancestors[n]
  BY <1>1, <1>6, Linear
<1>8. tip \in Ancestors[Parent[n]]
  BY <1>1, <1>2, <1>7, TreeFacts
<1> QED
  BY <1>1, <1>2, <1>5, <1>8, Order

\* The two lists start from the same block, as verifyReorganizationValidity asserts.
LEMMA ForkPoint ==
  ASSUME tip \in Block, NEW node \in Block,
         NEW x, IsLowest(x, Ancestors[node] \ Ancestors[tip]),
         NEW y, IsLowest(y, Ancestors[tip] \ Ancestors[node])
  PROVE  Parent[x] = Parent[y]
<1>1. /\ x \in Ancestors[node] /\ x \notin Ancestors[tip] /\ x \in Block \ {Genesis}
      /\ y \in Ancestors[tip] /\ y \notin Ancestors[node] /\ y \in Block \ {Genesis}
  BY TreeFacts, SMTT(60) DEF IsLowest
<1>2. /\ Parent[x] \in Block /\ Ancestors[x] = {x} \cup Ancestors[Parent[x]]
      /\ Parent[x] \in Ancestors[x] /\ Parent[x] # x
      /\ Parent[y] \in Block /\ Ancestors[y] = {y} \cup Ancestors[Parent[y]]
      /\ Parent[y] \in Ancestors[y] /\ Parent[y] # y
  BY <1>1, TreeFacts, TreeAssumption, SMTT(60)
<1>3. /\ Height[Parent[x]] \in Nat /\ Height[x] \in Nat /\ Height[Parent[x]] < Height[x]
      /\ Height[Parent[y]] \in Nat /\ Height[y] \in Nat /\ Height[Parent[y]] < Height[y]
  BY <1>1, <1>2, Order
<1>4. Parent[x] \in Ancestors[node] /\ Parent[y] \in Ancestors[tip]
  BY <1>1, <1>2, Order
<1>5. Parent[x] \in Ancestors[tip] /\ Parent[y] \in Ancestors[node]
  BY <1>3, <1>4, SMTT(60) DEF IsLowest
<1>6. Parent[y] \in Ancestors[Parent[x]]
  <2>1. Parent[y] \in Ancestors[x] \/ x \in Ancestors[Parent[y]]
    BY <1>1, <1>5, Linear
  <2>2. x \notin Ancestors[Parent[y]]
    BY <1>1, <1>4, Order
  <2>3. Parent[y] # x
    BY <1>1, <1>4
  <2> QED
    BY <1>2, <2>1, <2>2, <2>3
<1>7. Parent[x] \in Ancestors[Parent[y]]
  <2>1. Parent[x] \in Ancestors[y] \/ y \in Ancestors[Parent[x]]
    BY <1>1, <1>5, Linear
  <2>2. y \notin Ancestors[Parent[x]]
    BY <1>1, <1>4, Order
  <2>3. Parent[x] # y
    BY <1>1, <1>4
  <2> QED
    BY <1>2, <2>1, <2>2, <2>3
<1> QED
  BY <1>2, <1>6, <1>7, Order

(***************************************************************************)
(* What reorganizing does to the verdict flags.                            *)
(***************************************************************************)

\* Setting a flag: what it says of a block afterwards.
LEMMA SetFlag ==
  ASSUME NEW st, NEW S, NEW b \in Block
  PROVE  /\ KnownInvalid(SetStatusFlags(st, S, "valid")[b]) <=> KnownInvalid(st[b])
         /\ KnownValid(SetStatusFlags(st, S, "valid")[b]) <=> b \in S \/ KnownValid(st[b])
         /\ KnownInvalid(SetStatusFlags(st, S, "failed")[b]) <=> b \in S \/ KnownInvalid(st[b])
         /\ KnownValid(SetStatusFlags(st, S, "failed")[b]) <=> KnownValid(st[b])
         /\ KnownInvalid(SetStatusFlags(st, S, "invalidAncestor")[b])
              <=> b \in S \/ KnownInvalid(st[b])
         /\ KnownValid(SetStatusFlags(st, S, "invalidAncestor")[b]) <=> KnownValid(st[b])
         /\ KnownInvalid(SetStatusFlags(st, S, "data")[b]) <=> KnownInvalid(st[b])
         /\ KnownValid(SetStatusFlags(st, S, "data")[b]) <=> KnownValid(st[b])
<1> DEFINE now(f) == SetStatusFlags(st, S, f)[b]
<1>1. \A f : now(f) = IF b \in S THEN st[b] \cup {f} ELSE st[b]
  BY DEF SetStatusFlags
<1> HIDE DEF now
<1>2. \A f, e : e \in now(f) <=> e \in st[b] \/ (b \in S /\ e = f)
  BY <1>1
<1>3. /\ KnownInvalid(now("valid")) <=> KnownInvalid(st[b])
      /\ KnownValid(now("valid")) <=> b \in S \/ KnownValid(st[b])
      /\ KnownInvalid(now("data")) <=> KnownInvalid(st[b])
      /\ KnownValid(now("data")) <=> KnownValid(st[b])
  BY <1>2, SMTT(60) DEF KnownInvalid, KnownValid
<1>4. /\ KnownInvalid(now("failed")) <=> b \in S \/ KnownInvalid(st[b])
      /\ KnownValid(now("failed")) <=> KnownValid(st[b])
  BY <1>2, SMTT(60) DEF KnownInvalid, KnownValid
<1>5. /\ KnownInvalid(now("invalidAncestor")) <=> b \in S \/ KnownInvalid(st[b])
      /\ KnownValid(now("invalidAncestor")) <=> KnownValid(st[b])
  BY <1>2, SMTT(60) DEF KnownInvalid, KnownValid
<1> QED
  BY <1>3, <1>4, <1>5 DEF now

\* What flushToDB writes of a node is the node or nothing.
LEMMA FlushFlag ==
  ASSUME NEW st, NEW b \in Block
  PROVE  FlushToDB(st)[b] \subseteq st[b]
BY DEF FlushToDB

\* The blocks a reorganization to node has to connect.
Path(node) == Ancestors[node] \ Ancestors[tip]

\* getReorganizeNodes gives up a branch only for an invalid block on it, and then
\* marks blocks above an invalid one; otherwise it lists the two sides of the fork.
LEMMA ReorganizeNodesCases ==
  ASSUME NEW st, tip \in Block, NEW node \in Block, node \notin Ancestors[tip]
  PROVE  LET g == GetReorganizeNodes(st, node) IN
         \/ /\ g.detach = {} /\ g.attach = {}
            /\ \E a \in Ancestors[node] : KnownInvalid(st[a])
            /\ \E S \in SUBSET Path(node) :
                 /\ g.st = SetStatusFlags(st, S, "invalidAncestor")
                 /\ \A n \in S : \E a \in Ancestors[n] : KnownInvalid(st[a])
         \/ /\ g.st = st
            /\ g.detach = Ancestors[tip] \ Ancestors[node] /\ g.attach = Path(node)
            /\ \A n \in Path(node) : ~KnownInvalid(st[n])
<1> DEFINE path == Ancestors[node] \ Ancestors[tip]
           bad == {n \in path : KnownInvalid(st[n])}
           unwound == {n \in path : \A m \in bad : Height[n] > Height[m]}
           g == GetReorganizeNodes(st, node)
<1>0. node # Genesis /\ Parent[node] \in Ancestors[node] /\ node \in path
  BY TreeFacts
<1>1. CASE KnownInvalid(st[Parent[node]])
  <2>1. g = [st |-> SetStatusFlags(st, {node}, "invalidAncestor"), detach |-> {}, attach |-> {}]
    BY <1>1 DEF GetReorganizeNodes
  <2>2. {node} \in SUBSET Path(node)
    BY <1>0 DEF Path
  <2>3. \A n \in {node} : \E a \in Ancestors[n] : KnownInvalid(st[a])
    BY <1>0, <1>1
  <2>4. \E a \in Ancestors[node] : KnownInvalid(st[a])
    BY <1>0, <1>1
  <2> HIDE DEF g
  <2>5. g.detach = {} /\ g.attach = {} /\ g.st = SetStatusFlags(st, {node}, "invalidAncestor")
    BY <2>1
  <2> QED
    BY <2>2, <2>3, <2>4, <2>5 DEF g
<1>2. CASE ~KnownInvalid(st[Parent[node]]) /\ bad # {}
  <2>1. g = [st |-> SetStatusFlags(st, unwound, "invalidAncestor"), detach |-> {}, attach |-> {}]
    BY <1>2 DEF GetReorganizeNodes
  <2>2. unwound \in SUBSET Path(node)
    BY DEF Path
  <2>3. \A n \in unwound : \E a \in Ancestors[n] : KnownInvalid(st[a])
    <3> SUFFICES ASSUME NEW n \in unwound
                 PROVE  \E a \in Ancestors[n] : KnownInvalid(st[a])
      OBVIOUS
    <3>1. PICK m : m \in bad
      BY <1>2
    <3>2. /\ m \in Ancestors[node] /\ n \in Ancestors[node] /\ Height[n] > Height[m]
          /\ KnownInvalid(st[m])
      BY <3>1
    <3>3. Height[n] \in Nat /\ Height[m] \in Nat
      BY <3>2, Order
    <3>4. m \in Ancestors[n]
      BY <3>2, <3>3, LowerIsBelow
    <3> QED
      BY <3>2, <3>4
  <2>4. \E a \in Ancestors[node] : KnownInvalid(st[a])
    BY <1>2
  <2> HIDE DEF g, unwound
  <2>5. g.detach = {} /\ g.attach = {} /\ g.st = SetStatusFlags(st, unwound, "invalidAncestor")
    BY <2>1
  <2> QED
    BY <2>2, <2>3, <2>4, <2>5 DEF g
<1>3. CASE ~KnownInvalid(st[Parent[node]]) /\ bad = {}
  <2>1. g = [st |-> st, detach |-> Ancestors[tip] \ Ancestors[node], attach |-> path]
    BY <1>3 DEF GetReorganizeNodes
  <2>2. \A n \in Path(node) : ~KnownInvalid(st[n])
    BY <1>3 DEF Path
  <2> HIDE DEF g
  <2>3. g.st = st /\ g.detach = Ancestors[tip] \ Ancestors[node] /\ g.attach = Path(node)
    BY <2>1 DEF Path
  <2> QED
    BY <2>2, <2>3 DEF g
<1> QED
  BY <1>1, <1>2, <1>3

\* verifyReorganizationValidity asserts that the lists start from the tip and from
\* one block.
ListsMatch(d, a) ==
  /\ d # {} => IsHighest(tip, d)
  /\ \A x \in a, y \in d : IsLowest(x, a) /\ IsLowest(y, d) => Parent[x] = Parent[y]

\* verifyReorganizationValidity: what it marks is a block of the list at or above
\* a block that breaks a rule; what it calls valid is; a list that passes is stored
\* and valid and gets no mark; a stored list that does not pass gets one.
LEMMA VerifyCases ==
  ASSUME NEW st, tip \in Block, NEW node \in Block, NEW d,
         NEW a \in SUBSET Ancestors[node]
  PROVE  LET v == VerifyReorganizationValidity(st, d, a) IN
         /\ \A b \in Block : KnownInvalid(v.st[b]) =>
              \/ KnownInvalid(st[b])
              \/ b \in a /\ \E c \in Ancestors[b] : verdict[c] # "valid"
         /\ \A b \in Block : KnownInvalid(st[b]) => KnownInvalid(v.st[b])
         /\ \A b \in Block : KnownValid(v.st[b]) => KnownValid(st[b]) \/ verdict[b] = "valid"
         /\ v.ok => /\ \A b \in Block : KnownInvalid(v.st[b]) => KnownInvalid(st[b])
                    /\ \A n \in a : /\ HaveData(st[n])
                                    /\ KnownValid(st[n]) \/ verdict[n] = "valid"
         /\ ListsMatch(d, a) /\ ~v.ok /\ (\A n \in a : HaveData(st[n])) =>
              \E n \in a : KnownInvalid(v.st[n])
<1> DEFINE stops == {n \in a : \/ ~HaveData(st[n])
                               \/ ~KnownValid(st[n]) /\ verdict[n] # "valid"}
           broken == {n \in a : IsLowest(n, stops) /\ HaveData(st[n])}
           passed == {n \in a : \A m \in stops : Height[n] < Height[m]}
           above == {n \in a : \E m \in broken : Height[n] > Height[m]}
           s1 == SetStatusFlags(st, passed, "valid")
           s2 == SetStatusFlags(s1, broken, "failed")
           s3 == SetStatusFlags(s2, above, "invalidAncestor")
           v == VerifyReorganizationValidity(st, d, a)
<1>0. a \subseteq Block
  BY Order
<1>1. v = [ok |-> ListsMatch(d, a) /\ stops = {}, rule |-> ListsMatch(d, a) /\ broken # {},
           st |-> IF ListsMatch(d, a) THEN s3 ELSE st]
  BY DEF VerifyReorganizationValidity, ListsMatch
<1> HIDE DEF v
<1>2. /\ v.ok = (ListsMatch(d, a) /\ stops = {})
      /\ v.st = IF ListsMatch(d, a) THEN s3 ELSE st
  BY <1>1
<1>3. \A n \in passed : KnownValid(st[n]) \/ verdict[n] = "valid"
  <2> SUFFICES ASSUME NEW n \in passed, ~(KnownValid(st[n]) \/ verdict[n] = "valid")
               PROVE  FALSE
    OBVIOUS
  <2>1. n \in stops /\ n \in Block
    BY <1>0
  <2>2. Height[n] < Height[n] /\ Height[n] \in Nat
    BY <2>1, WorkAssumption
  <2> QED
    BY <2>2, SMTT(60)
<1>4. \A n \in broken : verdict[n] # "valid" /\ n \in Ancestors[n]
  BY <1>0, TreeFacts DEF IsLowest
<1>5. \A n \in above : \E c \in Ancestors[n] : verdict[c] # "valid"
  <2> SUFFICES ASSUME NEW n \in above
               PROVE  \E c \in Ancestors[n] : verdict[c] # "valid"
    OBVIOUS
  <2>1. PICK m \in broken : Height[n] > Height[m]
    OBVIOUS
  <2>2. m \in Ancestors[node] /\ n \in Ancestors[node]
    OBVIOUS
  <2>3. Height[m] \in Nat /\ Height[n] \in Nat
    BY <2>2, Order
  <2>4. m \in Ancestors[n]
    BY <2>1, <2>2, <2>3, LowerIsBelow
  <2> QED
    BY <1>4, <2>4
<1>6. passed \subseteq a /\ broken \subseteq a /\ above \subseteq a
  OBVIOUS
<1>7. stops = {} => broken = {} /\ above = {}
  BY DEF IsLowest
<1>8. \A n \in a : n \notin stops => HaveData(st[n]) /\ (KnownValid(st[n]) \/ verdict[n] = "valid")
  OBVIOUS
<1>9. stops # {} /\ (\A n \in a : HaveData(st[n])) => broken # {}
  <2> SUFFICES ASSUME stops # {}, \A n \in a : HaveData(st[n])
               PROVE  broken # {}
    OBVIOUS
  <2>1. stops \in SUBSET Block /\ stops \subseteq a
    BY <1>0
  <2> HIDE DEF stops
  <2>2. PICK n \in stops : IsLowest(n, stops)
    BY <2>1, LowestExists
  <2> QED
    BY <2>1, <2>2
<1> HIDE DEF stops, broken, passed, above
<1>10. \A b \in Block : /\ KnownInvalid(s3[b]) <=> KnownInvalid(st[b]) \/ b \in broken \/ b \in above
                        /\ KnownValid(s3[b]) <=> KnownValid(st[b]) \/ b \in passed
  <2> SUFFICES ASSUME NEW b \in Block
               PROVE  /\ KnownInvalid(s3[b]) <=> KnownInvalid(st[b]) \/ b \in broken \/ b \in above
                      /\ KnownValid(s3[b]) <=> KnownValid(st[b]) \/ b \in passed
    OBVIOUS
  <2>1. /\ KnownInvalid(s1[b]) <=> KnownInvalid(st[b])
        /\ KnownValid(s1[b]) <=> b \in passed \/ KnownValid(st[b])
    BY SetFlag
  <2> HIDE DEF s1
  <2>2. /\ KnownInvalid(s2[b]) <=> b \in broken \/ KnownInvalid(s1[b])
        /\ KnownValid(s2[b]) <=> KnownValid(s1[b])
    BY SetFlag
  <2> HIDE DEF s2
  <2>3. /\ KnownInvalid(s3[b]) <=> b \in above \/ KnownInvalid(s2[b])
        /\ KnownValid(s3[b]) <=> KnownValid(s2[b])
    BY SetFlag
  <2> QED
    BY <2>1, <2>2, <2>3
<1> HIDE DEF s3
<1>11. \A b \in Block : KnownInvalid(v.st[b]) =>
              \/ KnownInvalid(st[b])
              \/ b \in a /\ \E c \in Ancestors[b] : verdict[c] # "valid"
  BY <1>2, <1>4, <1>5, <1>6, <1>10
<1>12. /\ \A b \in Block : KnownInvalid(st[b]) => KnownInvalid(v.st[b])
       /\ \A b \in Block : KnownValid(v.st[b]) => KnownValid(st[b]) \/ verdict[b] = "valid"
  BY <1>2, <1>3, <1>10
<1>13. v.ok => /\ \A b \in Block : KnownInvalid(v.st[b]) => KnownInvalid(st[b])
               /\ \A n \in a : /\ HaveData(st[n])
                               /\ KnownValid(st[n]) \/ verdict[n] = "valid"
  <2> SUFFICES ASSUME v.ok
               PROVE  /\ \A b \in Block : KnownInvalid(v.st[b]) => KnownInvalid(st[b])
                      /\ \A n \in a : /\ HaveData(st[n])
                                      /\ KnownValid(st[n]) \/ verdict[n] = "valid"
    OBVIOUS
  <2>1. stops = {} /\ v.st = s3
    BY <1>2
  <2> QED
    BY <1>7, <1>8, <1>10, <2>1
<1>14. ListsMatch(d, a) /\ ~v.ok /\ (\A n \in a : HaveData(st[n])) =>
         \E n \in a : KnownInvalid(v.st[n])
  <2> SUFFICES ASSUME ListsMatch(d, a), ~v.ok, \A n \in a : HaveData(st[n])
               PROVE  \E n \in a : KnownInvalid(v.st[n])
    OBVIOUS
  <2>1. stops # {} /\ v.st = s3
    BY <1>2
  <2>2. PICK n : n \in broken
    BY <1>9, <2>1
  <2>3. n \in a /\ n \in Block
    BY <1>0, <1>6, <2>2
  <2> QED
    BY <1>10, <2>1, <2>2, <2>3
<1> QED
  BY <1>11, <1>12, <1>13, <1>14 DEF v

\* getReorganizeNodes and verifyReorganizationValidity together, as connectBestChain,
\* InvalidateBlock and ReconsiderBlock call them.
LEMMA SwitchFacts ==
  ASSUME NEW st, tip \in Block, NEW node \in Block, node \notin Ancestors[tip],
         NEW g, g = GetReorganizeNodes(st, node),
         NEW v, v = VerifyReorganizationValidity(g.st, g.detach, g.attach)
  PROVE  /\ \A b \in Block : KnownInvalid(v.st[b]) =>
              \/ KnownInvalid(st[b])
              \/ /\ b \in Path(node)
                 /\ \E c \in Ancestors[b] : KnownInvalid(st[c]) \/ verdict[c] # "valid"
         /\ \A b \in Block : KnownInvalid(st[b]) => KnownInvalid(v.st[b])
         /\ \A b \in Block : KnownValid(v.st[b]) => KnownValid(st[b]) \/ verdict[b] = "valid"
         /\ v.ok =>
              \/ /\ g.detach = {} /\ g.attach = {}
                 /\ \E a \in Ancestors[node] : KnownInvalid(st[a])
              \/ /\ g.detach = Ancestors[tip] \ Ancestors[node]
                 /\ g.attach = Path(node)
                 /\ \A n \in Path(node) : /\ HaveData(st[n]) /\ ~KnownInvalid(v.st[n])
                                          /\ KnownValid(st[n]) \/ verdict[n] = "valid"
         /\ ~v.ok /\ (\A n \in Path(node) : HaveData(st[n])) =>
              \E n \in Ancestors[node] : KnownInvalid(v.st[n])
<1>0. Path(node) \subseteq Ancestors[node] /\ Ancestors[node] \subseteq Block
  BY TreeFacts DEF Path
<1>1. \/ /\ g.detach = {} /\ g.attach = {}
         /\ \E a \in Ancestors[node] : KnownInvalid(st[a])
         /\ \E S \in SUBSET Path(node) :
              /\ g.st = SetStatusFlags(st, S, "invalidAncestor")
              /\ \A n \in S : \E a \in Ancestors[n] : KnownInvalid(st[a])
      \/ /\ g.st = st
         /\ g.detach = Ancestors[tip] \ Ancestors[node] /\ g.attach = Path(node)
         /\ \A n \in Path(node) : ~KnownInvalid(st[n])
  BY ReorganizeNodesCases
<1>2. g.attach \in SUBSET Ancestors[node]
  BY <1>0, <1>1
<1>3. /\ \A b \in Block : KnownInvalid(v.st[b]) =>
           \/ KnownInvalid(g.st[b])
           \/ b \in g.attach /\ \E c \in Ancestors[b] : verdict[c] # "valid"
      /\ \A b \in Block : KnownInvalid(g.st[b]) => KnownInvalid(v.st[b])
      /\ \A b \in Block : KnownValid(v.st[b]) => KnownValid(g.st[b]) \/ verdict[b] = "valid"
      /\ v.ok => /\ \A b \in Block : KnownInvalid(v.st[b]) => KnownInvalid(g.st[b])
                 /\ \A n \in g.attach : /\ HaveData(g.st[n])
                                        /\ KnownValid(g.st[n]) \/ verdict[n] = "valid"
      /\ ListsMatch(g.detach, g.attach) /\ ~v.ok /\ (\A n \in g.attach : HaveData(g.st[n])) =>
           \E n \in g.attach : KnownInvalid(v.st[n])
  BY <1>2, VerifyCases, SMTT(60)
<1>4. ListsMatch(g.detach, g.attach)
  <2>1. CASE g.detach = {} /\ g.attach = {}
    BY <2>1 DEF ListsMatch
  <2>2. CASE g.detach = Ancestors[tip] \ Ancestors[node] /\ g.attach = Path(node)
    BY <2>2, DetachFront, ForkPoint, SMTT(60) DEF ListsMatch, Path
  <2> QED
    BY <1>1, <2>1, <2>2
<1>5. CASE /\ g.detach = {} /\ g.attach = {}
           /\ \E a \in Ancestors[node] : KnownInvalid(st[a])
           /\ \E S \in SUBSET Path(node) :
                /\ g.st = SetStatusFlags(st, S, "invalidAncestor")
                /\ \A n \in S : \E a \in Ancestors[n] : KnownInvalid(st[a])
  <2>1. PICK S \in SUBSET Path(node) :
                /\ g.st = SetStatusFlags(st, S, "invalidAncestor")
                /\ \A n \in S : \E a \in Ancestors[n] : KnownInvalid(st[a])
    BY <1>5
  <2>2. \A b \in Block : /\ KnownInvalid(g.st[b]) <=> b \in S \/ KnownInvalid(st[b])
                         /\ KnownValid(g.st[b]) <=> KnownValid(st[b])
    BY <2>1, SetFlag
  <2>3. v.ok
    BY <1>3, <1>4, <1>5
  <2>4. \A b \in Block : KnownInvalid(v.st[b]) =>
          \/ KnownInvalid(st[b])
          \/ /\ b \in Path(node)
             /\ \E c \in Ancestors[b] : KnownInvalid(st[c]) \/ verdict[c] # "valid"
    BY <1>3, <1>5, <2>1, <2>2
  <2>5. /\ \A b \in Block : KnownInvalid(st[b]) => KnownInvalid(v.st[b])
        /\ \A b \in Block : KnownValid(v.st[b]) => KnownValid(st[b]) \/ verdict[b] = "valid"
    BY <1>3, <2>2
  <2> QED
    BY <1>5, <2>3, <2>4, <2>5
<1>6. CASE /\ g.st = st
           /\ g.detach = Ancestors[tip] \ Ancestors[node] /\ g.attach = Path(node)
           /\ \A n \in Path(node) : ~KnownInvalid(st[n])
  <2>1. /\ \A b \in Block : KnownInvalid(v.st[b]) =>
             \/ KnownInvalid(st[b])
             \/ /\ b \in Path(node)
                /\ \E c \in Ancestors[b] : KnownInvalid(st[c]) \/ verdict[c] # "valid"
        /\ \A b \in Block : KnownInvalid(st[b]) => KnownInvalid(v.st[b])
        /\ \A b \in Block : KnownValid(v.st[b]) => KnownValid(st[b]) \/ verdict[b] = "valid"
    BY <1>3, <1>6
  <2>2. v.ok => \A n \in Path(node) : /\ HaveData(st[n]) /\ ~KnownInvalid(v.st[n])
                                      /\ KnownValid(st[n]) \/ verdict[n] = "valid"
    <3>1. /\ v.ok => \A b \in Block : KnownInvalid(v.st[b]) => KnownInvalid(st[b])
          /\ v.ok => \A n \in Path(node) : /\ HaveData(st[n])
                                           /\ KnownValid(st[n]) \/ verdict[n] = "valid"
      BY <1>3, <1>6
    <3>2. \A n \in Path(node) : n \in Block /\ ~KnownInvalid(st[n])
      BY <1>0, <1>6
    <3> QED
      BY <3>1, <3>2
  <2>3. ~v.ok /\ (\A n \in Path(node) : HaveData(st[n])) =>
          \E n \in Ancestors[node] : KnownInvalid(v.st[n])
    BY <1>0, <1>3, <1>4, <1>6
  <2> QED
    BY <1>6, <2>1, <2>2, <2>3
<1> QED
  BY <1>1, <1>5, <1>6


(***************************************************************************)
(* What a move of a thread changes.                                        *)
(***************************************************************************)

\* A call that returns.
LEMMA ReturnFacts ==
  ASSUME ThreadTypes, NEW t \in Thread, Return(t)
  PROVE  /\ OnlyThread(t) /\ pc'[t] = "idle" /\ call'[t] = NoCall
         /\ detach'[t] = {} /\ attach'[t] = {}
BY DEF OnlyThread, Return, Release, ThreadTypes

\* A call that starts to reorganize.
LEMMA StartFacts ==
  ASSUME ThreadTypes, NEW t \in Thread, NEW d, NEW a, NEW main, NEW cont,
         StartReorganize(t, d, a, main, cont)
  PROVE  /\ OnlyThread(t) /\ pc'[t] = "reorg"
         /\ detach'[t] = d /\ attach'[t] = a
         /\ call'[t].cont = cont /\ call'[t].cur = call[t].cur
         /\ call'[t].fast = call[t].fast /\ call'[t].src = call[t].src
<1>1. /\ OnlyThread(t) /\ pc'[t] = "reorg"
      /\ detach'[t] = d /\ attach'[t] = a
      /\ call'[t] = [call[t] EXCEPT !.main = main, !.cont = cont]
  BY DEF OnlyThread, StartReorganize, Stay, ThreadTypes
<1>2. call[t] \in Call
  BY DEF ThreadTypes
<1> QED
  BY <1>1, <1>2 DEF Call

\* A call whose block breaks a rule.
LEMMA RuleErrorFacts ==
  ASSUME ThreadTypes, NEW t \in Thread, RuleError(t)
  PROVE  \/ Return(t)
         \/ /\ OnlyThread(t) /\ pc'[t] = "rejected" /\ call[t].src = "peer"
            /\ call' = call /\ detach' = detach /\ attach' = attach
<1>1. CASE Return(t)
  BY <1>1
<1>2. CASE /\ call[t].src = "peer" /\ Release(t, "rejected")
           /\ UNCHANGED <<call, queue, detach, attach>>
  BY <1>2 DEF OnlyThread, Release, ThreadTypes
<1> QED
  BY <1>1, <1>2 DEF RuleError

(***************************************************************************)
(* What the manual calls do to the verdict flags.                          *)
(***************************************************************************)

\* Clearing a flag: what it says of a block afterwards.
LEMMA UnsetFlags ==
  ASSUME NEW st, NEW S, NEW b \in Block
  PROVE  /\ KnownInvalid(UnsetStatusFlags(st, S, "valid")[b]) <=> KnownInvalid(st[b])
         /\ \A f : /\ KnownInvalid(UnsetStatusFlags(st, S, f)[b]) => KnownInvalid(st[b])
                   /\ KnownValid(UnsetStatusFlags(st, S, f)[b]) => KnownValid(st[b])
<1> DEFINE now(f) == UnsetStatusFlags(st, S, f)[b]
<1>1. \A f : now(f) = IF b \in S THEN st[b] \ {f} ELSE st[b]
  BY DEF UnsetStatusFlags
<1> HIDE DEF now
<1>2. \A f, e : e \in now(f) <=> e \in st[b] /\ ~(b \in S /\ e = f)
  BY <1>1
<1>3. /\ KnownInvalid(now("valid")) <=> KnownInvalid(st[b])
      /\ \A f : /\ KnownInvalid(now(f)) => KnownInvalid(st[b])
                /\ KnownValid(now(f)) => KnownValid(st[b])
  BY <1>2 DEF KnownInvalid, KnownValid
<1> QED
  BY <1>3 DEF now

\* Setting or clearing a verdict flag says nothing about what is stored.
LEMMA NodesKept ==
  ASSUME NEW st, NEW S, NEW f \in {"valid", "failed", "invalidAncestor"},
         NEW e \in {"data", "header"}, NEW b \in Block
  PROVE  /\ e \in SetStatusFlags(st, S, f)[b] <=> e \in st[b]
         /\ e \in UnsetStatusFlags(st, S, f)[b] <=> e \in st[b]
BY DEF SetStatusFlags, UnsetStatusFlags

\* MarkInvalidAncestor calls its blocks invalid, and none valid.
LEMMA MarkFlags ==
  ASSUME NEW st, NEW S, NEW b \in Block
  PROVE  /\ KnownInvalid(MarkInvalidAncestor(st, S)[b]) <=> KnownInvalid(st[b]) \/ b \in S
         /\ KnownValid(MarkInvalidAncestor(st, S)[b]) => KnownValid(st[b])
         /\ \A e \in {"data", "header"} : e \in MarkInvalidAncestor(st, S)[b] <=> e \in st[b]
<1> DEFINE fresh == {n \in S : ~KnownInvalid(st[n])}
           s1 == SetStatusFlags(st, fresh, "invalidAncestor")
           s2 == UnsetStatusFlags(s1, fresh, "valid")
<1>1. b \in fresh <=> b \in S /\ ~KnownInvalid(st[b])
  OBVIOUS
<1> HIDE DEF fresh
<1>2. /\ KnownInvalid(s1[b]) <=> b \in fresh \/ KnownInvalid(st[b])
      /\ KnownValid(s1[b]) <=> KnownValid(st[b])
      /\ \A e \in {"data", "header"} : e \in s1[b] <=> e \in st[b]
  BY SetFlag, NodesKept, SMTT(60)
<1> HIDE DEF s1
<1>3. /\ KnownInvalid(s2[b]) <=> KnownInvalid(s1[b])
      /\ KnownValid(s2[b]) => KnownValid(s1[b])
      /\ \A e \in {"data", "header"} : e \in s2[b] <=> e \in s1[b]
  BY UnsetFlags, NodesKept, SMTT(60)
<1>4. s2 = MarkInvalidAncestor(st, S)
  BY DEF s1, fresh, MarkInvalidAncestor
<1> HIDE DEF s2
<1> QED
  BY <1>1, <1>2, <1>3, <1>4

\* InvalidateBlock marks its block and the blocks above it on the best chain, or
\* blocks above it beside the best chain, and calls no block valid.
LEMMA InvalidateFlags ==
  ASSUME tip \in Block, NEW t \in Thread, NEW node \in Block, InvalidateBlock(t, node)
  PROVE  \E S : /\ node \in Ancestors[tip] => S = Ancestors[tip] \ Ancestors[node]
                /\ node \notin Ancestors[tip] => \A n \in S : node \in Ancestors[n]
                /\ \A b \in Block :
                     /\ KnownInvalid(status'[b]) <=> KnownInvalid(status[b]) \/ b = node \/ b \in S
                     /\ KnownValid(status'[b]) => KnownValid(status[b])
                     /\ \A e \in {"data", "header"} : e \in status'[b] <=> e \in status[b]
<1> DEFINE s1 == SetStatusFlags(status, {node}, "failed")
           failed == UnsetStatusFlags(s1, {node}, "valid")
           tips == {x \in InactiveTips(failed, tip) : node \in Ancestors[x]}
           below == UNION {Ancestors[x] \ Ancestors[node] : x \in tips}
           chain == Ancestors[tip] \ Ancestors[node]
           S == IF node \in Ancestors[tip] THEN chain ELSE below
<1>1. status' = MarkInvalidAncestor(failed, S)
  BY DEF InvalidateBlock
<1>2. \A n \in below : node \in Ancestors[n]
  <2>1. tips \subseteq Block
    BY DEF InactiveTips, Indexed
  <2>2. \A x \in tips : node \in Ancestors[x]
    OBVIOUS
  <2> HIDE DEF tips
  <2> SUFFICES ASSUME NEW n \in below PROVE node \in Ancestors[n]
    OBVIOUS
  <2>3. PICK x \in tips : n \in Ancestors[x] /\ n \notin Ancestors[node]
    OBVIOUS
  <2> QED
    BY <2>1, <2>2, <2>3, Linear
<1>3. ASSUME NEW b \in Block
      PROVE  /\ KnownInvalid(status'[b]) <=> KnownInvalid(status[b]) \/ b = node \/ b \in S
             /\ KnownValid(status'[b]) => KnownValid(status[b])
             /\ \A e \in {"data", "header"} : e \in status'[b] <=> e \in status[b]
  <2>1. /\ KnownInvalid(s1[b]) <=> b = node \/ KnownInvalid(status[b])
        /\ KnownValid(s1[b]) <=> KnownValid(status[b])
        /\ \A e \in {"data", "header"} : e \in s1[b] <=> e \in status[b]
    BY SetFlag, NodesKept, SMTT(60)
  <2> HIDE DEF s1
  <2>2. /\ KnownInvalid(failed[b]) <=> KnownInvalid(s1[b])
        /\ KnownValid(failed[b]) => KnownValid(s1[b])
        /\ \A e \in {"data", "header"} : e \in failed[b] <=> e \in s1[b]
    BY UnsetFlags, NodesKept, SMTT(60)
  <2> HIDE DEF failed, S
  <2>3. /\ KnownInvalid(status'[b]) <=> KnownInvalid(failed[b]) \/ b \in S
        /\ KnownValid(status'[b]) => KnownValid(failed[b])
        /\ \A e \in {"data", "header"} : e \in status'[b] <=> e \in failed[b]
    BY <1>1, MarkFlags, SMTT(60)
  <2> QED
    BY <2>1, <2>2, <2>3
<1> HIDE DEF failed
<1>4. /\ node \in Ancestors[tip] => S = Ancestors[tip] \ Ancestors[node]
      /\ node \notin Ancestors[tip] => \A n \in S : node \in Ancestors[n]
  BY <1>2
<1> HIDE DEF S
<1> QED
  BY <1>3, <1>4

\* ReconsiderBlock, before it looks for a better chain, only clears marks.
LEMMA ReconsiderFlags ==
  ASSUME NEW node, NEW S, NEW b \in Block
  PROVE  LET st == UnsetStatusFlags(
                     UnsetStatusFlags(UnsetStatusFlags(status, {node}, "failed"),
                                      {node}, "invalidAncestor"), S, "invalidAncestor")
         IN  /\ KnownInvalid(st[b]) => KnownInvalid(status[b])
             /\ KnownValid(st[b]) => KnownValid(status[b])
             /\ \A e \in {"data", "header"} : e \in st[b] <=> e \in status[b]
<1> DEFINE s1 == UnsetStatusFlags(status, {node}, "failed")
           s2 == UnsetStatusFlags(s1, {node}, "invalidAncestor")
           s3 == UnsetStatusFlags(s2, S, "invalidAncestor")
<1>1. /\ KnownInvalid(s1[b]) => KnownInvalid(status[b])
      /\ KnownValid(s1[b]) => KnownValid(status[b])
      /\ \A e \in {"data", "header"} : e \in s1[b] <=> e \in status[b]
  BY UnsetFlags, NodesKept, SMTT(60)
<1> HIDE DEF s1
<1>2. /\ KnownInvalid(s2[b]) => KnownInvalid(s1[b])
      /\ KnownValid(s2[b]) => KnownValid(s1[b])
      /\ \A e \in {"data", "header"} : e \in s2[b] <=> e \in s1[b]
  BY UnsetFlags, NodesKept, SMTT(60)
<1> HIDE DEF s2
<1>3. /\ KnownInvalid(s3[b]) => KnownInvalid(s2[b])
      /\ KnownValid(s3[b]) => KnownValid(s2[b])
      /\ \A e \in {"data", "header"} : e \in s3[b] <=> e \in s2[b]
  BY UnsetFlags, NodesKept, SMTT(60)
<1> HIDE DEF s3
<1>4. /\ KnownInvalid(s3[b]) => KnownInvalid(status[b])
      /\ KnownValid(s3[b]) => KnownValid(status[b])
      /\ \A e \in {"data", "header"} : e \in s3[b] <=> e \in status[b]
  BY <1>1, <1>2, <1>3
<1> QED
  BY <1>4 DEF s1, s2, s3

\* getReorganizeNodes and verifyReorganizationValidity store and forget nothing.
LEMMA SwitchNodes ==
  ASSUME NEW st, NEW node, NEW g, g = GetReorganizeNodes(st, node),
         NEW v, v = VerifyReorganizationValidity(g.st, g.detach, g.attach),
         NEW b \in Block, NEW e \in {"data", "header"}
  PROVE  e \in v.st[b] <=> e \in st[b]
<1>1. \/ g.st = st
      \/ \E S : g.st = SetStatusFlags(st, S, "invalidAncestor")
  <2> DEFINE path == Ancestors[node] \ Ancestors[tip]
             bad == {n \in path : KnownInvalid(st[n])}
             unwound == {n \in path : \A m \in bad : Height[n] > Height[m]}
             none(s) == [st |-> s, detach |-> {}, attach |-> {}]
  <2>1. \/ g = none(SetStatusFlags(st, {node}, "invalidAncestor"))
        \/ g = none(SetStatusFlags(st, unwound, "invalidAncestor"))
        \/ g = [st |-> st, detach |-> Ancestors[tip] \ Ancestors[node], attach |-> path]
    BY DEF GetReorganizeNodes
  <2> HIDE DEF path, unwound
  <2> QED
    BY <2>1, SMTT(60)
<1>2. e \in g.st[b] <=> e \in st[b]
  BY <1>1, NodesKept, SMTT(60)
<1>3. \/ v.st = g.st
      \/ \E S1, S2, S3 : v.st = SetStatusFlags(SetStatusFlags(SetStatusFlags(
                                  g.st, S1, "valid"), S2, "failed"), S3, "invalidAncestor")
  <2> DEFINE a == g.attach
             stops == {n \in a : \/ ~HaveData(g.st[n])
                                 \/ ~KnownValid(g.st[n]) /\ verdict[n] # "valid"}
             broken == {n \in a : IsLowest(n, stops) /\ HaveData(g.st[n])}
             passed == {n \in a : \A m \in stops : Height[n] < Height[m]}
             above == {n \in a : \E m \in broken : Height[n] > Height[m]}
             marked == SetStatusFlags(SetStatusFlags(SetStatusFlags(
                         g.st, passed, "valid"), broken, "failed"), above, "invalidAncestor")
             lists == ListsMatch(g.detach, a)
  <2>1. v = [ok |-> lists /\ stops = {}, rule |-> lists /\ broken # {},
             st |-> IF lists THEN marked ELSE g.st]
    BY DEF VerifyReorganizationValidity, ListsMatch
  <2> HIDE DEF stops, broken, passed, above, lists
  <2>2. v.st = marked \/ v.st = g.st
    BY <2>1, SMTT(60)
  <2> QED
    BY <2>2
<1>4. CASE v.st = g.st
  BY <1>2, <1>4
<1>5. ASSUME NEW S1, NEW S2, NEW S3,
             v.st = SetStatusFlags(SetStatusFlags(SetStatusFlags(
                      g.st, S1, "valid"), S2, "failed"), S3, "invalidAncestor")
      PROVE  e \in v.st[b] <=> e \in st[b]
  <2> DEFINE s1 == SetStatusFlags(g.st, S1, "valid")
             s2 == SetStatusFlags(s1, S2, "failed")
  <2>1. e \in s1[b] <=> e \in g.st[b]
    BY NodesKept, SMTT(60)
  <2>2. v.st = SetStatusFlags(s2, S3, "invalidAncestor")
    BY <1>5
  <2> HIDE DEF s1
  <2>3. e \in s2[b] <=> e \in s1[b]
    BY NodesKept, SMTT(60)
  <2> HIDE DEF s2
  <2> QED
    BY <1>2, <2>1, <2>2, <2>3, NodesKept, SMTT(60)
<1> QED
  BY <1>3, <1>4, <1>5

(***************************************************************************)
(* The actions that look for a better chain, by what they have in common.  *)
(***************************************************************************)

\* The nodes and the verdict of a reorganization from the tip to node.
Switch(st, node, g, v) ==
  /\ node \in Block /\ node \notin Ancestors[tip]
  /\ g = GetReorganizeNodes(st, node)
  /\ v = VerifyReorganizationValidity(g.st, g.detach, g.attach)

\* A block with more work than the tip is not on the best chain.
LEMMA HeavierIsBeside ==
  ASSUME tip \in Block, NEW b \in Block, WorkSum[b] > WorkSum[tip]
  PROVE  b \notin Ancestors[tip]
<1> SUFFICES ASSUME b \in Ancestors[tip] PROVE FALSE
  OBVIOUS
<1>1. WorkSum[b] \in Nat /\ WorkSum[tip] \in Nat /\ WorkSum[b] <= WorkSum[tip]
  BY Order
<1> QED
  BY <1>1, SMTT(60)

\* connectBestChain, for a block that has more work than the tip.
LEMMA ReorganizeToCases ==
  ASSUME IInv, NEW t \in Thread, NEW b \in Block, WorkSum[b] > WorkSum[tip],
         ReorganizeTo(t, b)
  PROVE  \E g, v :
           /\ Switch(status, b, g, v) /\ status' = v.st
           /\ \/ /\ v.ok /\ dbStatus' = dbStatus
                 /\ StartReorganize(t, g.detach, g.attach, TRUE, "accept")
              \/ /\ ~v.ok /\ dbStatus' = FlushToDB(status')
                 /\ RuleError(t) \/ Return(t)
<1> DEFINE g == GetReorganizeNodes(status, b)
           v == VerifyReorganizationValidity(g.st, g.detach, g.attach)
<1>1. b \notin Ancestors[tip]
  BY HeavierIsBeside DEF IInv
<1>2. Switch(status, b, g, v)
  BY <1>1 DEF Switch
<1>3. /\ status' = v.st
      /\ \/ /\ v.ok /\ dbStatus' = dbStatus
            /\ StartReorganize(t, g.detach, g.attach, TRUE, "accept")
         \/ /\ ~v.ok /\ dbStatus' = FlushToDB(status')
            /\ RuleError(t) \/ Return(t)
  BY DEF ReorganizeTo
<1> HIDE DEF g, v
<1> QED
  BY <1>2, <1>3

\* The second half of InvalidateBlock.
LEMMA ActivateCases ==
  ASSUME IInv, NEW t \in Thread, ActivateBestTip(t)
  PROVE  \/ status' = status /\ dbStatus' = FlushToDB(status) /\ Return(t)
         \/ \E b, g, v :
              /\ Switch(status, b, g, v) /\ status' = v.st
              /\ \/ /\ v.ok /\ dbStatus' = FlushToDB(status)
                    /\ StartReorganize(t, g.detach, g.attach, FALSE, "activate")
                 \/ dbStatus' = FlushToDB(status') /\ Return(t)
<1>1. CASE \E b \in InactiveTips(status, tip) :
             LET g == GetReorganizeNodes(status, b)
                 v == VerifyReorganizationValidity(g.st, g.detach, g.attach)
             IN  /\ status' = v.st
                 /\ \/ /\ v.ok /\ dbStatus' = FlushToDB(status)
                       /\ StartReorganize(t, g.detach, g.attach, FALSE, "activate")
                    \/ dbStatus' = FlushToDB(status') /\ Return(t)
  <2>1. PICK b \in InactiveTips(status, tip) :
             LET g == GetReorganizeNodes(status, b)
                 v == VerifyReorganizationValidity(g.st, g.detach, g.attach)
             IN  /\ status' = v.st
                 /\ \/ /\ v.ok /\ dbStatus' = FlushToDB(status)
                       /\ StartReorganize(t, g.detach, g.attach, FALSE, "activate")
                    \/ dbStatus' = FlushToDB(status') /\ Return(t)
    BY <1>1
  <2> DEFINE g == GetReorganizeNodes(status, b)
             v == VerifyReorganizationValidity(g.st, g.detach, g.attach)
  <2>2. b \in Block /\ b \notin Ancestors[tip]
    BY DEF InactiveTips, Indexed
  <2>3. Switch(status, b, g, v)
    BY <2>2 DEF Switch
  <2>4. /\ status' = v.st
        /\ \/ /\ v.ok /\ dbStatus' = FlushToDB(status)
              /\ StartReorganize(t, g.detach, g.attach, FALSE, "activate")
           \/ dbStatus' = FlushToDB(status') /\ Return(t)
    BY <2>1
  <2> HIDE DEF g, v
  <2> QED
    BY <2>3, <2>4
<1> QED
  BY <1>1 DEF ActivateBestTip, SoundTips, MostWork

\* ReconsiderBlock: marks are cleared, then a better chain is looked for.
LEMMA ReconsiderCases ==
  ASSUME IInv, NEW t \in Thread, NEW node \in Block, ReconsiderBlock(t, node)
  PROVE  \E st :
           /\ \A b \in Block : /\ KnownInvalid(st[b]) => KnownInvalid(status[b])
                               /\ KnownValid(st[b]) => KnownValid(status[b])
                               /\ \A e \in {"data", "header"} : e \in st[b] <=> e \in status[b]
           /\ \/ status' = st /\ dbStatus' = dbStatus /\ Return(t)
              \/ \E b, g, v :
                   /\ Switch(st, b, g, v)
                   /\ status' = v.st /\ dbStatus' = FlushToDB(status')
                   /\ \/ /\ v.ok
                         /\ StartReorganize(t, g.detach, g.attach, FALSE, "reconsider")
                      \/ Return(t)
<1> DEFINE tips == {x \in InactiveTips(status, tip) \cup {tip} : node \in Ancestors[x]}
           S == UNION {Ancestors[x] \ Ancestors[node] : x \in tips}
           st == UnsetStatusFlags(
                   UnsetStatusFlags(UnsetStatusFlags(status, {node}, "failed"),
                                    {node}, "invalidAncestor"), S, "invalidAncestor")
<1>1. \A b \in Block : /\ KnownInvalid(st[b]) => KnownInvalid(status[b])
                       /\ KnownValid(st[b]) => KnownValid(status[b])
                       /\ \A e \in {"data", "header"} : e \in st[b] <=> e \in status[b]
  <2> HIDE DEF S
  <2> QED
    BY ReconsiderFlags
<1>2. PICK best \in tips :
        LET g == GetReorganizeNodes(st, best)
            v == VerifyReorganizationValidity(g.st, g.detach, g.attach)
        IN  \/ status' = st /\ dbStatus' = dbStatus /\ Return(t)
            \/ /\ ~(WorkSum[best] <= WorkSum[tip])
               /\ status' = v.st /\ dbStatus' = FlushToDB(v.st)
               /\ \/ v.ok /\ StartReorganize(t, g.detach, g.attach, FALSE, "reconsider")
                  \/ Return(t)
  <2> HIDE DEF st
  <2> QED
    BY DEF ReconsiderBlock, st
<1>3. best \in Block /\ tip \in Block
  BY DEF IInv, InactiveTips, Indexed
<1> HIDE DEF st, tips
<1>4. CASE status' = st /\ dbStatus' = dbStatus /\ Return(t)
  BY <1>1, <1>4
<1>5. CASE ~(status' = st /\ dbStatus' = dbStatus /\ Return(t))
  <2> DEFINE g == GetReorganizeNodes(st, best)
             v == VerifyReorganizationValidity(g.st, g.detach, g.attach)
  <2>1. /\ ~(WorkSum[best] <= WorkSum[tip])
        /\ status' = v.st /\ dbStatus' = FlushToDB(status')
        /\ \/ v.ok /\ StartReorganize(t, g.detach, g.attach, FALSE, "reconsider")
           \/ Return(t)
    BY <1>2, <1>5
  <2>2. best \notin Ancestors[tip]
    <3>1. ~(WorkSum[best] <= WorkSum[tip])
      BY <2>1
    <3>2. WorkSum[best] > WorkSum[tip]
      BY <1>3, <3>1, WorkAssumption, SMTT(60)
    <3> QED
      BY <1>3, <3>2, HeavierIsBeside
  <2>3. Switch(st, best, g, v)
    BY <1>3, <2>2 DEF Switch
  <2> HIDE DEF g, v
  <2> QED
    BY <1>1, <2>1, <2>3
<1> QED
  BY <1>4, <1>5

\* InvalidateBlock returns, or starts to disconnect.
LEMMA InvalidateCases ==
  ASSUME NEW t \in Thread, NEW node \in Block, InvalidateBlock(t, node)
  PROVE  /\ UNCHANGED <<verdict, tip, orphans>>
         /\ dbStatus' \in {FlushToDB(status'), dbStatus}
         /\ \/ Return(t)
            \/ \E d : StartReorganize(t, d, {}, FALSE, "invalidate")
<1>1. UNCHANGED <<verdict, tip, orphans>>
  BY DEF InvalidateBlock
<1>2. dbStatus' = FlushToDB(status') \/ dbStatus' = dbStatus
  <2>1. PICK st : status' = st /\ (dbStatus' = FlushToDB(st) \/ dbStatus' = dbStatus)
    BY DEF InvalidateBlock
  <2> QED
    BY <2>1
<1>3. Return(t) \/ \E d : StartReorganize(t, d, {}, FALSE, "invalidate")
  BY DEF InvalidateBlock
<1> HIDE DEF Return, StartReorganize, FlushToDB
<1> QED
  BY <1>1, <1>2, <1>3

\* A step that may change the queue of one thread.
OnlyQueue(t) == \A u \in Thread \ {t} : queue'[u] = queue[u]

\* processOrphans returns, or goes on with an orphan whose parent has come.
LEMMA OrphansCases ==
  ASSUME IInv, NEW t \in Thread, ProcessOrphans(t)
  PROVE  \/ Return(t) /\ UNCHANGED orphans
         \/ \E o \in orphans :
              /\ orphans' = orphans \ {o} /\ call' = [call EXCEPT ![t].cur = o]
              /\ Stay(t, "accept") /\ OnlyQueue(t) /\ UNCHANGED <<detach, attach>>
<1> DEFINE hashes == Append(queue[t], call[t].cur)
           children(h) == {o \in orphans : Parent[o] = h}
           busy == {i \in 1 .. Len(hashes) : children(hashes[i]) # {}}
<1>1. ASSUME NEW i \in busy, NEW o \in children(hashes[i]),
             orphans' = orphans \ {o},
             queue' = [queue EXCEPT ![t] = SubSeq(hashes, i, Len(hashes))],
             call' = [call EXCEPT ![t].cur = o],
             Stay(t, "accept"), UNCHANGED <<detach, attach>>
      PROVE  \E x \in orphans :
               /\ orphans' = orphans \ {x} /\ call' = [call EXCEPT ![t].cur = x]
               /\ Stay(t, "accept") /\ OnlyQueue(t) /\ UNCHANGED <<detach, attach>>
  <2>1. OnlyQueue(t)
    BY <1>1 DEF OnlyQueue, IInv, ThreadTypes
  <2> QED
    BY <1>1, <2>1
<1> QED
  BY <1>1 DEF ProcessOrphans

(***************************************************************************)
(* The best chain obeys the rules.  The peers' blocks are validated in     *)
(* full unless they are below a checkpoint (BFFastAdd), so the theorem is  *)
(* about a chain without checkpoints or without blocks from peers; manual  *)
(* calls, failures, crashes and every interleaving are allowed.            *)
(***************************************************************************)

FullyValidated == "peer" \notin Sources \/ Checkpoint = Genesis

\* An index calls a block valid only if it is.
OnlyValid(st) == \A b \in Block : KnownValid(st[b]) => verdict[b] = "valid"

\* The locals of a call: a block is connected only after it was validated.
RulesCall(t) ==
  /\ ~call[t].fast
  /\ \A b \in attach[t] : verdict[b] = "valid"
  /\ pc[t] = "reorg" /\ call[t].cont = "extend" => verdict[call[t].cur] = "valid"

RulesInv ==
  /\ OnlyValid(status) /\ OnlyValid(dbStatus)
  /\ \A b \in Ancestors[tip] : verdict[b] = "valid"
  /\ \A t \in Thread : RulesCall(t)

\* A step of one thread that calls no block valid for the wrong reason.
LEMMA RulesStep ==
  ASSUME RulesInv, NEW t \in Thread, verdict' = verdict, tip' = tip,
         OnlyThread(t), RulesCall(t)',
         \A b \in Block : KnownValid(status'[b]) => KnownValid(status[b]) \/ verdict[b] = "valid",
         dbStatus' \in {dbStatus, FlushToDB(status), FlushToDB(status')}
  PROVE  RulesInv'
<1>1. \A b \in Block : KnownValid(status'[b]) => verdict[b] = "valid"
  BY DEF RulesInv, OnlyValid
<1>2. \A b \in Block : KnownValid(dbStatus'[b]) =>
                         KnownValid(dbStatus[b]) \/ KnownValid(status[b]) \/ KnownValid(status'[b])
  BY FlushFlag DEF KnownValid
<1>3. \A b \in Block : KnownValid(dbStatus'[b]) => verdict[b] = "valid"
  BY <1>1, <1>2 DEF RulesInv, OnlyValid
<1>4. \A u \in Thread : RulesCall(u)'
  BY SMTT(60) DEF OnlyThread, RulesCall, RulesInv
<1> QED
  BY <1>1, <1>3, <1>4 DEF RulesInv, OnlyValid

\* A call that returns has nothing left to connect.
LEMMA RulesReturn ==
  ASSUME ThreadTypes, NEW t \in Thread, Return(t)
  PROVE  OnlyThread(t) /\ RulesCall(t)'
BY ReturnFacts, SMTT(60) DEF RulesCall, NoCall

\* Neither has one whose block breaks a rule.
LEMMA RulesRuleError ==
  ASSUME ThreadTypes, NEW t \in Thread, RulesCall(t), verdict' = verdict,
         RuleError(t) \/ Return(t)
  PROVE  OnlyThread(t) /\ RulesCall(t)'
<1>1. CASE Return(t)
  BY <1>1, RulesReturn
<1>2. CASE RuleError(t)
  BY <1>1, <1>2, RuleErrorFacts DEF RulesCall
<1> QED
  BY <1>1, <1>2

\* A reorganization may start when all it connects is valid.
LEMMA RulesStart ==
  ASSUME ThreadTypes, NEW t \in Thread, RulesCall(t), verdict' = verdict,
         NEW d, NEW a, NEW main, NEW cont, StartReorganize(t, d, a, main, cont),
         \A b \in a : verdict[b] = "valid",
         cont = "extend" => verdict[call[t].cur] = "valid"
  PROVE  OnlyThread(t) /\ RulesCall(t)'
BY StartFacts, SMTT(60) DEF RulesCall

\* A chain is looked for: what is called valid is, and what is connected too.
LEMMA RulesSwitch ==
  ASSUME IInv, NEW st, \A b \in Block : KnownValid(st[b]) => verdict[b] = "valid",
         NEW node, NEW g, NEW v, Switch(st, node, g, v)
  PROVE  /\ \A b \in Block : KnownValid(v.st[b]) => verdict[b] = "valid"
         /\ v.ok => \A b \in g.attach : verdict[b] = "valid"
<1>1. /\ \A b \in Block : KnownValid(v.st[b]) => KnownValid(st[b]) \/ verdict[b] = "valid"
      /\ v.ok =>
           \/ g.attach = {}
           \/ /\ g.attach = Path(node)
              /\ \A n \in Path(node) : KnownValid(st[n]) \/ verdict[n] = "valid"
  BY SwitchFacts, SMTT(60) DEF IInv, Switch
<1>2. Path(node) \subseteq Block
  BY TreeFacts DEF Path, Switch
<1> QED
  BY <1>1, <1>2

\* Each action keeps RulesInv.
LEMMA RulesProcessBlock ==
  ASSUME FullyValidated, IInv, RulesInv, NEW t \in Thread, NEW b \in Block \ {Genesis},
         NEW src \in Sources, NEW ibd \in BOOLEAN, ProcessBlock(t, b, src, ibd)
  PROVE  RulesInv'
<1>1. CASE AddOrphanBlock(b)
  BY <1>1 DEF AddOrphanBlock, threadVars, RulesInv, OnlyValid, RulesCall
<1>2. CASE ~AddOrphanBlock(b)
  <2> DEFINE f == (src = "peer" /\ ibd /\ CheckHeadersList(b))
             c == [NoCall EXCEPT !.block = b, !.cur = b, !.src = src, !.fast = f]
  <2>1. /\ Stay(t, "accept") /\ call' = [call EXCEPT ![t] = c]
        /\ UNCHANGED <<verdict, status, dbStatus, tip, queue, detach, attach>>
    BY <1>2 DEF ProcessBlock
  <2>2. ~f
    <3>1. CheckHeadersList(b) => Height[b] <= Height[Checkpoint]
      BY DEF CheckHeadersList
    <3>2. /\ Genesis \in Ancestors[b] /\ Genesis # b
          /\ Height[Genesis] < Height[b] /\ Height[Genesis] \in Nat /\ Height[b] \in Nat
      BY TreeFacts, Order
    <3> QED
      BY <3>1, <3>2, SMTT(60) DEF FullyValidated
  <2> HIDE DEF f
  <2>3. c.fast = f
    BY DEF NoCall
  <2> HIDE DEF c
  <2>4. OnlyThread(t) /\ pc'[t] = "accept" /\ call'[t] = c
    BY <2>1 DEF OnlyThread, Stay, IInv, ThreadTypes
  <2>5. RulesCall(t)'
    BY <2>1, <2>2, <2>3, <2>4 DEF RulesCall, RulesInv
  <2> QED
    BY <2>1, <2>4, <2>5, RulesStep
<1> QED
  BY <1>1, <1>2

\* A header is indexed and no block becomes valid.
LEMMA RulesProcessBlockHeader ==
  ASSUME IInv, RulesInv, NEW t \in Thread, NEW h \in Block, ProcessBlockHeader(t, h)
  PROVE  RulesInv'
<1>1. /\ UNCHANGED <<verdict, tip, pc, call, queue, detach, attach>>
      /\ dbStatus' = FlushToDB(status')
      /\ status' = IF status[h] = {} THEN [status EXCEPT ![h] = {"header"}] ELSE status
  BY DEF ProcessBlockHeader, threadVars
<1>2. \A b \in Block : KnownValid(status'[b]) => KnownValid(status[b])
  BY <1>1 DEF IInv, IndexOK, KnownValid
<1>3. OnlyThread(t) /\ RulesCall(t)'
  BY <1>1 DEF OnlyThread, RulesCall, RulesInv
<1> QED
  BY <1>1, <1>2, <1>3, RulesStep

\* maybeAcceptBlock stores a block and calls none valid.
LEMMA RulesMaybeAcceptBlock ==
  ASSUME IInv, RulesInv, NEW t \in Thread, MaybeAcceptBlock(t)
  PROVE  RulesInv'
<1> DEFINE b == call[t].cur
<1>0. verdict' = verdict /\ tip' = tip /\ ThreadTypes /\ RulesCall(t)
  BY DEF MaybeAcceptBlock, IInv, RulesInv
<1>1. CASE UNCHANGED <<status, dbStatus>> /\ (Return(t) \/ RuleError(t))
  <2>1. OnlyThread(t) /\ RulesCall(t)'
    BY <1>0, <1>1, RulesRuleError
  <2> QED
    BY <1>0, <1>1, <2>1, RulesStep
<1>2. CASE /\ status' = IF status[b] = {} THEN [status EXCEPT ![b] = {"data", "header"}]
                        ELSE SetStatusFlags(status, {b}, "data")
           /\ dbStatus' = FlushToDB(status')
           /\ Stay(t, "connect")
           /\ UNCHANGED <<call, queue, detach, attach>>
  <2>1. \A x \in Block : KnownValid(SetStatusFlags(status, {b}, "data")[x]) => KnownValid(status[x])
    BY SetFlag
  <2>2. \A x \in Block : KnownValid([status EXCEPT ![b] = {"data", "header"}][x]) => KnownValid(status[x])
    BY DEF IInv, IndexOK, KnownValid
  <2>3. \A x \in Block : KnownValid(status'[x]) => KnownValid(status[x])
    BY <1>2, <2>1, <2>2
  <2>4. OnlyThread(t) /\ pc'[t] = "connect"
    BY <1>0, <1>2 DEF OnlyThread, Stay, ThreadTypes
  <2>5. RulesCall(t)'
    BY <1>0, <1>2, <2>4 DEF RulesCall
  <2> QED
    BY <1>0, <1>2, <2>3, <2>4, <2>5, RulesStep
<1> QED
  BY <1>1, <1>2 DEF MaybeAcceptBlock

\* connectBestChain attaches only what it validated, or what the index calls
\* valid.
LEMMA RulesConnectBestChain ==
  ASSUME IInv, RulesInv, NEW t \in Thread, ConnectBestChain(t)
  PROVE  RulesInv'
<1> DEFINE b == call[t].cur
<1>0. /\ verdict' = verdict /\ tip' = tip /\ ThreadTypes /\ RulesCall(t) /\ b \in Block
      /\ \A x \in Block : KnownValid(status[x]) => verdict[x] = "valid"
  BY DEF ConnectBestChain, IInv, RulesInv, ThreadTypes, Call, OnlyValid
<1>1. CASE ExtendBestChain(t, b)
  <2>1. dbStatus' = FlushToDB(status') /\ ~call[t].fast
    BY <1>0, <1>1 DEF ExtendBestChain, RulesCall
  <2>2. CASE KnownValid(status[b]) \/ verdict[b] = "valid"
    <3>1. /\ status' = SetStatusFlags(status, {b}, "valid") /\ verdict[b] = "valid"
          /\ StartReorganize(t, {}, {b}, TRUE, "extend")
      BY <1>0, <1>1, <2>1, <2>2 DEF ExtendBestChain
    <3>2. \A x \in Block : KnownValid(status'[x]) => KnownValid(status[x]) \/ verdict[x] = "valid"
      BY <3>1, SetFlag, SMTT(60)
    <3>3. OnlyThread(t) /\ RulesCall(t)'
      BY <1>0, <3>1, RulesStart
    <3> QED
      BY <1>0, <2>1, <3>2, <3>3, RulesStep
  <2>3. CASE ~(KnownValid(status[b]) \/ verdict[b] = "valid")
    <3>1. status' = SetStatusFlags(status, {b}, "failed") /\ RuleError(t)
      BY <1>1, <2>1, <2>3 DEF ExtendBestChain
    <3>2. \A x \in Block : KnownValid(status'[x]) => KnownValid(status[x])
      BY <3>1, SetFlag
    <3>3. OnlyThread(t) /\ RulesCall(t)'
      BY <1>0, <3>1, RulesRuleError
    <3> QED
      BY <1>0, <2>1, <3>2, <3>3, RulesStep
  <2> QED
    BY <2>2, <2>3
<1>2. CASE /\ Release(t, "accepted")
           /\ call' = [call EXCEPT ![t].main = FALSE]
           /\ UNCHANGED <<status, dbStatus, queue, detach, attach>>
  <2>1. OnlyThread(t) /\ pc'[t] = "accepted" /\ call'[t] = [call[t] EXCEPT !.main = FALSE]
    BY <1>0, <1>2 DEF OnlyThread, Release, ThreadTypes
  <2>2. call'[t].fast = call[t].fast
    BY <1>0, <2>1, SMTT(60) DEF ThreadTypes, Call
  <2>3. RulesCall(t)'
    BY <1>0, <1>2, <2>1, <2>2 DEF RulesCall
  <2> QED
    BY <1>0, <1>2, <2>1, <2>3, RulesStep
<1>3. CASE WorkSum[b] > WorkSum[tip] /\ ReorganizeTo(t, b)
  <2>1. PICK g, v :
           /\ Switch(status, b, g, v) /\ status' = v.st
           /\ \/ /\ v.ok /\ dbStatus' = dbStatus
                 /\ StartReorganize(t, g.detach, g.attach, TRUE, "accept")
              \/ /\ ~v.ok /\ dbStatus' = FlushToDB(status')
                 /\ RuleError(t) \/ Return(t)
    BY <1>0, <1>3, ReorganizeToCases
  <2>2. /\ \A x \in Block : KnownValid(status'[x]) => verdict[x] = "valid"
        /\ v.ok => \A x \in g.attach : verdict[x] = "valid"
    BY <1>0, <2>1, RulesSwitch
  <2>3. OnlyThread(t) /\ RulesCall(t)'
    <3>1. CASE v.ok /\ StartReorganize(t, g.detach, g.attach, TRUE, "accept")
      BY <1>0, <2>2, <3>1, RulesStart
    <3>2. CASE RuleError(t) \/ Return(t)
      BY <1>0, <3>2, RulesRuleError
    <3> QED
      BY <2>1, <3>1, <3>2
  <2> QED
    BY <1>0, <2>1, <2>2, <2>3, RulesStep
<1> QED
  BY <1>1, <1>2, <1>3 DEF ConnectBestChain

\* Disconnecting leaves a part of the best chain.
LEMMA RulesDisconnectBlock ==
  ASSUME IInv, RulesInv, NEW t \in Thread, DisconnectBlock(t)
  PROVE  RulesInv'
<1>1. /\ UNCHANGED <<verdict, status, call, attach>> /\ dbStatus' = FlushToDB(status)
      /\ tip' = Parent[tip] /\ pc' = [pc EXCEPT ![t] = "reorg"] /\ pc[t] = "reorg"
  BY DEF DisconnectBlock, Release
<1>2. tip \in Block \ {Genesis}
  BY TreeFacts DEF DisconnectBlock, IsHighest, IInv, ThreadInv, CallOK
<1>3. Ancestors[tip'] \subseteq Ancestors[tip]
  BY <1>1, <1>2, TreeFacts
<1>4. pc' = pc
  BY <1>1 DEF IInv, ThreadTypes
<1>5. \A b \in Block : KnownValid(dbStatus'[b]) => verdict[b] = "valid"
  BY <1>1, FlushFlag DEF RulesInv, OnlyValid, KnownValid
<1> QED
  BY <1>1, <1>3, <1>4, <1>5 DEF RulesInv, OnlyValid, RulesCall

\* A block is connected from the attach list, whose blocks obey the rules.
LEMMA RulesConnectBlock ==
  ASSUME IInv, RulesInv, NEW t \in Thread, ConnectBlock(t)
  PROVE  RulesInv'
<1>1. /\ UNCHANGED <<verdict, status, call, detach>> /\ dbStatus' = FlushToDB(status)
      /\ pc' = [pc EXCEPT ![t] = "reorg"] /\ pc[t] = "reorg"
      /\ tip' \in attach[t] /\ Parent[tip'] = tip
      /\ attach' = [attach EXCEPT ![t] = @ \ {tip'}]
  BY DEF ConnectBlock, Release, IsLowest
<1>2. tip' \in Block \ {Genesis} /\ verdict[tip'] = "valid"
  BY <1>1 DEF IInv, ThreadTypes, ThreadInv, CallOK, RulesInv, RulesCall
<1>3. Ancestors[tip'] = {tip'} \cup Ancestors[tip]
  BY <1>1, <1>2, TreeFacts
<1>4. pc' = pc /\ \A u \in Thread : attach'[u] \subseteq attach[u]
  BY <1>1 DEF IInv, ThreadTypes
<1>5. \A b \in Block : KnownValid(dbStatus'[b]) => verdict[b] = "valid"
  BY <1>1, FlushFlag DEF RulesInv, OnlyValid, KnownValid
<1>6. \A u \in Thread : RulesCall(u)'
  BY <1>1, <1>4 DEF RulesInv, RulesCall
<1>7. \A b \in Ancestors[tip'] : verdict[b] = "valid"
  BY <1>2, <1>3 DEF RulesInv
<1> QED
  BY <1>1, <1>5, <1>6, <1>7 DEF RulesInv, OnlyValid

\* The end of a reorganization changes neither the tip nor the lists of another
\* thread.
LEMMA RulesFinish ==
  ASSUME IInv, RulesInv, NEW t \in Thread,
         ReorganizeError(t) \/ FinishActivate(t) \/ FinishAccept(t)
  PROVE  RulesInv'
<1>0. ThreadTypes /\ RulesCall(t)
  BY DEF IInv, RulesInv
<1>1. CASE ReorganizeError(t) \/ FinishActivate(t)
  <2>1. /\ UNCHANGED <<verdict, status, tip>> /\ Return(t)
        /\ dbStatus' \in {FlushToDB(status), dbStatus}
    BY <1>1 DEF ReorganizeError, FinishActivate
  <2>2. OnlyThread(t) /\ RulesCall(t)'
    BY <1>0, <2>1, RulesReturn
  <2> QED
    BY <2>1, <2>2, RulesStep
<1>2. CASE FinishAccept(t)
  <2>1. /\ UNCHANGED <<verdict, tip, call, queue, detach, attach>>
        /\ pc[t] = "reorg" /\ pc' = [pc EXCEPT ![t] = "accepted"]
        /\ dbStatus' \in {FlushToDB(status'), dbStatus}
    BY <1>2 DEF FinishAccept, Release
  <2>2. \/ status' = status
        \/ /\ verdict[call[t].cur] = "valid"
           /\ status' = SetStatusFlags(status, {call[t].cur}, "valid")
    BY <1>0, <1>2 DEF FinishAccept, RulesCall
  <2>3. \A b \in Block : KnownValid(status'[b]) => KnownValid(status[b]) \/ verdict[b] = "valid"
    BY <2>2, SetFlag, SMTT(60)
  <2>4. OnlyThread(t) /\ pc'[t] = "accepted"
    BY <1>0, <2>1 DEF OnlyThread, ThreadTypes
  <2>5. RulesCall(t)'
    BY <1>0, <2>1, <2>4 DEF RulesCall
  <2> QED
    BY <2>1, <2>3, <2>4, <2>5, RulesStep
<1> QED
  BY <1>1, <1>2

\* processOrphans hands an orphan on and touches no status.
LEMMA RulesProcessOrphans ==
  ASSUME IInv, RulesInv, NEW t \in Thread, ProcessOrphans(t)
  PROVE  RulesInv'
<1>0. /\ ThreadTypes /\ RulesCall(t)
      /\ UNCHANGED <<verdict, status, dbStatus, tip>>
  BY DEF IInv, RulesInv, ProcessOrphans
<1>1. CASE Return(t)
  BY <1>0, <1>1, RulesReturn, RulesStep
<1>2. ASSUME NEW o, call' = [call EXCEPT ![t].cur = o], Stay(t, "accept"),
             OnlyQueue(t), UNCHANGED <<detach, attach>>
      PROVE  RulesInv'
  <2>1. OnlyThread(t) /\ pc'[t] = "accept" /\ call'[t] = [call[t] EXCEPT !.cur = o]
    BY <1>0, <1>2 DEF OnlyThread, OnlyQueue, Stay, ThreadTypes
  <2>2. call'[t].fast = call[t].fast
    BY <1>0, <2>1, SMTT(60) DEF ThreadTypes, Call
  <2>3. RulesCall(t)'
    BY <1>0, <1>2, <2>1, <2>2 DEF RulesCall
  <2> QED
    BY <1>0, <2>1, <2>3, RulesStep
<1> QED
  BY <1>0, <1>1, <1>2, OrphansCases

\* InvalidateBlock marks blocks and attaches none.
LEMMA RulesInvalidateBlock ==
  ASSUME IInv, RulesInv, NEW t \in Thread, NEW node \in Block, InvalidateBlock(t, node)
  PROVE  RulesInv'
<1>0. ThreadTypes /\ RulesCall(t) /\ tip \in Block
  BY DEF IInv, RulesInv
<1>1. \A b \in Block : KnownValid(status'[b]) => KnownValid(status[b])
  BY <1>0, InvalidateFlags
<1>2. /\ UNCHANGED <<verdict, tip>>
      /\ dbStatus' \in {FlushToDB(status'), dbStatus}
      /\ \/ Return(t)
         \/ \E d : StartReorganize(t, d, {}, FALSE, "invalidate")
  BY InvalidateCases
<1>3. OnlyThread(t) /\ RulesCall(t)'
  <2>1. CASE Return(t)
    BY <1>0, <2>1, RulesReturn
  <2>2. ASSUME NEW d, StartReorganize(t, d, {}, FALSE, "invalidate")
        PROVE  OnlyThread(t) /\ RulesCall(t)'
    <3>1. /\ OnlyThread(t) /\ attach'[t] = {} /\ call'[t].cont = "invalidate"
          /\ call'[t].fast = call[t].fast
      <4>1. call[t] \in Call /\ ThreadTypes
        BY <1>0 DEF ThreadTypes
      <4>2. /\ OnlyThread(t) /\ attach'[t] = {}
            /\ call'[t] = [call[t] EXCEPT !.main = FALSE, !.cont = "invalidate"]
        BY <2>2, <4>1 DEF OnlyThread, StartReorganize, Stay, ThreadTypes
      <4> QED
        BY <4>1, <4>2 DEF Call
    <3> QED
      BY <1>0, <3>1, SMTT(60) DEF RulesCall
  <2> QED
    BY <1>2, <2>1, <2>2
<1> QED
  BY <1>1, <1>2, <1>3, RulesStep

\* A peer's rejected block is marked as InvalidateBlock does.
LEMMA RulesMarkRejectedBlock ==
  ASSUME IInv, RulesInv, NEW t \in Thread, MarkRejectedBlock(t)
  PROVE  RulesInv'
<1>0. ThreadTypes /\ RulesCall(t) /\ call[t].block \in Block
  BY DEF IInv, RulesInv, ThreadTypes, Call
<1>1. CASE Return(t) /\ UNCHANGED <<verdict, status, dbStatus, tip>>
  BY <1>0, <1>1, RulesReturn, RulesStep
<1>2. CASE InvalidateBlock(t, call[t].block)
  BY <1>0, <1>2, RulesInvalidateBlock
<1> QED
  BY <1>1, <1>2 DEF MarkRejectedBlock

\* The branch chosen after an invalidation is validated before it is attached.
LEMMA RulesActivateBestTip ==
  ASSUME IInv, RulesInv, NEW t \in Thread, ActivateBestTip(t)
  PROVE  RulesInv'
<1>0. /\ ThreadTypes /\ RulesCall(t) /\ UNCHANGED <<verdict, tip>>
      /\ \A x \in Block : KnownValid(status[x]) => verdict[x] = "valid"
  BY DEF IInv, RulesInv, ActivateBestTip, OnlyValid
<1>1. CASE status' = status /\ dbStatus' = FlushToDB(status) /\ Return(t)
  BY <1>0, <1>1, RulesReturn, RulesStep
<1>2. ASSUME NEW b, NEW g, NEW v,
             Switch(status, b, g, v), status' = v.st,
             \/ /\ v.ok /\ dbStatus' = FlushToDB(status)
                /\ StartReorganize(t, g.detach, g.attach, FALSE, "activate")
             \/ dbStatus' = FlushToDB(status') /\ Return(t)
      PROVE  RulesInv'
  <2>1. /\ \A x \in Block : KnownValid(status'[x]) => verdict[x] = "valid"
        /\ v.ok => \A x \in g.attach : verdict[x] = "valid"
    BY <1>0, <1>2, RulesSwitch
  <2>2. OnlyThread(t) /\ RulesCall(t)'
    BY <1>0, <1>2, <2>1, RulesReturn, RulesStart
  <2> QED
    BY <1>0, <1>2, <2>1, <2>2, RulesStep
<1> QED
  BY <1>1, <1>2, ActivateCases

\* ReconsiderBlock clears marks and validates the branch before it attaches it.
LEMMA RulesReconsiderBlock ==
  ASSUME IInv, RulesInv, NEW t \in Thread, NEW node \in Block, ReconsiderBlock(t, node)
  PROVE  RulesInv'
<1>0. /\ ThreadTypes /\ RulesCall(t) /\ UNCHANGED <<verdict, tip>>
      /\ \A x \in Block : KnownValid(status[x]) => verdict[x] = "valid"
  BY DEF IInv, RulesInv, ReconsiderBlock, OnlyValid
<1>1. PICK st :
           /\ \A b \in Block : KnownValid(st[b]) => KnownValid(status[b])
           /\ \/ status' = st /\ dbStatus' = dbStatus /\ Return(t)
              \/ \E b, g, v :
                   /\ Switch(st, b, g, v)
                   /\ status' = v.st /\ dbStatus' = FlushToDB(status')
                   /\ \/ /\ v.ok
                         /\ StartReorganize(t, g.detach, g.attach, FALSE, "reconsider")
                      \/ Return(t)
  BY ReconsiderCases
<1>2. CASE status' = st /\ dbStatus' = dbStatus /\ Return(t)
  <2>1. OnlyThread(t) /\ RulesCall(t)'
    BY <1>0, <1>2, RulesReturn
  <2> QED
    BY <1>0, <1>1, <1>2, <2>1, RulesStep
<1>3. ASSUME NEW b, NEW g, NEW v, Switch(st, b, g, v), status' = v.st,
             dbStatus' = FlushToDB(status'),
             \/ v.ok /\ StartReorganize(t, g.detach, g.attach, FALSE, "reconsider")
             \/ Return(t)
      PROVE  RulesInv'
  <2>0. \A x \in Block : KnownValid(st[x]) => verdict[x] = "valid"
    BY <1>0, <1>1
  <2>1. /\ \A x \in Block : KnownValid(status'[x]) => verdict[x] = "valid"
        /\ v.ok => \A x \in g.attach : verdict[x] = "valid"
    BY <1>3, <2>0, RulesSwitch
  <2>2. OnlyThread(t) /\ RulesCall(t)'
    BY <1>0, <1>3, <2>1, RulesReturn, RulesStart
  <2> QED
    BY <1>0, <1>3, <2>1, <2>2, RulesStep
<1> QED
  BY <1>1, <1>2, <1>3

\* After a crash the chain is loaded from a database that holds only valid blocks
\* on it.
LEMMA RulesInitChainState ==
  ASSUME IInv, RulesInv, NEW db, InitChainState(db),
         \A b \in Block : KnownValid(db[b]) => verdict[b] = "valid"
  PROVE  RulesInv'
<1>1. /\ UNCHANGED <<verdict, tip>> /\ dbStatus' = status'
      /\ status' = SetStatusFlags(db, Ancestors[tip], "valid")
      /\ \A t \in Thread : call'[t] = NoCall /\ pc'[t] = "idle" /\ attach'[t] = {}
  BY DEF InitChainState
<1>2. \A b \in Block : KnownValid(status'[b]) => verdict[b] = "valid"
  BY <1>1, SetFlag DEF RulesInv
<1>3. \A t \in Thread : RulesCall(t)'
  BY <1>1, SMTT(60) DEF RulesCall, NoCall
<1> QED
  BY <1>1, <1>2, <1>3 DEF RulesInv, OnlyValid

\* Every step preserves RulesInv.
LEMMA RulesNext ==
  ASSUME FullyValidated, IInv, RulesInv, [Next]_vars
  PROVE  RulesInv'
<1>0. Sync \in Thread /\ Rpc \subseteq Thread
  BY DEF Thread
<1>1. ASSUME NEW b \in Block \ {Genesis}, NEW src \in Sources, NEW ibd \in BOOLEAN,
             ProcessBlock(Sync, b, src, ibd)
      PROVE  RulesInv'
  BY <1>0, <1>1, RulesProcessBlock
<1>2. ASSUME NEW h \in Announced, ProcessBlockHeader(Sync, h)
      PROVE  RulesInv'
  BY <1>0, <1>2, RulesProcessBlockHeader, ConfigAssumption
<1>3. ASSUME NEW t \in Rpc, NEW b \in Block, RpcInvalidateBlock(t, b)
      PROVE  RulesInv'
  BY <1>0, <1>3, RulesInvalidateBlock DEF RpcInvalidateBlock
<1>4. ASSUME NEW t \in Rpc, NEW b \in Block, ReconsiderBlock(t, b)
      PROVE  RulesInv'
  BY <1>0, <1>4, RulesReconsiderBlock
<1>5. ASSUME NEW t \in Thread, NoBestTip(t)
      PROVE  RulesInv'
  <2>1. \A b \in Block : KnownValid(FlushToDB(status)[b]) => verdict[b] = "valid"
    BY FlushFlag DEF RulesInv, OnlyValid, KnownValid
  <2>2. InitChainState(FlushToDB(status))
    BY <1>5 DEF NoBestTip
  <2> HIDE DEF FlushToDB
  <2> QED
    BY <2>1, <2>2, RulesInitChainState
<1>6. ASSUME NEW t \in Thread, Step(t)
      PROVE  RulesInv'
  BY <1>5, <1>6, RulesMaybeAcceptBlock, RulesConnectBestChain, RulesDisconnectBlock,
     RulesConnectBlock, RulesFinish, RulesProcessOrphans, RulesActivateBestTip,
     RulesMarkRejectedBlock DEF Step
<1>7. CASE Restart
  BY <1>7, RulesInitChainState DEF Restart, RulesInv, OnlyValid
<1>8. CASE UNCHANGED vars
  BY <1>8 DEF vars, RulesInv, OnlyValid, RulesCall
<1> QED
  BY <1>1, <1>2, <1>3, <1>4, <1>6, <1>7, <1>8 DEF Next

\* Without checkpoints, or without blocks from peers, every block of the best chain
\* has its data stored and obeys the consensus rules: whatever calls interleave,
\* whatever is invalidated, reconsidered or fails, and wherever the process dies.
THEOREM BestChainAlwaysObeysRules ==
  ASSUME FullyValidated
  PROVE  Spec => []BestChainObeysRules
<1>1. Init => RulesInv
  <2> SUFFICES ASSUME Init PROVE RulesInv
    OBVIOUS
  <2>1. Genesis \notin MaybeBad /\ Genesis \in Block /\ Ancestors[Genesis] = {Genesis}
    BY TreeFacts, TreeAssumption, ConfigAssumption
  <2>2. verdict[Genesis] = "valid"
    BY <2>1 DEF Init
  <2>3. \A t \in Thread : RulesCall(t)
    BY DEF Init, RulesCall, NoCall
  <2>4. \A b \in Block : KnownValid(GenesisOnly[b]) => b = Genesis
    BY DEF GenesisOnly, KnownValid
  <2> QED
    BY <2>1, <2>2, <2>3, <2>4 DEF Init, RulesInv, OnlyValid
<1>2. IInv /\ RulesInv /\ [Next]_vars => RulesInv'
  BY RulesNext
<1>3. IInv /\ RulesInv => BestChainObeysRules
  <2> SUFFICES ASSUME IInv, RulesInv PROVE BestChainObeysRules
    OBVIOUS
  <2>1. tip \in Block /\ HaveData(status[tip])
    BY DEF IInv, BucketOK
  <2>2. \A b \in Ancestors[tip] : HaveData(status[b])
    BY <2>1 DEF IInv, IndexOK
  <2> QED
    BY <2>2 DEF BestChainObeysRules, RulesInv
<1> QED
  BY <1>1, <1>2, <1>3, Invariance, PTL DEF Spec

(***************************************************************************)
(* A block is called invalid for a cause.  A peer's block that an orphan   *)
(* waited for is marked when the orphan breaks a rule, and InvalidateBlock *)
(* marks what it is told to; without the two only a block that breaks a    *)
(* rule, or that descends from one, is ever marked, in the index and in    *)
(* the bucket: ReconsiderBlock, failures, crashes and every interleaving   *)
(* are allowed.                                                            *)
(***************************************************************************)

OnlyRuled == "peer" \notin Sources /\ (Rpc = {} \/ "invalidate" \notin RpcCalls)

\* A block at or above one that breaks a rule.
Ruled(b) == \E a \in Ancestors[b] : verdict[a] # "valid"

\* Only such blocks are called invalid.
Caused(st) == \A b \in Block : KnownInvalid(st[b]) => Ruled(b)

CauseInv ==
  /\ Caused(status) /\ Caused(dbStatus)
  /\ \A t \in Thread : pc[t] # "rejected" /\ call[t].src = "submit"

\* A step of one thread that calls no block invalid for the wrong reason.
LEMMA CauseStep ==
  ASSUME CauseInv, NEW t \in Thread, verdict' = verdict,
         OnlyThread(t), pc'[t] # "rejected", call'[t].src = "submit",
         \A b \in Block : KnownInvalid(status'[b]) => KnownInvalid(status[b]) \/ Ruled(b),
         dbStatus' \in {dbStatus, FlushToDB(status), FlushToDB(status')}
  PROVE  CauseInv'
<1>1. \A b \in Block : KnownInvalid(status'[b]) => Ruled(b)
  BY DEF CauseInv, Caused
<1>2. \A b \in Block : KnownInvalid(dbStatus'[b]) =>
        KnownInvalid(dbStatus[b]) \/ KnownInvalid(status[b]) \/ KnownInvalid(status'[b])
  BY FlushFlag DEF KnownInvalid
<1>3. \A b \in Block : KnownInvalid(dbStatus'[b]) => Ruled(b)
  BY <1>1, <1>2 DEF CauseInv, Caused
<1>4. \A u \in Thread : pc'[u] # "rejected" /\ call'[u].src = "submit"
  BY DEF OnlyThread, CauseInv
<1>5. Caused(status)' /\ Caused(dbStatus)'
  BY <1>1, <1>3 DEF Caused, Ruled
<1> QED
  BY <1>4, <1>5 DEF CauseInv

\* A call that returns, or whose block breaks a rule, is not from a peer.
LEMMA CauseReturn ==
  ASSUME ThreadTypes, NEW t \in Thread, call[t].src = "submit", Return(t) \/ RuleError(t)
  PROVE  OnlyThread(t) /\ pc'[t] # "rejected" /\ call'[t].src = "submit"
<1>1. Return(t)
  BY RuleErrorFacts
<1> QED
  BY <1>1, ReturnFacts, SMTT(60) DEF NoCall

\* A chain is looked for: what is called invalid has a cause.
LEMMA CauseSwitch ==
  ASSUME IInv, NEW st, Caused(st), NEW node, NEW g, NEW v, Switch(st, node, g, v)
  PROVE  Caused(v.st)
<1> SUFFICES ASSUME NEW b \in Block, KnownInvalid(v.st[b]) PROVE Ruled(b)
  BY DEF Caused
<1>1. \/ KnownInvalid(st[b])
      \/ \E c \in Ancestors[b] : KnownInvalid(st[c]) \/ verdict[c] # "valid"
  BY SwitchFacts, SMTT(60) DEF IInv, Switch
<1>2. ASSUME NEW c \in Ancestors[b], KnownInvalid(st[c])
      PROVE  Ruled(b)
  BY <1>2, Order DEF Caused, Ruled
<1>3. b \in Ancestors[b]
  BY TreeFacts
<1> QED
  BY <1>1, <1>2, <1>3 DEF Ruled

\* ProcessBlock marks nothing.
LEMMA CauseProcessBlock ==
  ASSUME OnlyRuled, IInv, CauseInv, NEW t \in Thread, NEW b \in Block \ {Genesis},
         NEW src \in Sources, NEW ibd \in BOOLEAN, ProcessBlock(t, b, src, ibd)
  PROVE  CauseInv'
<1>1. CASE AddOrphanBlock(b)
  BY <1>1 DEF AddOrphanBlock, threadVars, CauseInv, Caused, Ruled
<1>2. CASE ~AddOrphanBlock(b)
  <2> DEFINE f == (src = "peer" /\ ibd /\ CheckHeadersList(b))
             c == [NoCall EXCEPT !.block = b, !.cur = b, !.src = src, !.fast = f]
  <2>1. /\ Stay(t, "accept") /\ call' = [call EXCEPT ![t] = c]
        /\ UNCHANGED <<verdict, status, dbStatus, tip, queue, detach, attach>>
    BY <1>2 DEF ProcessBlock
  <2> HIDE DEF f
  <2>2. c.src = src
    BY DEF NoCall
  <2> HIDE DEF c
  <2>3. src = "submit"
    BY ConfigAssumption DEF OnlyRuled
  <2>4. OnlyThread(t) /\ pc'[t] = "accept" /\ call'[t] = c
    BY <2>1 DEF OnlyThread, Stay, IInv, ThreadTypes
  <2> QED
    BY <2>1, <2>2, <2>3, <2>4, CauseStep
<1> QED
  BY <1>1, <1>2

\* A header below an invalid block is refused, any other is indexed without a
\* mark.
LEMMA CauseProcessBlockHeader ==
  ASSUME IInv, CauseInv, NEW t \in Thread, NEW h \in Block, ProcessBlockHeader(t, h)
  PROVE  CauseInv'
<1>1. /\ UNCHANGED <<verdict, tip, pc, call, queue, detach, attach>>
      /\ dbStatus' = FlushToDB(status')
      /\ status' = IF status[h] = {} THEN [status EXCEPT ![h] = {"header"}] ELSE status
  BY DEF ProcessBlockHeader, threadVars
<1>2. \A b \in Block : KnownInvalid(status'[b]) => KnownInvalid(status[b])
  BY <1>1 DEF IInv, IndexOK, KnownInvalid
<1>3. OnlyThread(t) /\ pc'[t] # "rejected" /\ call'[t].src = "submit"
  BY <1>1 DEF OnlyThread, CauseInv
<1> QED
  BY <1>1, <1>2, <1>3, CauseStep

\* maybeAcceptBlock marks nothing, and refuses a block whose parent is invalid.
LEMMA CauseMaybeAcceptBlock ==
  ASSUME IInv, CauseInv, NEW t \in Thread, MaybeAcceptBlock(t)
  PROVE  CauseInv'
<1> DEFINE b == call[t].cur
<1>0. verdict' = verdict /\ ThreadTypes /\ call[t].src = "submit"
  BY DEF MaybeAcceptBlock, IInv, CauseInv
<1>1. CASE UNCHANGED <<status, dbStatus>> /\ (Return(t) \/ RuleError(t))
  <2>1. OnlyThread(t) /\ pc'[t] # "rejected" /\ call'[t].src = "submit"
    BY <1>0, <1>1, CauseReturn
  <2> QED
    BY <1>0, <1>1, <2>1, CauseStep
<1>2. CASE /\ status' = IF status[b] = {} THEN [status EXCEPT ![b] = {"data", "header"}]
                        ELSE SetStatusFlags(status, {b}, "data")
           /\ dbStatus' = FlushToDB(status')
           /\ Stay(t, "connect")
           /\ UNCHANGED <<call, queue, detach, attach>>
  <2>1. \A x \in Block : KnownInvalid(SetStatusFlags(status, {b}, "data")[x]) => KnownInvalid(status[x])
    BY SetFlag
  <2>2. \A x \in Block : KnownInvalid([status EXCEPT ![b] = {"data", "header"}][x]) => KnownInvalid(status[x])
    BY DEF IInv, IndexOK, KnownInvalid
  <2>3. \A x \in Block : KnownInvalid(status'[x]) => KnownInvalid(status[x])
    BY <1>2, <2>1, <2>2
  <2>4. OnlyThread(t) /\ pc'[t] # "rejected" /\ call'[t].src = "submit"
    BY <1>0, <1>2 DEF OnlyThread, Stay, ThreadTypes
  <2> QED
    BY <1>0, <1>2, <2>3, <2>4, CauseStep
<1> QED
  BY <1>1, <1>2 DEF MaybeAcceptBlock

\* A reorganization starts, or the call returns.
LEMMA CauseMoves ==
  ASSUME ThreadTypes, NEW t \in Thread, call[t].src = "submit",
         \/ Return(t) \/ RuleError(t)
         \/ \E d, a, main, cont : StartReorganize(t, d, a, main, cont)
  PROVE  OnlyThread(t) /\ pc'[t] # "rejected" /\ call'[t].src = "submit"
<1>1. CASE Return(t) \/ RuleError(t)
  BY <1>1, CauseReturn
<1>2. ASSUME NEW d, NEW a, NEW main, NEW cont, StartReorganize(t, d, a, main, cont)
      PROVE  OnlyThread(t) /\ pc'[t] # "rejected" /\ call'[t].src = "submit"
  BY <1>2, StartFacts
<1> QED
  BY <1>1, <1>2

\* connectBestChain marks the block that breaks a rule and the ones above it.
LEMMA CauseConnectBestChain ==
  ASSUME IInv, CauseInv, NEW t \in Thread, ConnectBestChain(t)
  PROVE  CauseInv'
<1> DEFINE b == call[t].cur
<1>0. /\ verdict' = verdict /\ ThreadTypes /\ call[t].src = "submit" /\ b \in Block
      /\ Caused(status)
  BY DEF ConnectBestChain, IInv, CauseInv, ThreadTypes, Call
<1>1. CASE ExtendBestChain(t, b)
  <2>1. /\ dbStatus' = FlushToDB(status')
        /\ \/ Return(t) \/ RuleError(t)
           \/ \E d, a, main, cont : StartReorganize(t, d, a, main, cont)
        /\ \/ status' = status
           \/ status' = SetStatusFlags(status, {b}, "valid")
           \/ verdict[b] # "valid" /\ status' = SetStatusFlags(status, {b}, "failed")
    BY <1>1 DEF ExtendBestChain
  <2>2. \A x \in Block : KnownInvalid(status'[x]) => KnownInvalid(status[x]) \/ Ruled(x)
    BY <2>1, SetFlag, TreeFacts, SMTT(60) DEF Ruled
  <2>3. OnlyThread(t) /\ pc'[t] # "rejected" /\ call'[t].src = "submit"
    BY <1>0, <2>1, CauseMoves
  <2> QED
    BY <1>0, <2>1, <2>2, <2>3, CauseStep
<1>2. CASE /\ Release(t, "accepted")
           /\ call' = [call EXCEPT ![t].main = FALSE]
           /\ UNCHANGED <<status, dbStatus, queue, detach, attach>>
  <2>1. OnlyThread(t) /\ pc'[t] = "accepted" /\ call'[t] = [call[t] EXCEPT !.main = FALSE]
    BY <1>0, <1>2 DEF OnlyThread, Release, ThreadTypes
  <2>2. call'[t].src = "submit"
    BY <1>0, <2>1, SMTT(60) DEF ThreadTypes, Call
  <2> QED
    BY <1>0, <1>2, <2>1, <2>2, CauseStep
<1>3. CASE WorkSum[b] > WorkSum[tip] /\ ReorganizeTo(t, b)
  <2>1. PICK g, v :
           /\ Switch(status, b, g, v) /\ status' = v.st
           /\ \/ /\ v.ok /\ dbStatus' = dbStatus
                 /\ StartReorganize(t, g.detach, g.attach, TRUE, "accept")
              \/ /\ ~v.ok /\ dbStatus' = FlushToDB(status')
                 /\ RuleError(t) \/ Return(t)
    BY <1>0, <1>3, ReorganizeToCases
  <2>2. \A x \in Block : KnownInvalid(status'[x]) => KnownInvalid(status[x]) \/ Ruled(x)
    BY <1>0, <2>1, CauseSwitch DEF Caused
  <2>3. OnlyThread(t) /\ pc'[t] # "rejected" /\ call'[t].src = "submit"
    BY <1>0, <2>1, CauseMoves
  <2> QED
    BY <1>0, <2>1, <2>2, <2>3, CauseStep
<1> QED
  BY <1>1, <1>2, <1>3 DEF ConnectBestChain

\* The steps of a reorganization mark nothing.
LEMMA CauseReorganize ==
  ASSUME IInv, CauseInv, NEW t \in Thread,
         \/ DisconnectBlock(t) \/ ConnectBlock(t) \/ ReorganizeError(t)
         \/ FinishActivate(t) \/ FinishAccept(t)
  PROVE  CauseInv'
<1>0. ThreadTypes /\ call[t].src = "submit"
  BY DEF IInv, CauseInv
<1>1. CASE DisconnectBlock(t) \/ ConnectBlock(t) \/ FinishAccept(t)
  <2>1. /\ verdict' = verdict /\ call' = call /\ queue' = queue
        /\ \E l \in {"reorg", "accepted"} : pc' = [pc EXCEPT ![t] = l]
        /\ dbStatus' = dbStatus \/ dbStatus' = FlushToDB(status')
        /\ status' = status \/ status' = SetStatusFlags(status, {call[t].cur}, "valid")
    BY <1>1 DEF DisconnectBlock, ConnectBlock, FinishAccept, Release
  <2>2. \A b \in Block : KnownInvalid(status'[b]) => KnownInvalid(status[b])
    BY <2>1, SetFlag
  <2>3. \A b \in Block : KnownInvalid(status'[b]) => Ruled(b)
    BY <2>2 DEF CauseInv, Caused
  <2>4. \A b \in Block : KnownInvalid(dbStatus'[b]) => Ruled(b)
    BY <2>1, <2>3, FlushFlag DEF CauseInv, Caused, KnownInvalid
  <2>5. \A u \in Thread : pc'[u] # "rejected" /\ call'[u].src = "submit"
    BY <2>1 DEF CauseInv, IInv, ThreadTypes
  <2>6. Caused(status)' /\ Caused(dbStatus)'
    BY <2>1, <2>3, <2>4 DEF Caused, Ruled
  <2> QED
    BY <2>5, <2>6 DEF CauseInv
<1>2. CASE ReorganizeError(t) \/ FinishActivate(t)
  <2>1. /\ UNCHANGED <<verdict, status>> /\ Return(t)
        /\ dbStatus' \in {FlushToDB(status), dbStatus}
    BY <1>2 DEF ReorganizeError, FinishActivate
  <2>2. OnlyThread(t) /\ pc'[t] # "rejected" /\ call'[t].src = "submit"
    BY <1>0, <2>1, CauseReturn
  <2> QED
    BY <2>1, <2>2, CauseStep
<1> QED
  BY <1>1, <1>2

\* processOrphans marks nothing.
LEMMA CauseProcessOrphans ==
  ASSUME IInv, CauseInv, NEW t \in Thread, ProcessOrphans(t)
  PROVE  CauseInv'
<1>0. /\ ThreadTypes /\ call[t].src = "submit"
      /\ UNCHANGED <<verdict, status, dbStatus>>
  BY DEF IInv, CauseInv, ProcessOrphans
<1>1. CASE Return(t)
  <2>1. OnlyThread(t) /\ pc'[t] # "rejected" /\ call'[t].src = "submit"
    BY <1>0, <1>1, CauseReturn
  <2> QED
    BY <1>0, <2>1, CauseStep
<1>2. ASSUME NEW o, call' = [call EXCEPT ![t].cur = o], Stay(t, "accept"),
             OnlyQueue(t), UNCHANGED <<detach, attach>>
      PROVE  CauseInv'
  <2>1. OnlyThread(t) /\ pc'[t] = "accept" /\ call'[t] = [call[t] EXCEPT !.cur = o]
    BY <1>0, <1>2 DEF OnlyThread, OnlyQueue, Stay, ThreadTypes
  <2>2. call'[t].src = "submit" /\ pc'[t] # "rejected"
    BY <1>0, <2>1, SMTT(60) DEF ThreadTypes, Call
  <2>3. OnlyThread(t) /\ verdict' = verdict /\ status' = status /\ dbStatus' = dbStatus
    BY <1>0, <2>1
  <2> QED
    BY <2>2, <2>3, CauseStep
<1> QED
  BY <1>0, <1>1, <1>2, OrphansCases

\* The search for the best tip marks only branches with a block that breaks a
\* rule.
LEMMA CauseActivateBestTip ==
  ASSUME IInv, CauseInv, NEW t \in Thread, ActivateBestTip(t)
  PROVE  CauseInv'
<1>0. /\ ThreadTypes /\ call[t].src = "submit" /\ verdict' = verdict /\ Caused(status)
  BY DEF IInv, CauseInv, ActivateBestTip
<1>1. CASE status' = status /\ dbStatus' = FlushToDB(status) /\ Return(t)
  <2>1. OnlyThread(t) /\ pc'[t] # "rejected" /\ call'[t].src = "submit"
    BY <1>0, <1>1, CauseReturn
  <2> QED
    BY <1>0, <1>1, <2>1, CauseStep
<1>2. ASSUME NEW b, NEW g, NEW v,
             Switch(status, b, g, v), status' = v.st,
             \/ /\ v.ok /\ dbStatus' = FlushToDB(status)
                /\ StartReorganize(t, g.detach, g.attach, FALSE, "activate")
             \/ dbStatus' = FlushToDB(status') /\ Return(t)
      PROVE  CauseInv'
  <2>1. \A x \in Block : KnownInvalid(status'[x]) => KnownInvalid(status[x]) \/ Ruled(x)
    BY <1>0, <1>2, CauseSwitch DEF Caused
  <2>2. OnlyThread(t) /\ pc'[t] # "rejected" /\ call'[t].src = "submit"
    BY <1>0, <1>2, CauseMoves
  <2> QED
    BY <1>0, <1>2, <2>1, <2>2, CauseStep
<1> QED
  BY <1>1, <1>2, ActivateCases

\* ReconsiderBlock clears marks, and marks again only what breaks a rule.
LEMMA CauseReconsiderBlock ==
  ASSUME IInv, CauseInv, NEW t \in Thread, NEW node \in Block, ReconsiderBlock(t, node)
  PROVE  CauseInv'
<1>0. /\ ThreadTypes /\ call[t].src = "submit" /\ verdict' = verdict /\ Caused(status)
  BY DEF IInv, CauseInv, ReconsiderBlock
<1>1. PICK st :
           /\ \A b \in Block : KnownInvalid(st[b]) => KnownInvalid(status[b])
           /\ \/ status' = st /\ dbStatus' = dbStatus /\ Return(t)
              \/ \E b, g, v :
                   /\ Switch(st, b, g, v)
                   /\ status' = v.st /\ dbStatus' = FlushToDB(status')
                   /\ \/ /\ v.ok
                         /\ StartReorganize(t, g.detach, g.attach, FALSE, "reconsider")
                      \/ Return(t)
  BY ReconsiderCases
<1>2. CASE status' = st /\ dbStatus' = dbStatus /\ Return(t)
  <2>1. OnlyThread(t) /\ pc'[t] # "rejected" /\ call'[t].src = "submit"
    BY <1>0, <1>2, CauseReturn
  <2> QED
    BY <1>0, <1>1, <1>2, <2>1, CauseStep
<1>3. ASSUME NEW b, NEW g, NEW v, Switch(st, b, g, v), status' = v.st,
             dbStatus' = FlushToDB(status'),
             \/ v.ok /\ StartReorganize(t, g.detach, g.attach, FALSE, "reconsider")
             \/ Return(t)
      PROVE  CauseInv'
  <2>0. Caused(st)
    BY <1>0, <1>1 DEF Caused
  <2>1. \A x \in Block : KnownInvalid(status'[x]) => KnownInvalid(status[x]) \/ Ruled(x)
    BY <1>3, <2>0, CauseSwitch DEF Caused
  <2>2. OnlyThread(t) /\ pc'[t] # "rejected" /\ call'[t].src = "submit"
    BY <1>0, <1>3, CauseMoves
  <2> QED
    BY <1>0, <1>3, <2>1, <2>2, CauseStep
<1> QED
  BY <1>1, <1>2, <1>3

\* The marks in the database have a cause too, so a restart brings none without.
LEMMA CauseInitChainState ==
  ASSUME NEW db, Caused(db), InitChainState(db)
  PROVE  CauseInv'
<1>1. /\ verdict' = verdict /\ dbStatus' = status'
      /\ status' = SetStatusFlags(db, Ancestors[tip], "valid")
      /\ \A t \in Thread : call'[t] = NoCall /\ pc'[t] = "idle"
  BY DEF InitChainState
<1>2. \A b \in Block : KnownInvalid(status'[b]) => Ruled(b)
  BY <1>1, SetFlag DEF Caused
<1>3. Caused(status)' /\ Caused(dbStatus)'
  BY <1>1, <1>2 DEF Caused, Ruled
<1> QED
  BY <1>1, <1>3, SMTT(60) DEF CauseInv, NoCall

\* Every step preserves CauseInv.
LEMMA CauseNext ==
  ASSUME OnlyRuled, IInv, CauseInv, [Next]_vars
  PROVE  CauseInv'
<1>0. Sync \in Thread /\ Rpc \subseteq Thread
  BY DEF Thread
<1>1. ASSUME NEW b \in Block \ {Genesis}, NEW src \in Sources, NEW ibd \in BOOLEAN,
             ProcessBlock(Sync, b, src, ibd)
      PROVE  CauseInv'
  BY <1>0, <1>1, CauseProcessBlock
<1>2. ASSUME NEW h \in Announced, ProcessBlockHeader(Sync, h)
      PROVE  CauseInv'
  BY <1>0, <1>2, CauseProcessBlockHeader, ConfigAssumption
<1>4. ASSUME NEW t \in Rpc, NEW b \in Block, ReconsiderBlock(t, b)
      PROVE  CauseInv'
  BY <1>0, <1>4, CauseReconsiderBlock
<1>5. ASSUME NEW t \in Thread, NoBestTip(t)
      PROVE  CauseInv'
  <2>1. Caused(FlushToDB(status))
    BY FlushFlag DEF CauseInv, Caused, KnownInvalid
  <2>2. InitChainState(FlushToDB(status))
    BY <1>5 DEF NoBestTip
  <2> HIDE DEF FlushToDB
  <2> QED
    BY <2>1, <2>2, CauseInitChainState
<1>6. ASSUME NEW t \in Thread, Step(t)
      PROVE  CauseInv'
  <2>1. ~MarkRejectedBlock(t)
    BY DEF MarkRejectedBlock, CauseInv
  <2> QED
    BY <1>5, <1>6, <2>1, CauseMaybeAcceptBlock, CauseConnectBestChain, CauseReorganize,
       CauseProcessOrphans, CauseActivateBestTip DEF Step
<1>7. CASE Restart
  BY <1>7, CauseInitChainState DEF Restart, CauseInv
<1>8. CASE UNCHANGED vars
  BY <1>8 DEF vars, CauseInv, Caused, Ruled
<1> QED
  BY <1>1, <1>2, <1>4, <1>6, <1>7, <1>8 DEF Next, OnlyRuled

\* Without blocks from peers and without InvalidateBlock, a block that is marked
\* invalid breaks a rule or descends from one that does: whatever calls interleave,
\* whatever is reconsidered or fails, and wherever the process dies.
THEOREM InvalidOnlyForCause ==
  ASSUME OnlyRuled
  PROVE  Spec => []InvalidForCause
<1>1. Init => CauseInv
  <2> SUFFICES ASSUME Init PROVE CauseInv
    OBVIOUS
  <2>1. \A b \in Block : ~KnownInvalid(GenesisOnly[b])
    BY DEF GenesisOnly, KnownInvalid
  <2>2. \A t \in Thread : pc[t] # "rejected" /\ call[t].src = "submit"
    BY DEF Init, NoCall
  <2> QED
    BY <2>1, <2>2 DEF Init, CauseInv, Caused
<1>2. IInv /\ CauseInv /\ [Next]_vars => CauseInv'
  BY CauseNext
<1>3. CauseInv => InvalidForCause
  BY DEF CauseInv, Caused, Ruled, InvalidForCause
<1> QED
  BY <1>1, <1>2, <1>3, Invariance, PTL DEF Spec

=============================================================================
