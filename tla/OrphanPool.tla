------------------------------- MODULE OrphanPool ------------------------------
(***************************************************************************)
(* The pool of blocks whose parent is not known: its limit, the expiry of  *)
(* its blocks, and the pointer to the oldest one that makes room.          *)
(*                                                                         *)
(* Blocks are held for the same time, so they expire in the order they     *)
(* came.  The index by parent (prevOrphans) is `Parent` on the pool.  The  *)
(* sync handler is the one caller of ProcessBlock, so a call accepts all   *)
(* its orphans before the next block comes in.                             *)
(***************************************************************************)
EXTENDS Integers, Sequences, FiniteSets, FiniteSetTheorems, TLAPS

CONSTANTS
  Block, Genesis, Parent,
  None,               \* no oldest orphan
  MaxOrphanBlocks     \* maxOrphanBlocks

ASSUME OrphanAssumption ==
  /\ Genesis \in Block
  /\ Parent \in [Block \ {Genesis} -> Block]
  /\ MaxOrphanBlocks \in Nat \ {0}
  /\ None \notin [block: Block, live: BOOLEAN]

VARIABLES
  have,      \* the blocks of the index
  orphans,   \* the pool
  after,     \* after[o]: the blocks of the pool that came after o
  oldest,    \* oldestOrphan: a block, and whether it is still that entry of the pool
  processHashes   \* of processOrphans: the accepted blocks whose orphans wait

vars == <<have, orphans, after, oldest, processHashes>>

Init ==
  /\ have = {Genesis}
  /\ orphans = {}
  /\ after = [b \in Block |-> {}]
  /\ oldest = None
  /\ processHashes = <<>>

IsOldest(o, S) == o \in S /\ S \subseteq {o} \cup after[o]

\* The entries that left the pool are nobody's successors, and the pointer to one
\* of them is to an entry that is gone.
Points(ptr, gone) == IF ptr # None /\ ptr.block \in gone THEN [ptr EXCEPT !.live = FALSE] ELSE ptr

\* The scan of addOrphanBlock, which leaves the blocks that have not expired: the
\* pointer moves to the oldest of them, unless it is to an entry that is gone,
\* which is older than them all.
Scanned(left, ptr) ==
  LET p == Points(oldest, orphans \ left)
  IN  IF p # None /\ ~p.live THEN ptr = p
      ELSE IF left = {} THEN ptr = None
      ELSE \E o \in left : IsOldest(o, left) /\ ptr = [block |-> o, live |-> TRUE]

\* Mutant: the limit is checked without the block that is added.
AddOrphanBlock_OffByOne(b) ==
  \E expired \in SUBSET orphans, ptr \in [block: Block, live: BOOLEAN] \cup {None} :
    LET left == orphans \ expired
        full == Cardinality(left) > MaxOrphanBlocks
        kept == IF full THEN left \ {ptr.block} ELSE left
    IN  /\ \A o \in expired : left \subseteq after[o]
        /\ Scanned(left, ptr)
        /\ orphans' = kept \cup {b}
        /\ after' = [o \in Block |-> IF o \in kept THEN (after[o] \cap kept) \cup {b} ELSE {}]
        /\ oldest' = IF full THEN None ELSE ptr

AddOrphanBlock(b) ==
  \E expired \in SUBSET orphans, ptr \in [block: Block, live: BOOLEAN] \cup {None} :
    LET left == orphans \ expired
        full == Cardinality(left) + 1 > MaxOrphanBlocks
        kept == IF full THEN left \ {ptr.block} ELSE left
    IN  /\ \A o \in expired : left \subseteq after[o]
        /\ Scanned(left, ptr)
        /\ orphans' = kept \cup {b}
        /\ after' = [o \in Block |-> IF o \in kept THEN (after[o] \cap kept) \cup {b} ELSE {}]
        /\ oldest' = IF full THEN None ELSE ptr

\* One orphan of processOrphans: the oldest child of the first block of the list
\* leaves the pool and is accepted, or refused, before or after it was stored.
ProcessOrphan ==
  /\ processHashes # <<>>
  /\ LET p == Head(processHashes)
         children == {o \in orphans : Parent[o] = p}
     IN  \/ /\ children = {}
            /\ processHashes' = Tail(processHashes)
            /\ UNCHANGED <<have, orphans, after, oldest>>
         \/ \E o \in children :
              /\ IsOldest(o, children)
              /\ orphans' = orphans \ {o}
              /\ after' = [q \in Block |-> IF q = o THEN {} ELSE after[q] \ {o}]
              /\ oldest' = Points(oldest, {o})
              /\ \/ /\ have' = have \cup {o}
                    /\ processHashes' = Append(processHashes, o)
                 \/ /\ have' \in {have, have \cup {o}}
                    /\ processHashes' = <<>>

\* ProcessBlock: a known block is refused; one whose parent is not known waits in
\* the pool; another is accepted, or refused once it is stored.
ProcessBlock(b) ==
  /\ processHashes = <<>>
  /\ b \notin have \cup orphans
  /\ \/ /\ Parent[b] \notin have
        /\ AddOrphanBlock(b)
        /\ UNCHANGED <<have, processHashes>>
     \/ /\ Parent[b] \in have
        /\ have' = have \cup {b}
        /\ processHashes' \in {<<>>, <<b>>}
        /\ UNCHANGED <<orphans, after, oldest>>

Next ==
  \/ ProcessOrphan
  \/ \E b \in Block \ {Genesis} : ProcessBlock(b)

Spec == Init /\ [][Next]_vars

(***************************************************************************)
(* Properties.                                                             *)
(***************************************************************************)

\* The pool outgrows its limit by one block at most, whatever expires or leaves
\* it: a second block is never let in through a pointer to an entry that is gone.
PoolAlmostBounded ==
  /\ Cardinality(orphans) <= MaxOrphanBlocks + 1
  /\ Cardinality(orphans) > MaxOrphanBlocks => oldest = None

(***************************************************************************)
(* Proofs: the pool, whatever its limit, outgrows it by one at most.        *)
(***************************************************************************)

\* A leaf that names no prover is for the SMT solver.
USE SMTT(60)

\* The bound is kept by what the pointer is when the pool is over its limit: the
\* next scan then finds the oldest block itself, and removes it.
Inv ==
  /\ orphans \in SUBSET Block
  /\ IsFiniteSet(orphans)
  /\ oldest \in [block: Block, live: BOOLEAN] \cup {None}
  /\ oldest # None /\ oldest.live => oldest.block \in orphans
  /\ PoolAlmostBounded

\* A pointer that is moved off the entries that left the pool.
LEMMA PointsType ==
  ASSUME Inv, NEW gone
  PROVE  /\ Points(oldest, gone) \in [block: Block, live: BOOLEAN] \cup {None}
         /\ Points(oldest, gone) = None <=> oldest = None
         /\ Points(oldest, gone) # None /\ Points(oldest, gone).live
              => Points(oldest, gone).block \in orphans \ gone
BY OrphanAssumption, ZenonT(60) DEF Inv, Points

\* addOrphanBlock keeps the bound.
LEMMA AddKeeps ==
  ASSUME Inv, NEW b \in Block, b \notin orphans, AddOrphanBlock(b)
  PROVE  Inv'
<1> DEFINE Ptr == [block: Block, live: BOOLEAN] \cup {None}
<1>1. PICK expired \in SUBSET orphans, ptr \in Ptr :
        /\ Scanned(orphans \ expired, ptr)
        /\ LET left == orphans \ expired
               full == Cardinality(left) + 1 > MaxOrphanBlocks
               kept == IF full THEN left \ {ptr.block} ELSE left
           IN  /\ orphans' = kept \cup {b}
               /\ oldest' = IF full THEN None ELSE ptr
  BY ZenonT(60) DEF AddOrphanBlock
<1> DEFINE left == orphans \ expired
           full == Cardinality(left) + 1 > MaxOrphanBlocks
           kept == IF full THEN left \ {ptr.block} ELSE left
<1>2. /\ IsFiniteSet(left) /\ Cardinality(left) \in Nat
      /\ Cardinality(left) <= Cardinality(orphans)
      /\ Cardinality(orphans) \in Nat
  BY FS_Subset, FS_CardinalityType DEF Inv
<1>3. /\ IsFiniteSet(kept) /\ Cardinality(kept) \in Nat
      /\ Cardinality(kept) <= Cardinality(left)
  <2>1. kept \subseteq left
    OBVIOUS
  <2> QED BY <1>2, <2>1, FS_Subset, FS_CardinalityType
<1>4. IsFiniteSet(kept \cup {b}) /\ Cardinality(kept \cup {b}) = Cardinality(kept) + 1
  <2>1. b \notin kept
    OBVIOUS
  <2> QED BY <1>3, <2>1, FS_AddElement, ZenonT(60)
<1>5. MaxOrphanBlocks \in Nat \ {0}
  BY OrphanAssumption
<1> DEFINE p == Points(oldest, orphans \ left)
<1>p. /\ p \in Ptr
      /\ p = None <=> oldest = None
      /\ p # None /\ p.live => p.block \in left
  BY PointsType
<1>s. \/ p # None /\ ~p.live /\ ptr = p
      \/ ~(p # None /\ ~p.live) /\ left = {} /\ ptr = None
      \/ \E o \in left : ptr = [block |-> o, live |-> TRUE]
  BY <1>1 DEF Scanned
<1> HIDE DEF p
<1>6. ptr # None /\ ptr.live => ptr.block \in left
  BY <1>s
<1>7. Cardinality(left) > MaxOrphanBlocks => oldest = None
  BY <1>2, <1>5 DEF Inv, PoolAlmostBounded
<1>8. oldest = None /\ left # {} => ptr # None /\ ptr.live
  <2>1. ASSUME NEW o \in left
        PROVE  [block |-> o, live |-> TRUE] # None
    <3>1. o \in Block
      BY DEF Inv
    <3>2. [block |-> o, live |-> TRUE] \in [block: Block, live: BOOLEAN]
      BY <3>1, ZenonT(60)
    <3> QED BY <3>2, OrphanAssumption, ZenonT(60)
  <2> QED BY <1>p, <1>s, <2>1
<1>9. full /\ ptr # None /\ ptr.live => Cardinality(kept) = Cardinality(left) - 1
  <2> SUFFICES ASSUME full, ptr # None, ptr.live
               PROVE  Cardinality(left \ {ptr.block}) = Cardinality(left) - 1
    OBVIOUS
  <2>1. IsFiniteSet(left) /\ ptr.block \in left
    BY <1>2, <1>6
  <2> HIDE DEF left
  <2> QED BY <2>1, FS_RemoveElement, ZenonT(60)
<1>10. Cardinality(left) > MaxOrphanBlocks => left # {}
  BY <1>5, FS_EmptySet
<1>11. Cardinality(orphans') <= MaxOrphanBlocks + 1
  <2>1. Cardinality(orphans) <= MaxOrphanBlocks + 1
    BY DEF Inv, PoolAlmostBounded
  <2>2. CASE Cardinality(left) > MaxOrphanBlocks
    <3>1. ptr # None /\ ptr.live /\ full
      BY <2>2, <1>7, <1>8, <1>10, <1>2, <1>5
    <3>2. Cardinality(kept) = Cardinality(left) - 1
      BY <3>1, <1>9
    <3>3. orphans' = kept \cup {b}
      BY <1>1
    <3> HIDE DEF kept, left
    <3> QED BY <3>2, <3>3, <2>1, <1>2, <1>3, <1>4, <1>5
  <2>3. CASE ~(Cardinality(left) > MaxOrphanBlocks)
    <3>1. orphans' = kept \cup {b}
      BY <1>1
    <3> HIDE DEF kept, left
    <3> QED BY <3>1, <2>3, <1>2, <1>3, <1>4, <1>5
  <2> QED BY <2>2, <2>3
<1>12. Cardinality(orphans') > MaxOrphanBlocks => oldest' = None
  <2>1. CASE full
    BY <2>1, <1>1
  <2>2. CASE ~full
    <3>1. orphans' = kept \cup {b} /\ Cardinality(left) + 1 <= MaxOrphanBlocks
      BY <2>2, <1>1, <1>2, <1>5
    <3> HIDE DEF kept, left
    <3> QED BY <3>1, <1>2, <1>3, <1>4, <1>5
  <2> QED BY <2>1, <2>2
<1>13. orphans' \in SUBSET Block /\ IsFiniteSet(orphans')
  BY <1>1, <1>4 DEF Inv
<1>14. oldest' \in Ptr
  BY <1>1
<1>15. oldest' # None /\ oldest'.live => oldest'.block \in orphans'
  BY <1>1, <1>6
<1> QED BY <1>11, <1>12, <1>13, <1>14, <1>15 DEF Inv, PoolAlmostBounded

\* An orphan that leaves the pool keeps the bound.
LEMMA RemoveKeeps ==
  ASSUME Inv, NEW o \in orphans,
         orphans' = orphans \ {o}, oldest' = Points(oldest, {o})
  PROVE  Inv'
<1>1. /\ IsFiniteSet(orphans') /\ Cardinality(orphans') \in Nat
      /\ Cardinality(orphans') = Cardinality(orphans) - 1
      /\ Cardinality(orphans) \in Nat
  BY FS_RemoveElement, FS_CardinalityType DEF Inv
<1>2. Cardinality(orphans') > MaxOrphanBlocks => oldest' = None
  BY <1>1, PointsType, OrphanAssumption DEF Inv, PoolAlmostBounded
<1>3. Cardinality(orphans') <= MaxOrphanBlocks + 1
  BY <1>1, OrphanAssumption DEF Inv, PoolAlmostBounded
<1> QED BY <1>1, <1>2, <1>3, PointsType DEF Inv, PoolAlmostBounded

\* addOrphanBlock never lets the pool outgrow maxOrphanBlocks by more than one
\* block, for every limit and tree of blocks.
THEOREM PoolAlwaysAlmostBounded == Spec => []PoolAlmostBounded
<1>1. Init => Inv
  BY OrphanAssumption, FS_EmptySet DEF Init, Inv, PoolAlmostBounded
<1>2. Inv /\ [Next]_vars => Inv'
  <2> SUFFICES ASSUME Inv, [Next]_vars
               PROVE  Inv'
    OBVIOUS
  <2>1. CASE ProcessOrphan
    <3>1. CASE UNCHANGED <<orphans, oldest>>
      BY <3>1 DEF Inv, PoolAlmostBounded
    <3>2. CASE \E o \in orphans : orphans' = orphans \ {o} /\ oldest' = Points(oldest, {o})
      BY <3>2, RemoveKeeps
    <3> QED BY <2>1, <3>1, <3>2, ZenonT(60) DEF ProcessOrphan
  <2>2. ASSUME NEW b \in Block \ {Genesis}, ProcessBlock(b)
        PROVE  Inv'
    <3>1. CASE UNCHANGED <<orphans, oldest>>
      BY <3>1 DEF Inv, PoolAlmostBounded
    <3>2. CASE AddOrphanBlock(b)
      BY <3>2, <2>2, AddKeeps DEF ProcessBlock
    <3> QED BY <2>2, <3>1, <3>2 DEF ProcessBlock
  <2>3. CASE UNCHANGED vars
    BY <2>3 DEF vars, Inv, PoolAlmostBounded
  <2> QED BY <2>1, <2>2, <2>3 DEF Next
<1>3. Inv => PoolAlmostBounded
  BY DEF Inv
<1> QED BY <1>1, <1>2, <1>3, PTL DEF Spec

================================================================================
