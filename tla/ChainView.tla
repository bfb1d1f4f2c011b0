----------------------------- MODULE ChainView ------------------------------
(***************************************************************************)
(* The block index and the view of one of its branches (blockindex.go,     *)
(* chainview.go) and the queries chain.go answers from them.  A node holds *)
(* its parent and one skip pointer; the view is a slice of nodes by height *)
(* that is cut and grown in place, so its backing array keeps what longer  *)
(* views left there.  Nodes are numbered in the order they are added; 0 is *)
(* the genesis block.                                                      *)
(***************************************************************************)
EXTENDS Integers, Sequences, FiniteSets, FiniteSetsExt

CONSTANTS MaxNodes,      \* bound on the nodes besides the genesis block
          MaxTips,       \* bound on the leaves of the tree
          Growth,        \* approxNodesPerWeek: spare capacity of a new slice
          DenseEntries,  \* entries of a locator before the steps double (10)
          MaxResults     \* wire.MaxBlocksPerMsg and the like

VARIABLES nodes,   \* sequence of [parent, height, ancestor]; node n is nodes[n]
          valid,   \* nodes known valid
          view     \* chainView: backing array (by height) and length

cvVars == <<nodes, valid, view>>

Nil == -1
Ids == 0..Len(nodes)
ParentOf(n) == IF n = 0 THEN Nil ELSE nodes[n].parent
Height(n) == IF n = 0 THEN 0 ELSE nodes[n].height
SkipOf(n) == IF n = 0 THEN Nil ELSE nodes[n].ancestor

-----------------------------------------------------------------------------
(* Ancestors: the skip pointer of a node is its ancestor at the height with
   the two lowest one-bits cleared. *)

RECURSIVE LowestOne(_)
LowestOne(k) == IF k % 2 = 1 THEN 1 ELSE 2 * LowestOne(k \div 2)
invertLowestOne(k) == IF k = 0 THEN 0 ELSE k - LowestOne(k)
getAncestorHeight(h) == invertLowestOne(invertLowestOne(h))

Skips(n, h) == SkipOf(n) # Nil /\ getAncestorHeight(Height(n)) >= h

RECURSIVE Walk(_, _)
Walk(n, h) == IF n = Nil \/ Height(n) = h THEN n
              ELSE IF Skips(n, h) THEN Walk(SkipOf(n), h) ELSE Walk(ParentOf(n), h)
Ancestor(n, h) == IF h < 0 \/ h > Height(n) THEN Nil ELSE Walk(n, h)

AddNode(p) ==
    LET h == Height(p) + 1 IN
    /\ Len(nodes) < MaxNodes
    /\ Cardinality({ n \in Ids : \A m \in Ids : ParentOf(m) # n } \ {p}) < MaxTips
    /\ nodes' = Append(nodes, [parent |-> p, height |-> h, ancestor |-> Ancestor(p, getAncestorHeight(h))])
    /\ UNCHANGED <<valid, view>>

-----------------------------------------------------------------------------
(* The view. *)

nodeByHeight(h) == IF h < 0 \/ h >= view.len THEN Nil ELSE view.arr[h + 1]
Tip == nodeByHeight(view.len - 1)
InView(n) == nodeByHeight(Height(n)) = n
NextOf(n) == IF n = Nil \/ ~InView(n) THEN Nil ELSE nodeByHeight(Height(n) + 1)

\* Room for the new tip: a new array with spare capacity, or the old one with
\* what lies between the old and the new length forgotten.
Blank(k) == [i \in 1..k |-> Nil]
Used == SubSeq(view.arr, 1, view.len)
Grown(needed) == Used \o Blank(needed + Growth - view.len)

Resized_KeepsStale(needed) == IF Len(view.arr) < needed THEN Grown(needed) ELSE view.arr
Resized(needed) ==
    CASE Len(view.arr) < needed -> Grown(needed)
      [] Len(view.arr) >= needed /\ needed > view.len ->
             Used \o Blank(needed - view.len) \o SubSeq(view.arr, needed + 1, Len(view.arr))
      [] OTHER -> view.arr

\* The slots are filled from the tip down to the first that is right already.
RECURSIVE Filled(_, _)
Filled(arr, n) == IF n = Nil \/ arr[Height(n) + 1] = n THEN arr
                  ELSE Filled([arr EXCEPT ![Height(n) + 1] = n], ParentOf(n))

setTip(n) ==
    /\ valid' = valid \cup { m \in Ids : Ancestor(n, Height(m)) = m }
    /\ view' = [arr |-> Filled(Resized(Height(n) + 1), n), len |-> Height(n) + 1]
    /\ UNCHANGED nodes

RECURSIVE DownToView(_)
DownToView(n) == IF n = Nil \/ InView(n) THEN n ELSE DownToView(ParentOf(n))
findFork(n) == DownToView(IF Height(n) > view.len - 1 THEN Ancestor(n, view.len - 1) ELSE n)

-----------------------------------------------------------------------------
(* Locators and the answers to them. *)

Step(count, step) == IF count > DenseEntries THEN 2 * step ELSE step

RECURSIVE LocatorFrom(_, _, _)
LocatorFrom(n, count, step) ==
    IF Height(n) = 0 THEN <<n>>
    ELSE LET h == Max({Height(n) - step, 0})
             m == IF InView(n) THEN view.arr[h + 1] ELSE Ancestor(n, h)
         IN <<n>> \o LocatorFrom(m, count + 1, Step(count, step))
blockLocator(n) == LocatorFrom(n, 1, 1)

\* The first entry of the locator that is in the view decides where the answer
\* starts: one after it.
locateInventory(locator, stop, max) ==
    IF locator = <<>> THEN [start |-> stop, total |-> IF stop = Nil THEN 0 ELSE 1]
    ELSE LET known == { i \in DOMAIN locator : locator[i] \in Ids /\ InView(locator[i]) }
             base == IF known = {} THEN 0 ELSE locator[Min(known)]
             start == NextOf(base)
             upto == IF stop # Nil /\ InView(stop) /\ start # Nil /\ Height(stop) >= Height(start)
                     THEN Height(stop) ELSE view.len - 1
         IN IF start = Nil THEN [start |-> Nil, total |-> 0]
            ELSE [start |-> start, total |-> Min({upto - Height(start) + 1, max})]

RECURSIVE Following(_, _)
Following(n, k) == IF k = 0 THEN <<>> ELSE <<n>> \o Following(NextOf(n), k - 1)
locateBlocks(locator, stop, max) ==
    LET found == locateInventory(locator, stop, max) IN Following(found.start, found.total)

RECURSIVE Back(_, _)
Back(n, k) == IF k = 0 THEN <<>> ELSE Append(Back(ParentOf(n), k - 1), n)
HeightToHashRange(start, end) ==
    IF end \notin valid \/ start < 0 \/ start > Height(end) \/ Height(end) - start + 1 > MaxResults
    THEN <<>> ELSE Back(end, Height(end) - start + 1)

RECURSIVE IntervalBack(_, _, _)
IntervalBack(n, i, interval) ==
    IF i = 0 THEN <<>>
    ELSE LET m == IF InView(n) THEN nodeByHeight(i * interval) ELSE Ancestor(n, i * interval)
         IN Append(IntervalBack(m, i - 1, interval), m)
IntervalBlockHashes(end, interval) ==
    IF end \notin valid THEN <<>> ELSE IntervalBack(end, Height(end) \div interval, interval)

HeightRange(start, end) ==
    IF start < 0 \/ end <= start \/ start > view.len - 1 THEN <<>>
    ELSE [i \in 1..(Min({end, view.len}) - start) |-> nodeByHeight(start + i - 1)]

-----------------------------------------------------------------------------
(* Leaves outside the view. *)

InactiveTips ==
    LET orphans == { n \in Ids : ~InView(n) }
        parents == { ParentOf(n) : n \in orphans }
    IN orphans \ parents

ChainTips == { [id |-> n, branchLen |-> Height(n) - Height(findFork(n)), active |-> InView(n)] :
                   n \in InactiveTips \cup {Tip} }

-----------------------------------------------------------------------------
CvInit == nodes = <<>> /\ valid = {0} /\ view = [arr |-> <<0>>, len |-> 1]
CvNext == \E n \in Ids : AddNode(n) \/ setTip(n)
CvSpec == CvInit /\ [][CvNext]_cvVars

-----------------------------------------------------------------------------
(* Properties. *)

\* What the functions above should return, from the parents alone.
RECURSIVE Path(_)
Path(n) == IF n = 0 THEN <<0>> ELSE Append(Path(ParentOf(n)), n)
Common(m, n) == Max({ h \in 0..Min({Height(m), Height(n)}) : Path(m)[h + 1] = Path(n)[h + 1] })

\* However the view was cut, moved to another branch and grown again, it is
\* the path to its tip; the skip pointers lead to the ancestor at every height;
\* and the fork points, tips and ranges answered are those of the tree.
ViewExact ==
    LET P == [n \in Ids |-> Path(n)] IN
    /\ SubSeq(view.arr, 1, view.len) = P[Tip]
    /\ \A n \in Ids : \A h \in 0..Height(n) : Ancestor(n, h) = P[n][h + 1]
    /\ \A n \in Ids : findFork(n) = P[n][Common(n, Tip) + 1]
    /\ { t.id : t \in ChainTips } = { n \in Ids : \A m \in Ids : ParentOf(m) # n /\ ~InView(n) } \cup {Tip}
    /\ \A n \in valid : /\ \A h \in 0..Height(n) : Height(n) - h < MaxResults =>
                              HeightToHashRange(h, n) = SubSeq(P[n], h + 1, Height(n) + 1)
                        /\ \A k \in 1..3 : IntervalBlockHashes(n, k) =
                              [i \in 1..(Height(n) \div k) |-> P[n][i * k + 1]]
    /\ \A h, k \in 0..view.len : HeightRange(h, k) = SubSeq(P[Tip], h + 1, k)

\* A node that sends the locator of its tip is answered with the next blocks of
\* the other's chain, in order, from a block both have; it is the last such
\* block when the fork is within the dense part of the locator, and a request
\* answered with nothing means there is nothing it lacks.
LocatorsMeet ==
    \A n \in Ids :
        LET loc == blockLocator(n)
            got == locateBlocks(loc, Nil, MaxResults)
            fork == Common(n, Tip)
        IN /\ loc[1] = n /\ loc[Len(loc)] = 0
           /\ \A i \in 1..(Len(loc) - 1) : Height(loc[i + 1]) < Height(loc[i])
           /\ got = <<>> => Height(Tip) = fork
           /\ got # <<>> =>
                 LET base == Height(got[1]) - 1 IN
                 /\ base <= fork
                 /\ Height(n) - fork <= DenseEntries => base = fork
                 /\ Height(n) - base <= 4 * (Height(n) - fork) + DenseEntries
                 /\ got = SubSeq(Path(Tip), base + 2, base + 1 + Min({MaxResults, Height(Tip) - base}))
====
