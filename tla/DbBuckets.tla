----------------------------- MODULE DbBuckets ------------------------------
(***************************************************************************)
(* The metadata of a database/ffldb transaction: nested buckets laid out   *)
(* as ranges of keys, and cursors that merge three layers, LevelDB, the    *)
(* cache of committed transactions, and the treap of pending keys, the     *)
(* first part.  A bucket with number b has the keys (b, 1), (b, 2), ... and an *)
(* index of its children, one entry per name whose value is the number of  *)
(* the child.  A behaviour is one write transaction.                       *)
(***************************************************************************)
EXTENDS Integers, Sequences, FiniteSets, SequencesExt, FiniteSetsExt

(***************************************************************************)
(* database/internal/treap: the mutable treap that holds the pending keys  *)
(* of a transaction and its iterators, and the immutable treap whose       *)
(* versions are the snapshots of the metadata cache.  Nodes live in a heap *)
(* so that sharing between versions, and the reuse of recycled nodes, can  *)
(* be seen.  Keys and sizes of values are numbers; priorities are any of a *)
(* small set.                                                              *)
(***************************************************************************)
CONSTANTS Keys,         \* a set of positive numbers
          Sizes,        \* sizes of values
          Priorities,
          MaxNodes,
          MaxVersions, MaxOps,
          Kinds         \* "mutable" and "immutable"

NodeIds == 1..MaxNodes
nodeFieldsSize == 2
nil == 0
Free == [key |-> 0, value |-> 0, priority |-> 0, left |-> nil, right |-> nil]

VARIABLES kind,   \* the treap this behaviour is about
          h,      \* the heap of nodes
          t,      \* versions: root, count and totalSize; one for the mutable treap
          held,   \* held[v]: the map that version v was built to hold
          it,     \* the iterator, with the key it should be at
          ops

trVars == <<kind, h, t, held, it, ops>>

newTreapNode(k, v, p) == [key |-> k, value |-> v, priority |-> p, left |-> nil, right |-> nil]

nodeSize(n) == nodeFieldsSize + 1 + n.value

Nil == [root |-> nil, count |-> 0, totalSize |-> 0]

NoIter == [node |-> nil, parents |-> <<>>, isNew |-> TRUE, seekKey |-> 0, root |-> nil,
           start |-> 0, limit |-> 0, want |-> 0]

TrInit ==
    /\ kind \in Kinds
    /\ h = [n \in NodeIds |-> Free]
    /\ t = <<Nil>> /\ held = <<[k \in {} |-> 0]>>
    /\ \E s \in Keys, l \in Keys \cup {Max(Keys) + 1} :
         /\ s < l /\ (kind = "immutable" => s = Min(Keys) /\ l > Max(Keys))
         /\ it = [NoIter EXCEPT !.start = s, !.limit = l]
    /\ ops = 0

(***************************************************************************)
(* Walking.                                                                *)
(***************************************************************************)
(* The nodes from n down to the place of key k.                            *)
RECURSIVE Path(_, _, _)
Path(hp, n, k) ==
    IF n = nil THEN <<>>
    ELSE IF hp[n].key = k THEN <<n>>
    ELSE <<n>> \o Path(hp, IF k < hp[n].key THEN hp[n].left ELSE hp[n].right, k)

get(hp, root, k) ==
    LET p == Path(hp, root, k)
    IN  IF p # <<>> /\ hp[Last(p)].key = k THEN Last(p) ELSE nil

RECURSIVE ForEach(_, _)
ForEach(hp, n) ==
    IF n = nil THEN <<>> ELSE ForEach(hp, hp[n].left) \o <<n>> \o ForEach(hp, hp[n].right)

(* Nodes that nothing refers to any more are collected.                    *)
Collected(hp, roots) ==
    LET live == UNION {ToSet(ForEach(hp, x)) : x \in roots}
    IN  [n \in NodeIds |-> IF n \in live THEN hp[n] ELSE Free]

FreeIds(hp) == SelectSeq([i \in NodeIds |-> i], LAMBDA n : hp[n] = Free)

(***************************************************************************)
(* Rotations.                                                              *)
(***************************************************************************)
(* relinkGrandparent, when there is one.                                   *)
relinkGrandparent(hp, grandparent, parent, node) ==
    IF hp[grandparent].left = parent THEN [hp EXCEPT ![grandparent].left = node]
    ELSE [hp EXCEPT ![grandparent].right = node]

(* Node n, a child of parent, takes its place.                             *)
Rotated(hp, parent, n) ==
    IF hp[parent].left = n
    THEN [hp EXCEPT ![parent].left = hp[n].right, ![n].right = parent]
    ELSE [hp EXCEPT ![parent].right = hp[n].left, ![n].left = parent]

(* The rotations of a new node up through its parents.                     *)
RECURSIVE Raised(_, _, _)
Raised(hp, parents, n) ==
    IF parents = <<>> THEN [h |-> hp, root |-> n]
    ELSE LET parent == Last(parents)
             rest == Front(parents)
             r == Rotated(hp, parent, n)
         IN  IF hp[n].priority >= hp[parent].priority THEN [h |-> hp, root |-> Head(parents)]
             ELSE Raised(IF rest = <<>> THEN r ELSE relinkGrandparent(r, Last(rest), parent, n),
                         rest, n)

(* The child that moves up when node n is deleted.                         *)
MovesUp(hp, n) ==
    CASE hp[n].left = nil -> hp[n].right
      [] hp[n].right = nil -> hp[n].left
      [] hp[hp[n].left].priority >= hp[hp[n].right].priority -> hp[n].left
      [] OTHER -> hp[n].right

(* Node n moves down, below parent, until it is a leaf, and is unlinked.   *)
(* The immutable treap replaces every child it moves by a copy.            *)
Copied(hp, parent, child, copy) ==
    relinkGrandparent([hp EXCEPT ![copy] = hp[child]], parent, child, copy)

RECURSIVE Sunk(_, _, _, _, _)
Sunk(hp, root, parent, n, copies) ==
    IF hp[n].left = nil /\ hp[n].right = nil
    THEN [h |-> IF parent = nil THEN hp
                ELSE IF hp[parent].right = n THEN [hp EXCEPT ![parent].right = nil]
                ELSE [hp EXCEPT ![parent].left = nil],
          root |-> IF parent = nil THEN nil ELSE root]
    ELSE LET c == MovesUp(hp, n)
             new == IF copies THEN Head(FreeIds(hp)) ELSE c
             r == Rotated(IF copies THEN Copied(hp, n, c, new) ELSE hp, n, new)
         IN  Sunk(IF parent = nil THEN r ELSE relinkGrandparent(r, parent, n, new),
                  IF parent = nil THEN new ELSE root, new, n, copies)

(***************************************************************************)
(* Put and Delete.                                                         *)
(***************************************************************************)
(* The node for k, v with priority p goes below the last of the parents.   *)
Inserted(hp, parents, id, k, v, p) ==
    LET made == [hp EXCEPT ![id] = newTreapNode(k, v, p)]
        parent == Last(parents)
    IN  IF parents = <<>> THEN [h |-> made, root |-> id]
        ELSE Raised(IF k < hp[parent].key THEN [made EXCEPT ![parent].left = id]
                    ELSE [made EXCEPT ![parent].right = id], parents, id)

(* The treap with sizes after key k is set to v.                           *)
SizedPut(x, root, old, v) ==
    IF old = nil
    THEN [root |-> root, count |-> x.count + 1, totalSize |-> x.totalSize + nodeFieldsSize + 1 + v]
    ELSE [root |-> root, count |-> x.count, totalSize |-> x.totalSize - h[old].value + v]

MutablePut(hp, x, k, v, p) ==
    LET parents == Path(hp, x.root, k)
        old == get(hp, x.root, k)
    IN  IF old # nil THEN [h |-> [hp EXCEPT ![old].value = v], root |-> x.root]
        ELSE Inserted(hp, parents, Head(FreeIds(hp)), k, v, p)

(* The parents are replaced by linked copies, in the nodes ids.            *)
Cloned(hp, parents, ids) ==
    [n \in NodeIds |->
       IF \E i \in 1..Len(parents) : ids[i] = n
       THEN LET i == CHOOSE i \in 1..Len(parents) : ids[i] = n
                c == hp[parents[i]]
            IN  IF i = Len(parents) THEN c
                ELSE IF c.left = parents[i + 1] THEN [c EXCEPT !.left = ids[i + 1]]
                ELSE [c EXCEPT !.right = ids[i + 1]]
       ELSE hp[n]]

(* put and Delete of the immutable treap begin with such copies.           *)
Clones(hp, parents) ==
    LET ids == SubSeq(FreeIds(hp), 1, Len(parents))
    IN  [h |-> Cloned(hp, parents, ids), ids |-> ids]

(* put, with the nodes it made.                                            *)
ImmutablePut(hp, root, k, v, p) ==
    LET c == Clones(hp, Path(hp, root, k))
        found == get(hp, root, k) # nil
        id == Head(FreeIds(c.h))
        done == Inserted(c.h, c.ids, id, k, v, p)
    IN  IF found THEN [h |-> [c.h EXCEPT ![Last(c.ids)].value = v], root |-> Head(c.ids), made |-> c.ids]
        ELSE [h |-> done.h, root |-> done.root, made |-> Append(c.ids, id)]

(* A node of the treap before is recycled unless the new one has it.       *)
IsUnused(hp, root, n) == get(hp, root, hp[n].key) # n

Recycled(hp, root, made) ==
    [n \in NodeIds |-> IF n \in ToSet(made) /\ IsUnused(hp, root, n) THEN Free ELSE hp[n]]

(* Put of a batch: the nodes that the put before made are recycled.        *)
RECURSIVE PutAll(_, _, _)
PutAll(hp, x, kvs) ==
    IF kvs = <<>> THEN [h |-> hp, x |-> x.x]
    ELSE LET e == Head(kvs)
             old == get(hp, x.x.root, e.k)
             r == ImmutablePut(hp, x.x.root, e.k, e.v, e.p)
             size == IF old = nil THEN x.x.totalSize + nodeFieldsSize + 1 + e.v
                     ELSE x.x.totalSize - hp[old].value + e.v
             y == [root |-> r.root, count |-> x.x.count + (IF old = nil THEN 1 ELSE 0),
                   totalSize |-> size]
         IN  PutAll(Recycled(r.h, r.root, x.made), [x |-> y, made |-> r.made], Tail(kvs))

Deleted(hp, x, k, copies) ==
    LET parents == Path(hp, x.root, k)
        c == IF copies THEN Clones(hp, parents) ELSE [h |-> hp, ids |-> parents]
        n == Last(c.ids)
        parent == IF Len(c.ids) > 1 THEN c.ids[Len(c.ids) - 1] ELSE nil
        s == Sunk(c.h, Head(c.ids), parent, n, copies)
    IN  [h |-> s.h, x |-> [root |-> s.root, count |-> x.count - 1,
                           totalSize |-> x.totalSize - nodeSize(hp[get(hp, x.root, k)])]]

(***************************************************************************)
(* The iterator.                                                           *)
(***************************************************************************)
RECURSIVE Walk(_, _, _, _, _)
Walk(hp, n, k, exactMatch, greater) ==
    IF n = nil THEN <<>>
    ELSE IF hp[n].key = k /\ exactMatch THEN <<n>>
    ELSE <<n>> \o Walk(hp, IF k < hp[n].key \/ (k = hp[n].key /\ ~greater) THEN hp[n].left ELSE hp[n].right,
                       k, exactMatch, greater)

InRange(hp, i, n) == hp[n].key >= i.start /\ hp[n].key < i.limit

limitIterator(hp, i) == IF i.node # nil /\ ~InRange(hp, i, i.node) THEN [i EXCEPT !.node = nil] ELSE i

seek(hp, i, k, exactMatch, greater) ==
    LET w == Walk(hp, i.root, k, exactMatch, greater)
        good == {j \in 1..Len(w) : \/ exactMatch /\ hp[w[j]].key = k
                                   \/ greater /\ hp[w[j]].key > k
                                   \/ ~greater /\ hp[w[j]].key < k}
    IN  limitIterator(hp, IF good = {} THEN [i EXCEPT !.node = nil, !.parents = <<>>]
                      ELSE [i EXCEPT !.node = w[Max(good)], !.parents = SubSeq(w, 1, Max(good) - 1)])

RECURSIVE Leftmost(_, _)
Leftmost(hp, n) == IF n = nil THEN <<>> ELSE <<n>> \o Leftmost(hp, hp[n].left)

RECURSIVE Rightmost(_, _)
Rightmost(hp, n) == IF n = nil THEN <<>> ELSE <<n>> \o Rightmost(hp, hp[n].right)

(* The iterators of the database are over the keys of one bucket and so    *)
(* have both a first key and a limit.                                      *)
First(hp, i) == seek(hp, [i EXCEPT !.isNew = FALSE], i.start, TRUE, TRUE)

LastOf(hp, i) == seek(hp, [i EXCEPT !.isNew = FALSE], i.limit, FALSE, FALSE)

(* Up from node n to the first parent of which it is not on the given side. *)
RECURSIVE Climbed(_, _, _, _)
Climbed(hp, n, parents, side) ==
    IF parents = <<>> THEN [node |-> nil, parents |-> <<>>]
    ELSE LET p == Last(parents)
         IN  IF (IF side = "right" THEN hp[p].right ELSE hp[p].left) = n
             THEN Climbed(hp, p, Front(parents), side)
             ELSE [node |-> p, parents |-> Front(parents)]

(* After a mutation the next step looks for the key again.                 *)
Reseeks_Not(i) == FALSE

Reseeks(i) == i.seekKey # 0

Moved(hp, i, at) == limitIterator(hp, [i EXCEPT !.node = at.node, !.parents = at.parents])

NextOf(hp, i) ==
    LET down == Leftmost(hp, hp[i.node].right)
    IN  CASE i.isNew -> First(hp, i)
          [] ~i.isNew /\ i.node = nil -> i
          [] ~i.isNew /\ i.node # nil /\ Reseeks(i) ->
               seek(hp, [i EXCEPT !.seekKey = 0], i.seekKey, FALSE, TRUE)
          [] OTHER ->
               Moved(hp, i, IF down = <<>> THEN Climbed(hp, i.node, i.parents, "right")
                        ELSE [node |-> Last(down), parents |-> i.parents \o <<i.node>> \o Front(down)])

PrevOf(hp, i) ==
    LET down == Rightmost(hp, hp[i.node].left)
    IN  CASE i.isNew -> LastOf(hp, i)
          [] ~i.isNew /\ i.node = nil -> i
          [] ~i.isNew /\ i.node # nil /\ Reseeks(i) ->
               seek(hp, [i EXCEPT !.seekKey = 0], i.seekKey, FALSE, FALSE)
          [] OTHER ->
               Moved(hp, i, IF down = <<>> THEN Climbed(hp, i.node, i.parents, "left")
                        ELSE [node |-> Last(down), parents |-> i.parents \o <<i.node>> \o Front(down)])

(* ForceReseek, which notifyActiveIters calls after every change.  The     *)
(* node the iterator is at may be gone from the treap; its key is kept.    *)
ForceReseek(i, root) ==
    LET k == IF i.node = nil THEN 0 ELSE h[i.node].key
    IN  [i EXCEPT !.root = root, !.seekKey = k, !.want = k]

(***************************************************************************)
(* Actions.                                                                *)
(***************************************************************************)
Tick == ops < MaxOps /\ ops' = ops + 1

Held(m, k, v) == [x \in DOMAIN m \cup {k} |-> IF x = k THEN v ELSE m[x]]

Put(k, v, p) ==
    LET x == t[1]
        old == get(h, x.root, k)
        r == MutablePut(h, x, k, v, p)
    IN  /\ kind = "mutable" /\ Tick
        /\ h' = r.h
        /\ t' = <<SizedPut(x, r.root, old, v)>>
        /\ held' = <<Held(held[1], k, v)>>
        /\ it' = ForceReseek(it, r.root)
        /\ UNCHANGED kind

Delete(k) ==
    LET r == Deleted(h, t[1], k, FALSE)
    IN  /\ kind = "mutable" /\ get(h, t[1].root, k) # nil /\ Tick
        /\ h' = r.h /\ t' = <<r.x>>
        /\ held' = <<[x \in DOMAIN held[1] \ {k} |-> held[1][x]]>>
        /\ it' = ForceReseek(it, r.x.root)
        /\ UNCHANGED kind

(* What the iterator is to find: the key next to the one it stands for.    *)
WithWant(i, want) == [i EXCEPT !.want = want]

KeysInRange == {k \in DOMAIN held[1] : k >= it.start /\ k < it.limit}
Least(S) == IF S = {} THEN 0 ELSE Min(S)
Greatest(S) == IF S = {} THEN 0 ELSE Max(S)

(* The key the iterator stands for: that of its node.                      *)
At == IF it.node = nil THEN 0 ELSE h[it.node].key

Moves(i, want) ==
    /\ kind = "mutable" /\ Tick
    /\ it' = WithWant(i, want)
    /\ UNCHANGED <<kind, h, t, held>>

(* A fresh iterator is first attached to the root of its creation.         *)
Iterate ==
    \/ Moves(First(h, it), Least(KeysInRange))
    \/ Moves(LastOf(h, it), Greatest(KeysInRange))
    \/ Moves(NextOf(h, it), IF it.isNew THEN Least(KeysInRange) ELSE
                         IF At = 0 THEN 0 ELSE Least({k \in KeysInRange : k > At}))
    \/ Moves(PrevOf(h, it), IF it.isNew THEN Greatest(KeysInRange) ELSE
                         IF At = 0 THEN 0 ELSE Greatest({k \in KeysInRange : k < At}))
    \/ \E k \in {k \in Keys : k >= it.start} :
                       Moves(seek(h, [it EXCEPT !.isNew = FALSE], k, TRUE, TRUE),
                             Least({x \in KeysInRange : x >= k}))

(* A new version from version v, which stays.                              *)
NewVersion(hp, x, m) ==
    /\ Len(t) < MaxVersions
    /\ t' = Append(t, x) /\ held' = Append(held, m)
    /\ h' = Collected(hp, {t[i].root : i \in 1..Len(t)} \cup {x.root})
    /\ UNCHANGED <<kind, it>>

ImmutablePutBatch(v, kvs) ==
    LET r == PutAll(h, [x |-> t[v], made |-> <<>>], kvs)
    IN  /\ kind = "immutable" /\ Tick
        /\ NewVersion(r.h, r.x, FoldLeft(LAMBDA m, e : Held(m, e.k, e.v), held[v], kvs))

ImmutableDelete(v, k) ==
    LET r == Deleted(h, t[v], k, TRUE)
    IN  /\ kind = "immutable" /\ get(h, t[v].root, k) # nil /\ Tick
        /\ NewVersion(r.h, r.x, [x \in DOMAIN held[v] \ {k} |-> held[v][x]])

Entries == [k : Keys, v : Sizes, p : Priorities]

TrNext ==
    \/ \E e \in Entries : Put(e.k, e.v, e.p)
    \/ \E k \in Keys : Delete(k)
    \/ Iterate
    \/ \E v \in 1..Len(t), e \in Entries, f \in Entries : ImmutablePutBatch(v, <<e, f>>)
    \/ \E v \in 1..Len(t), k \in Keys : ImmutableDelete(v, k)

TrSpec == TrInit /\ [][TrNext]_trVars

(***************************************************************************)
(* Properties.                                                             *)
(***************************************************************************)
MapOf(n) == LET s == ForEach(h, n)
            IN  [k \in {h[s[i]].key : i \in 1..Len(s)} |-> h[get(h, n, k)].value]

(* Every version of the treap keeps holding exactly what it was built to   *)
(* hold, in order, with its count and size, whatever later versions share, *)
(* copy, rotate or recycle.                                                *)
VersionsKept ==
    \A v \in 1..Len(t) :
      LET s == ForEach(h, t[v].root)
      IN  /\ MapOf(t[v].root) = held[v]
          /\ \A i \in 1..Len(s) - 1 : h[s[i]].key < h[s[i + 1]].key
          /\ t[v].count = Len(s)
          /\ t[v].totalSize = FoldLeft(LAMBDA a, n : a + nodeSize(h[n]), 0, s)

(* The iterator is moved to the key next to the one it was at, also when   *)
(* the treap was changed in between and that key deleted; not so when it   *)
(* was repositioned after the change, for then it still looks for the key  *)
(* of the change.                                                          *)
IteratorStep ==
    it' # it /\ it.seekKey \in {0, At} =>
      (IF it'.node = nil THEN 0 ELSE h[it'.node].key) = it'.want

IteratorFollows == [][IteratorStep]_trVars

-----------------------------------------------------------------------------
CONSTANTS Width,        \* keys, and names, of a bucket
          MaxBuckets

(* kind is "cursor", about a cursor over bucket 0, or "buckets".           *)
VARIABLES snap,     \* the snapshot: [ldb, cache, remove]
          removed,  \* pendingRemove
          cur,      \* the cursor, apart from its pending iterator, it
          lastID,   \* the key curBucketIDKeyName
          tree      \* what was done: tree[b] are the records of bucket b

dbkVars == <<kind, h, t, held, it, ops, snap, removed, cur, lastID, tree>>

BucketIDs == 0..MaxBuckets
Names == 1..Width

bucketizedKey(b, k) == b * Width + k
bucketIndexKey(b, n) == (MaxBuckets + 1 + b) * Width + n

(* keyRange and bucketRange of a cursor.                                   *)
Range0(first) == [NoIter EXCEPT !.start = first, !.limit = first + Width]
keyRange(b) == Range0(bucketizedKey(b, 1))
bucketRange(b) == Range0(bucketIndexKey(b, 1))

(***************************************************************************)
(* The state s that a transaction changes: the heap and the treap of       *)
(* pendingKeys, and pendingRemove.                                         *)
(***************************************************************************)
State == [h |-> h, x |-> t[1], removed |-> removed]

Pending(s) == LET q == ForEach(s.h, s.x.root) IN {s.h[q[i]].key : i \in 1..Len(q)}

SnapKeys == (DOMAIN snap.ldb \ snap.remove) \cup DOMAIN snap.cache

(* hasKey and fetchKey; 0 is no value. *)
hasKey(s, k) == k \notin s.removed /\ (k \in Pending(s) \/ k \in SnapKeys)

fetchKey(s, k) ==
    CASE ~hasKey(s, k) -> 0
      [] hasKey(s, k) /\ k \in Pending(s) -> s.h[get(s.h, s.x.root, k)].value
      [] OTHER -> IF k \in DOMAIN snap.cache THEN snap.cache[k] ELSE snap.ldb[k]

putKey(s, k, v, p) ==
    LET r == MutablePut(s.h, s.x, k, v, p)
    IN  [h |-> r.h, x |-> [s.x EXCEPT !.root = r.root], removed |-> s.removed \ {k}]

deleteKey(s, k) ==
    LET r == Deleted(s.h, s.x, k, FALSE)
    IN  IF get(s.h, s.x.root, k) = nil THEN [s EXCEPT !.removed = @ \cup {k}]
        ELSE [h |-> r.h, x |-> [s.x EXCEPT !.root = r.x.root], removed |-> s.removed \cup {k}]

(***************************************************************************)
(* Cursors.  The choice between two iterators, at keys db and pend, is the *)
(* same for dbCacheIterator and cursor.                                    *)
(***************************************************************************)
chooseIterator(db, pend, forwards) ==
    CASE db = 0 /\ pend = 0 -> "none"
      [] db # 0 /\ pend = 0 -> "db"
      [] db = 0 /\ pend # 0 -> "pend"
      [] OTHER -> IF (forwards /\ db > pend) \/ (~forwards /\ db < pend) THEN "pend" ELSE "db"

NoCursor == [ldb |-> 0, cache |-> 0, inner |-> "none", at |-> "none"]

LdbKeys(i) == {k \in DOMAIN snap.ldb : k >= i.start /\ k < i.limit}
CacheKeys(i) == {k \in DOMAIN snap.cache : k >= i.start /\ k < i.limit}

Along(S, k, forwards) == IF forwards THEN Least({x \in S : x > k}) ELSE Greatest({x \in S : x < k})

(* dbCacheIterator: keys of LevelDB that the cache updates are skipped.    *)
CacheUpdates == snap.remove \cup DOMAIN snap.cache

InnerChosen(c, i, forwards) ==
    LET l == IF c.ldb = 0 \/ c.ldb \notin CacheUpdates THEN c.ldb
             ELSE Along(LdbKeys(i) \ CacheUpdates, c.ldb, forwards)
    IN  [c EXCEPT !.ldb = l, !.inner = chooseIterator(l, c.cache, forwards)]

InnerKey(c) == CASE c.inner = "none" -> 0 [] c.inner = "db" -> c.ldb [] OTHER -> c.cache

InnerStep(c, i, forwards) ==
    InnerChosen(IF c.inner = "db" THEN [c EXCEPT !.ldb = Along(LdbKeys(i), @, forwards)]
                ELSE [c EXCEPT !.cache = Along(CacheKeys(i), @, forwards)], i, forwards)

(* First, Last and Seek put both iterators at their own key.               *)
InnerAt(i, pick(_), forwards) ==
    InnerChosen([NoCursor EXCEPT !.ldb = pick(LdbKeys(i)), !.cache = pick(CacheKeys(i))], i, forwards)

PendKey(s, i) == IF i.node = nil THEN 0 ELSE s.h[i.node].key

(* skipPendingUpdates of the cursor, then the choice.                      *)
RECURSIVE Chosen(_, _, _, _)
Chosen(s, c, i, forwards) ==
    IF InnerKey(c) # 0 /\ InnerKey(c) \in s.removed \cup Pending(s)
    THEN Chosen(s, InnerStep(c, i, forwards), i, forwards)
    ELSE [c EXCEPT !.at = chooseIterator(InnerKey(c), PendKey(s, i), forwards)]

CursorKey(s, c, i) == CASE c.at = "none" -> 0 [] c.at = "db" -> InnerKey(c) [] OTHER -> PendKey(s, i)

(* The position (cursor, pending iterator) after each operation.           *)
At2(c, i) == [c |-> c, i |-> i]

CursorFirst(s, i) ==
    LET j == First(s.h, [i EXCEPT !.root = s.x.root])
    IN  At2(Chosen(s, InnerAt(i, Least, TRUE), j, TRUE), j)

CursorLast(s, i) ==
    LET j == LastOf(s.h, [i EXCEPT !.root = s.x.root])
    IN  At2(Chosen(s, InnerAt(i, Greatest, FALSE), j, FALSE), j)

CursorSeek(s, i, k) ==
    LET j == seek(s.h, [i EXCEPT !.isNew = FALSE, !.root = s.x.root], k, TRUE, TRUE)
        From(S) == Least({x \in S : x >= k})
    IN  At2(Chosen(s, InnerAt(i, From, TRUE), j, TRUE), j)

CursorStep(s, c, i, forwards) ==
    LET j == IF forwards THEN NextOf(s.h, i) ELSE PrevOf(s.h, i)
    IN  CASE c.at = "none" -> At2(c, i)
          [] c.at = "db" -> At2(Chosen(s, InnerStep(c, i, forwards), i, forwards), i)
          [] OTHER -> At2(Chosen(s, c, j, forwards), j)

(***************************************************************************)
(* DeleteBucket.                                                           *)
(***************************************************************************)
(* All keys that a cursor over the range visits are deleted, without       *)
(* telling the iterators; the values seen are collected.                   *)
RECURSIVE DeletedFrom(_, _, _)
DeletedFrom(s, at, seen) ==
    LET k == CursorKey(s, at.c, at.i)
        d == deleteKey(s, k)
    IN  IF k = 0 THEN [s |-> s, seen |-> seen]
        ELSE DeletedFrom(d, CursorStep(d, at.c, at.i, TRUE), Append(seen, fetchKey(s, k)))

RECURSIVE DeletedBuckets(_, _)
DeletedBuckets(s, childIDs) ==
    IF childIDs = <<>> THEN s
    ELSE LET b == Last(childIDs)
             keys == DeletedFrom(s, CursorFirst(s, keyRange(b)), <<>>)
             nested == DeletedFrom(keys.s, CursorFirst(keys.s, bucketRange(b)), <<>>)
         IN  DeletedBuckets(nested.s, Front(childIDs) \o nested.seen)

(***************************************************************************)
(* Actions.                                                                *)
(***************************************************************************)
Snapshots ==
    {[ldb |-> [k \in l |-> 1], cache |-> [k \in c |-> 1], remove |-> r] :
       l \in SUBSET {bucketizedKey(0, n) : n \in Names},
       c \in SUBSET {bucketizedKey(0, n) : n \in Names},
       r \in SUBSET {bucketizedKey(0, n) : n \in Names}}

DbkInit ==
    /\ kind \in Kinds
    /\ snap \in {s \in Snapshots : /\ s.remove \cap DOMAIN s.cache = {}
                                   /\ s.remove \subseteq DOMAIN s.ldb
                                   /\ kind = "buckets" => s.ldb = <<>> /\ s.cache = <<>>}
    /\ h = [n \in NodeIds |-> Free] /\ t = <<Nil>> /\ removed = {}
    /\ it = keyRange(0) /\ cur = NoCursor
    /\ lastID = 0
    /\ tree = [b \in BucketIDs |-> IF b = 0 THEN [keys |-> SnapKeys, nested |-> <<>>, live |-> TRUE]
                                   ELSE [keys |-> {}, nested |-> <<>>, live |-> FALSE]]
    /\ held = <<"none">> \* the direction the cursor moves in
    /\ ops = 0

Becomes(s) == h' = s.h /\ t' = <<s.x>> /\ removed' = s.removed

BPut(b, n, p) ==
    /\ tree[b].live /\ Tick /\ (kind = "cursor" => b = 0)
    /\ Becomes(putKey(State, bucketizedKey(b, n), 2, p))
    /\ it' = ForceReseek(it, t'[1].root)
    /\ tree' = [tree EXCEPT ![b].keys = @ \cup {bucketizedKey(b, n)}]
    /\ held' = <<"none">>
    /\ UNCHANGED <<kind, snap, cur, lastID>>

BDelete(b, n) ==
    /\ tree[b].live /\ Tick /\ kind = "buckets" /\ bucketizedKey(b, n) \in tree[b].keys
    /\ Becomes(deleteKey(State, bucketizedKey(b, n)))
    /\ it' = ForceReseek(it, t'[1].root)
    /\ tree' = [tree EXCEPT ![b].keys = @ \ {bucketizedKey(b, n)}]
    /\ UNCHANGED <<kind, snap, cur, lastID, held>>

nextBucketID == lastID + 1

(* CreateBucket fails when the name is taken.                              *)
CreateBucket(b, n, p) ==
    /\ kind = "buckets" /\ tree[b].live /\ Tick
    /\ ~hasKey(State, bucketIndexKey(b, n)) /\ lastID < MaxBuckets
    /\ lastID' = nextBucketID
    /\ Becomes(putKey(State, bucketIndexKey(b, n), lastID', p))
    /\ it' = ForceReseek(it, t'[1].root)
    /\ tree' = [tree EXCEPT ![b].nested = Held(@, n, lastID'),
                            ![lastID'] = [keys |-> {}, nested |-> <<>>, live |-> TRUE]]
    /\ UNCHANGED <<kind, snap, cur, held>>

(* The buckets below and including b.                                      *)
RECURSIVE Below(_)
Below(b) == {b} \cup UNION {Below(tree[b].nested[n]) : n \in DOMAIN tree[b].nested}

DeleteBucket(b, n) ==
    LET k == bucketIndexKey(b, n)
        child == fetchKey(State, k)
    IN  /\ kind = "buckets" /\ tree[b].live /\ hasKey(State, k) /\ Tick
        /\ Becomes(deleteKey(DeletedBuckets(State, <<child>>), k))
        /\ it' = ForceReseek(it, t'[1].root)
        /\ tree' = [d \in BucketIDs |->
             IF d \in Below(child) THEN [keys |-> {}, nested |-> <<>>, live |-> FALSE]
             ELSE IF d = b THEN [tree[d] EXCEPT !.nested = [m \in DOMAIN @ \ {n} |-> @[m]]]
             ELSE tree[d]]
        /\ UNCHANGED <<kind, snap, cur, lastID, held>>

(* The cursor.  Its key is compared with want, the next one in tree[0].    *)
CursorMoves(at, want, dir) ==
    /\ kind = "cursor" /\ Tick
    /\ cur' = at.c /\ it' = [at.i EXCEPT !.want = want] /\ held' = <<dir>>
    /\ UNCHANGED <<kind, h, t, snap, removed, lastID, tree>>

Here == CursorKey(State, cur, it)

(* Put somewhere else, the pending iterator still looks for its old key.   *)
Towards(dir) == IF it.seekKey # 0 THEN "placed" ELSE dir

CFirst == CursorMoves(CursorFirst(State, it), Least(tree[0].keys), Towards("forwards"))
CLast == CursorMoves(CursorLast(State, it), Greatest(tree[0].keys), Towards("backwards"))
CSeek(n) == CursorMoves(CursorSeek(State, it, bucketizedKey(0, n)),
                        Least({k \in tree[0].keys : k >= bucketizedKey(0, n)}), Towards("forwards"))
CNext == CursorMoves(CursorStep(State, cur, it, TRUE),
                     IF Here = 0 THEN 0 ELSE Least({k \in tree[0].keys : k > Here}),
                     IF held[1] = "forwards" THEN "forwards" ELSE "turned")
CPrev == CursorMoves(CursorStep(State, cur, it, FALSE),
                     IF Here = 0 THEN 0 ELSE Greatest({k \in tree[0].keys : k < Here}),
                     IF held[1] = "backwards" THEN "backwards" ELSE "turned")

(* Delete of the cursor, which may go on in the same direction.            *)
CDelete ==
    /\ kind = "cursor" /\ Here # 0 /\ Here \in tree[0].keys /\ Tick
    /\ Becomes(deleteKey(State, Here))
    /\ it' = ForceReseek(it, t'[1].root)
    /\ tree' = [tree EXCEPT ![0].keys = @ \ {Here}]
    /\ UNCHANGED <<kind, snap, cur, lastID, held>>

DbkNext ==
    \/ \E b \in BucketIDs, n \in Names, p \in Priorities : BPut(b, n, p)
    \/ \E b \in BucketIDs, n \in Names : BDelete(b, n)
    \/ \E b \in BucketIDs, n \in Names, p \in Priorities : CreateBucket(b, n, p)
    \/ \E b \in BucketIDs, n \in Names : DeleteBucket(b, n)
    \/ CFirst \/ CLast \/ CNext \/ CPrev \/ CDelete
    \/ \E n \in Names : CSeek(n)

DbkSpec == DbkInit /\ [][DbkNext]_dbkVars

(***************************************************************************)
(* Properties.                                                             *)
(***************************************************************************)
(* Under every bucket that exists a transaction finds exactly the keys and *)
(* the nested buckets it put there, whatever other buckets were deleted.   *)
BucketsExact ==
    \A b \in BucketIDs : tree[b].live =>
      /\ {k \in {bucketizedKey(b, n) : n \in Names} : hasKey(State, k)} = tree[b].keys
      /\ \A n \in Names : fetchKey(State, bucketIndexKey(b, n)) =
                            IF n \in DOMAIN tree[b].nested THEN tree[b].nested[n] ELSE 0

(* A cursor that goes on in one direction visits the keys of the three     *)
(* layers in order, each once and none that is deleted, also when the key  *)
(* it is at is deleted on the way.                                         *)
CursorVisits ==
    (cur' # cur \/ it' # it) /\ held'[1] \in {"forwards", "backwards", "placed"} /\ tree' = tree =>
      CursorKey(State, cur', it') = it'.want

CursorInOrder == [][CursorVisits]_dbkVars

=============================================================================
