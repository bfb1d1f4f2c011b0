---------------------------- MODULE AddrManager ----------------------------
(***************************************************************************)
(* The address manager (src/addrmgr): the index of known addresses, the    *)
(* buckets of new and of tried addresses with their reference counts and   *)
(* counters, the peers file, and the table of local addresses with the     *)
(* choice of the one to advertise.                                         *)
(*                                                                         *)
(* An address is a record: the type of its net.Addr ("v4", "v6", "tor2",   *)
(* "tor3"), the reserved or tunnelled block it lies in ("public" for       *)
(* none), its network group and a host number.  The two keyed hashes are   *)
(* the constant functions NewHash and TriedHash.  Time is a small counter  *)
(* and the thresholds of isBad are constants.                              *)
(***************************************************************************)
EXTENDS Integers, Sequences, FiniteSets, FiniteSetsExt, SequencesExt, Functions, TLC

CONSTANTS
    Topics,                \* "table" (known addresses) and "local" (own addresses)
    Addrs, Sources,        \* addresses heard of, and the peers that tell of them
    NewHash, TriedHash,    \* the keyed hashes of getNewBucket and getTriedBucket
    newBucketSize, triedBucketSize, newBucketsPerAddress,
    numMissing, numRetries, maxFailures, minBad,
    Futures,               \* the timestamps announced, relative to now
    Locals, Priorities,    \* own addresses and the priorities they are added with
    MaxTime, MaxAttempts, MaxCalls, MaxStarts, MaxFaults

VARIABLES topic, index, addrNew, addrTried, cnt, file, proc, now, local, used

amVars == <<topic, index, addrNew, addrTried, cnt, file, proc, now, local, used>>

NewBuckets == Range(NewHash)
TriedBuckets == Range(TriedHash)

-----------------------------------------------------------------------------
(* network.go: what kind of address it is                                  *)

IsTorV3(a) == a.type = "tor3"

\* ToLegacy: a torv2 address is turned into its OnionCat IPv6 form.
ToLegacy(a) == IF a.type = "tor2" THEN [a EXCEPT !.type = "v6", !.block = "onioncat"] ELSE a

IsIPv4(a) == ToLegacy(a).type = "v4"
IsOnionCatTor(a) == ToLegacy(a).block = "onioncat"

Tunnels == {"rfc3964", "rfc6052", "rfc6145"}

IsLocal(a) == ToLegacy(a).block \in {"loopback", "zero4"}

\* The blocks that IsRoutable excludes: the invalid addresses, the private,
\* documentation and benchmark ranges, and the unique local range outside OnionCat.
IsValid(a) == a.block \notin {"unspecified", "broadcast"}
Reserved == {"rfc1918", "rfc2544", "rfc3927", "rfc4862", "rfc3849", "rfc4843", "rfc7343",
             "rfc5737", "rfc6598", "loopback", "zero4", "zero6", "rfc4193"}

IsRoutable(a) == IsTorV3(a) \/ (IsValid(ToLegacy(a)) /\ ToLegacy(a).block \notin Reserved)

\* GroupKey: a tunnelled address has the group of the IPv4 address it carries,
\* and both kinds of onion address share the "tor" groups.
GroupKey(a) ==
    IF IsTorV3(a) THEN <<"tor", a.grp>>
    ELSE IF IsLocal(a) THEN <<"local", 0>>
    ELSE IF ~IsRoutable(a) THEN <<"unroutable", 0>>
    ELSE IF IsIPv4(a) \/ a.block \in Tunnels \cup {"rfc4380"} THEN <<"v4", a.grp>>
    ELSE IF IsOnionCatTor(a) THEN <<"tor", a.grp>>
    ELSE IF a.block = "he" THEN <<"v6/36", a.grp>>
    ELSE <<"v6/32", a.grp>>

getNewBucket(a, src) == NewHash[<<GroupKey(a), GroupKey(src)>>]
getTriedBucket(a) == TriedHash[a]

-----------------------------------------------------------------------------
(* The known addresses.  One record holds index, buckets and counters, so   *)
(* that the helpers of a call can be applied one after the other.           *)

Tables == [ix |-> index, nb |-> addrNew, tb |-> addrTried, c |-> cnt]

Keep(t) == index' = t.ix /\ addrNew' = t.nb /\ addrTried' = t.tb /\ cnt' = t.c

Empty == [ix |-> <<>>, nb |-> [b \in NewBuckets |-> {}], tb |-> [b \in TriedBuckets |-> <<>>],
          c |-> [nNew |-> 0, nTried |-> 0]]

\* KnownAddress.isBad
isBad(ka) ==
    /\ ka.attempt # now
    /\ \/ ka.ts > now + 1
       \/ ka.ts < now - numMissing
       \/ ka.success = 0 /\ ka.attempts >= numRetries
       \/ ka.success <= now - minBad /\ ka.attempts >= maxFailures

Unref_KeepsIndex(t, b, k) == [t EXCEPT !.nb[b] = @ \ {k}, !.ix[k].refs = @ - 1]
\* One entry leaves a new bucket, and the index with its last reference.
Unref(t, b, k) ==
    LET left == t.ix[k].refs - 1
    IN  [t EXCEPT !.nb[b] = @ \ {k},
                  !.ix = IF left = 0 THEN Restrict(@, DOMAIN @ \ {k})
                                     ELSE [@ EXCEPT ![k].refs = left],
                  !.c.nNew = IF left = 0 THEN @ - 1 ELSE @]


\* The entries of a bucket are visited in map order: of the oldest ones any may go.
Oldest(t, ks) == {k \in ks : \A j \in ks : t.ix[k].ts <= t.ix[j].ts}

expireNew(t, b) ==
    LET bad == {k \in t.nb[b] : isBad(t.ix[k])}
        cleaned == FoldSet(LAMBDA k, u : Unref(u, b, k), t, bad)
    IN  IF t.nb[b] = bad THEN {cleaned}
        ELSE {Unref(cleaned, b, k) : k \in Oldest(t, t.nb[b] \ bad)}

Entry(src, ts) ==
    [src |-> src, ts |-> ts, attempts |-> 0, attempt |-> -1, success |-> 0,
     tried |-> FALSE, refs |-> 0]

Placed(t, a, b) == [t EXCEPT !.ix[a].refs = @ + 1, !.nb[b] = @ \cup {a}]

\* The end of updateAddress: into the bucket of the address and its source.
IntoBucket(t, a, src) ==
    LET b == getNewBucket(a, src)
    IN  IF a \in t.nb[b] THEN {t}
        ELSE IF Cardinality(t.nb[b]) > newBucketSize
        THEN {Placed(u, a, b) : u \in expireNew(t, b)}
        ELSE {Placed(t, a, b)}

Seen(t, a, ts) == [t EXCEPT !.ix[a].ts = IF ts > @ THEN ts ELSE @]

\* updateAddress; luck is the draw of rand.Int31n(2 * refs).
updateAddress(t, a, src, ts, luck) ==
    IF ~IsRoutable(a) THEN {t}
    ELSE IF a \notin DOMAIN t.ix
    THEN IntoBucket([t EXCEPT !.ix = (a :> Entry(src, ts)) @@ @, !.c.nNew = @ + 1], a, src)
    ELSE IF t.ix[a].tried \/ t.ix[a].refs = newBucketsPerAddress \/ ~luck
    THEN {Seen(t, a, ts)}
    ELSE IntoBucket(Seen(t, a, ts), a, src)

\* pickTried: the first of the oldest.
pickTried(t, b) ==
    CHOOSE i \in DOMAIN t.tb[b] :
        /\ t.tb[b][i] \in Oldest(t, Range(t.tb[b]))
        /\ \A j \in 1..(i - 1) : t.tb[b][j] \notin Oldest(t, Range(t.tb[b]))

\* The bucket the displaced address returns to: its own, or if that is full one
\* that the address now tried has just left.
ReturnBucket(t, rm, old) ==
    LET own == getNewBucket(rm, t.ix[rm].src)
    IN  IF Cardinality(t.nb[own]) >= newBucketSize THEN old ELSE own

Displaced(t, rm, b) ==
    [t EXCEPT !.ix[rm].tried = FALSE, !.ix[rm].refs = @ + 1,
              !.nb[b] = @ \cup {rm}, !.c.nNew = @ + 1]


\* Good, once the address is known not to be in tried: first is the lowest of the
\* new buckets it was in.
ToTried(t, a, first) ==
    LET out == [t EXCEPT !.nb = [b \in NewBuckets |-> @[b] \ {a}], !.c.nNew = @ - 1,
                         !.ix[a].refs = @ - Cardinality({b \in NewBuckets : a \in t.nb[b]})]
        b == getTriedBucket(a)
        i == pickTried(out, b)
        rm == out.tb[b][i]
        in == [out EXCEPT !.ix[a].tried = TRUE]
    IN  IF Len(out.tb[b]) < triedBucketSize
        THEN [in EXCEPT !.tb[b] = Append(@, a), !.c.nTried = @ + 1]
        ELSE Displaced([in EXCEPT !.tb[b][i] = a], rm, ReturnBucket(out, rm, first))

-----------------------------------------------------------------------------
(* The calls, each under a.mtx                                             *)

Running == topic = "table" /\ proc \in {"up", "stopping"} /\ used.calls < MaxCalls
Called == used' = [used EXCEPT !.calls = @ + 1]
TableRest == UNCHANGED <<topic, file, proc, now, local>>

AddAddress(a, src, f, luck) ==
    /\ Running
    /\ \E t \in updateAddress(Tables, a, src, now + f, luck) : Keep(t)
    /\ Called /\ TableRest

Attempt(a) ==
    /\ Running /\ a \in DOMAIN index /\ index[a].attempts < MaxAttempts
    /\ index' = [index EXCEPT ![a].attempts = @ + 1, ![a].attempt = now]
    /\ Called /\ TableRest /\ UNCHANGED <<addrNew, addrTried, cnt>>

\* Connected updates the time seen, at most once in a while.
Connected(a) ==
    /\ Running /\ a \in DOMAIN index /\ now > index[a].ts
    /\ index' = [index EXCEPT ![a].ts = now]
    /\ Called /\ TableRest /\ UNCHANGED <<addrNew, addrTried, cnt>>

Good(a) ==
    /\ Running /\ a \in DOMAIN index
    /\ LET in == {b \in NewBuckets : a \in addrNew[b]}
           ka == [index[a] EXCEPT !.success = now + 1, !.attempt = now, !.attempts = 0]
           t == [Tables EXCEPT !.ix[a] = ka]
       IN  \/ index[a].tried /\ Keep(t)
           \/ ~index[a].tried /\ in # {} /\ Keep(ToTried(t, a, Min(in)))
           \/ ~index[a].tried /\ in = {} /\ Keep([t EXCEPT !.c.nNew = @ - 1])
    /\ Called /\ TableRest

\* GetAddress draws from the tried or the new buckets until it meets an address:
\* when the counter says there is one and the buckets are empty, it never returns.
GetAddress ==
    /\ Running /\ cnt.nTried + cnt.nNew > 0
    /\ \E tried \in BOOLEAN :
        /\ IF tried THEN cnt.nTried > 0 ELSE (cnt.nTried = 0 \/ cnt.nNew > 0)
        /\ ~\E k \in DOMAIN index : index[k].tried = tried
    /\ proc' = "hung"
    /\ UNCHANGED <<topic, index, addrNew, addrTried, cnt, file, now, local, used>>

Tick == /\ topic = "table" /\ now < MaxTime /\ now' = now + 1
        /\ UNCHANGED <<topic, index, addrNew, addrTried, cnt, file, proc, local, used>>

-----------------------------------------------------------------------------
(* The peers file                                                          *)

Saved == [kind |-> "whole", ix |-> index, nb |-> addrNew, tb |-> addrTried]

\* addressHandler saves on its ticker, and once more when it is told to quit.
savePeers ==
    /\ topic = "table" /\ proc \in {"up", "stopping"} /\ file # Saved
    /\ file' = Saved
    /\ UNCHANGED <<topic, index, addrNew, addrTried, cnt, proc, now, local, used>>

Stop == /\ topic = "table" /\ proc = "up" /\ proc' = "stopping"
        /\ UNCHANGED <<topic, index, addrNew, addrTried, cnt, file, now, local, used>>

Exit == /\ topic = "table" /\ proc = "stopping" /\ used.starts < MaxStarts
        /\ proc' = "down" /\ file' = Saved /\ Keep(Empty)
        /\ UNCHANGED <<topic, now, local, used>>

\* The process dies, perhaps after os.Create has truncated the file and before
\* it is written.
Crash ==
    /\ topic = "table" /\ proc \in {"up", "stopping"} /\ used.starts < MaxStarts
    /\ proc' = "down" /\ Keep(Empty)
    /\ file' \in {file, [kind |-> "torn"]}
    /\ UNCHANGED <<topic, now, local, used>>

\* A file that decodes but lists an address only in a bucket.
Damaged ==
    /\ topic = "table" /\ proc = "down" /\ file.kind = "whole" /\ used.faults < MaxFaults
    /\ \E k \in DOMAIN file.ix :
        file' = [file EXCEPT !.ix = Restrict(@, DOMAIN @ \ {k})]
    /\ used' = [used EXCEPT !.faults = @ + 1]
    /\ UNCHANGED <<topic, index, addrNew, addrTried, cnt, proc, now, local>>

InBuckets(d) == UNION Range(d.nb) \cup UNION {Range(q) : q \in Range(d.tb)}

\* deserializePeers recomputes the references, the tried marks and the counters.
\* The times seen are not restored: every address is seen now.
Loaded(d) ==
    LET refs(k) == Cardinality({b \in NewBuckets : k \in d.nb[b]})
        tried == UNION {Range(q) : q \in Range(d.tb)}
    IN  [ix |-> [k \in DOMAIN d.ix |-> [d.ix[k] EXCEPT !.refs = refs(k), !.tried = k \in tried,
                                                       !.ts = now]],
         nb |-> d.nb, tb |-> d.tb,
         c |-> [nNew |-> Cardinality({k \in DOMAIN d.ix : refs(k) > 0}),
                nTried |-> FoldSet(LAMBDA b, n : n + Len(d.tb[b]), 0, TriedBuckets)]]


\* The sanity checks at the end of deserializePeers.
Sane(t) == \A k \in DOMAIN t.ix : (t.ix[k].refs > 0) # t.ix[k].tried

\* deserializePeers gives up at the first entry that the address list lacks;
\* the counters then hold what was counted so far.
CountedSoFar(d) ==
    LET known == DOMAIN d.ix
        newBad == {b \in NewBuckets : ~(d.nb[b] \subseteq known)}
        earlier == UNION {d.nb[b] : b \in {c \in NewBuckets : \A x \in newBad : c < x}}
        triedBad == {b \in TriedBuckets : ~(Range(d.tb[b]) \subseteq known)}
        row == d.tb[Min(triedBad)]
    IN  IF newBad # {}
        THEN {[nNew |-> Cardinality(earlier \cup some), nTried |-> 0] :
                some \in SUBSET (d.nb[Min(newBad)] \cap known)}
        ELSE {[nNew |-> Cardinality(earlier),
               nTried |-> FoldSet(LAMBDA b, n : n + Len(d.tb[b]),
                                  Min({i \in DOMAIN row : row[i] \notin known}) - 1,
                                  {b \in TriedBuckets : b < Min(triedBad)})]}

\* reset empties the index and the buckets, and leaves the counters.
reset(c) == [Empty EXCEPT !.c = c]

\* Start: loadPeers, then the handler.  A file that cannot be used is removed.
Start ==
    /\ topic = "table" /\ proc = "down" /\ proc' = "up"
    /\ used' = [used EXCEPT !.starts = @ + 1]
    /\ \/ file.kind = "none" /\ Keep(Empty) /\ UNCHANGED file
       \/ file.kind = "torn" /\ Keep(reset(Empty.c)) /\ file' = [kind |-> "none"]
       \/ /\ file.kind = "whole" /\ ~(InBuckets(file) \subseteq DOMAIN file.ix)
          /\ \E c \in CountedSoFar(file) : Keep(reset(c))
          /\ file' = [kind |-> "none"]
       \/ /\ file.kind = "whole" /\ InBuckets(file) \subseteq DOMAIN file.ix
          /\ LET t == Loaded(file)
             IN  IF Sane(t) THEN Keep(t) /\ UNCHANGED file
                            ELSE Keep(reset(t.c)) /\ file' = [kind |-> "none"]
    /\ UNCHANGED <<topic, now, local>>

-----------------------------------------------------------------------------
(* The own addresses                                                       *)

\* AddLocalAddress: seen again with a higher priority, the score goes one above it.
Scored(a, prio) ==
    IF a \notin DOMAIN local THEN (a :> prio) @@ local
    ELSE IF local[a] < prio THEN [local EXCEPT ![a] = prio + 1]
    ELSE local

AddLocalAddress(a, prio) ==
    /\ topic = "local" /\ IsRoutable(a)
    /\ local' = Scored(a, prio)
    /\ UNCHANGED <<topic, index, addrNew, addrTried, cnt, file, proc, now, used>>

Unreachable == 0
Default == 1
Teredo == 2
Ipv6Weak == 3
Ipv4 == 4
Ipv6Strong == 5
Private == 6

PlainIPv4(a) == ~IsTorV3(a) /\ IsRoutable(a) /\ IsIPv4(a)

ToOnion(l, version) ==
    IF version THEN Private ELSE IF PlainIPv4(l) THEN Ipv4 ELSE Default

ToTeredo(l) ==
    IF ~IsRoutable(l) THEN Default
    ELSE IF l.block = "rfc4380" THEN Teredo
    ELSE IF IsIPv4(l) THEN Ipv4
    ELSE Ipv6Weak

ToIPv6(l) ==
    IF ~IsRoutable(l) THEN Default
    ELSE IF l.block = "rfc4380" THEN Teredo
    ELSE IF IsIPv4(l) THEN Ipv4
    ELSE IF l.block \in Tunnels THEN Ipv6Weak
    ELSE Ipv6Strong

getReachabilityFrom(l, r) ==
    IF ~IsRoutable(r) THEN Unreachable
    ELSE IF IsTorV3(r) THEN (IF IsOnionCatTor(l) THEN Unreachable ELSE ToOnion(l, IsTorV3(l)))
    ELSE IF IsTorV3(l) THEN Default
    ELSE IF IsOnionCatTor(r) THEN ToOnion(l, IsOnionCatTor(l))
    ELSE IF r.block = "rfc4380" THEN ToTeredo(l)
    ELSE IF IsIPv4(r) THEN (IF PlainIPv4(l) THEN Ipv4 ELSE Unreachable)
    ELSE ToIPv6(l)

NoAddress == [type |-> "none"]

\* One round of the loop of GetBestLocalAddress, over the addresses in any order.
Better(best, l, r) ==
    LET reach == getReachabilityFrom(l, r)
    IN  IF reach > best.reach \/ (reach = best.reach /\ local[l] > best.score)
        THEN [reach |-> reach, score |-> local[l], addr |-> l] ELSE best


GetBestLocalAddress(order, r) ==
    FoldLeft(LAMBDA best, l : Better(best, l, r),
             [reach |-> 0, score |-> 0, addr |-> NoAddress], order)

-----------------------------------------------------------------------------
AmInit ==
    /\ topic \in Topics
    /\ index = <<>> /\ addrNew = Empty.nb /\ addrTried = Empty.tb /\ cnt = Empty.c
    /\ file = [kind |-> "none"] /\ proc = "down" /\ now = 0 /\ local = <<>>
    /\ used = [calls |-> 0, starts |-> 0, faults |-> 0]

AmNext ==
    \/ \E a \in Addrs, src \in Sources, f \in Futures, luck \in BOOLEAN :
           AddAddress(a, src, f, luck)
    \/ \E a \in Addrs : Attempt(a) \/ Connected(a) \/ Good(a)
    \/ GetAddress \/ Tick \/ savePeers \/ Stop \/ Exit \/ Crash \/ Damaged \/ Start
    \/ \E a \in Locals, prio \in Priorities : AddLocalAddress(a, prio)

AmSpec == AmInit /\ [][AmNext]_amVars

-----------------------------------------------------------------------------
(* Properties                                                              *)

TriedOnce(k) == Cardinality({<<b, i>> \in TriedBuckets \X (1..triedBucketSize) :
                                i \in DOMAIN addrTried[b] /\ addrTried[b][i] = k})

\* However addresses are announced, dialled, found good, displaced and expired, and
\* over any crash and restart: an address is in the index exactly while it is in
\* buckets, in new ones or once in a tried one and never in both; its reference
\* count is the number of its new buckets, so that the draw of updateAddress always
\* has a range; no bucket outgrows its limit (a new bucket by one); and, unless the
\* file was damaged, the counters are the sizes of the tables, so that GetAddress
\* always finds the address it was promised.
AddressTablesExact ==
    /\ InBuckets(Tables) = DOMAIN index
    /\ \A k \in DOMAIN index :
        /\ index[k].refs = Cardinality({b \in NewBuckets : k \in addrNew[b]})
        /\ index[k].refs <= newBucketsPerAddress
        /\ TriedOnce(k) = (IF index[k].tried THEN 1 ELSE 0)
        /\ (index[k].refs > 0) # index[k].tried
    /\ \A b \in NewBuckets : Cardinality(addrNew[b]) <= newBucketSize + 1
    /\ \A b \in TriedBuckets : Len(addrTried[b]) <= triedBucketSize
    /\ used.faults = 0 =>
        /\ proc # "hung"
        /\ cnt.nNew = Cardinality({k \in DOMAIN index : ~index[k].tried})
        /\ cnt.nTried = Cardinality({k \in DOMAIN index : index[k].tried})

\* The address advertised to a remote peer does not depend on the order in which the
\* map of own addresses is walked, except between equals: when some own address can
\* be reached from there, none is more reachable than the one chosen, and none that
\* is as reachable has a higher score.
BestLocalChosen ==
    topic = "local" =>
    \A r \in Addrs, order \in SetToSeqs(DOMAIN local) :
        LET best == GetBestLocalAddress(order, r)
        IN  (\E l \in DOMAIN local : getReachabilityFrom(l, r) # Unreachable) =>
            /\ best.addr \in DOMAIN local
            /\ \A l \in DOMAIN local :
                /\ getReachabilityFrom(l, r) <= getReachabilityFrom(best.addr, r)
                /\ getReachabilityFrom(l, r) = getReachabilityFrom(best.addr, r)
                       => local[l] <= local[best.addr]
====
