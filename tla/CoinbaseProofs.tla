--------------------------- MODULE CoinbaseProofs ---------------------------
(***************************************************************************)
(* Claims and airdrops from the raw proof to the connected block: the      *)
(* conversion of a relayed proof (blockchain/proofrelay.go, server.go,     *)
(* rpcserver.go), its admission to the proof pool (mempool/mempool.go),    *)
(* the block check that conjures its value (claimproof.go, airdropproof.go)*)
(* and the spent field of airdrops (airdropstate.go).                      *)
(*                                                                         *)
(* Topic "trust" examines single ownership proofs; topic "chain" runs the  *)
(* pool and a chain.  The rules of names that a claim must also meet are   *)
(* those of NameChain.  Connecting a block includes the notification that  *)
(* removes mined proofs and prunes stale ones; the interleaving of that    *)
(* notification is TxPool's.  Hashes are terms: a leaf, a node of two      *)
(* hashes, the sentinel of a missing leaf.                                 *)
(***************************************************************************)
EXTENDS Integers, Sequences, FiniteSets, SequencesExt, FiniteSetsExt, Functions

(***************************************************************************)
(* The DNSSEC ownership proof that claims a reserved name                  *)
(* (blockchain/claimproof.go, claimdnssec.go).  A proof is a sequence of   *)
(* zones from the root down; a zone is [keys, referral, claim], each a     *)
(* sequence of records:                                                    *)
(*   [t |-> "key", owner, tag, alg, revoked, pub, bits]                    *)
(*   [t |-> "ds", owner, tag, alg, dtype, digest]                          *)
(*   [t |-> "txt", owner, data]                                            *)
(*   [t |-> "sig", owner, covered, alg, labels, signer, tag, inception,    *)
(*    expiration, by, over]                                                *)
(* A domain name is the sequence of its labels from the root, so a child   *)
(* extends its parent by one.  A signature verifies under the key that     *)
(* made it (by) over exactly the set it signed (over); a digest is the key *)
(* it digests.                                                             *)
(***************************************************************************)
CONSTANTS Reserved,          \* reserved name -> [target, value]
          RootAnchor,        \* ownershipRootAnchor, a "ds" record
          NoData             \* claimData's error

strongRSAKeyBits == 2041
minOwnershipRSAKeyBits == 1017
maxOwnershipRSAKeyBits == 4096
RSAAlgorithms == {"rsasha1", "rsasha1nsec3", "rsasha256", "rsasha512"}
SHA1Algorithms == {"rsasha1", "rsasha1nsec3"}
isValidDNSSECAlgorithm(alg) ==
    alg \in RSAAlgorithms \cup {"p256", "p384", "ed25519", "ed448"}

Of(rrs, type) == SelectSeq(rrs, LAMBDA rr : rr.t = type)

(***************************************************************************)
(* Parsing: a section holds records of its own type and signatures over    *)
(* that type.                                                              *)
(***************************************************************************)
readOwnershipRR(rr, expect) == rr.t = expect \/ (rr.t = "sig" /\ rr.covered = expect)
readOwnershipZone(z) ==
    /\ \A i \in DOMAIN z.keys : readOwnershipRR(z.keys[i], "key")
    /\ \A i \in DOMAIN z.referral : readOwnershipRR(z.referral[i], "ds")
    /\ \A i \in DOMAIN z.claim : readOwnershipRR(z.claim[i], "txt")
parseOwnershipProof(p) == \A i \in DOMAIN p : readOwnershipZone(p[i])

(***************************************************************************)
(* Sanity: the zones descend one label at a time, each section has one     *)
(* signature of the right shape.                                           *)
(***************************************************************************)
isDNSChild(parent, child) == Len(child) = Len(parent) + 1 /\ IsPrefix(parent, child)

SaneSig(sig, signer, covered, labels) ==
    /\ sig.covered = covered
    /\ isValidDNSSECAlgorithm(sig.alg)
    /\ sig.labels = labels
    /\ sig.signer = signer

saneSignedSet(rrs, name, signer, covered, labels) ==
    LET sigs == Of(rrs, "sig")
    IN  /\ \A i \in DOMAIN rrs : /\ rrs[i].owner = name
                                 /\ rrs[i].t \in {"sig", covered}
        /\ Len(sigs) = 1
        /\ SaneSig(sigs[1], signer, covered, labels)

ZoneName(z) == z.keys[1].owner

ZoneIsSane(z, isLast) ==
    /\ z.keys # <<>>
    /\ IF isLast THEN z.referral = <<>> /\ z.claim # <<>>
       ELSE z.referral # <<>> /\ z.claim = <<>>
    /\ LET name == ZoneName(z)
       IN  /\ saneSignedSet(z.keys, name, name, "key", Len(name))
           /\ z.claim # <<>> => saneSignedSet(z.claim, name, name, "txt", Len(name))
           /\ z.referral # <<>> =>
                LET dsName == z.referral[1].owner
                IN  /\ isDNSChild(name, dsName)
                    /\ saneSignedSet(z.referral, dsName, name, "ds", Len(dsName))

isSane(p) ==
    /\ Len(p) >= 2
    /\ \A i \in DOMAIN p : ZoneIsSane(p[i], i = Len(p))
    /\ ZoneName(p[1]) = <<>>
    /\ \A i \in 2..Len(p) : isDNSChild(ZoneName(p[i - 1]), ZoneName(p[i]))

(***************************************************************************)
(* The window in which every signature is valid.                           *)
(***************************************************************************)
records(p) ==
    FlattenSeq([i \in DOMAIN p |-> p[i].keys \o p[i].referral \o p[i].claim])

window(p) ==
    LET sigs  == ToSet(Of(records(p), "sig"))
        start == Max({s.inception : s \in sigs})
        end   == Min({s.expiration : s \in sigs})
    IN  IF sigs = {} \/ start > end THEN <<0, 0>> ELSE <<start, end>>

verifyTimes(p, time) ==
    Len(p) >= 2 /\ time >= window(p)[1] /\ time <= window(p)[2]

(***************************************************************************)
(* Keys.  The first unrevoked key with a signature's tag is its key.       *)
(***************************************************************************)
Revoked_Never(key) == FALSE
Revoked(key) == key.revoked

findProofKeys(rrs, tag) ==
    SelectSeq(Of(rrs, "key"), LAMBDA k : k.tag = tag /\ ~Revoked(k))
\* nil when there is none
findProofKey(rrs, tag) ==
    LET found == findProofKeys(rrs, tag)
    IN  IF found = <<>> THEN {} ELSE {found[1]}

extractProofKey(rrs, keys) ==
    LET sigs == Of(rrs, "sig")
    IN  IF sigs = <<>> THEN {} ELSE findProofKey(keys, sigs[1].tag)

isWeakRSAKey(key) == key.alg \in RSAAlgorithms /\ key.bits < strongRSAKeyBits
body(z) == IF z.referral # <<>> THEN z.referral ELSE z.claim
isWeak(p) ==
    \E i \in DOMAIN p :
       \E key \in extractProofKey(p[i].keys, p[i].keys)
                    \cup extractProofKey(body(p[i]), p[i].keys) : isWeakRSAKey(key)

(***************************************************************************)
(* Signatures: the chain of trust from the root anchor.                    *)
(***************************************************************************)
ownershipDS(key, dtype) == <<key.owner, key.pub, key.alg, dtype>>
SignatureVerifies(sig, key, rrset) == sig.by = key.pub /\ sig.over = ToSet(rrset)

verifyOwnershipSignature(sig, key, rrset) ==
    /\ isValidDNSSECAlgorithm(key.alg) /\ key.alg \notin SHA1Algorithms
    /\ sig.tag = key.tag /\ sig.alg = key.alg /\ sig.signer = key.owner
    /\ \A i \in DOMAIN rrset : rrset[i].t = sig.covered /\ rrset[i].owner = rrset[1].owner
    /\ key.alg \in RSAAlgorithms =>
         key.bits \in minOwnershipRSAKeyBits..maxOwnershipRSAKeyBits
    /\ SignatureVerifies(sig, key, rrset)

\* A set of records with its (last) signature, or nothing to verify.
splitOwnershipSet(rrs) ==
    LET sigs  == Of(rrs, "sig")
        rrset == SelectSeq(rrs, LAMBDA rr : rr.t # "sig")
    IN  IF sigs = <<>> \/ rrset = <<>> THEN {}
        ELSE {[sig |-> Last(sigs), rrset |-> rrset]}

\* The keys a DS record may name, one per tag: the signing key and, for RSA,
\* the first of its SHA-1 twins with that tag.
Twins(ksk, keys) ==
    LET twins == SelectSeq(Of(keys, "key"),
                   LAMBDA k : /\ ksk.alg \in {"rsasha256", "rsasha512"}
                              /\ k.alg \in SHA1Algorithms /\ ~k.revoked
                              /\ k.pub = ksk.pub /\ k.tag # ksk.tag)
    IN  {twins[i] : i \in {j \in DOMAIN twins :
                             \A l \in 1..(j - 1) : twins[l].tag # twins[j].tag}}

DigestAllowed(ds) == ds.dtype # "sha1"

verifyOwnershipChain(ksk, keys, dsSet) ==
    \E ds \in dsSet, key \in {ksk} \cup Twins(ksk, keys) :
       /\ DigestAllowed(ds)
       /\ ds.tag = key.tag /\ ds.alg = key.alg
       /\ ds.digest = ownershipDS(key, ds.dtype)

verifyOwnershipKeys(keys, dsSet) ==
    \E set \in splitOwnershipSet(keys) :
       \E ksk \in findProofKey(keys, set.sig.tag) :
          /\ verifyOwnershipChain(ksk, keys, dsSet)
          /\ verifyOwnershipSignature(set.sig, ksk, set.rrset)

verifyOwnershipRecords(rrs, keys) ==
    \E set \in splitOwnershipSet(rrs) :
       \E key \in findProofKey(keys, set.sig.tag) :
          verifyOwnershipSignature(set.sig, key, set.rrset)

verifySignatures(p) ==
    LET DSFor(i) == IF i = 1 THEN {RootAnchor} ELSE ToSet(Of(p[i - 1].referral, "ds"))
    IN  /\ Len(p) >= 2
        /\ \A i \in DOMAIN p :
             /\ verifyOwnershipKeys(p[i].keys, DSFor(i))
             /\ verifyOwnershipRecords(IF i = Len(p) THEN p[i].claim ELSE p[i].referral,
                                       p[i].keys)

(***************************************************************************)
(* What the proof claims: the first TXT record with the network's prefix.  *)
(***************************************************************************)
target(p) == Last(p).claim[1].owner
name(p) == Last(target(p))

claimData(p) ==
    LET txts  == SelectSeq(Of(Last(p).claim, "txt"), LAMBDA rr : rr.data.prefix)
        pay   == txts[1].data
        label == name(p)
        span  == window(p)
    IN  IF \/ Len(p) < 2 \/ Last(p).claim = <<>> \/ txts = <<>>
           \/ ~pay.decodes
           \/ label \notin DOMAIN Reserved
           \/ target(p) # Reserved[label].target
           \/ pay.fee > Reserved[label].value
           \/ span = <<0, 0>>
        THEN NoData
        ELSE [name |-> label, weak |-> isWeak(p), value |-> Reserved[label].value,
              fee |-> pay.fee, address |-> pay.address,
              commit |-> pay.commit, commitHeight |-> pay.commitHeight,
              inception |-> span[1], expiration |-> span[2]]

(***************************************************************************)
(* What the chain of trust must amount to, said of who signed what.  A     *)
(* public key speaks for a zone when an unrevoked key record of that zone  *)
(* holds it.                                                               *)
(***************************************************************************)
SpeaksFor(pub, z) ==
    \E k \in ToSet(Of(z.keys, "key")) : k.pub = pub /\ ~k.revoked
SignedBy(rrs, pub) ==
    \E s \in ToSet(Of(rrs, "sig")) :
       s.by = pub /\ s.over = {rr \in ToSet(rrs) : rr.t # "sig"}
\* The parent (or the anchor) names the public key in a digest not made with
\* SHA-1.
Delegated(dsSet, owner, pub) ==
    \E ds \in dsSet, alg \in RSAAlgorithms \cup {"p256", "p384", "ed25519", "ed448"} :
       ds.dtype # "sha1" /\ ds.digest = <<owner, pub, alg, ds.dtype>>

\* Whoever vouches for the claim can be traced to the root anchor: each
\* zone's key set is signed by a key its parent delegated to, and each
\* delegation, and the claim, by a key of its zone.
Vouched(p, pubs) ==
    \A i \in DOMAIN p :
       /\ \E pub \in pubs :
            /\ SpeaksFor(pub, p[i]) /\ SignedBy(p[i].keys, pub)
            /\ Delegated(IF i = 1 THEN {RootAnchor} ELSE ToSet(Of(p[i - 1].referral, "ds")),
                         ZoneName(p[i]), pub)
       /\ \E pub \in pubs : SpeaksFor(pub, p[i]) /\ SignedBy(body(p[i]), pub)

-----------------------------------------------------------------------------
CONSTANTS Topics,                \* subset of {"trust", "chain"}
          TrustProofs,           \* sequence of sets of ownership proofs
          RawProofs,             \* the raw proofs that circulate
          airdropLeaves, airdropSubLeaves, airdropDepth, airdropSubDepth,
          faucetLeaves, faucetDepth,
          AirdropKey,            \* leaf -> subleaf -> key
          FaucetKey,             \* leaf -> key
          airdropReward, airdropSponsorFee, airdropRecipientFee,
          AirdropGooSigStop, AirstopHeight, HardeningHeight,
          NameClaimPeriod, NameDeflationHeight, DeflationFee,
          MaxDoo, MaxHeight, MaxTime, MaxMoves

VARIABLES topic, subject,        \* "trust": the proof examined
          chain,                 \* connected blocks [time, proofs]
          spent,                 \* the spent field: set of <<byte, mask bit>>
          pool,                  \* pooled proofs with their policy
          converted,             \* a raw proof converted, not yet admitted
          moves
cpVars == <<topic, subject, chain, spent, pool, converted, moves>>

Height == Len(chain)             \* genesis has height 0
NextHeight == Height + 1
TipTime == IF chain = <<>> THEN 1 ELSE Last(chain).time
\* The median of the last three timestamps stands for that of eleven.
MedianTime ==
    LET times == <<1, 1>> \o [i \in DOMAIN chain |-> chain[i].time]
        last3 == IF Len(times) < 3 THEN <<1>> \o times
                 ELSE SubSeq(times, Len(times) - 2, Len(times))
    IN  CHOOSE t \in ToSet(last3) :
          /\ Cardinality({i \in 1..3 : last3[i] < t}) <= 1
          /\ Cardinality({i \in 1..3 : last3[i] > t}) <= 1
airstopActive(h) == h >= AirstopHeight
hardeningActive(h) == h >= HardeningHeight

(***************************************************************************)
(* Airdrop proofs: [kind |-> "airdrop", index, path, subindex, subpath,    *)
(* key, version, address, fee, signature].  A key is [type, id, bits] or,  *)
(* for the faucet, [type |-> "address", id, address, value, sponsor].      *)
(***************************************************************************)
isAddress(r) == r.key.type = "address"
KeyIsWeak(key) == key.type = "rsa" /\ key.bits < strongRSAKeyBits
AirdropValue(r) == IF isAddress(r) THEN r.key.value ELSE airdropReward

parseAirdropProof(r) ==
    /\ r.index < airdropLeaves /\ Len(r.path) <= airdropDepth
    /\ r.subindex < airdropSubLeaves /\ Len(r.subpath) <= airdropSubDepth

AirdropIsSane(r) ==
    /\ AirdropValue(r) <= MaxDoo /\ r.fee <= AirdropValue(r)
    /\ isAddress(r) => /\ r.subpath = <<>> /\ r.subindex = 0
                       /\ Len(r.path) <= faucetDepth /\ r.index < faucetLeaves

position(r) == IF isAddress(r) THEN r.index + airdropLeaves ELSE r.index

airdropHashLeaf(id) == <<"leaf", id>>
airdropHashInternal(l, r) == <<"node", l, r>>
Sentinel == <<"sentinel">>
ZeroHash == <<"zero">>

\* Climb from a leaf along its path; every bit of the index must be used up.
deriveAirdropMerkleRoot(leaf, path, index) ==
    LET Climb[k \in 0..Len(path)] ==
          IF k = 0 THEN leaf
          ELSE LET below == Climb[k - 1]
                   odd   == (index \div (2 ^ (k - 1))) % 2 = 1
               IN  CASE below = ZeroHash \/ (odd /\ path[k] = Sentinel) -> ZeroHash
                     [] odd -> airdropHashInternal(path[k], below)
                     [] OTHER -> airdropHashInternal(below, path[k])
    IN  IF index \div (2 ^ Len(path)) = 0 THEN Climb[Len(path)] ELSE ZeroHash

\* How the published trees were built: missing leaves are the sentinel.
TreeLevel(leaves, depth) ==
    LET At[d \in 0..depth, i \in 0..(2 ^ depth)] ==
          IF d = 0 THEN IF i < Len(leaves) THEN leaves[i + 1] ELSE Sentinel
          ELSE LET l == At[d - 1, 2 * i]
                   r == At[d - 1, (2 * i) + 1]
               IN  IF l = Sentinel THEN Sentinel ELSE airdropHashInternal(l, r)
    IN  [d \in 0..depth |-> [i \in 0..(2 ^ (depth - d)) |-> At[d, i]]]
SubTree(i) == TreeLevel([j \in 1..airdropSubLeaves |->
                           airdropHashLeaf(AirdropKey[i][j - 1].id)], airdropSubDepth)
MainTree == TreeLevel([i \in 1..airdropLeaves |->
                         airdropHashLeaf(SubTree(i - 1)[airdropSubDepth][0])], airdropDepth)
FaucetTree == TreeLevel([i \in 1..faucetLeaves |->
                           airdropHashLeaf(FaucetKey[i - 1].id)], faucetDepth)
airdropRoot == MainTree[airdropDepth][0]
faucetRoot == FaucetTree[faucetDepth][0]

verifyMerkle(r) ==
    LET leaf == airdropHashLeaf(r.key.id)
    IN  IF isAddress(r)
        THEN deriveAirdropMerkleRoot(leaf, r.path, r.index) = faucetRoot
        ELSE deriveAirdropMerkleRoot(
               airdropHashLeaf(deriveAirdropMerkleRoot(leaf, r.subpath, r.subindex)),
               r.path, r.index) = airdropRoot

\* A faucet proof needs no signature but must pay its address the fixed fee.
verifySignature(r) ==
    IF ~isAddress(r) THEN r.signature = "valid"
    ELSE /\ r.address = r.key.address
         /\ r.fee = IF r.key.sponsor THEN airdropSponsorFee ELSE airdropRecipientFee
         /\ r.signature = "empty"

verifyCoinbaseAirdropProofData(out, r, h, hardening) ==
    /\ AirdropIsSane(r)
    /\ out.covenant = "none"
    /\ h >= AirdropGooSigStop => r.key.type # "goo"
    /\ hardening => ~KeyIsWeak(r.key)
    /\ verifyMerkle(r) /\ verifySignature(r)
    /\ AirdropValue(r) >= r.fee
    /\ out.value = AirdropValue(r) - r.fee
    /\ out.address = r.address

(***************************************************************************)
(* Claims: [kind |-> "claim", zones].                                      *)
(***************************************************************************)
verifyCoinbaseClaimProofData(out, data, h) ==
    /\ data.address # "nulldata" /\ out.address = data.address
    /\ out.commit = data.commit
    /\ out.commitHeight = data.commitHeight /\ data.commitHeight # 0
    /\ data.value >= data.fee
    /\ out.value = data.value - data.fee
    /\ (h >= NameDeflationHeight /\ data.commitHeight = 1) => data.fee <= DeflationFee

\* What a claim's output may add to the coinbase.
ClaimConjured(data, h) ==
    IF h >= NameDeflationHeight /\ data.commitHeight # 1
    THEN data.value - data.fee ELSE data.value

verifyCoinbaseClaimProof(out, r, h, prevTime, hardening) ==
    LET data == claimData(r.zones)
    IN  /\ out.covenant = "claim" /\ out.height = h
        /\ parseOwnershipProof(r.zones) /\ isSane(r.zones)
        /\ verifyTimes(r.zones, prevTime) /\ verifySignatures(r.zones)
        /\ data # NoData
        /\ hardening => ~data.weak
        /\ verifyCoinbaseClaimProofData(out, data, h)

checkCoinbaseClaimProofSanity(out, r) ==
    /\ parseOwnershipProof(r.zones) /\ isSane(r.zones)
    /\ name(r.zones) = out.name /\ isWeak(r.zones) = out.weak

(***************************************************************************)
(* The block check: every linked proof verifies, none twice, and the total *)
(* conjured stays a monetary value.                                        *)
(***************************************************************************)
ProofValid(e, h, prevTime) ==
    IF e.raw.kind = "claim"
    THEN /\ checkCoinbaseClaimProofSanity(e.out, e.raw)
         /\ verifyCoinbaseClaimProof(e.out, e.raw, h, prevTime, hardeningActive(h))
    ELSE /\ ~airstopActive(h)
         /\ parseAirdropProof(e.raw)
         /\ verifyCoinbaseAirdropProofData(e.out, e.raw, h, hardeningActive(h))

Conjured(e, h) ==
    IF e.raw.kind = "claim" THEN ClaimConjured(claimData(e.raw.zones), h)
    ELSE AirdropValue(e.raw)

coinbaseConjuredValue(proofs, h) ==
    FoldSeq(LAMBDA e, sum : sum + Conjured(e, h), 0, proofs)

Bit(pos) == <<pos \div 8, 7 - (pos % 8)>>
isSpent(pos) == Bit(pos) \in spent
Airdrops(proofs) == SelectSeq(proofs, LAMBDA e : e.raw.kind = "airdrop")
AirdropBits(proofs) == {Bit(position(e.raw)) : e \in ToSet(Airdrops(proofs))}
\* spendBlock: no position already spent, by the chain or earlier in the block.
spendBlock(proofs) ==
    /\ AirdropBits(proofs) \cap spent = {}
    /\ Cardinality(AirdropBits(proofs)) = Len(Airdrops(proofs))

\* What coinbaseConjuredValue and spendBlock ask of the list as a whole.
ListAccepted(proofs, h) ==
    /\ \A i, j \in DOMAIN proofs : i # j => proofs[i].raw # proofs[j].raw
    /\ coinbaseConjuredValue(proofs, h) <= MaxDoo
    /\ spendBlock(proofs)

(***************************************************************************)
(* From a relayed proof to the pool.                                       *)
(***************************************************************************)
CoinbaseClaimProofFromRaw(r, h, prevTime) ==
    LET data == claimData(r.zones)
        out  == [covenant |-> "claim", value |-> data.value - data.fee,
                 address |-> data.address, name |-> data.name, weak |-> data.weak,
                 height |-> h, commit |-> data.commit,
                 commitHeight |-> data.commitHeight]
    IN  IF /\ parseOwnershipProof(r.zones) /\ isSane(r.zones)
           /\ verifyTimes(r.zones, prevTime) /\ verifySignatures(r.zones)
           /\ data # NoData
           /\ verifyCoinbaseClaimProofData(out, data, h)
        THEN {[raw |-> r, out |-> out, fee |-> data.fee]} ELSE {}

CoinbaseAirdropProofFromRaw(r, h) ==
    LET out == [covenant |-> "none", value |-> AirdropValue(r) - r.fee,
                address |-> r.address]
    IN  IF /\ parseAirdropProof(r) /\ AirdropValue(r) >= r.fee
           /\ verifyCoinbaseAirdropProofData(out, r, h, FALSE)
        THEN {[raw |-> r, out |-> out, fee |-> r.fee]} ELSE {}

\* acceptRawClaimProof and acceptRawAirdropProof up to the pool: the height
\* and time are those of the best snapshot of this moment.
acceptRaw(r) ==
    /\ topic = "chain" /\ converted = {}
    /\ r.kind = "airdrop" => ~airstopActive(NextHeight)
    /\ \E e \in IF r.kind = "claim"
               THEN CoinbaseClaimProofFromRaw(r, NextHeight, TipTime)
               ELSE CoinbaseAirdropProofFromRaw(r, NextHeight) :
         converted' = {[entry |-> e, height |-> NextHeight, time |-> TipTime]}
    /\ UNCHANGED <<topic, subject, chain, spent, pool, moves>>

validateAirdropProofForHeight(e, h) ==
    /\ ~airstopActive(h)
    /\ hardeningActive(h) => ~KeyIsWeak(e.raw.key)
    /\ h >= AirdropGooSigStop => e.raw.key.type # "goo"
    /\ ~isSpent(position(e.raw))

validateClaimProofForHeight(e, h) ==
    /\ h < NameClaimPeriod
    /\ e.out.height >= h
    /\ MedianTime >= window(e.raw.zones)[1]
    /\ MedianTime <= window(e.raw.zones)[2]

validateCoinbaseProofForHeight(e, h) ==
    IF e.raw.kind = "claim" THEN validateClaimProofForHeight(e, h)
    ELSE validateAirdropProofForHeight(e, h)

\* coinbaseProofPolicy: the metadata decoded again from the witness agrees
\* with the output.
PolicyAgrees(e) ==
    IF e.raw.kind = "airdrop"
    THEN /\ AirdropIsSane(e.raw)
         /\ e.fee = e.raw.fee /\ e.out.value = AirdropValue(e.raw) - e.raw.fee
         /\ e.out.address = e.raw.address
    ELSE LET meta == claimData(e.raw.zones)
         IN  /\ isSane(e.raw.zones) /\ meta # NoData
             /\ e.out.name = meta.name /\ e.out.weak = meta.weak
             /\ e.out.commit = meta.commit /\ e.out.commitHeight = meta.commitHeight
             /\ e.fee = meta.fee /\ e.out.value = meta.value - meta.fee
             /\ e.out.address = meta.address

\* One claim per name and one airdrop per position.
checkCoinbaseProofIndexConflict(e) ==
    \A q \in pool :
       IF e.raw.kind = "claim" THEN q.raw.kind = "claim" => q.out.name # e.out.name
       ELSE q.raw.kind = "airdrop" => position(q.raw) # position(e.raw)

Admissible(e) ==
    /\ PolicyAgrees(e)
    /\ validateCoinbaseProofForHeight(e, NextHeight)
    /\ e.raw.kind = "claim" => e.out.height = NextHeight
    /\ \/ \E q \in pool : q.raw = e.raw /\ q.out = e.out
       \/ (\A q \in pool : q.raw # e.raw) /\ checkCoinbaseProofIndexConflict(e)

AddCoinbaseProof ==
    /\ \E c \in converted :
         pool' = IF Admissible(c.entry) THEN pool \cup {c.entry} ELSE pool
    /\ converted' = {}
    /\ UNCHANGED <<topic, subject, chain, spent, moves>>

(***************************************************************************)
(* Blocks.                                                                 *)
(***************************************************************************)
\* Proofs a miner of this or another node may put into a block: the pooled
\* ones and any raw proof converted for the block.
Minable ==
    pool \cup UNION {IF r.kind = "claim" THEN CoinbaseClaimProofFromRaw(r, NextHeight, TipTime)
                     ELSE CoinbaseAirdropProofFromRaw(r, NextHeight) : r \in RawProofs}
\* The lists of at most two proofs that the block check accepts.
AcceptedLists ==
    LET valid == {e \in Minable : ProofValid(e, NextHeight, TipTime)}
    IN  {proofs \in {<<>>} \cup {<<e>> : e \in valid}
                           \cup {<<e, f>> : e \in valid, f \in valid} :
           ListAccepted(proofs, NextHeight)}

\* The block is connected, spendCoinbaseAirdrops in the same transaction.
ConnectBlock(proofs, time) ==
    /\ topic = "chain" /\ Height < MaxHeight /\ moves < MaxMoves
    /\ time > MedianTime
    /\ chain' = Append(chain, [time |-> time, proofs |-> proofs])
    /\ spent' = spent \cup AirdropBits(proofs)
    /\ pool' = {e \in pool \ ToSet(proofs) :
                  validateCoinbaseProofForHeight(e, NextHeight)'}
    /\ moves' = moves + 1
    /\ UNCHANGED <<topic, subject, converted>>

\* unspendCoinbaseAirdrops; disconnecting does not touch the proof pool.
Unspent(proofs) == AirdropBits(proofs)
DisconnectBlock ==
    /\ topic = "chain" /\ Height > 0 /\ moves < MaxMoves
    /\ spent' = spent \ Unspent(Last(chain).proofs)
    /\ chain' = Front(chain)
    /\ moves' = moves + 1
    /\ UNCHANGED <<topic, subject, pool, converted>>

\* CoinbaseProofs: what a template asks for, pruning as it goes.
Offered == {e \in pool : /\ validateCoinbaseProofForHeight(e, NextHeight)
                         /\ e.raw.kind = "claim" => e.out.height = NextHeight}
CoinbaseProofsAsked ==
    /\ topic = "chain"
    /\ pool' = {e \in pool : validateCoinbaseProofForHeight(e, NextHeight)}
    /\ pool' # pool
    /\ UNCHANGED <<topic, subject, chain, spent, converted, moves>>

CpInit ==
    /\ topic \in Topics
    /\ IF topic = "trust" THEN \E i \in DOMAIN TrustProofs : subject \in TrustProofs[i]
       ELSE subject = <<>>
    /\ chain = <<>> /\ spent = {} /\ pool = {} /\ converted = {} /\ moves = 0

CpNext ==
    \/ \E r \in RawProofs : acceptRaw(r)
    \/ AddCoinbaseProof
    \/ \E proofs \in AcceptedLists, time \in 1..MaxTime : ConnectBlock(proofs, time)
    \/ DisconnectBlock
    \/ CoinbaseProofsAsked

CpSpec == CpInit /\ [][CpNext]_cpVars

(***************************************************************************)
(* Properties.                                                             *)
(***************************************************************************)
AllPubs == UNION {{k.pub : k \in ToSet(Of(subject[i].keys, "key"))} : i \in DOMAIN subject}
\* A sane proof whose signatures verify is vouched for from the root anchor:
\* verifySignatures never follows a revoked key or a SHA-1 delegation.
OwnershipVouched ==
    (topic = "trust" /\ parseOwnershipProof(subject) /\ isSane(subject)
       /\ verifySignatures(subject)) => Vouched(subject, AllPubs)

MinedProofs == FlattenSeq([i \in DOMAIN chain |-> chain[i].proofs])
Leaves(r) == IF isAddress(r) THEN {<<"faucet", i>> : i \in
                  {k \in DOMAIN FaucetKey : FaucetKey[k].id = r.key.id}}
             ELSE {<<"main", i>> : i \in {k \in DOMAIN AirdropKey :
                  \E j \in DOMAIN AirdropKey[k] : AirdropKey[k][j].id = r.key.id}}
\* No leaf of the airdrop trees is redeemed twice by the connected blocks,
\* and every redeemed key is one of the trees: the position of a proof that
\* verifies is its leaf's own.
AirdropsOnce ==
    \A i, j \in DOMAIN MinedProofs :
       LET p == MinedProofs[i].raw
           q == MinedProofs[j].raw
       IN  p.kind = "airdrop" =>
             /\ Leaves(p) # {}
             /\ (i # j /\ q.kind = "airdrop") => Leaves(p) \cap Leaves(q) = {}

\* The spent field is exactly the positions of the connected airdrops, after
\* any number of reorganizations.
SpentExact ==
    topic = "chain" =>
      \A pos \in 0..(airdropLeaves + faucetLeaves - 1) :
         isSpent(pos) <=> \E i \in DOMAIN MinedProofs :
                             /\ MinedProofs[i].raw.kind = "airdrop"
                             /\ position(MinedProofs[i].raw) = pos

\* A mined proof pays out no more than the reserve behind it, and what it
\* conjures for the coinbase covers what it pays.
ConjuredCovers ==
    \A b \in DOMAIN chain : \A i \in DOMAIN chain[b].proofs :
       LET e == chain[b].proofs[i]
           reserve == IF e.raw.kind = "claim" THEN Reserved[e.out.name].value
                      ELSE AirdropValue(e.raw)
       IN  e.out.value <= Conjured(e, b) /\ Conjured(e, b) <= reserve

\* What the relay conversion accepts, the block check accepts at the same
\* height and time, but for the weak keys that only hardening refuses.
ConversionMinable ==
    \A c \in converted :
       hardeningActive(c.height) \/ ProofValid(c.entry, c.height, c.time)

CoinbaseProofsSound ==
    OwnershipVouched /\ AirdropsOnce /\ SpentExact /\ ConjuredCovers /\ ConversionMinable

=============================================================================
