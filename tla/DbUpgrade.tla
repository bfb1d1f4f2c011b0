----------------------------- MODULE DbUpgrade ------------------------------
(***************************************************************************)
(* What the chain keeps on disk, written and read back, and the upgrades   *)
(* of an old database when the node starts: the unspent outputs move from  *)
(* version 1 to 2 to 3 in batches that an interrupt or a crash may cut     *)
(* short, the block index is rebuilt with heights, the buckets of the      *)
(* spend journal and of the names are created.                             *)
(*                                                                         *)
(* Topic "store": a value is written, perhaps truncated, and read.         *)
(* Topic "journal": blocks of the old and the new journal are connected,   *)
(*   disconnected and pruned.                                              *)
(* Topic "utxos": an old database is upgraded over several starts.         *)
(* Topic "index": the old block index is migrated.                         *)
(***************************************************************************)
EXTENDS Integers, Sequences, FiniteSets, SequencesExt, Functions

(***************************************************************************)
(* The byte formats of the chain database: variable length quantities,     *)
(* the compression of amounts and scripts, Handshake addresses and         *)
(* covenants, unspent and spent outputs in their current and legacy forms, *)
(* the best chain state and the keys of the buckets.                       *)
(*                                                                         *)
(* A serialization is a sequence of tokens [b, w]: w bytes holding b.  A   *)
(* single byte is a token of width 1; a hash, a coordinate or the payload  *)
(* of a push is one wider token, because no decoder looks inside it.  A    *)
(* decoder returns what it read and the rest of the sequence, where the    *)
(* code returns the number of bytes read.  A quantity has Group values per *)
(* byte (128 in the code) and the high bit of a byte is worth Group.       *)
(***************************************************************************)
CONSTANTS
    Group,          \* values of one byte of a quantity
    ValidX          \* the x coordinates that are on the curve

numSpecialScripts == 6
maxAddressVersion == 31
maxWitnessProgramVersion == 16
minAddressHashLen == 2
maxAddressHashLen == 40
maxCovenantItems == 1000
maxCovenantItemSize == 585
blockHdrSize == 236

OP_RETURN == 106
OP_DUP == 118
OP_HASH160 == 169
OP_EQUAL == 135
OP_EQUALVERIFY == 136
OP_CHECKSIG == 172

Data(x, w) == [b |-> x, w |-> w]
Byte(x) == Data(x, 1)

RECURSIVE Size(_)
Size(s) == IF s = <<>> THEN 0 ELSE Head(s).w + Size(Tail(s))

Failed == [ok |-> FALSE]
Read(v, rest) == [ok |-> TRUE, v |-> v, rest |-> rest]

\* A decoder goes on with what an earlier read gave, unless that failed.
Then(r, F(_, _)) == IF r.ok THEN F(r.v, r.rest) ELSE Failed
\* The same for a quantity, after which there must be more to read.
More(r, F(_, _)) == IF r.rest = <<>> THEN Failed ELSE F(r.v, r.rest)

\* What the readers of the standard library return for the next n bytes.
RECURSIVE ReadFull(_, _)
ReadFull(s, n) ==
    IF n = 0 THEN Read(<<>>, s)
    ELSE IF s = <<>> \/ Head(s).w > n THEN Failed
    ELSE Then(ReadFull(Tail(s), n - Head(s).w),
              LAMBDA v, rest : Read(<<Head(s)>> \o v, rest))

-----------------------------------------------------------------------------
(* Variable length quantities *)

RECURSIVE serializeSizeVLQ(_)
serializeSizeVLQ(n) ==
    IF n < Group THEN 1 ELSE 1 + serializeSizeVLQ((n \div Group) - 1)

RECURSIVE VLQ(_, _)
VLQ(n, highBit) ==
    IF n < Group THEN <<Byte(n + highBit)>>
    ELSE Append(VLQ((n \div Group) - 1, Group), Byte((n % Group) + highBit))
putVLQ(n) == VLQ(n, 0)

\* Each byte that is followed by another adds one: the offset that the
\* encoder subtracts.
Offset(n) == n + 1

RECURSIVE FromVLQ(_, _)
FromVLQ(s, n) ==
    IF s = <<>> THEN Read(n, s)
    ELSE LET m == n * Group + (Head(s).b % Group) IN
         IF Head(s).b < Group THEN Read(m, Tail(s))
         ELSE FromVLQ(Tail(s), Offset(m))
deserializeVLQ(s) == FromVLQ(s, 0)

\* The order of the database: bytes are compared one by one.
RECURSIVE KeyBelow(_, _)
KeyBelow(s, t) ==
    /\ t # <<>>
    /\ \/ s = <<>>
       \/ Head(s).b < Head(t).b
       \/ Head(s).b = Head(t).b /\ KeyBelow(Tail(s), Tail(t))

outpointKey(hash, index) == <<Data(hash, 32)>> \o putVLQ(index)
\* The height is written big endian, the only key the code wants in order.
blockIndexKey(hash, height) == <<Data(height, 4), Data(hash, 32)>>

-----------------------------------------------------------------------------
(* Amounts *)

RECURSIVE Exponent(_, _)
Exponent(n, e) ==
    IF n % 10 = 0 /\ e < 9 THEN Exponent(n \div 10, e + 1)
    ELSE [n |-> n, e |-> e]

compressTxOutAmount(amount) ==
    IF amount = 0 THEN 0
    ELSE LET x == Exponent(amount, 0) IN
         IF x.e < 9
         THEN 1 + 10 * (9 * (x.n \div 10) + (x.n % 10) - 1) + x.e
         ELSE 10 + 10 * (x.n - 1)

decompressTxOutAmount(c) ==
    IF c = 0 THEN 0
    ELSE LET e == (c - 1) % 10
             q == (c - 1) \div 10
             n == IF e < 9 THEN (q \div 9) * 10 + (q % 9) + 1 ELSE q + 1 IN
         n * 10^e

-----------------------------------------------------------------------------
(* Scripts.  The points of the curve: a valid x has two y, one of each     *)
(* parity.                                                                 *)

OnCurve(x, y) == x \in ValidX /\ y \in {2 * x, 2 * x + 1}

isPubKeyHash(s) ==
    /\ Len(s) = 6 /\ Size(s) = 25
    /\ s[1].b = OP_DUP /\ s[2].b = OP_HASH160 /\ s[3].b = 20
    /\ s[5].b = OP_EQUALVERIFY /\ s[6].b = OP_CHECKSIG

isScriptHash(s) ==
    /\ Len(s) = 4 /\ Size(s) = 23
    /\ s[1].b = OP_HASH160 /\ s[2].b = 20 /\ s[4].b = OP_EQUAL

isPubKeyComp(s) ==
    /\ Len(s) = 4 /\ Size(s) = 35
    /\ s[1].b = 33 /\ s[2].b \in {2, 3} /\ s[4].b = OP_CHECKSIG
    /\ s[3].b \in ValidX

isPubKeyUncomp(s) ==
    /\ Len(s) = 5 /\ Size(s) = 67
    /\ s[1].b = 65 /\ s[2].b = 4 /\ s[5].b = OP_CHECKSIG
    /\ OnCurve(s[3].b, s[4].b)

compressedScriptSize(s) ==
    IF isPubKeyHash(s) \/ isScriptHash(s) THEN 21
    ELSE IF isPubKeyComp(s) \/ isPubKeyUncomp(s) THEN 33
    ELSE serializeSizeVLQ(Size(s) + numSpecialScripts) + Size(s)

putCompressedScript(s) ==
    CASE isPubKeyHash(s)   -> <<Byte(0), s[4]>>
      [] isScriptHash(s)   -> <<Byte(1), s[3]>>
      [] isPubKeyComp(s)   -> <<Byte(s[2].b), s[3]>>
      [] isPubKeyUncomp(s) -> <<Byte(4 + (s[4].b % 2)), s[3]>>
      [] OTHER             -> putVLQ(Size(s) + numSpecialScripts) \o s

decodeCompressedScriptSize(s) ==
    LET code == deserializeVLQ(s).v IN
    IF code < 2 THEN 21
    ELSE IF code < numSpecialScripts THEN 33
    ELSE code - numSpecialScripts + (Len(s) - Len(deserializeVLQ(s).rest))

decompressScript(s) ==
    LET code == deserializeVLQ(s).v
        rest == deserializeVLQ(s).rest
        x == rest[1]
    IN  CASE code = 0 -> <<Byte(OP_DUP), Byte(OP_HASH160), Byte(20), x,
                           Byte(OP_EQUALVERIFY), Byte(OP_CHECKSIG)>>
          [] code = 1 -> <<Byte(OP_HASH160), Byte(20), x, Byte(OP_EQUAL)>>
          [] code \in {2, 3} -> <<Byte(33), Byte(code), x, Byte(OP_CHECKSIG)>>
          [] code \in {4, 5} ->
                <<Byte(65), Byte(4), x, Data(2 * x.b + code - 4, 32),
                  Byte(OP_CHECKSIG)>>
          [] OTHER -> rest

compressedTxOutSize(amount, s) ==
    serializeSizeVLQ(compressTxOutAmount(amount)) + compressedScriptSize(s)

putCompressedTxOut(amount, s) ==
    putVLQ(compressTxOutAmount(amount)) \o putCompressedScript(s)

decodeCompressedTxOut(s) ==
    More(deserializeVLQ(s), LAMBDA amount, after :
      Then(ReadFull(after, decodeCompressedScriptSize(after)),
           LAMBDA script, rest :
             Read([amount |-> decompressTxOutAmount(amount),
                   pkScript |-> decompressScript(script)], rest)))

-----------------------------------------------------------------------------
(* Addresses and covenants.  A hash is a token, an item of a covenant too. *)

NoHash == Data(0, 0)
NoAddress == [version |-> 0, hash |-> NoHash]
NoCovenant == [type |-> 0, items |-> <<>>]

validateAddressFields(version, hashLen) ==
    \/ version = 0 /\ hashLen = 0
    \/ /\ version <= maxAddressVersion
       /\ hashLen \in minAddressHashLen..maxAddressHashLen
       /\ version = 0 => hashLen \in {20, 32}

Payload(t) == IF t.w = 0 THEN <<>> ELSE <<t>>
FromPayload(s) == IF s = <<>> THEN NoHash ELSE s[1]

AddressEncode(a) == <<Byte(a.version), Byte(a.hash.w)>> \o Payload(a.hash)
AddressSize(a) == 2 + a.hash.w

AddressDecode(s) ==
    IF Len(s) < 2 \/ ~validateAddressFields(s[1].b, s[2].b) THEN Failed
    ELSE Then(ReadFull(SubSeq(s, 3, Len(s)), s[2].b), LAMBDA hash, rest :
              Read([version |-> s[1].b, hash |-> FromPayload(hash)], rest))

WitnessProgram(a) ==
    IF a.version > maxWitnessProgramVersion THEN <<>>
    ELSE <<Byte(IF a.version = 0 THEN 0 ELSE 80 + a.version),
           Byte(a.hash.w)>> \o Payload(a.hash)

IsWitnessProgram(s) ==
    /\ Len(s) = 3 /\ s[1].b \in {0} \cup 81..96
    /\ s[2].b \in minAddressHashLen..maxAddressHashLen
    /\ s[3].w = s[2].b

\* A script that is no witness program has no address; a program of version 0
\* with a hash of another length is refused.
addressFromPkScript(s) ==
    IF ~IsWitnessProgram(s) THEN Read(NoAddress, <<>>)
    ELSE IF s[1].b = 0 /\ s[2].b \notin {20, 32} THEN Failed
    ELSE Read([version |-> IF s[1].b = 0 THEN 0 ELSE s[1].b - 80,
               hash |-> s[3]], <<>>)

txOutPkScript(a) ==
    IF a.version # maxAddressVersion THEN WitnessProgram(a)
    ELSE IF a.hash.w = 0 THEN <<Byte(OP_RETURN)>>
    ELSE <<Byte(OP_RETURN), Byte(a.hash.w), a.hash>>

WriteVarInt(n) ==
    IF n < 253 THEN <<Byte(n)>> ELSE <<Byte(253), Data(n, 2)>>
VarIntSerializeSize(n) == IF n < 253 THEN 1 ELSE 3

ReadVarInt(s) ==
    IF s = <<>> THEN Failed
    ELSE IF Head(s).b # 253 THEN Read(Head(s).b, Tail(s))
    ELSE Then(ReadFull(Tail(s), 2), LAMBDA n, rest :
              IF n[1].b < 253 THEN Failed ELSE Read(n[1].b, rest))

validateCovenantFields(c) ==
    /\ Len(c.items) <= maxCovenantItems
    /\ \A i \in DOMAIN c.items : c.items[i].w <= maxCovenantItemSize

RECURSIVE WriteItems(_)
WriteItems(items) ==
    IF items = <<>> THEN <<>>
    ELSE WriteVarInt(Head(items).w) \o Payload(Head(items))
            \o WriteItems(Tail(items))

CovenantEncode(c) ==
    <<Byte(c.type)>> \o WriteVarInt(Len(c.items)) \o WriteItems(c.items)

RECURSIVE ItemsSize(_)
ItemsSize(items) ==
    IF items = <<>> THEN 0
    ELSE VarIntSerializeSize(Head(items).w) + Head(items).w
            + ItemsSize(Tail(items))
CovenantSize(c) ==
    1 + VarIntSerializeSize(Len(c.items)) + ItemsSize(c.items)

ReadVarBytes(s, maxAllowed) ==
    Then(ReadVarInt(s), LAMBDA count, after :
      IF count > maxAllowed THEN Failed
      ELSE Then(ReadFull(after, count), LAMBDA body, rest :
                Read(FromPayload(body), rest)))

RECURSIVE ReadItems(_, _)
ReadItems(s, n) ==
    IF n = 0 THEN Read(<<>>, s)
    ELSE Then(ReadVarBytes(s, maxCovenantItemSize), LAMBDA one, after :
           Then(ReadItems(after, n - 1), LAMBDA more, rest :
                Read(<<one>> \o more, rest)))

CovenantDecode(s) ==
    IF s = <<>> THEN Failed
    ELSE Then(ReadVarInt(Tail(s)), LAMBDA count, after :
           IF count > maxCovenantItems THEN Failed
           ELSE Then(ReadItems(after, count), LAMBDA items, rest :
                     Read([type |-> Head(s).b, items |-> items], rest)))

compressedHnsTxOutSize(o) ==
    serializeSizeVLQ(compressTxOutAmount(o.amount))
        + AddressSize(o.address) + CovenantSize(o.covenant)

\* Encoding an address or a covenant the format refuses panics.
putCompressedHnsTxOut(o) ==
    putVLQ(compressTxOutAmount(o.amount))
        \o AddressEncode(o.address) \o CovenantEncode(o.covenant)

decodeCompressedHnsTxOut(s) ==
    More(deserializeVLQ(s), LAMBDA amount, s1 :
      Then(AddressDecode(s1), LAMBDA address, s2 :
        Then(CovenantDecode(s2), LAMBDA covenant, rest :
          Read([amount |-> decompressTxOutAmount(amount),
                address |-> address, covenant |-> covenant,
                pkScript |-> txOutPkScript(address)], rest))))

-----------------------------------------------------------------------------
(* Unspent and spent outputs: an output [amount, address, covenant,        *)
(* pkScript] with the height and the coinbase flag of its transaction.     *)

headerCode(o) == 2 * o.height + (IF o.coinbase THEN 1 ELSE 0)
Flagged(o, code) ==
    [amount |-> o.amount, address |-> o.address, covenant |-> o.covenant,
     pkScript |-> o.pkScript,
     height |-> code \div 2, coinbase |-> code % 2 = 1]

serializeUtxoEntry(o) == putVLQ(headerCode(o)) \o putCompressedHnsTxOut(o)
serializeUtxoEntryV2(o) ==
    putVLQ(headerCode(o)) \o putCompressedTxOut(o.amount, o.pkScript)

deserializeUtxoEntry(s) ==
    More(deserializeVLQ(s), LAMBDA code, after :
      Then(decodeCompressedHnsTxOut(after), LAMBDA out, rest :
           Read(Flagged(out, code), rest)))

\* The legacy forms hold a script: the address is made from it and there is
\* no covenant.
FromScript(out, code, rest) ==
    Then(addressFromPkScript(out.pkScript), LAMBDA address, none :
         Read([amount |-> out.amount, address |-> address,
               covenant |-> NoCovenant, pkScript |-> out.pkScript,
               height |-> code \div 2, coinbase |-> code % 2 = 1], rest))

deserializeUtxoEntryV2(s) ==
    More(deserializeVLQ(s), LAMBDA code, after :
      Then(decodeCompressedTxOut(after), LAMBDA out, rest :
           FromScript(out, code, rest)))

\* A spent output above the genesis block has a reserved quantity.
Reserved(o) == IF o.height > 0 THEN putVLQ(0) ELSE <<>>
spentTxOutSerializeSize(o) ==
    serializeSizeVLQ(headerCode(o))
        + (IF o.height > 0 THEN serializeSizeVLQ(0) ELSE 0)
        + compressedHnsTxOutSize(o)
putSpentTxOut(o) ==
    putVLQ(headerCode(o)) \o Reserved(o) \o putCompressedHnsTxOut(o)

AfterReserved(code, s) ==
    IF code \div 2 > 0 THEN deserializeVLQ(s) ELSE Read(0, s)

decodeSpentTxOutHns(s) ==
    More(deserializeVLQ(s), LAMBDA code, s1 :
      More(AfterReserved(code, s1), LAMBDA reserved, s2 :
        Then(decodeCompressedHnsTxOut(s2), LAMBDA out, rest :
             Read(Flagged(out, code), rest))))

decodeSpentTxOutV1(s) ==
    More(deserializeVLQ(s), LAMBDA code, s1 :
      More(AfterReserved(code, s1), LAMBDA reserved, s2 :
        Then(decodeCompressedTxOut(s2), LAMBDA out, rest :
             FromScript(out, code, rest))))

\* The outputs a block spends are written last first and read with the number
\* of inputs of its transactions; every byte must be used.
JournalOrder(stxos) == Reverse(stxos)

RECURSIVE PutAll(_)
PutAll(stxos) ==
    IF stxos = <<>> THEN <<>>
    ELSE putSpentTxOut(Head(stxos)) \o PutAll(Tail(stxos))
serializeSpendJournalEntry(stxos) == PutAll(JournalOrder(stxos))

RECURSIVE ReadAll(_, _, _)
ReadAll(s, numStxos, legacy) ==
    IF numStxos = 0 THEN Read(<<>>, s)
    ELSE Then(IF legacy THEN decodeSpentTxOutV1(s) ELSE decodeSpentTxOutHns(s),
              LAMBDA one, after :
                Then(ReadAll(after, numStxos - 1, legacy), LAMBDA more, rest :
                     Read(Append(more, one), rest)))

deserializeSpendJournalEntryWithDecoder(s, numStxos, legacy) ==
    IF s = <<>> THEN IF numStxos = 0 THEN Read(<<>>, <<>>) ELSE Failed
    ELSE Then(ReadAll(s, numStxos, legacy), LAMBDA stxos, rest :
              IF rest = <<>> THEN Read(stxos, rest) ELSE Failed)

-----------------------------------------------------------------------------
(* The best state: the work is written with its length, in no more bytes   *)
(* than it needs (Base values a byte).                                     *)

Base == 2 * Group
RECURSIVE WorkBytes(_)
WorkBytes(n) == IF n = 0 THEN 0 ELSE 1 + WorkBytes(n \div Base)

serializeBestChainState(st) ==
    LET w == WorkBytes(st.workSum) IN
    <<Data(st.hash, 32), Data(st.height, 4), Data(st.totalTxns, 8),
      Data(w, 4)>> \o Payload(Data(st.workSum, w))

deserializeBestChainState(s) ==
    IF Size(s) < 32 + 16 THEN Failed
    ELSE Then(ReadFull(SubSeq(s, 5, Len(s)), s[4].b), LAMBDA work, rest :
              Read([hash |-> s[1].b, height |-> s[2].b, totalTxns |-> s[3].b,
                    workSum |-> FromPayload(work).b], rest))

\* A row of the block index is a header and a status byte.
dbStoreBlockNode(header, status) == <<Data(header, blockHdrSize), Byte(status)>>
deserializeBlockRow(s) ==
    Then(ReadFull(s, blockHdrSize), LAMBDA header, rest :
         IF rest = <<>> THEN Failed
         ELSE Read([header |-> header[1].b, status |-> rest[1].b], Tail(rest)))

-----------------------------------------------------------------------------
CONSTANTS
    Topics,
    Values,         \* topic "store": sequence of sets of [kind, v]
    JournalOf,      \* topic "journal": block -> outputs it spends
    OldTxs,         \* topic "utxos": set of databases, hash -> transaction
    MaxUtxos,       \* outputs moved in one batch
    Trees,          \* topic "index": set of functions block -> parent
    ZeroHash,       \* the parent of the genesis block
    MaxStarts, MaxMoves

VARIABLES
    topic,
    item,       \* topic "store": [kind, v, bytes, got, cut]
    journal,    \* topic "journal": the two buckets, the blocks connected
    disk,       \* topics "utxos" and "index": the database
    proc,       \* where the start of the node is, and whether it is told to stop
    used

uVars == <<topic, item, journal, disk, proc, used>>

-----------------------------------------------------------------------------
(* Topic "store" *)

Serialized(x) ==
    CASE x.kind = "utxo"   -> serializeUtxoEntry(x.v)
      [] x.kind = "utxoV2" -> serializeUtxoEntryV2(x.v)
      [] x.kind = "stxos"  -> serializeSpendJournalEntry(x.v)
      [] x.kind = "best"   -> serializeBestChainState(x.v)
      [] x.kind = "row"    -> dbStoreBlockNode(x.v.header, x.v.status)

Deserialized(x, s) ==
    CASE x.kind = "utxo"   -> deserializeUtxoEntry(s)
      [] x.kind = "utxoV2" -> deserializeUtxoEntryV2(s)
      [] x.kind = "stxos"  ->
            deserializeSpendJournalEntryWithDecoder(s, Len(x.v), FALSE)
      [] x.kind = "best"   -> deserializeBestChainState(s)
      [] x.kind = "row"    -> deserializeBlockRow(s)

RECURSIVE StxosSize(_)
StxosSize(stxos) ==
    IF stxos = <<>> THEN 0
    ELSE spentTxOutSerializeSize(Head(stxos)) + StxosSize(Tail(stxos))

\* The length of the slice the code allocates before it writes into it.
Allocated(x) ==
    CASE x.kind = "utxo"   -> serializeSizeVLQ(headerCode(x.v))
                                + compressedHnsTxOutSize(x.v)
      [] x.kind = "utxoV2" -> serializeSizeVLQ(headerCode(x.v))
                                + compressedTxOutSize(x.v.amount, x.v.pkScript)
      [] x.kind = "stxos"  -> StxosSize(x.v)
      [] x.kind = "best"   -> 32 + 4 + 8 + 4 + WorkBytes(x.v.workSum)
      [] x.kind = "row"    -> blockHdrSize + 1

Write ==
    /\ topic = "store" /\ item.at = "made"
    /\ item' = [item EXCEPT !.bytes = Serialized(item.x), !.at = "written"]
    /\ UNCHANGED <<topic, journal, disk, proc, used>>

Truncate ==
    /\ topic = "store" /\ item.at = "written" /\ item.x.kind # "utxoV2"
    /\ \E n \in 1..(Len(item.bytes) - 1) :
          item' = [item EXCEPT !.bytes = SubSeq(item.bytes, 1, n),
                               !.cut = TRUE, !.at = "cut"]
    /\ UNCHANGED <<topic, journal, disk, proc, used>>

ReadBack ==
    /\ topic = "store" /\ item.at \in {"written", "cut"}
    /\ item' = [item EXCEPT !.got = Deserialized(item.x, item.bytes),
                            !.at = "read"]
    /\ UNCHANGED <<topic, journal, disk, proc, used>>

-----------------------------------------------------------------------------
(* Topic "journal" *)

dbPutSpendJournalEntry(j, b, stxos) ==
    [j EXCEPT !.v2 = [k \in DOMAIN @ \cup {b} |->
                        IF k = b THEN serializeSpendJournalEntry(stxos)
                        ELSE @[k]]]

dbRemoveSpendJournalEntry(j, b) ==
    [j EXCEPT !.v2 = Restrict(@, DOMAIN @ \ {b}),
              !.v1 = Restrict(@, DOMAIN @ \ {b})]

dbPruneSpendJournalEntry(j, blocks) ==
    [j EXCEPT !.v2 = Restrict(@, DOMAIN @ \ blocks),
              !.v1 = Restrict(@, DOMAIN @ \ blocks)]

dbFetchSpendJournalEntry(j, b, numStxos) ==
    IF b \in DOMAIN j.v2
    THEN deserializeSpendJournalEntryWithDecoder(j.v2[b], numStxos, FALSE)
    ELSE deserializeSpendJournalEntryWithDecoder(
            IF b \in DOMAIN j.v1 THEN j.v1[b] ELSE <<>>, numStxos, TRUE)

\* What the old version wrote: the script in place of address and covenant.
RECURSIVE LegacyJournal(_)
LegacyJournal(stxos) ==
    IF stxos = <<>> THEN <<>>
    ELSE LegacyJournal(Tail(stxos)) \o putVLQ(headerCode(Head(stxos)))
            \o Reserved(Head(stxos))
            \o putCompressedTxOut(Head(stxos).amount, Head(stxos).pkScript)

Connect(b) ==
    /\ topic = "journal" /\ b \notin journal.connected
    /\ used.moves < MaxMoves
    /\ journal' = [dbPutSpendJournalEntry(journal, b, JournalOf[b])
                     EXCEPT !.connected = @ \cup {b}]
    /\ used' = [used EXCEPT !.moves = @ + 1]
    /\ UNCHANGED <<topic, item, disk, proc>>

Disconnect(b) ==
    /\ topic = "journal" /\ b \in journal.connected \ journal.pruned
    /\ used.moves < MaxMoves
    /\ journal' = [dbRemoveSpendJournalEntry(journal, b)
                     EXCEPT !.connected = @ \ {b}]
    /\ used' = [used EXCEPT !.moves = @ + 1]
    /\ UNCHANGED <<topic, item, disk, proc>>

Prune(bs) ==
    /\ topic = "journal" /\ used.moves < MaxMoves
    /\ journal' = [dbPruneSpendJournalEntry(journal, bs)
                     EXCEPT !.pruned = @ \cup bs]
    /\ used' = [used EXCEPT !.moves = @ + 1]
    /\ UNCHANGED <<topic, item, disk, proc>>

-----------------------------------------------------------------------------
(* Topic "utxos".  A transaction of the old database: [height, coinbase,   *)
(* outs] with outs a function from the indexes still unspent to the        *)
(* outputs.  bitmap is the form the old version wrote.                     *)

Bit(n, j) == (n \div 2^j) % 2 = 1

RECURSIVE BitmapBytes(_, _)
BitmapBytes(idx, i) ==
    IF \A k \in idx : k < 2 + 8 * i THEN <<>>
    ELSE <<Byte(FoldSet(LAMBDA k, acc : acc + 2^(k - (2 + 8 * i)), 0,
                        {k \in idx : k \in (2 + 8 * i)..(9 + 8 * i)}))>>
            \o BitmapBytes(idx, i + 1)

RECURSIVE PutOuts(_, _, _)
PutOuts(outs, i, last) ==
    IF i > last THEN <<>>
    ELSE (IF i \in DOMAIN outs
          THEN putCompressedTxOut(outs[i].amount, outs[i].pkScript)
          ELSE <<>>) \o PutOuts(outs, i + 1, last)

SerializedV0(tx) ==
    LET idx == DOMAIN tx.outs
        bitmap == BitmapBytes(idx, 0)
        low == (IF 0 \in idx THEN 2 ELSE 0) + (IF 1 \in idx THEN 4 ELSE 0)
        n == IF low = 0 THEN Len(bitmap) - 1 ELSE Len(bitmap) IN
    putVLQ(1) \o putVLQ(tx.height)
        \o putVLQ((IF tx.coinbase THEN 1 ELSE 0) + low + 8 * n)
        \o bitmap \o PutOuts(tx.outs, 0, Max(idx))

RECURSIVE ReadOuts(_, _)
ReadOuts(s, indexes) ==
    IF indexes = <<>> THEN Read(<<>>, s)
    ELSE Then(decodeCompressedTxOut(s), LAMBDA one, after :
           Then(ReadOuts(after, Tail(indexes)), LAMBDA more, rest :
                Read(<<one>> \o more, rest)))

\* When neither of the first two outputs is unspent one bitmap byte is implied.
BitmapLen(code) ==
    IF ~Bit(code, 1) /\ ~Bit(code, 2) THEN code \div 8 + 1 ELSE code \div 8

\* The indexes of the unspent outputs, in order.
Unspent(code, bitmap) ==
    SetToSortSeq(
        {k \in {0, 1} : Bit(code, k + 1)} \cup
        {k \in 2..(1 + 8 * Len(bitmap)) :
            Bit(bitmap[1 + ((k - 2) \div 8)].b, (k - 2) % 8)}, <)

deserializeUtxoEntryV0(s) ==
    More(deserializeVLQ(deserializeVLQ(s).rest), LAMBDA height, s1 :
      More(deserializeVLQ(s1), LAMBDA code, s2 :
        Then(ReadFull(s2, BitmapLen(code)), LAMBDA bitmap, s3 :
          LET indexes == Unspent(code, bitmap) IN
          Then(ReadOuts(s3, indexes), LAMBDA outs, rest :
            Read({[index |-> indexes[i],
                   amount |-> outs[i].amount, pkScript |-> outs[i].pkScript,
                   height |-> height, coinbase |-> Bit(code, 0)] :
                     i \in DOMAIN indexes}, rest)))))

NoBucket == [there |-> FALSE, rows |-> <<>>]
Created(bucket) == [bucket EXCEPT !.there = TRUE]
Keys(bucket) == SetToSortSeq(DOMAIN bucket.rows, KeyBelow)
Merge(f, g) == [k \in DOMAIN f \cup DOMAIN g |->
                    IF k \in DOMAIN g THEN g[k] ELSE f[k]]

RowsV2(outs) ==
    [k \in {r.key : r \in outs} |->
        serializeUtxoEntryV2((CHOOSE r \in outs : r.key = k).o)]

\* A batch: the first n rows of the old bucket move to the new one.
MovedV2(d, n) ==
    LET keys == {Keys(d.v1)[i] : i \in 1..n} IN
    [d EXCEPT !.v1.rows = Restrict(@, DOMAIN @ \ keys),
              !.v2.rows = Merge(@, RowsV2(
                 UNION {{[key |-> outpointKey(k[1].b, o.index), o |-> o] :
                           o \in deserializeUtxoEntryV0(d.v1.rows[k]).v} :
                         k \in keys}))]

MovedV3(d, n) ==
    LET keys == {Keys(d.v2)[i] : i \in 1..n}
        new == [k \in keys |->
                   serializeUtxoEntry(deserializeUtxoEntryV2(d.v2.rows[k]).v)]
    IN  [d EXCEPT !.v2.rows = Restrict(@, DOMAIN @ \ keys),
                  !.v3.rows = Merge(@, new)]

\* The number of outputs in the first n rows, and the rows of a full batch.
RECURSIVE OutsIn(_, _)
OutsIn(d, n) ==
    IF n = 0 THEN 0
    ELSE OutsIn(d, n - 1)
            + Cardinality(deserializeUtxoEntryV0(d.v1.rows[Keys(d.v1)[n]]).v)
FullV2(d) ==
    Min({n \in 0..Cardinality(DOMAIN d.v1.rows) :
            OutsIn(d, n) >= MaxUtxos \/ n = Cardinality(DOMAIN d.v1.rows)})
FullV3(d) == Min({MaxUtxos, Cardinality(DOMAIN d.v2.rows)})

Readable(rows, legacy) ==
    \A k \in DOMAIN rows :
        IF legacy THEN deserializeUtxoEntryV0(rows[k]).ok
        ELSE deserializeUtxoEntryV2(rows[k]).ok

\* How many rows a batch moves: all it can, or fewer when told to stop, and
\* then at least one.
BatchSizes(full) ==
    IF full = 0 THEN {0} ELSE IF proc.stop THEN {1} ELSE 1..full

\* The batch is committed; then the stop is seen, or the bucket was empty.
AfterBatch(n, full, here, next) ==
    /\ proc' = IF proc.stop \/ n < full
               THEN [at |-> "down", stop |-> FALSE]
               ELSE [proc EXCEPT !.at = IF n = 0 THEN next ELSE here]

At(where) == topic = "utxos" /\ proc.at = where

dbFetchOrCreateVersion(version, default) ==
    IF version = 0 THEN default ELSE version

Start ==
    /\ At("down") /\ used.starts < MaxStarts
    /\ disk' = [disk EXCEPT !.utxoV = dbFetchOrCreateVersion(@, 1),
                            !.journalV = dbFetchOrCreateVersion(@, 1)]
    /\ proc' = [at |-> CASE disk'.utxoV < 2 -> "create2"
                         [] disk'.utxoV = 2 -> "create3"
                         [] OTHER -> "journal",
                stop |-> FALSE]
    /\ used' = [used EXCEPT !.starts = @ + 1]
    /\ UNCHANGED <<topic, item, journal>>

Create ==
    /\ \/ /\ At("create2")
          /\ disk' = [disk EXCEPT !.v2 = Created(@)]
          /\ proc' = [proc EXCEPT !.at = "batch2"]
       \/ /\ At("create3")
          /\ disk' = [disk EXCEPT !.v3 = Created(@)]
          /\ proc' = [proc EXCEPT !.at = "batch3"]
    /\ UNCHANGED <<topic, item, journal, used>>

upgradeUtxoSetToV2 ==
    /\ At("batch2")
    /\ IF ~Readable(disk.v1.rows, TRUE)
       THEN proc' = [proc EXCEPT !.at = "failed"] /\ UNCHANGED disk
       ELSE \E n \in BatchSizes(FullV2(disk)) :
               /\ disk' = MovedV2(disk, n)
               /\ AfterBatch(n, FullV2(disk), "batch2", "end2")
    /\ UNCHANGED <<topic, item, journal, used>>

upgradeUtxoSetToV3 ==
    /\ At("batch3")
    /\ IF ~Readable(disk.v2.rows, FALSE)
       THEN proc' = [proc EXCEPT !.at = "failed"] /\ UNCHANGED disk
       ELSE \E n \in BatchSizes(FullV3(disk)) :
               /\ disk' = MovedV3(disk, n)
               /\ AfterBatch(n, FullV3(disk), "batch3", "end3")
    /\ UNCHANGED <<topic, item, journal, used>>

\* The old bucket goes and the version is written in one transaction.
Retire ==
    /\ \/ /\ At("end2")
          /\ disk' = [disk EXCEPT !.v1 = NoBucket, !.utxoV = 2]
          /\ proc' = [proc EXCEPT !.at = "create3"]
       \/ /\ At("end3")
          /\ disk' = [disk EXCEPT !.v2 = NoBucket, !.utxoV = 3]
          /\ proc' = [proc EXCEPT !.at = "journal"]
    /\ UNCHANGED <<topic, item, journal, used>>

\* The remaining buckets are created.  A database above the genesis block
\* that has no name root cannot be upgraded.
CreateBuckets ==
    /\ \/ /\ At("journal")
          /\ disk' = [disk EXCEPT !.journalV = 2]
          /\ proc' = [proc EXCEPT !.at = "names"]
       \/ /\ At("names")
          /\ disk' = [disk EXCEPT !.root = disk.root \/ disk.height = 0]
          /\ proc' = [proc EXCEPT !.at =
                        IF disk.root \/ disk.height = 0 THEN "done"
                        ELSE "failed"]
    /\ UNCHANGED <<topic, item, journal, used>>

Interrupt ==
    /\ topic = "utxos" /\ proc.at \notin {"down", "done", "failed"}
    /\ ~proc.stop /\ proc' = [proc EXCEPT !.stop = TRUE]
    /\ UNCHANGED <<topic, item, journal, disk, used>>

Crash ==
    /\ topic = "utxos" /\ proc.at \notin {"down", "failed"}
    /\ proc' = [at |-> "down", stop |-> FALSE]
    /\ UNCHANGED <<topic, item, journal, disk, used>>

-----------------------------------------------------------------------------
(* Topic "index" *)

Children(tree, b) == SetToSortSeq({c \in DOMAIN tree : tree[c] = b}, <)

RECURSIVE Heights(_, _, _)
Heights(tree, queue, heights) ==
    IF queue = <<>> THEN heights
    ELSE LET b == Head(queue)
             children == Children(tree, b) IN
         Heights(tree, Tail(queue) \o children,
                 [c \in DOMAIN heights |->
                    IF c \in Range(children) THEN heights[b] + 1
                    ELSE heights[c]])

determineBlockHeights(tree) ==
    LET roots == Children(tree, ZeroHash) IN
    Heights(tree, roots,
            [b \in DOMAIN tree |-> IF b \in Range(roots) THEN 0 ELSE -1])

Stops(tree, b) == b = ZeroHash

RECURSIVE determineMainChainBlocks(_, _)
determineMainChainBlocks(tree, b) ==
    IF Stops(tree, b) THEN {}
    ELSE {b} \cup determineMainChainBlocks(tree, tree[b])

migrateBlockIndex ==
    /\ topic = "index" /\ proc.at = "down"
    /\ LET heights == determineBlockHeights(disk.tree)
           main == determineMainChainBlocks(disk.tree, disk.tip) IN
       disk' = [disk EXCEPT
                  !.rows = {[key |-> blockIndexKey(b, heights[b]),
                             stored |-> TRUE, valid |-> b \in main] :
                              b \in DOMAIN disk.tree}]
    /\ proc' = [proc EXCEPT !.at = "done"]
    /\ UNCHANGED <<topic, item, journal, used>>

-----------------------------------------------------------------------------

NoItem == [x |-> [kind |-> "none"], bytes |-> <<>>, got |-> Failed,
           cut |-> FALSE, at |-> "none"]
NoJournal == [v1 |-> <<>>, v2 |-> <<>>, connected |-> {}, pruned |-> {}]

UInit ==
    /\ topic \in Topics
    /\ \/ /\ topic = "store"
          /\ \E i \in DOMAIN Values : \E x \in Values[i] :
                item = [NoItem EXCEPT !.x = x, !.at = "made"]
       \/ topic # "store" /\ item = NoItem
    /\ \/ /\ topic = "journal"
          /\ \E old \in SUBSET DOMAIN JournalOf :
                journal = [v1 |-> [b \in old |-> LegacyJournal(JournalOf[b])],
                           v2 |-> <<>>, connected |-> old, pruned |-> {}]
       \/ topic # "journal" /\ journal = NoJournal
    /\ \/ /\ topic = "utxos"
          /\ \E txs \in OldTxs, root \in BOOLEAN, height \in 0..1 :
                disk = [txs |-> txs, root |-> root, height |-> height,
                        utxoV |-> 0, journalV |-> 0,
                        v1 |-> [there |-> TRUE,
                                rows |-> [k \in {<<Data(h, 32)>> :
                                                    h \in DOMAIN txs} |->
                                            SerializedV0(txs[k[1].b])]],
                        v2 |-> NoBucket, v3 |-> NoBucket]
       \/ /\ topic = "index"
          /\ \E tree \in Trees : \E tip \in DOMAIN tree :
                disk = [tree |-> tree, tip |-> tip, rows |-> {}]
       \/ topic \notin {"utxos", "index"} /\ disk = <<>>
    /\ proc = [at |-> "down", stop |-> FALSE]
    /\ used = [starts |-> 0, moves |-> 0]

UNext ==
    \/ Write \/ Truncate \/ ReadBack
    \/ \E b \in DOMAIN JournalOf : Connect(b) \/ Disconnect(b)
    \/ \E bs \in SUBSET journal.connected : Prune(bs)
    \/ Start \/ Create \/ upgradeUtxoSetToV2 \/ upgradeUtxoSetToV3
    \/ Retire \/ CreateBuckets \/ Interrupt \/ Crash
    \/ migrateBlockIndex

USpec == UInit /\ [][UNext]_uVars

-----------------------------------------------------------------------------

\* What was written is what is read, in as many bytes as were allocated, and a
\* value that lost its end is refused (serializeUtxoEntry, putSpentTxOut,
\* serializeBestChainState and their decoders).
StoredIsRead ==
    topic = "store" /\ item.at = "read" =>
        IF item.cut THEN ~item.got.ok
        ELSE /\ Size(item.bytes) = Allocated(item.x)
             /\ item.got = Read(item.x.v, <<>>)

\* The journal of every connected block that was not pruned gives back what
\* the block spent, whichever version wrote it, and a disconnected block
\* leaves nothing behind (dbFetchSpendJournalEntry).
JournalFaithful ==
    topic = "journal" =>
        /\ \A b \in journal.connected \ journal.pruned :
              dbFetchSpendJournalEntry(journal, b, Len(JournalOf[b]))
                = Read(JournalOf[b], <<>>)
        /\ DOMAIN journal.v1 \cup DOMAIN journal.v2 \subseteq journal.connected

\* The outputs of the three buckets.
Outs(d) ==
    LET plain(h, i, o) == [hash |-> h, index |-> i, amount |-> o.amount,
                           pkScript |-> o.pkScript, height |-> o.height,
                           coinbase |-> o.coinbase]
        index(k) == deserializeVLQ(Tail(k)).v IN
    [v1 |-> UNION {{plain(k[1].b, o.index, o) :
                      o \in deserializeUtxoEntryV0(d.v1.rows[k]).v} :
                    k \in DOMAIN d.v1.rows},
     v2 |-> {plain(k[1].b, index(k), deserializeUtxoEntryV2(d.v2.rows[k]).v) :
                k \in DOMAIN d.v2.rows},
     v3 |-> {plain(k[1].b, index(k), deserializeUtxoEntry(d.v3.rows[k]).v) :
                k \in DOMAIN d.v3.rows}]
Originals(txs) ==
    UNION {{[hash |-> h, index |-> i, amount |-> txs[h].outs[i].amount,
             pkScript |-> txs[h].outs[i].pkScript, height |-> txs[h].height,
             coinbase |-> txs[h].coinbase] : i \in DOMAIN txs[h].outs} :
            h \in DOMAIN txs}

\* However often the upgrade is interrupted or crashes, every output of the
\* old database is in exactly one of the three buckets, with the amount,
\* script, height and coinbase flag it had; a finished upgrade has them all in
\* the last one; and it fails only for a missing name root (upgradeUtxoSetToV2,
\* upgradeUtxoSetToV3, maybeUpgradeDbBuckets).
UpgradeKeepsOutputs ==
    topic = "utxos" =>
        LET outs == Outs(disk) IN
        /\ outs.v1 \cup outs.v2 \cup outs.v3 = Originals(disk.txs)
        /\ Cardinality(outs.v1) + Cardinality(outs.v2) + Cardinality(outs.v3)
            = Cardinality(Originals(disk.txs))
        /\ proc.at = "failed" => ~disk.root /\ disk.height > 0
        /\ proc.at = "done" =>
              /\ disk.utxoV = 3 /\ disk.journalV = 2 /\ disk.root
              /\ ~disk.v1.there /\ ~disk.v2.there

RECURSIVE Depth(_, _)
Depth(tree, b) == IF tree[b] = ZeroHash THEN 0 ELSE 1 + Depth(tree, tree[b])
RECURSIVE IsAncestor(_, _, _)
IsAncestor(tree, a, b) ==
    /\ b # ZeroHash
    /\ a = b \/ IsAncestor(tree, a, tree[b])

\* After the migration the index holds every block under its height, valid
\* when and only when it is on the branch of the tip (migrateBlockIndex).
IndexMigrated ==
    topic = "index" /\ proc.at = "done" =>
        disk.rows = {[key |-> blockIndexKey(b, Depth(disk.tree, b)),
                      stored |-> TRUE,
                      valid |-> IsAncestor(disk.tree, b, disk.tip)] :
                        b \in DOMAIN disk.tree}

\* Everything the chain keeps on disk survives being written, read, upgraded
\* and cut short (the four statements above).
StorageExact ==
    StoredIsRead /\ JournalFaithful /\ UpgradeKeepsOutputs /\ IndexMigrated

=============================================================================
