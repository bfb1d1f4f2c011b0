------------------------------ MODULE Brontide ------------------------------
(***************************************************************************)
(* The encrypted transport (brontide/): the three-act handshake between a  *)
(* dialing and an accepting node, the frames of the established stream     *)
(* with their rotating keys, and the identity key file.                    *)
(*                                                                         *)
(* Cryptography is symbolic: a Diffie-Hellman secret is the set of its two *)
(* keys, a digest the sequence of what was mixed into it, a key the chain  *)
(* it derives from, and a sealed box opens under the key, nonce and        *)
(* associated data that made it.  The stream between the ends keeps order  *)
(* (TCP); its faults are corrupted units and a reset.                      *)
(***************************************************************************)
EXTENDS Integers, Sequences, FiniteSets, SequencesExt, FiniteSetsExt

CONSTANTS Topics,            \* subset of {"stream", "identity"}
          DialKeys,          \* what the dialer takes for the node's key
          NoKey,             \* dial without a key: plaintext
          RotationInterval, MaxMessageSize,
          Writers,           \* goroutines that write at each end
          Sizes, MaxWrites, MaxFaults,
          Procs, MaxCrashes  \* processes sharing an identity file

VARIABLES topic,
          hs,                \* handshake state of each end
          cipher,            \* send and recv cipher states of each end
          conn,              \* [failed, buf, body] of each end
          wire,              \* units on their way to each end
          closed,            \* the TCP connection is closed
          writer,            \* the frame each writer is writing
          sealed, written, got,   \* histories: boxes, frames, bytes read
          file, proc, used
brVars == <<topic, hs, cipher, conn, wire, closed, writer, sealed, written, got,
            file, proc, used>>

Ends == {"i", "r"}
Other(e) == IF e = "i" THEN "r" ELSE "i"
Static(e) == IF e = "i" THEN "is" ELSE "rs"
Ephemeral(e) == IF e = "i" THEN "ie" ELSE "re"
ECDH(a, b) == {a, b}

(***************************************************************************)
(* Symmetric state: [digest, chain, nonce].                                *)
(***************************************************************************)
Box(key, nonce, ad, plain) == [key |-> key, nonce |-> nonce, ad |-> ad, plain |-> plain]
MixHash(s, x) == [s EXCEPT !.digest = Append(@, x)]
MixKey(s, secret) == [s EXCEPT !.chain = Append(@, secret), !.nonce = 0]
HandshakeKey(s) == [chain |-> s.chain, side |-> 0, epoch |-> 0]
\* A plaintext is [key or label, number, size]; handshakes seal a key or nothing.
HashBox(s, key) == Box(HandshakeKey(s), s.nonce, s.digest, <<key, 0, 0>>)
\* After EncryptHash, or after a DecryptHash that opened the same box.
HashedBox(s, box) == [MixHash(s, box) EXCEPT !.nonce = @ + 1]
\* DecryptHash succeeds when the box was made from the same state.
Opens(s, unit) ==
    /\ unit.ok
    /\ unit.box.key = HandshakeKey(s) /\ unit.box.nonce = s.nonce /\ unit.box.ad = s.digest

NewHandshakeState(e, remote) ==
    [digest |-> <<"hns", IF e = "i" THEN remote ELSE Static(e)>>,
     chain |-> <<>>, nonce |-> 0]

Split(initiator, chain) ==
    LET k(n) == [chain |-> chain, side |-> n, epoch |-> 0]
        c(n) == [key |-> k(n), nonce |-> 0]
    IN  IF initiator THEN [send |-> c(1), recv |-> c(2)]
        ELSE [send |-> c(2), recv |-> c(1)]

(***************************************************************************)
(* Transport ciphers.  Key and salt after a rotation follow from those     *)
(* before it, so the number of rotations names them.                       *)
(***************************************************************************)
rotateKey_KeepsKey(c) == [c EXCEPT !.nonce = 0]
rotateKey(c) == [c EXCEPT !.key.epoch = @ + 1, !.nonce = 0]
advance(c) ==
    LET n == [c EXCEPT !.nonce = @ + 1]
    IN  IF n.nonce = RotationInterval THEN rotateKey(n) ELSE n
CipherBox(c, plain) == Box(c.key, c.nonce, <<>>, plain)
Decrypts(c, unit) == unit.ok /\ unit.box.key = c.key /\ unit.box.nonce = c.nonce

(***************************************************************************)
(* The handshake.  pc of the dialer: "dial", "two" (awaiting act two),     *)
(* "open", "plain", "failed"; of the acceptor: "accept", "three", "open",  *)
(* "plain", "failed".                                                      *)
(***************************************************************************)
NoCipher == [key |-> [chain |-> <<>>, side |-> 0, epoch |-> 0], nonce |-> 0]
NoCiphers == [send |-> NoCipher, recv |-> NoCipher]
Unit(kind, eph, box) == [kind |-> kind, eph |-> eph, box |-> box, ok |-> TRUE]
NoBox == Box(NoCipher.key, 0, <<>>, <<"", 0, 0>>)
Sent(e, units) == wire' = [wire EXCEPT ![Other(e)] = @ \o units]
Taken(e) == wire' = [wire EXCEPT ![e] = Tail(@)]
Exchanged(e, units) ==
    wire' = [wire EXCEPT ![e] = Tail(@), ![Other(e)] = @ \o units]

\* The handshake returned an error and dialPeer or wrapInboundConn closes.
Abandoned(e) ==
    /\ hs' = [hs EXCEPT ![e].pc = "failed"]
    /\ closed' = TRUE
StreamRest == UNCHANGED <<topic, conn, writer, written, got, file, proc, used>>

\* The state each act reaches before its tag is made or checked.
GenActOne(remote) ==
    MixKey(MixHash(NewHandshakeState("i", remote), Ephemeral("i")),
           ECDH(remote, Ephemeral("i")))
RecvActOne(unit) ==
    MixKey(MixHash(NewHandshakeState("r", NoKey), unit.eph), ECDH(unit.eph, Static("r")))
GenActTwo(s, eph) ==
    MixKey(MixHash(s, Ephemeral("r")), ECDH(eph, Ephemeral("r")))
RecvActTwo(s, unit) ==
    MixKey(MixHash(s, unit.eph), ECDH(unit.eph, Ephemeral("i")))

\* dialPeer: without a key the version message goes out in plaintext; with
\* one GenActOne is written.
Dial ==
    /\ topic = "stream" /\ hs["i"].pc = "dial"
    /\ IF closed THEN Abandoned("i") /\ UNCHANGED <<wire, sealed>>
       ELSE IF hs["i"].remote = NoKey
       THEN /\ hs' = [hs EXCEPT !["i"].pc = "plain"]
            /\ Sent("i", <<Unit("version", "", NoBox)>>)
            /\ UNCHANGED <<closed, sealed>>
       ELSE LET mixed == GenActOne(hs["i"].remote)
                box   == HashBox(mixed, "")
            IN  /\ hs' = [hs EXCEPT !["i"].pc = "two", !["i"].sym = HashedBox(mixed, box)]
                /\ Sent("i", <<Unit("act", Ephemeral("i"), box)>>)
                /\ sealed' = sealed \cup {box}
                /\ UNCHANGED closed
    /\ UNCHANGED cipher /\ StreamRest

\* wrapInboundConn: a plaintext version header is recognized; anything else
\* is act one, answered by act two.
AcceptOne ==
    /\ hs["r"].pc = "accept" /\ wire["r"] # <<>>
    /\ LET unit  == Head(wire["r"])
           mixed == RecvActOne(unit)
       IN  IF unit.kind = "version" /\ unit.ok
           THEN /\ hs' = [hs EXCEPT !["r"].pc = "plain"]
                /\ Taken("r") /\ UNCHANGED <<closed, sealed>>
           ELSE IF unit.kind = "version" \/ ~Opens(mixed, unit) \/ closed
           THEN Abandoned("r") /\ Taken("r") /\ UNCHANGED sealed
           ELSE LET two == GenActTwo(HashedBox(mixed, unit.box), unit.eph)
                    box == HashBox(two, "")
                IN  /\ hs' = [hs EXCEPT !["r"].pc = "three",
                                        !["r"].sym = HashedBox(two, box)]
                    /\ Exchanged("r", <<Unit("act", Ephemeral("r"), box)>>)
                    /\ sealed' = sealed \cup {box}
                    /\ UNCHANGED closed
    /\ UNCHANGED cipher /\ StreamRest

\* RecvActTwo, then GenActThree with its two boxes, split and NewConn.
TwoThenThree ==
    /\ hs["i"].pc = "two" /\ wire["i"] # <<>>
    /\ LET unit  == Head(wire["i"])
           mixed == RecvActTwo(hs["i"].sym, unit)
       IN  IF ~Opens(mixed, unit) \/ closed
           THEN Abandoned("i") /\ Taken("i") /\ UNCHANGED <<sealed, cipher>>
           ELSE LET s    == HashedBox(mixed, unit.box)
                    box1 == HashBox(s, Static("i"))
                    se   == MixKey(HashedBox(s, box1), ECDH(unit.eph, Static("i")))
                    box2 == HashBox(se, "")
                IN  /\ hs' = [hs EXCEPT !["i"].pc = "open", !["i"].sym = HashedBox(se, box2)]
                    /\ cipher' = [cipher EXCEPT !["i"] = Split(TRUE, se.chain)]
                    /\ Exchanged("i", <<Unit("act", "", box1), Unit("act", "", box2)>>)
                    /\ sealed' = sealed \cup {box1, box2}
                    /\ UNCHANGED closed
    /\ StreamRest

\* RecvActThree: the static key, then the tag that proves it, and split.
AcceptThree ==
    /\ hs["r"].pc = "three" /\ Len(wire["r"]) >= 2
    /\ LET one   == wire["r"][1]
           two   == wire["r"][2]
           s     == HashedBox(hs["r"].sym, one.box)
           mixed == MixKey(s, ECDH(one.box.plain[1], Ephemeral("r")))
       IN  /\ wire' = [wire EXCEPT !["r"] = Tail(Tail(@))]
           /\ IF Opens(hs["r"].sym, one) /\ Opens(mixed, two)
              THEN /\ hs' = [hs EXCEPT !["r"].pc = "open", !["r"].remote = one.box.plain[1],
                                       !["r"].sym = HashedBox(mixed, two.box)]
                   /\ cipher' = [cipher EXCEPT !["r"] = Split(FALSE, mixed.chain)]
                   /\ UNCHANGED closed
              ELSE Abandoned("r") /\ UNCHANGED cipher
    /\ UNCHANGED sealed /\ StreamRest

\* HandshakeTimeout, or the end of a closed stream, in a blocked read.
TimesOut(e) ==
    /\ topic = "stream" /\ hs[e].pc \in {"accept", "two", "three"}
    /\ Len(wire[e]) < (IF hs[e].pc = "three" THEN 2 ELSE 1)
    /\ Abandoned(e)
    /\ used' = [used EXCEPT !.timeouts = @ + 1]
    /\ UNCHANGED <<topic, cipher, conn, wire, writer, sealed, written, got, file, proc>>

(***************************************************************************)
(* The established stream.                                                 *)
(***************************************************************************)
Usable(e) == hs[e].pc = "open" /\ ~conn[e].failed
fail(e) ==
    /\ conn' = [conn EXCEPT ![e].failed = TRUE]
    /\ closed' = TRUE

\* writeMtx is held by a writer of this end.
Locked(e) == \E w \in Writers : writer[e][w] # <<>>

\* WriteFrame under the lock: two boxes, one for the length; a payload that
\* is too large is refused before any nonce is used.
WriteFrame(e, w, size) ==
    /\ Usable(e) /\ used.writes < MaxWrites /\ writer[e][w] = <<>> /\ ~Locked(e)
    /\ used' = [used EXCEPT !.writes = @ + 1]
    /\ LET head == CipherBox(cipher[e].send, <<"len", used.writes, size>>)
           body == CipherBox(advance(cipher[e].send), <<"data", used.writes, size>>)
       IN  IF size > MaxMessageSize
           THEN UNCHANGED <<cipher, writer, sealed, written>>
           ELSE /\ cipher' = [cipher EXCEPT ![e].send = advance(advance(@))]
                /\ writer' = [writer EXCEPT ![e][w] = <<Unit("head", "", head),
                                                       Unit("body", "", body)>>]
                /\ sealed' = sealed \cup {head, body}
                /\ written' = [written EXCEPT ![e] =
                                 @ \o [b \in 1..size |-> <<used.writes, b>>]]
    /\ UNCHANGED <<topic, hs, conn, wire, closed, got, file, proc>>

\* writeFull: the frame reaches the stream piece by piece; a closed stream
\* fails the connection.
writeFull(e, w) ==
    /\ writer[e][w] # <<>>
    /\ IF closed
       THEN fail(e) /\ writer' = [writer EXCEPT ![e][w] = <<>>] /\ UNCHANGED wire
       ELSE /\ Sent(e, <<Head(writer[e][w])>>)
            /\ writer' = [writer EXCEPT ![e][w] = Tail(@)]
            /\ UNCHANGED <<conn, closed>>
    /\ UNCHANGED <<topic, hs, cipher, sealed, written, got, file, proc, used>>

\* readFrame: the length, then the body of that length, each consuming a
\* nonce when it authenticates.
readFrame(e) ==
    /\ Usable(e) /\ conn[e].buf = <<>>
    /\ wire[e] # <<>> \/ closed
    /\ IF wire[e] = <<>> \/ ~Decrypts(cipher[e].recv, Head(wire[e]))
       THEN fail(e) /\ UNCHANGED <<wire, cipher>>
       ELSE LET unit == Head(wire[e])
                size == unit.box.plain[3]
            IN  /\ Taken(e)
                /\ cipher' = [cipher EXCEPT ![e].recv = advance(@)]
                /\ IF ~conn[e].body
                   THEN IF size > MaxMessageSize THEN fail(e)
                        ELSE conn' = [conn EXCEPT ![e].body = TRUE] /\ UNCHANGED closed
                   ELSE /\ conn' = [conn EXCEPT ![e].body = FALSE,
                                     ![e].buf = [b \in 1..size |-> <<unit.box.plain[2], b>>]]
                        /\ UNCHANGED closed
    /\ UNCHANGED <<topic, hs, writer, sealed, written, got, file, proc, used>>

\* Read copies what fits and keeps the rest of the frame.
Read(e, n) ==
    /\ Usable(e) /\ n <= Len(conn[e].buf)
    /\ got' = [got EXCEPT ![e] = @ \o SubSeq(conn[e].buf, 1, n)]
    /\ conn' = [conn EXCEPT ![e].buf = SubSeq(@, n + 1, Len(@))]
    /\ UNCHANGED <<topic, hs, cipher, wire, closed, writer, sealed, written, file, proc, used>>

Close(e) ==
    /\ Usable(e) /\ used.faults < MaxFaults
    /\ fail(e)
    /\ used' = [used EXCEPT !.faults = @ + 1]
    /\ UNCHANGED <<topic, hs, cipher, wire, writer, sealed, written, got, file, proc>>

\* Faults of the network.
Corrupt(e) ==
    /\ used.faults < MaxFaults
    /\ \E i \in DOMAIN wire[e] : wire' = [wire EXCEPT ![e][i].ok = FALSE]
    /\ used' = [used EXCEPT !.faults = @ + 1]
    /\ UNCHANGED <<topic, hs, cipher, conn, closed, writer, sealed, written, got, file, proc>>
Reset ==
    /\ topic = "stream" /\ used.faults < MaxFaults /\ ~closed
    /\ closed' = TRUE
    /\ used' = [used EXCEPT !.faults = @ + 1]
    /\ UNCHANGED <<topic, hs, cipher, conn, wire, writer, sealed, written, got, file, proc>>

(***************************************************************************)
(* The identity key file, created by whichever process comes first.        *)
(***************************************************************************)
NoFile == <<"none", 0>>
StreamIdle == UNCHANGED <<topic, hs, cipher, conn, wire, closed, writer, sealed,
                          written, got>>

\* LoadIdentityKey, at first and again after the link met a file.
LoadIdentityKey(p) ==
    /\ topic = "identity" /\ proc[p].pc \in {"load", "reload"}
    /\ proc' = [proc EXCEPT ![p] =
                  IF file # NoFile THEN [pc |-> "done", key |-> file]
                  ELSE IF proc[p].pc = "load" THEN [pc |-> "link", key |-> <<p, used.crashes>>]
                  ELSE [pc |-> "failed", key |-> @.key]]
    /\ UNCHANGED <<file, used>> /\ StreamIdle

\* os.Link refuses an existing name, which a rename would replace.
Linked(p) == file = NoFile
\* writeIdentityKeyFile: the complete, synced temporary file gets its name.
linkIdentityKey(p) ==
    /\ proc[p].pc = "link"
    /\ IF Linked(p)
       THEN /\ file' = proc[p].key
            /\ proc' = [proc EXCEPT ![p].pc = "done"]
       ELSE /\ proc' = [proc EXCEPT ![p].pc = "reload"]
            /\ UNCHANGED file
    /\ UNCHANGED used /\ StreamIdle

CrashAndRestart(p) ==
    /\ topic = "identity" /\ used.crashes < MaxCrashes
    /\ proc' = [proc EXCEPT ![p] = [pc |-> "load", key |-> NoFile]]
    /\ used' = [used EXCEPT !.crashes = @ + 1]
    /\ UNCHANGED file /\ StreamIdle

BrInit ==
    /\ topic \in Topics
    /\ \E remote \in DialKeys :
         hs = [i |-> [pc |-> "dial", remote |-> remote, sym |-> NewHandshakeState("i", remote)],
               r |-> [pc |-> "accept", remote |-> NoKey, sym |-> NewHandshakeState("r", NoKey)]]
    /\ cipher = [e \in Ends |-> NoCiphers]
    /\ conn = [e \in Ends |-> [failed |-> FALSE, buf |-> <<>>, body |-> FALSE]]
    /\ wire = [e \in Ends |-> <<>>] /\ closed = FALSE
    /\ writer = [e \in Ends |-> [w \in Writers |-> <<>>]]
    /\ sealed = {} /\ written = [e \in Ends |-> <<>>] /\ got = [e \in Ends |-> <<>>]
    /\ file = NoFile /\ proc = [p \in Procs |-> [pc |-> "load", key |-> NoFile]]
    /\ used = [writes |-> 0, faults |-> 0, timeouts |-> 0, crashes |-> 0]

BrNext ==
    \/ Dial \/ AcceptOne \/ TwoThenThree \/ AcceptThree
    \/ \E e \in Ends :
         \/ TimesOut(e)
         \/ \E w \in Writers : writeFull(e, w) \/ \E size \in Sizes : WriteFrame(e, w, size)
         \/ readFrame(e) \/ \E n \in 1..MaxMessageSize : Read(e, n)
         \/ Close(e) \/ Corrupt(e)
    \/ Reset
    \/ \E p \in Procs : LoadIdentityKey(p) \/ linkIdentityKey(p) \/ CrashAndRestart(p)

BrSpec == BrInit /\ [][BrNext]_brVars

(***************************************************************************)
(* Properties.                                                             *)
(***************************************************************************)
\* What an end's Read hands out is a prefix of what the other end's Write
\* took, whatever the network does and however many rotations passed.
StreamInOrder ==
    \A e \in Ends : IsPrefix(got[e], written[Other(e)])

\* No key seals two different plaintexts under one nonce.
NoncesUnique ==
    \A x, y \in sealed : (x.key = y.key /\ x.nonce = y.nonce) => x = y

\* An accepted connection was dialed for this node's key by the owner of the
\* static key the acceptor learned, and both ends hold mirrored ciphers.
EndsAuthenticated ==
    hs["r"].pc = "open" =>
       /\ hs["i"].pc = "open" /\ hs["i"].remote = Static("r") /\ hs["r"].remote = Static("i")
       /\ hs["i"].sym = hs["r"].sym

\* Without a fault, a timeout or a wrong key no end fails: concurrent writers
\* and rotations never put the two ciphers out of step.
NeverOutOfStep ==
    (used.faults = 0 /\ used.timeouts = 0 /\ hs["i"].remote \in {Static("r"), NoKey}) =>
       \A e \in Ends : ~conn[e].failed /\ hs[e].pc # "failed"

\* Processes that start on one data directory all get the same identity key,
\* the one on disk, though they race and crash.
OneIdentity ==
    \A p \in Procs : proc[p].pc = "done" => proc[p].key = file

TransportSound ==
    StreamInOrder /\ NoncesUnique /\ EndsAuthenticated /\ NeverOutOfStep /\ OneIdentity
=============================================================================
