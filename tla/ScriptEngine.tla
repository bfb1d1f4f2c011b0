---------------------------- MODULE ScriptEngine ----------------------------
(* The script engine of txscript (engine.go, sigvalidate.go and the signature *)
(* handlers of opcode.go): it runs the script that locks an output, and the   *)
(* witness script the output's program commits to, and says whether the input *)
(* may spend the output.  Two engines run the same input in step: "pool" with  *)
(* the flags under which the transaction pool accepts a transaction, "block"  *)
(* with those under which a block is connected.                               *)
(*                                                                            *)
(* An opcode is [name, arg], arg being the bytes a push pushes or the small   *)
(* integer of OP_N.  A signature is <<signer, signed from, hash type>>, valid *)
(* for the key <<form, signer>> when the script it signs starts at the last   *)
(* separator passed; 0 as signer makes it no signature, or no point.          *)
EXTENDS Integers, Sequences, SequencesExt, FiniteSets

(* What the script engine of txscript computes with: byte arrays read as     *)
(* booleans (stack.go: asBool, fromBool) and as numbers (scriptnum.go), and   *)
(* the operations of a stack of them (stack.go), whose top is the last        *)
(* element of a sequence.  Every stack operator here is partial, as its Go    *)
(* method is: the method fails when the stack is shorter than Needs says, and *)
(* the opcodes of ScriptEngine ask for that depth first.                      *)
\* A byte array is a sequence of bytes, the least significant first.
asBool(t) ==
  \E i \in DOMAIN t : t[i] # 0 /\ ~(i = Len(t) /\ t[i] = 128)

fromBool(v) == IF v THEN <<1>> ELSE <<>>

\* The most significant byte may hold no magnitude only when the byte below
\* it needs its high bit for the magnitude.
checkMinimalDataEncoding(v) ==
  \/ v = <<>>
  \/ v[Len(v)] % 128 # 0
  \/ Len(v) > 1 /\ v[Len(v) - 1] >= 128

\* The digits of n to the base 256.
digits[n \in Nat] ==
  IF n = 0 THEN <<>> ELSE <<n % 256>> \o digits[n \div 256]

\* scriptNum.Bytes: the sign goes into the high bit of the last byte, or into
\* a byte of its own when that bit is taken.
Bytes(n) ==
  LET m == digits[IF n < 0 THEN -n ELSE n]
      l == Len(m)
  IN CASE n = 0 -> <<>>
       [] n # 0 /\ m[l] >= 128 -> Append(m, IF n < 0 THEN 128 ELSE 0)
       [] n # 0 /\ m[l] < 128 ->
            [m EXCEPT ![l] = IF n < 0 THEN @ + 128 ELSE @]

\* MakeScriptNum: the numbers v stands for, none when it is refused.
MakeScriptNum(v, requireMinimal, scriptNumLen) ==
  LET l == Len(v)
      sum == FoldRight(LAMBDA d, acc : d + 256 * acc, v, 0)
      sign == 2 ^ (8 * l - 1)
  IN IF l > scriptNumLen \/ (requireMinimal /\ ~checkMinimalDataEncoding(v))
     THEN {}
     ELSE {IF l > 0 /\ sum >= sign THEN sign - sum ELSE sum}

----------------------------------------------------------------------------
(* stack.go.  Item idx of a stack is counted from its top, from zero.        *)

PeekByteArray(s, idx) == s[Len(s) - idx]

nipN(s, idx) == RemoveAt(s, Len(s) - idx)

PushByteArray(s, so) == Append(s, so)

RollN(s, n) == PushByteArray(nipN(s, n), PeekByteArray(s, n))

PickN(s, n) == PushByteArray(s, PeekByteArray(s, n))

\* What n rounds of a method's loop leave, each round applying Round.
Rounds(Round(_), s, n) ==
  LET after[i \in 0..n] == IF i = 0 THEN s ELSE Round(after[i - 1])
  IN after[n]

DropN(s, n) == Rounds(LAMBDA t : nipN(t, 0), s, n)

DupN(s, n) == Rounds(LAMBDA t : PickN(t, n - 1), s, n)

RotN(s, n) == Rounds(LAMBDA t : RollN(t, 3 * n - 1), s, n)

SwapN(s, n) == Rounds(LAMBDA t : RollN(t, 2 * n - 1), s, n)

OverN(s, n) == Rounds(LAMBDA t : PickN(t, 2 * n - 1), s, n)

Tuck(s) ==
  LET so2 == PeekByteArray(s, 0)
      so1 == PeekByteArray(s, 1)
  IN DropN(s, 2) \o <<so2, so1, so2>>

-----------------------------------------------------------------------------
(* The handlers of the opcodes of txscript/opcode.go that need no signature.  *)
(* A handler opcodeX takes the state of an engine to its next state; one that *)
(* returns an error leaves the engine failed.  Which error it was is not      *)
(* kept: every error ends the execution.  The limits of the code are          *)
(* constants, small enough for scripts of a few opcodes to meet them.         *)
CONSTANTS
  maxScriptNumLen,      \* bytes of a number an opcode reads, 4 in the code
  LockTimeFlag,         \* marks a lock time as a time, 2^31 in the code
  SequenceDisabled,     \* wire.SequenceLockTimeDisabled, 2^31
  SequenceSeconds,      \* wire.SequenceLockTimeIsSeconds, 2^22
  SequenceMask,         \* wire.SequenceLockTimeMask, 2^16 - 1
  MaxSequence           \* wire.MaxTxInSequenceNum

VARIABLE input          \* what is run: [kind, script, witness, matches, tx]

\* mandatoryScriptVerifyFlags of blockchain/validate.go.
mandatoryScriptVerifyFlags ==
  {"Bip16", "StrictMultiSig", "CheckLockTimeVerify", "CheckSequenceVerify",
   "DERSignatures", "LowS", "MinimalData", "NullFail", "StrictEncoding",
   "Witness", "MinimalIf"}

\* StandardVerifyFlags of txscript/standard.go, which the pool uses.
StandardVerifyFlags ==
  {"Bip16", "DERSignatures", "StrictEncoding", "MinimalData", "StrictMultiSig",
   "DiscourageUpgradableNops", "CleanStack", "NullFail", "CheckLockTimeVerify",
   "CheckSequenceVerify", "LowS", "Witness",
   "DiscourageUpgradeableWitnessProgram", "MinimalIf", "WitnessPubKeyType",
   "DiscourageOpSuccess", "DiscourageUpgradeablePubkeyType", "ConstScriptCode"}

hasFlag(e, f) ==
  f \in (IF e.mode = "pool" THEN StandardVerifyFlags
         ELSE mandatoryScriptVerifyFlags)

----------------------------------------------------------------------------
(* Helpers of the handlers.                                                  *)

Fail(e) == [e EXCEPT !.status = "failed"]

Ok(e) == e.status = "run"

\* The stack becomes s, unless it holds fewer than n items: then the method of
\* the stack that was called returns an error.
OnStack(e, n, s) ==
  IF Len(e.dstack) < n THEN Fail(e) ELSE [e EXCEPT !.dstack = s]

Push(e, so) == [e EXCEPT !.dstack = PushByteArray(@, so)]

Top(e, idx) == PeekByteArray(e.dstack, idx)

\* PopInt of the item idx below the top: the number, or none.
IntAt(e, idx) ==
  MakeScriptNum(Top(e, idx), hasFlag(e, "MinimalData"), maxScriptNumLen)

TheInt(e, idx) == CHOOSE n \in IntAt(e, idx) : TRUE

IntsReadable(e, n) ==
  Len(e.dstack) >= n /\ \A i \in 0..(n - 1) : IntAt(e, i) # {}

\* The handlers that pop n numbers and push a number computed of them.
OnInts(e, n, m) ==
  IF ~IntsReadable(e, n) THEN Fail(e)
  ELSE [e EXCEPT !.dstack = PushByteArray(DropN(@, n), Bytes(m))]

One(b) == IF b THEN 1 ELSE 0

\* abstractVerify: pops a boolean, which must be true.
abstractVerify(e) ==
  IF Len(e.dstack) < 1 \/ ~asBool(Top(e, 0)) THEN Fail(e)
  ELSE [e EXCEPT !.dstack = DropN(@, 1)]

ThenVerify(e) == IF Ok(e) THEN abstractVerify(e) ELSE e

isWitnessVersionActive == input.kind \in {"p2wpkh", "p2wsh"}

----------------------------------------------------------------------------
(* Pushes, control flow.                                                     *)

opcodeDisabled(e) == Fail(e)

opcodeReserved(e) == Fail(e)

opcodePushData(e, data) == Push(e, data)

opcode1Negate(e) == Push(e, Bytes(-1))

opcodeN(e, n) == Push(e, Bytes(n))

opcodeNop(e, reserved) ==
  IF reserved /\ hasFlag(e, "DiscourageUpgradableNops") THEN Fail(e) ELSE e

isBranchExecuting(e) ==
  e.condStack = <<>> \/ e.condStack[Len(e.condStack)] = "true"

\* popIfBool: what a conditional may find on the stack.
popIfBool(e) ==
  /\ Len(e.dstack) >= 1
  /\ isWitnessVersionActive /\ hasFlag(e, "MinimalIf") =>
       Top(e, 0) \in {<<>>, <<1>>}

Conditional(e, wanted) ==
  LET val == IF asBool(Top(e, 0)) = wanted THEN "true" ELSE "false"
  IN CASE ~isBranchExecuting(e) ->
            [e EXCEPT !.condStack = Append(@, "skip")]
       [] isBranchExecuting(e) /\ ~popIfBool(e) -> Fail(e)
       [] isBranchExecuting(e) /\ popIfBool(e) ->
            [e EXCEPT !.dstack = DropN(@, 1), !.condStack = Append(@, val)]

opcodeIf(e) == Conditional(e, TRUE)

opcodeNotIf(e) == Conditional(e, FALSE)

opcodeElse_Unskips(e) ==
  LET l == Len(e.condStack)
  IN IF l = 0 THEN Fail(e)
     ELSE [e EXCEPT !.condStack[l] = IF @ = "true" THEN "false" ELSE "true"]

opcodeElse(e) ==
  LET l == Len(e.condStack)
      other == [true |-> "false", false |-> "true", skip |-> "skip"]
  IN IF l = 0 THEN Fail(e) ELSE [e EXCEPT !.condStack[l] = other[@]]

opcodeEndif(e) ==
  IF e.condStack = <<>> THEN Fail(e)
  ELSE [e EXCEPT !.condStack = Front(@)]

opcodeVerify(e) == abstractVerify(e)

opcodeReturn(e) == Fail(e)

\* The covenant type of the output paired with the input.
opcodeType(e) == Push(e, Bytes(input.tx.covenant))

----------------------------------------------------------------------------
(* Lock times.  A bit b of n is (n \div b) % 2.                              *)

HasBit(n, b) == (n \div b) % 2 = 1

verifyLockTime(txLockTime, typeFlag, valueMask, lockTime) ==
  /\ HasBit(txLockTime, typeFlag) = HasBit(lockTime, typeFlag)
  /\ lockTime % (valueMask + 1) <= txLockTime % (valueMask + 1)

\* The top item as a lock time, which may be a byte longer than a number.
LockTimes(e) ==
  IF Len(e.dstack) < 1 THEN {}
  ELSE {n \in MakeScriptNum(Top(e, 0), hasFlag(e, "MinimalData"),
                            maxScriptNumLen + 1) : n >= 0}

opcodeCheckLockTimeVerify(e) ==
  CASE ~hasFlag(e, "CheckLockTimeVerify") -> opcodeNop(e, TRUE)
    [] hasFlag(e, "CheckLockTimeVerify") ->
         IF /\ \E n \in LockTimes(e) :
                 verifyLockTime(input.tx.lockTime, LockTimeFlag,
                                LockTimeFlag - 1, n)
            /\ input.tx.sequence # MaxSequence
         THEN e ELSE Fail(e)

opcodeCheckSequenceVerify(e) ==
  LET txSequence == input.tx.sequence
      masked(n) == (IF HasBit(n, SequenceSeconds) THEN SequenceSeconds ELSE 0)
                   + (n % (SequenceMask + 1))
  IN CASE ~hasFlag(e, "CheckSequenceVerify") -> opcodeNop(e, TRUE)
       [] hasFlag(e, "CheckSequenceVerify") ->
            IF \E n \in LockTimes(e) :
                 \/ HasBit(n, SequenceDisabled)
                 \/ /\ ~HasBit(txSequence, SequenceDisabled)
                    /\ verifyLockTime(masked(txSequence), SequenceSeconds,
                                      SequenceMask, masked(n))
            THEN e ELSE Fail(e)

----------------------------------------------------------------------------
(* The stack opcodes.                                                        *)

opcodeToAltStack(e) ==
  IF Len(e.dstack) < 1 THEN Fail(e)
  ELSE [e EXCEPT !.dstack = DropN(@, 1),
                 !.astack = PushByteArray(@, Top(e, 0))]

opcodeFromAltStack(e) ==
  IF e.astack = <<>> THEN Fail(e)
  ELSE [e EXCEPT !.dstack = PushByteArray(@, PeekByteArray(e.astack, 0)),
                 !.astack = DropN(@, 1)]

opcode2Drop(e) == OnStack(e, 2, DropN(e.dstack, 2))

opcode2Dup(e) == OnStack(e, 2, DupN(e.dstack, 2))

opcode3Dup(e) == OnStack(e, 3, DupN(e.dstack, 3))

opcode2Over(e) == OnStack(e, 4, OverN(e.dstack, 2))

opcode2Rot(e) == OnStack(e, 6, RotN(e.dstack, 2))

opcode2Swap(e) == OnStack(e, 4, SwapN(e.dstack, 2))

opcodeIfDup(e) ==
  OnStack(e, 1, IF asBool(Top(e, 0)) THEN PickN(e.dstack, 0) ELSE e.dstack)

opcodeDepth(e) == Push(e, Bytes(Len(e.dstack)))

opcodeDrop(e) == OnStack(e, 1, DropN(e.dstack, 1))

opcodeDup(e) == OnStack(e, 1, DupN(e.dstack, 1))

opcodeNip(e) == OnStack(e, 2, nipN(e.dstack, 1))

opcodeOver(e) == OnStack(e, 2, OverN(e.dstack, 1))

\* Pick and roll take the index they work on from the stack.
AtIndex(e, picks) ==
  LET s == DropN(e.dstack, 1)
      n == TheInt(e, 0)
  IN CASE ~IntsReadable(e, 1) -> Fail(e)
       [] IntsReadable(e, 1) ->
            IF n < 0 \/ n >= Len(s) THEN Fail(e)
            ELSE [e EXCEPT !.dstack = IF picks THEN PickN(s, n)
                                      ELSE RollN(s, n)]

opcodePick(e) == AtIndex(e, TRUE)

opcodeRoll(e) == AtIndex(e, FALSE)

opcodeRot(e) == OnStack(e, 3, RotN(e.dstack, 1))

opcodeSwap(e) == OnStack(e, 2, SwapN(e.dstack, 1))

opcodeTuck(e) == OnStack(e, 2, Tuck(e.dstack))

opcodeSize(e) ==
  OnStack(e, 1, PushByteArray(e.dstack, Bytes(Len(Top(e, 0)))))

opcodeEqual(e) ==
  OnStack(e, 2, PushByteArray(DropN(e.dstack, 2),
                              fromBool(Top(e, 0) = Top(e, 1))))

opcodeEqualVerify(e) == ThenVerify(opcodeEqual(e))

----------------------------------------------------------------------------
(* Arithmetic: V0 is the top of the stack, V1 the item below it.             *)

V0(e) == TheInt(e, 0)

V1(e) == TheInt(e, 1)

opcode1Add(e) == OnInts(e, 1, V0(e) + 1)

opcode1Sub(e) == OnInts(e, 1, V0(e) - 1)

opcodeNegate(e) == OnInts(e, 1, -V0(e))

opcodeAbs(e) == OnInts(e, 1, IF V0(e) < 0 THEN -V0(e) ELSE V0(e))

opcodeNot(e) == OnInts(e, 1, One(V0(e) = 0))

opcode0NotEqual(e) == OnInts(e, 1, One(V0(e) # 0))

opcodeAdd(e) == OnInts(e, 2, V0(e) + V1(e))

opcodeSub(e) == OnInts(e, 2, V1(e) - V0(e))

opcodeBoolAnd(e) == OnInts(e, 2, One(V0(e) # 0 /\ V1(e) # 0))

opcodeBoolOr(e) == OnInts(e, 2, One(V0(e) # 0 \/ V1(e) # 0))

opcodeNumEqual(e) == OnInts(e, 2, One(V0(e) = V1(e)))

opcodeNumEqualVerify(e) == ThenVerify(opcodeNumEqual(e))

opcodeNumNotEqual(e) == OnInts(e, 2, One(V0(e) # V1(e)))

opcodeLessThan(e) == OnInts(e, 2, One(V1(e) < V0(e)))

opcodeGreaterThan(e) == OnInts(e, 2, One(V1(e) > V0(e)))

opcodeLessThanOrEqual(e) == OnInts(e, 2, One(V1(e) <= V0(e)))

opcodeGreaterThanOrEqual(e) == OnInts(e, 2, One(V1(e) >= V0(e)))

opcodeMin(e) == OnInts(e, 2, IF V1(e) < V0(e) THEN V1(e) ELSE V0(e))

opcodeMax(e) == OnInts(e, 2, IF V1(e) > V0(e) THEN V1(e) ELSE V0(e))

opcodeWithin(e) ==
  OnInts(e, 3, One(TheInt(e, 2) >= V1(e) /\ TheInt(e, 2) < V0(e)))

----------------------------------------------------------------------------
(* Hashes: a digest stands for what was hashed.  It is longer than any       *)
(* number a script can read and true as a boolean, as the code's are.        *)

calcHash(alg, buf) == <<255, alg, buf>>

OnHash(e, alg) ==
  OnStack(e, 1, PushByteArray(DropN(e.dstack, 1), calcHash(alg, Top(e, 0))))

opcodeRipemd160(e) == OnHash(e, 1)

opcodeSha1(e) == OnHash(e, 2)

opcodeSha256(e) == OnHash(e, 3)

opcodeHash160(e) == OnHash(e, 4)

opcodeHash256(e) == OnHash(e, 5)

opcodeBlake160(e) == OnHash(e, 6)

opcodeBlake256(e) == OnHash(e, 7)

opcodeSha3(e) == OnHash(e, 8)

opcodeKeccak(e) == OnHash(e, 9)

-----------------------------------------------------------------------------
CONSTANTS
  Inputs,               \* what may be run: a sequence of sets of inputs
  MaxStackSize,         \* items of both stacks, 1000 in the code
  MaxOpsPerScript,      \* opcodes that are not pushes, 201 in the code
  MaxScriptElementSize, \* bytes of an item, 520 in the code
  MaxPubKeysPerMultiSig,\* 20 in the code
  MaxScriptSize         \* opcodes here, 10000 bytes in the code

VARIABLES
  vm,                   \* the two engines
  lastOp                \* the opcode they executed last

seVars == <<input, vm, lastOp>>

Modes == {"pool", "block"}

\* The script an engine runs: that of the output itself, or the one its
\* witness program stands for.
payToPubKeyHashScript ==
  <<[name |-> "DUP", arg |-> <<>>], [name |-> "BLAKE160", arg |-> <<>>],
    [name |-> "DATA", arg |-> calcHash(6, input.program)],
    [name |-> "EQUALVERIFY", arg |-> <<>>], [name |-> "CHECKSIG", arg |-> <<>>]>>

Script ==
  IF input.kind = "p2wpkh" THEN payToPubKeyHashScript ELSE input.script

IsPush(op) == op.name \in {"0", "DATA", "PUSHDATA1", "1NEGATE", "RESERVED", "N"}

----------------------------------------------------------------------------
(* Counting signature operations before anything runs.                       *)

SigOpsAt(script, i, precise) ==
  CASE script[i].name \in {"CHECKSIG", "CHECKSIGVERIFY"} -> 1
    [] script[i].name \in {"CHECKMULTISIG", "CHECKMULTISIGVERIFY"} ->
         IF precise /\ i > 1 /\ script[i - 1].name = "N"
         THEN script[i - 1].arg ELSE MaxPubKeysPerMultiSig
    [] OTHER -> 0

countSigOpsV0(script, precise) ==
  LET n[i \in 0..Len(script)] ==
        IF i = 0 THEN 0 ELSE n[i - 1] + SigOpsAt(script, i, precise)
  IN n[Len(script)]

getWitnessSigOps ==
  CASE input.kind = "p2wpkh" -> 1
    [] input.kind = "p2wsh" -> countSigOpsV0(input.script, TRUE)
    [] OTHER -> 0

GetPreciseSigOpCount ==
  IF input.kind = "raw" THEN countSigOpsV0(input.script, TRUE) ELSE 0

----------------------------------------------------------------------------
(* Signatures.                                                               *)

checkHashTypeEncoding(e, sig) ==
  hasFlag(e, "StrictEncoding") => sig[Len(sig)] = 1

parseHnsEcdsaSignature(sig) == Len(sig) = 3 /\ sig[1] # 0

hasSignatureEncodingFlags(e) ==
  \E f \in {"DERSignatures", "LowS", "StrictEncoding"} : hasFlag(e, f)

\* An error that is a script error ends the execution; any other makes the
\* signature a bad one.
parseSignature(e, sig) ==
  CASE parseHnsEcdsaSignature(sig) -> "ok"
    [] ~parseHnsEcdsaSignature(sig) ->
         IF hasSignatureEncodingFlags(e) \/ (hasFlag(e, "NullFail") /\ Len(sig) > 1)
         THEN "error" ELSE "bad"

checkPubKeyEncoding(e, pk) ==
  /\ hasFlag(e, "WitnessPubKeyType") /\ isWitnessVersionActive =>
       Len(pk) = 2 /\ pk[1] = 2
  /\ hasFlag(e, "StrictEncoding") => Len(pk) = 2 /\ pk[1] \in {2, 4}

\* btcec.ParsePubKey.
ParsePubKey(pk) == Len(pk) = 2 /\ pk[2] # 0

parseBaseSigAndPubkey(e, pk, sig) ==
  CASE ~checkHashTypeEncoding(e, sig) -> "error"
    [] checkHashTypeEncoding(e, sig) ->
         IF parseSignature(e, sig) # "ok" THEN parseSignature(e, sig)
         ELSE IF ~checkPubKeyEncoding(e, pk) THEN "error"
         ELSE IF ~ParsePubKey(pk) THEN "bad" ELSE "ok"

\* Whether the signature is the key's over the script from the separator.
verifySig(e, pk, sig) == sig[1] = pk[2] /\ sig[2] = e.lastCodeSep

\* removeOpcodeByData: whether the script that is signed pushes the signature.
removeOpcodeByData(e, sig) ==
  /\ ~isWitnessVersionActive
  /\ \E i \in (e.lastCodeSep + 1)..Len(Script) :
       Script[i].name = "DATA" /\ Script[i].arg = sig

opcodeCodeSeparator(e) ==
  IF ~isWitnessVersionActive /\ hasFlag(e, "ConstScriptCode") THEN Fail(e)
  ELSE [e EXCEPT !.lastCodeSep = e.pc]

opcodeCheckSig(e) ==
  LET pk == Top(e, 0)
      sig == Top(e, 1)
      popped == [e EXCEPT !.dstack = DropN(@, 2), !.checks = @ + 1]
      parsed == parseBaseSigAndPubkey(e, pk, sig)
      valid == parsed = "ok" /\ verifySig(e, pk, sig)
      answer(b) == Push(popped, fromBool(b))
  IN CASE Len(e.dstack) < 2 -> Fail(e)
       [] Len(e.dstack) >= 2 ->
            IF sig = <<>> THEN answer(FALSE)
            ELSE IF \/ parsed = "error"
                    \/ hasFlag(e, "ConstScriptCode") /\ removeOpcodeByData(e, sig)
                    \/ ~valid /\ hasFlag(e, "NullFail")
            THEN Fail(e) ELSE answer(valid)

opcodeCheckSigVerify(e) == ThenVerify(opcodeCheckSig(e))

\* Only a tapscript may use it, and none is ever run.
opcodeCheckSigAdd(e) == Fail(e)

CheckMultiSigWalk_KeepsKey(e, keys, sigs) ==
  LET n == Len(keys)
      m == Len(sigs)
      walk[k \in 1..(n + 1), s \in 1..(m + 1)] ==
        CASE s > m -> "true"
          [] s <= m /\ k > n -> "false"
          [] s <= m /\ k <= n ->
               LET parsed == parseBaseSigAndPubkey(e, keys[k], sigs[s])
               IN IF sigs[s] = <<>> THEN walk[k + 1, s]
                  ELSE IF parsed = "error" THEN "error"
                  ELSE IF parsed = "ok" /\ verifySig(e, keys[k], sigs[s])
                  THEN walk[k, s + 1] ELSE walk[k + 1, s]
  IN walk[1, 1]

\* The walk of opcodeCheckMultiSig along the keys: k is the key and s the
\* signature looked at; the answer is true, false or an error.
CheckMultiSigWalk(e, keys, sigs) ==
  LET n == Len(keys)
      m == Len(sigs)
      walk[k \in 1..(n + 1), s \in 1..(m + 1)] ==
        CASE s > m -> "true"
          [] s <= m /\ m - s > n - k -> "false"
          [] s <= m /\ m - s <= n - k ->
               LET parsed == parseBaseSigAndPubkey(e, keys[k], sigs[s])
               IN IF sigs[s] = <<>> THEN walk[k + 1, s]
                  ELSE IF parsed = "error" THEN "error"
                  ELSE IF parsed = "ok" /\ verifySig(e, keys[k], sigs[s])
                  THEN walk[k + 1, s + 1] ELSE walk[k + 1, s]
  IN walk[1, 1]

\* What opcodeCheckMultiSig takes off the stack.
NumKeys(e) == TheInt(e, 0)

PubKeys(e) == [i \in 1..NumKeys(e) |-> Top(e, i)]

NumSigs(e) == TheInt(e, NumKeys(e) + 1)

Signatures(e) == [i \in 1..NumSigs(e) |-> Top(e, NumKeys(e) + 1 + i)]

MultiSigReadable(e) ==
  /\ IntsReadable(e, 1)
  /\ NumKeys(e) \in 0..MaxPubKeysPerMultiSig
  /\ e.numOps + NumKeys(e) <= MaxOpsPerScript
  /\ Len(e.dstack) >= NumKeys(e) + 2
  /\ IntAt(e, NumKeys(e) + 1) # {}
  /\ NumSigs(e) \in 0..NumKeys(e)
  /\ Len(e.dstack) >= NumKeys(e) + NumSigs(e) + 3

opcodeCheckMultiSig(e) ==
  LET taken == NumKeys(e) + NumSigs(e) + 3
      walked == CheckMultiSigWalk(e, PubKeys(e), Signatures(e))
      sigs == ToSet(Signatures(e))
  IN CASE ~MultiSigReadable(e) -> Fail(e)
       [] MultiSigReadable(e) ->
            IF \/ hasFlag(e, "StrictMultiSig") /\ Top(e, taken - 1) # <<>>
               \/ /\ hasFlag(e, "ConstScriptCode")
                  /\ \E s \in sigs : s # <<>> /\ removeOpcodeByData(e, s)
               \/ walked = "error"
               \/ walked = "false" /\ hasFlag(e, "NullFail") /\ sigs \ {<<>>} # {}
            THEN Fail(e)
            ELSE [e EXCEPT !.dstack = PushByteArray(DropN(@, taken),
                                                    fromBool(walked = "true")),
                           !.numOps = @ + NumKeys(e),
                           !.checks = @ + NumKeys(e)]

opcodeCheckMultiSigVerify(e) == ThenVerify(opcodeCheckMultiSig(e))

----------------------------------------------------------------------------
(* Executing one opcode.                                                     *)

isOpcodeDisabled(op) ==
  op.name \in {"CAT", "SUBSTR", "LEFT", "RIGHT", "INVERT", "AND", "OR", "XOR",
               "2MUL", "2DIV", "MUL", "DIV", "MOD", "LSHIFT", "RSHIFT"}

isOpcodeAlwaysIllegal(op) == op.name \in {"VERIF", "VERNOTIF"}

isOpcodeConditional(op) == op.name \in {"IF", "NOTIF", "ELSE", "ENDIF"}

\* The shortest opcode that pushes the data is the one used.
checkMinimalDataPush(op) ==
  LET v == op.arg
  IN CASE op.name = "0" -> TRUE
       [] op.name # "0" ->
            /\ v # <<>>
            /\ Len(v) = 1 => v[1] \notin (1..16) \cup {129}
            /\ op.name = (IF Len(v) <= 75 THEN "DATA" ELSE "PUSHDATA1")

\* The handler opcodeArray gives to an opcode.
opfunc(e, op) ==
  CASE op.name = "0" -> opcodePushData(e, <<>>)
    [] op.name \in {"DATA", "PUSHDATA1"} -> opcodePushData(e, op.arg)
    [] op.name = "1NEGATE" -> opcode1Negate(e)
    [] op.name = "N" -> opcodeN(e, op.arg)
    [] op.name \in {"RESERVED", "VER"} -> opcodeReserved(e)
    [] op.name = "NOP" -> opcodeNop(e, FALSE)
    [] op.name = "NOP1" -> opcodeNop(e, TRUE)
    [] op.name = "IF" -> opcodeIf(e)
    [] op.name = "NOTIF" -> opcodeNotIf(e)
    [] op.name = "ELSE" -> opcodeElse(e)
    [] op.name = "ENDIF" -> opcodeEndif(e)
    [] op.name = "VERIFY" -> opcodeVerify(e)
    [] op.name = "RETURN" -> opcodeReturn(e)
    [] op.name = "CHECKLOCKTIMEVERIFY" -> opcodeCheckLockTimeVerify(e)
    [] op.name = "CHECKSEQUENCEVERIFY" -> opcodeCheckSequenceVerify(e)
    [] op.name = "TOALTSTACK" -> opcodeToAltStack(e)
    [] op.name = "FROMALTSTACK" -> opcodeFromAltStack(e)
    [] op.name = "2DROP" -> opcode2Drop(e)
    [] op.name = "2DUP" -> opcode2Dup(e)
    [] op.name = "3DUP" -> opcode3Dup(e)
    [] op.name = "2OVER" -> opcode2Over(e)
    [] op.name = "2ROT" -> opcode2Rot(e)
    [] op.name = "2SWAP" -> opcode2Swap(e)
    [] op.name = "IFDUP" -> opcodeIfDup(e)
    [] op.name = "DEPTH" -> opcodeDepth(e)
    [] op.name = "DROP" -> opcodeDrop(e)
    [] op.name = "DUP" -> opcodeDup(e)
    [] op.name = "NIP" -> opcodeNip(e)
    [] op.name = "OVER" -> opcodeOver(e)
    [] op.name = "PICK" -> opcodePick(e)
    [] op.name = "ROLL" -> opcodeRoll(e)
    [] op.name = "ROT" -> opcodeRot(e)
    [] op.name = "SWAP" -> opcodeSwap(e)
    [] op.name = "TUCK" -> opcodeTuck(e)
    [] op.name = "SIZE" -> opcodeSize(e)
    [] op.name = "EQUAL" -> opcodeEqual(e)
    [] op.name = "EQUALVERIFY" -> opcodeEqualVerify(e)
    [] op.name = "1ADD" -> opcode1Add(e)
    [] op.name = "1SUB" -> opcode1Sub(e)
    [] op.name = "NEGATE" -> opcodeNegate(e)
    [] op.name = "ABS" -> opcodeAbs(e)
    [] op.name = "NOT" -> opcodeNot(e)
    [] op.name = "0NOTEQUAL" -> opcode0NotEqual(e)
    [] op.name = "ADD" -> opcodeAdd(e)
    [] op.name = "SUB" -> opcodeSub(e)
    [] op.name = "BOOLAND" -> opcodeBoolAnd(e)
    [] op.name = "BOOLOR" -> opcodeBoolOr(e)
    [] op.name = "NUMEQUAL" -> opcodeNumEqual(e)
    [] op.name = "NUMEQUALVERIFY" -> opcodeNumEqualVerify(e)
    [] op.name = "NUMNOTEQUAL" -> opcodeNumNotEqual(e)
    [] op.name = "LESSTHAN" -> opcodeLessThan(e)
    [] op.name = "GREATERTHAN" -> opcodeGreaterThan(e)
    [] op.name = "LESSTHANOREQUAL" -> opcodeLessThanOrEqual(e)
    [] op.name = "GREATERTHANOREQUAL" -> opcodeGreaterThanOrEqual(e)
    [] op.name = "MIN" -> opcodeMin(e)
    [] op.name = "MAX" -> opcodeMax(e)
    [] op.name = "WITHIN" -> opcodeWithin(e)
    [] op.name = "RIPEMD160" -> opcodeRipemd160(e)
    [] op.name = "SHA1" -> opcodeSha1(e)
    [] op.name = "SHA256" -> opcodeSha256(e)
    [] op.name = "HASH160" -> opcodeHash160(e)
    [] op.name = "HASH256" -> opcodeHash256(e)
    [] op.name = "BLAKE160" -> opcodeBlake160(e)
    [] op.name = "BLAKE256" -> opcodeBlake256(e)
    [] op.name = "SHA3" -> opcodeSha3(e)
    [] op.name = "KECCAK" -> opcodeKeccak(e)
    [] op.name = "TYPE" -> opcodeType(e)
    [] op.name = "CODESEPARATOR" -> opcodeCodeSeparator(e)
    [] op.name = "CHECKSIG" -> opcodeCheckSig(e)
    [] op.name = "CHECKSIGVERIFY" -> opcodeCheckSigVerify(e)
    [] op.name = "CHECKSIGADD" -> opcodeCheckSigAdd(e)
    [] op.name = "CHECKMULTISIG" -> opcodeCheckMultiSig(e)
    [] op.name = "CHECKMULTISIGVERIFY" -> opcodeCheckMultiSigVerify(e)
    [] OTHER -> opcodeDisabled(e)

executeOpcode(e, op) ==
  LET counted == IF IsPush(op) THEN e ELSE [e EXCEPT !.numOps = @ + 1]
  IN IF \/ isOpcodeDisabled(op)
        \/ isOpcodeAlwaysIllegal(op)
        \/ counted.numOps > MaxOpsPerScript
        \/ op.name \in {"DATA", "PUSHDATA1"} /\ Len(op.arg) > MaxScriptElementSize
     THEN Fail(e)
     ELSE IF ~isBranchExecuting(e) /\ ~isOpcodeConditional(op) THEN counted
     ELSE IF /\ hasFlag(e, "MinimalData") /\ op.name \in {"0", "DATA", "PUSHDATA1"}
             /\ ~checkMinimalDataPush(op)
     THEN Fail(e) ELSE opfunc(counted, op)

----------------------------------------------------------------------------
(* Running the scripts of an input.                                          *)

\* CheckErrorCondition at the end of the last script.
CheckErrorCondition(e) ==
  LET depth == Len(e.dstack)
  IN IF \/ isWitnessVersionActive /\ depth # 1
        \/ hasFlag(e, "CleanStack") /\ depth # 1
        \/ depth < 1
     THEN Fail(e)
     ELSE [e EXCEPT !.dstack = DropN(@, 1),
                    !.status = IF asBool(Top(e, 0)) THEN "ok" ELSE "failed"]

\* Nothing of a script's alternate stack, counters or separators outlives it.
ScriptEnded(e) ==
  IF e.condStack # <<>> THEN Fail(e)
  ELSE [e EXCEPT !.astack = <<>>, !.numOps = 0, !.lastCodeSep = 0]

\* verifyWitnessProgram, once the program has been pushed: whether the witness
\* is taken, and the stack its script starts with.
verifyWitnessProgram(e) ==
  LET taken ==
        /\ isWitnessVersionActive
        /\ input.kind = "p2wpkh" => Len(input.witness) = 2
        /\ input.kind = "p2wsh" => input.matches /\ Len(input.script) <= MaxScriptSize
        /\ \A i \in DOMAIN input.witness :
             Len(input.witness[i]) <= MaxScriptElementSize
  IN IF taken THEN [e EXCEPT !.dstack = input.witness, !.pc = 0, !.idx = 2]
     ELSE Fail(e)

\* NewEngine: what is refused before anything runs.
NewEngine(m) ==
  LET e == [mode |-> m, idx |-> 1, pc |-> 0, dstack |-> <<>>, astack |-> <<>>,
            condStack |-> <<>>, numOps |-> 0, lastCodeSep |-> 0, checks |-> 0,
            status |-> "run"]
  IN IF /\ input.kind = "raw"
        /\ \/ input.script = <<>>
           \/ Len(input.script) > MaxScriptSize
           \/ input.witness # <<>>
     THEN Fail(e) ELSE e

\* What Step does with the engine its opcode left: the stacks are measured and
\* the script may be over.
AfterScript(e) == IF Ok(e) THEN CheckErrorCondition(e) ELSE e
AfterOpcode(e) ==
  IF ~Ok(e) THEN e
  ELSE IF Len(e.dstack) + Len(e.astack) > MaxStackSize THEN Fail(e)
  ELSE IF e.pc < Len(Script) THEN e
  ELSE AfterScript(ScriptEnded(e))

\* Step and what Execute does around it.  The script of a witness program is
\* its two pushes, after which the witness is looked at; a witness script of
\* no opcodes is over at once.
Step(e) ==
  IF e.idx = 1 /\ input.kind # "raw"
  THEN IF Script = <<>> THEN AfterScript(verifyWitnessProgram(e))
       ELSE verifyWitnessProgram(e)
  ELSE AfterOpcode(executeOpcode([e EXCEPT !.pc = @ + 1], Script[e.pc + 1]))

SeInit ==
  /\ \E i \in DOMAIN Inputs : input \in Inputs[i]
  /\ vm = [m \in Modes |-> NewEngine(m)]
  /\ lastOp = [name |-> "none", arg |-> <<>>]

\* Both engines take a step, unless they are done.
Execute ==
  /\ \E m \in Modes : Ok(vm[m])
  /\ vm' = [m \in Modes |-> IF Ok(vm[m]) THEN Step(vm[m]) ELSE vm[m]]
  /\ LET e == IF Ok(vm["block"]) THEN vm["block"] ELSE vm["pool"]
     IN lastOp' = IF e.idx = 1 /\ input.kind # "raw" THEN lastOp
                  ELSE Script[e.pc + 1]
  /\ UNCHANGED input

SeNext == Execute

SeSpec == SeInit /\ [][SeNext]_seVars

----------------------------------------------------------------------------
(* Properties.                                                               *)

\* The engines' counters and stacks stay within the limits of consensus.go and
\* engine.go as long as they run.
WithinLimits(e) ==
  Ok(e) =>
    /\ e.numOps <= MaxOpsPerScript
    /\ Len(e.dstack) + Len(e.astack) <=
         IF e.pc = 0 THEN Len(input.witness) ELSE MaxStackSize
    /\ \A i \in DOMAIN e.dstack : Len(e.dstack[i]) <= MaxScriptElementSize

\* The conditional stack: an opcode executes exactly when every branch around
\* it does, although isBranchExecuting looks at the innermost one alone.
BranchesNested(e) ==
  isBranchExecuting(e) <=> \A i \in DOMAIN e.condStack : e.condStack[i] = "true"

\* The signatures an input makes an engine check are no more than were counted
\* for it before it ran (GetSigOpCost charges GetPreciseSigOpCount or
\* GetWitnessSigOpCount).
ChecksCounted(e) == e.checks <= getWitnessSigOps + GetPreciseSigOpCount

\* An input is let through only when its script holds no disabled opcode, not
\* even in a branch that did not run, closes what it opens, and leaves a
\* witness program nothing but one true item.
SuccessEarned(e) ==
  e.status = "ok" =>
    /\ \A i \in DOMAIN Script :
         ~isOpcodeDisabled(Script[i]) /\ ~isOpcodeAlwaysIllegal(Script[i])
    /\ Cardinality({i \in DOMAIN Script : Script[i].name \in {"IF", "NOTIF"}})
         = Cardinality({i \in DOMAIN Script : Script[i].name = "ENDIF"})
    /\ isWitnessVersionActive => e.dstack = <<>>
    /\ input.kind \in {"p2wpkh", "p2wsh", "raw"}

\* What may be spent (Execute, CheckErrorCondition): the engines stay within
\* their limits, branches nest, no more signatures are checked than were
\* counted, success is earned, and an input the pool accepts is one a block
\* accepts, since the pool's flags only add rules.
SpendsSound ==
  /\ \A m \in Modes :
       /\ WithinLimits(vm[m])
       /\ BranchesNested(vm[m])
       /\ ChecksCounted(vm[m])
       /\ SuccessEarned(vm[m])
  /\ vm["pool"].status = "ok" => vm["block"].status = "ok"

\* The "Stack transformation" comments of opcode.go: what each opcode that
\* moves items leaves of the top of the stack.
Transformation ==
  [x \in {"2DROP", "2DUP", "3DUP", "2OVER", "2ROT", "2SWAP", "DROP", "DUP", "NIP",
          "OVER", "ROT", "SWAP", "TUCK"} |->
    CASE x = "2DROP" -> <<2, <<>>>>
      [] x = "2DUP" -> <<2, <<1, 2, 1, 2>>>>
      [] x = "3DUP" -> <<3, <<1, 2, 3, 1, 2, 3>>>>
      [] x = "2OVER" -> <<4, <<1, 2, 3, 4, 1, 2>>>>
      [] x = "2ROT" -> <<6, <<3, 4, 5, 6, 1, 2>>>>
      [] x = "2SWAP" -> <<4, <<3, 4, 1, 2>>>>
      [] x = "DROP" -> <<1, <<>>>>
      [] x = "DUP" -> <<1, <<1, 1>>>>
      [] x = "NIP" -> <<2, <<2>>>>
      [] x = "OVER" -> <<2, <<1, 2, 1>>>>
      [] x = "ROT" -> <<3, <<2, 3, 1>>>>
      [] x = "SWAP" -> <<2, <<2, 1>>>>
      [] x = "TUCK" -> <<2, <<2, 1, 2>>>>]

Documented(s, x) ==
  LET n == Transformation[x][1]
      low == SubSeq(s, 1, Len(s) - n)
      top == SubSeq(s, Len(s) - n + 1, Len(s))
  IN low \o [i \in DOMAIN Transformation[x][2] |-> top[Transformation[x][2][i]]]

\* The signatures can be paired with keys, each key used once and in the order
\* of the signatures.
Paired(e) ==
  LET keys == PubKeys(e)
      sigs == Signatures(e)
  IN \E at \in [DOMAIN sigs -> DOMAIN keys] :
       /\ \A i, j \in DOMAIN sigs : i < j => at[i] < at[j]
       /\ \A i \in DOMAIN sigs :
            /\ sigs[i] # <<>>
            /\ parseBaseSigAndPubkey(e, keys[at[i]], sigs[i]) = "ok"
            /\ verifySig(e, keys[at[i]], sigs[i])

\* What a step of an engine does, as the comments of opcode.go describe it: an
\* opcode that moves items makes the transformation its comment gives, a
\* multi-signature answers true exactly when the signatures can be paired with
\* keys in order, and what is pushed as a number is the one encoding of it a
\* later opcode can read.
StepAsDocumented ==
  \A m \in Modes :
    LET e == vm[m]
        n == vm'[m]
        runs == Ok(e) /\ Ok(n) /\ n.pc = e.pc + 1 /\ isBranchExecuting(e)
        x == Script[n.pc].name
    IN /\ runs /\ x \in DOMAIN Transformation => n.dstack = Documented(e.dstack, x)
       /\ runs /\ x = "CHECKMULTISIG" => (asBool(Top(n, 0)) <=> Paired(e))
       /\ runs /\ x = "CHECKMULTISIGVERIFY" => Paired(e)
       /\ runs /\ x \in {"ADD", "SUB", "1ADD", "1SUB", "NEGATE", "DEPTH", "SIZE"}
            => LET v == Top(n, 0)
               IN Bytes(CHOOSE i \in MakeScriptNum(v, FALSE, 3) : TRUE) = v

OpcodesAsDocumented == [][StepAsDocumented]_seVars
=============================================================================
