------------------------------ MODULE TxPolicy ------------------------------
(***************************************************************************)
(* The relay policy of the transaction pool (mempool/policy.go, error.go   *)
(* and the policy half of checkMempoolAcceptance in mempool.go): what makes*)
(* a transaction standard, which reject code goes back to the peer, the    *)
(* minimum relay fee and the limiter of free transactions.                 *)
(*                                                                         *)
(* Topic "rules" puts one transaction of TxSets through the checks.  Topic *)
(* "limit" runs the limiter: submissions hold the pool's write lock and    *)
(* are single steps; dry runs (CheckMempoolAcceptance) hold only the read  *)
(* lock and yet write the limiter's two fields, so each load and store is  *)
(* a step of its own.                                                      *)
(***************************************************************************)
EXTENDS Integers, Sequences, FiniteSets, SequencesExt, FiniteSetsExt

CONSTANTS Topics,           \* subset of {"rules", "limit"}
          TxSets,           \* sequence of sets of transactions for "rules"
          MinRelayTxFee,    \* doo per kilobyte
          MaxDoo, IntMax,   \* scaled monetary range and int64 maximum
          Kilo,             \* the 1000 of the fee rate, scaled with MaxDoo
          FeeSizes, Rates,  \* arguments on which the fee formula is compared
          MaxSigOpCostPerTx,
          FreeLimit,        \* FreeTxRelayLimit*10*1000
          Sizes, Testers, MaxTime, MaxRelays, MaxTests

VARIABLES topic, tx, verdict,   \* "rules"
          penny, last, now,     \* "limit": pennyTotal, lastPennyUnix, clock
          tester,               \* what each dry run is about to do
          relayed,              \* free transactions let through: [size, at]
          used
tpVars == <<topic, tx, verdict, penny, last, now, tester, relayed, used>>

(***************************************************************************)
(* Errors and reject codes.  A RuleError wraps either a chain rule error   *)
(* or a TxRuleError; other errors carry no code.                           *)
(***************************************************************************)
txRuleError(code) == [type |-> "rule", err |-> [type |-> "tx", code |-> code]]
chainRuleError(code) == [type |-> "rule", err |-> [type |-> "chain", code |-> code]]

ChainRejectCode(code) ==
    CASE code = "ErrDuplicateBlock" -> "duplicate"
      [] code = "ErrBlockVersionTooOld" -> "obsolete"
      [] code \in {"ErrCheckpointTimeTooOld", "ErrDifficultyTooLow",
                   "ErrBadCheckpoint", "ErrForkTooOld"} -> "checkpoint"
      [] OTHER -> "invalid"

\* The code and whether one was found.
extractRejectCode(e) ==
    LET inner == IF e.type = "rule" THEN e.err ELSE e
    IN  CASE inner.type = "chain" -> <<ChainRejectCode(inner.code), TRUE>>
          [] inner.type = "tx" -> <<inner.code, TRUE>>
          [] OTHER -> <<"invalid", FALSE>>

ErrToRejectErr(e) == extractRejectCode(e)[1]

\* validateStandardness keeps the code of the error it rewraps.
Rewrapped(e) ==
    LET code == extractRejectCode(e)
    IN  txRuleError(IF code[2] THEN code[1] ELSE "nonstandard")

Nil == [type |-> "nil"]
\* The first error of a list of checks, in their order.
FirstError(checks) ==
    LET bad == SelectSeq(checks, LAMBDA e : e # Nil)
    IN  IF bad = <<>> THEN Nil ELSE Head(bad)
Unless(holds, code) == IF holds THEN Nil ELSE txRuleError(code)

(***************************************************************************)
(* The minimum fee, with int64 products that wrap.                         *)
(***************************************************************************)
Int64(n) == ((n + IntMax + 1) % (2 * (IntMax + 1))) - (IntMax + 1)
FitsScaled(size, rate) == size <= (MaxDoo * Kilo) \div rate

\* Go's integer division truncates towards zero.
GoDiv(a, b) == IF a >= 0 THEN a \div b ELSE -((-a) \div b)

calcMinRequiredTxRelayFee(size, rate) ==
    IF size <= 0 \/ rate <= 0 THEN 0
    ELSE IF ~FitsScaled(size, rate) THEN MaxDoo
    ELSE LET scaled == GoDiv(Int64(size * rate), Kilo)
             minFee == IF scaled = 0 THEN rate ELSE scaled
         IN  IF minFee < 0 \/ minFee > MaxDoo THEN MaxDoo ELSE minFee

(***************************************************************************)
(* Standard inputs.  An input is [class, witness, sigOps, script]: the     *)
(* class of the spent script, the witness as the lengths of its items, and *)
(* for a script-hash witness what its last item, the script, is.           *)
(***************************************************************************)
standardSignatureSize == 65
standardCompressedKeySize == 33
maxStandardP2SHSigOps == 15
maxStandardP2WSHStackItems == 100
maxStandardP2WSHItemSize == 80
maxStandardP2WSHScriptSize == 3600
maxStandardTxWeight == 400000
maxStandardMultiSigKeys == 3
MinStandardTxNonWitnessSize == 65
DefaultBlockPrioritySize == 50000
WitnessScaleFactor == 4

checkGenericWitnessStandard(stack) ==
    Unless(/\ Len(stack) <= maxStandardP2WSHStackItems
           /\ \A i \in DOMAIN stack : stack[i] <= maxStandardP2WSHItemSize,
           "nonstandard")

\* The canonical stacks of the script classes that have one.
CanonicalStack(script, stack) ==
    CASE script.class = "pubkey" -> stack = <<standardSignatureSize>>
      [] script.class = "pubkeyhash" ->
            stack = <<standardSignatureSize, standardCompressedKeySize>>
      [] script.class = "multisig" ->
            /\ Len(stack) = script.nsigs + 1
            /\ stack[1] = 0
            /\ \A i \in 2..Len(stack) : stack[i] = standardSignatureSize
      [] OTHER -> TRUE

checkP2WSHWitnessStandard(in) ==
    IF in.witness = <<>> THEN Nil
    ELSE LET stack == Front(in.witness)
         IN  FirstError(<<checkGenericWitnessStandard(stack),
                          Unless(Last(in.witness) <= maxStandardP2WSHScriptSize,
                                 "nonstandard"),
                          Unless(CanonicalStack(in.script, stack), "nonstandard")>>)

checkInputStandard(in) ==
    CASE in.class = "p2wpkh" ->
            Unless(in.witness \in {<<>>, <<standardSignatureSize,
                                           standardCompressedKeySize>>},
                   "nonstandard")
      [] in.class = "p2wsh" -> checkP2WSHWitnessStandard(in)
      [] in.class = "unknown" -> checkGenericWitnessStandard(in.witness)
      [] in.class = "p2sh" ->
            Unless(in.sigOps <= maxStandardP2SHSigOps, "nonstandard")
      [] in.class = "nonstandard" -> txRuleError("nonstandard")
      [] OTHER -> Nil

checkInputsStandard(t) ==
    FirstError([i \in DOMAIN t.ins |-> checkInputStandard(t.ins[i])])

(***************************************************************************)
(* Standard outputs.  An output is [version, hashLen, covenant, value,     *)
(* class, nkeys, nsigs, size].                                             *)
(***************************************************************************)
maxAddressVersion == 31
AddressIsNulldata(out) == out.version = maxAddressVersion
AddressIsUnknown(out) ==
    IF out.version = 0 THEN out.hashLen \notin {20, 32}
    ELSE out.version # maxAddressVersion
CovenantIsUnknown(out) == out.covenant = "unknown"
IsDustworthy(out) == out.covenant \in {"none", "bid", "unknown"}

checkPkScriptStandard(out) ==
    CASE out.class = "multisig" ->
            Unless(/\ out.nkeys \in 1..maxStandardMultiSigKeys
                   /\ out.nsigs \in 1..out.nkeys, "nonstandard")
      [] out.class = "nonstandard" -> txRuleError("nonstandard")
      [] OTHER -> Nil

GetDustThreshold(out) ==
    IF ~IsDustworthy(out) \/ AddressIsNulldata(out) THEN 0
    ELSE 3 * (out.size + 32 + 4 + 1 + (107 \div WitnessScaleFactor) + 4)

IsDust(out, rate) ==
    LET dustSize == GetDustThreshold(out)
    IN  /\ dustSize # 0
        /\ out.value < 3 * calcMinRequiredTxRelayFee(dustSize \div 3, rate)

\* One turn of the loop over the outputs; a nulldata output is only counted.
checkOutputStandard(out) ==
    IF AddressIsUnknown(out) THEN txRuleError("nonstandard")
    ELSE IF AddressIsNulldata(out) THEN Nil
    ELSE FirstError(<<Unless(~CovenantIsUnknown(out), "nonstandard"),
                      checkPkScriptStandard(out),
                      Unless(~IsDust(out, MinRelayTxFee), "dust")>>)

\* Which outputs the loop looks at; the mutant stops at a nulldata output.
OutputsLooked(outs) == outs

CheckTransactionStandard(t) ==
    LET outs == OutputsLooked(t.outs)
    IN  FirstError(
          <<Unless(t.version <= 1, "nonstandard"),
            Unless(t.final, "nonstandard"),
            Unless(t.weight <= maxStandardTxWeight, "nonstandard")>>
          \o [i \in DOMAIN outs |-> checkOutputStandard(outs[i])]
          \o <<Unless(Len(SelectSeq(outs, AddressIsNulldata)) <= 1, "nonstandard")>>)

validateStandardness(t) ==
    LET e == FirstError(<<CheckTransactionStandard(t), checkInputsStandard(t)>>)
    IN  IF e = Nil THEN Nil ELSE Rewrapped(e)

validateSigCost(t) ==
    IF t.sigCost.err THEN chainRuleError("ErrTooManySigOps")
    ELSE Unless(t.sigCost.cost <= MaxSigOpCostPerTx, "nonstandard")

GetTxVirtualSize(t) ==
    (t.weight + WitnessScaleFactor - 1) \div WitnessScaleFactor

\* The part of the fee rule that needs no limiter: "refuse", "pass", or
\* "limit" when the limiter decides.
FeeRule(t, size, isNew, rateLimit) ==
    LET minFee == calcMinRequiredTxRelayFee(size, MinRelayTxFee)
    IN  CASE size >= DefaultBlockPrioritySize - 1000 /\ t.fee < minFee -> "refuse"
          [] t.fee >= minFee -> "pass"
          [] ~isNew /\ ~rateLimit -> "pass"
          [] isNew /\ ~t.highPriority -> "refuse"
          [] OTHER -> "limit"

\* The tail of checkMempoolAcceptance for a new transaction while the
\* limiter has room.
PolicyVerdict(t) ==
    FirstError(<<Unless(t.stripped >= MinStandardTxNonWitnessSize, "nonstandard"),
                 validateStandardness(t),
                 Unless(t.locksMet, "nonstandard"),
                 validateSigCost(t),
                 Unless(FeeRule(t, GetTxVirtualSize(t), TRUE, TRUE) # "refuse",
                        "insufficientfee"),
                 IF t.scriptsValid THEN Nil ELSE chainRuleError("ErrScriptValidation")>>)

Undecided == "undecided"
Examine ==
    /\ topic = "rules" /\ verdict = Undecided
    /\ verdict' = LET e == PolicyVerdict(tx)
                  IN  IF e = Nil THEN "accepted" ELSE ErrToRejectErr(e)
    /\ UNCHANGED <<topic, tx, penny, last, now, tester, relayed, used>>

(***************************************************************************)
(* The limiter.  pow(1 - 1/600, seconds) is abstracted to halving per tick.*)
(***************************************************************************)
Decayed(total, elapsed) == total \div (2 ^ elapsed)

\* Who calls and with which (isNew, rateLimit): peers and orphans, the RPC
\* server and the wallet, transactions of a disconnected block.
Callers == {[isNew |-> TRUE, rateLimit |-> TRUE],
            [isNew |-> TRUE, rateLimit |-> FALSE],
            [isNew |-> FALSE, rateLimit |-> FALSE]}
NoLimiterFor(c) == ~c.isNew /\ ~c.rateLimit

AfterDecay(seen) == now

\* A submission under the write lock, whose signatures may still fail after
\* the limiter has counted it.
Submit(c, size, valid) ==
    LET total == Decayed(penny, now - last)
        over  == total >= FreeLimit
    IN  /\ topic = "limit" /\ used.relays < MaxRelays
        /\ \A t \in Testers : tester[t].at = "idle"
        /\ IF NoLimiterFor(c) THEN UNCHANGED <<penny, last>>
           ELSE /\ penny' = IF over THEN total ELSE total + size
                /\ last' = AfterDecay(last)
        /\ relayed' = IF valid /\ ~over /\ ~NoLimiterFor(c)
                      THEN Append(relayed, [size |-> size, at |-> now,
                                            limited |-> c.rateLimit])
                      ELSE relayed
        /\ used' = [used EXCEPT !.relays = @ + 1]
        /\ UNCHANGED <<topic, tx, verdict, now, tester>>

\* A dry run reads the total and the time of its last decay ...
TestLoads(t) ==
    /\ topic = "limit" /\ tester[t].at = "idle" /\ used.tests < MaxTests
    /\ \E size \in Sizes :
         tester' = [tester EXCEPT ![t] =
                      [at |-> "decay", total |-> Decayed(penny, now - last),
                       now |-> now, size |-> size]]
    /\ used' = [used EXCEPT !.tests = @ + 1]
    /\ UNCHANGED <<topic, tx, verdict, penny, last, now, relayed>>

\* ... stores the decayed total ...
TestStoresTotal(t) ==
    /\ tester[t].at = "decay"
    /\ penny' = tester[t].total
    /\ tester' = [tester EXCEPT ![t].at = "clock"]
    /\ UNCHANGED <<topic, tx, verdict, last, now, relayed, used>>

\* ... then the time ...
TestStoresClock(t) ==
    /\ tester[t].at = "clock"
    /\ last' = tester[t].now
    /\ tester' = [tester EXCEPT ![t].at = "add"]
    /\ UNCHANGED <<topic, tx, verdict, penny, now, relayed, used>>

\* ... and counts the transaction it only tests, unless over the limit.
TestAdds(t) ==
    /\ tester[t].at = "add"
    /\ penny' = IF penny >= FreeLimit THEN penny ELSE penny + tester[t].size
    /\ tester' = [tester EXCEPT ![t] = [at |-> "idle"]]
    /\ UNCHANGED <<topic, tx, verdict, last, now, relayed, used>>

Tick ==
    /\ topic = "limit" /\ now < MaxTime
    /\ now' = now + 1
    /\ UNCHANGED <<topic, tx, verdict, penny, last, tester, relayed, used>>

TpInit ==
    /\ topic \in Topics
    /\ IF topic = "rules" THEN \E i \in DOMAIN TxSets : tx \in TxSets[i] ELSE tx = Nil
    /\ verdict = Undecided
    /\ penny = 0 /\ last = 0 /\ now = 0
    /\ tester = [t \in Testers |-> [at |-> "idle"]]
    /\ relayed = <<>>
    /\ used = [relays |-> 0, tests |-> 0]

TpNext ==
    \/ Examine
    \/ \E c \in Callers, size \in Sizes, valid \in BOOLEAN : Submit(c, size, valid)
    \/ \E t \in Testers : \/ TestLoads(t) \/ TestStoresTotal(t)
                          \/ TestStoresClock(t) \/ TestAdds(t)
    \/ Tick

TpSpec == TpInit /\ [][TpNext]_tpVars

(***************************************************************************)
(* Properties.                                                             *)
(***************************************************************************)
Alone(t, out) == [t EXCEPT !.outs = <<out>>]
\* Standardness is a matter of each output and input by itself plus at most
\* one nulldata output: a transaction is accepted exactly when every output
\* and every input would be accepted alone, in whatever order they stand.
StandardnessLocal ==
    topic = "rules" =>
      ((validateStandardness(tx) = Nil) <=>
          /\ \A i \in DOMAIN tx.outs :
                validateStandardness(Alone([tx EXCEPT !.ins = <<>>], tx.outs[i])) = Nil
          /\ \A i \in DOMAIN tx.ins :
                validateStandardness([tx EXCEPT !.outs = <<>>, !.ins = <<tx.ins[i]>>]) = Nil
          /\ Cardinality({i \in DOMAIN tx.outs : AddressIsNulldata(tx.outs[i])}) <= 1)

\* The minimum fee is the exact scaled fee clamped to the monetary range for
\* every size and rate: calcMinRequiredTxRelayFee never lets a product wrap.
MinFeeExact ==
    \A s \in FeeSizes, r \in Rates :
       calcMinRequiredTxRelayFee(s, r) =
         IF s * r <= 0 THEN 0
         ELSE Min({MaxDoo, IF s * r < Kilo THEN r ELSE (s * r) \div Kilo})

\* An accepted transaction never carries an output that costs more than a
\* third of its value to spend at the relay rate, up to the rounding of the
\* three fees, unless its covenant or address exempts it.
AcceptedOutputsWorth ==
    (topic = "rules" /\ verdict = "accepted") =>
      \A i \in DOMAIN tx.outs :
         LET out == tx.outs[i]
         IN  \/ AddressIsNulldata(out) \/ ~IsDustworthy(out)
             \/ \E rounding \in 0..(Kilo - 1) :
                  out.value * Kilo >=
                    3 * (((out.size + 67) * MinRelayTxFee) - rounding)

\* The free transactions let through, each weighed by its age, never exceed
\* the limit by more than one transaction: what FreeTxRelayLimit promises.
FreeRelayLimited ==
    topic = "limit" =>
      FoldSeq(LAMBDA e, sum : sum + Decayed(e.size, now - e.at), 0, relayed)
        < FreeLimit + Max(Sizes)

PolicySound == StandardnessLocal /\ MinFeeExact /\ AcceptedOutputsWorth /\ FreeRelayLimited

=============================================================================
