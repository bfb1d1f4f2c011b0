----------------------------- MODULE MCConsensus -----------------------------
(***************************************************************************)
(* The rules of consensus and the structures they are computed with: the   *)
(* orphan pool, the view of the best chain, headers, blocks, scripts, and  *)
(* the proofs that conjure coins.                                          *)
(*                                                                         *)
(* part says which component takes the steps of a behaviour; a component's *)
(* variables are the first of the slots x1, x2, ...                        *)
(***************************************************************************)
EXTENDS OrphanPool, SequencesExt

CONSTANTS Parts, NoData

VARIABLES part, x1, x2, x3, x4, x5, x6, x7

-----------------------------------------------------------------------------
\* Genesis, a short branch a1-a2-a3 and a second one b1-b2-b3 that may wait for it.

MCParent == [a1 |-> "g", a2 |-> "a1", a3 |-> "a2", b1 |-> "g", b2 |-> "b1", b3 |-> "b2"]
MCBlock == {"g"} \cup DOMAIN MCParent

\* Trees of up to six blocks after genesis, two steps of the tip.
CV == INSTANCE ChainView WITH
      MaxNodes <- 6, MaxTips <- 2, Growth <- 1, DenseEntries <- 2, MaxResults <- 3,
      nodes <- x1, valid <- x2, view <- x3

\* A window of two blocks; a deployment by time and a speedy trial; a checkpoint at
\* heights 2 and 4; five samples of the time.
Deployment(s, e, t, m) == [start |-> s, end |-> e, threshold |-> t, minHeight |-> m, always |-> 0]

HV == INSTANCE HeaderRules WITH
      medianTimeBlocks <- 3, TargetTime <- 2, Window <- 2, MinTimespan <- 1,
      MaxTimespan <- 16, MaxWork <- 65536, PowLimit <- 1023, NoRetargeting <- TRUE,
      MantissaDigits <- 3, Base <- 4, ReductionTime <- 0, MaxTimeWarp <- 1,
      Topics <- {"votes"}, Deployments <- <<Deployment(1, 6, 0, 0)>>,
      WarnBits <- {1}, ConfirmationWindow <- 2, Threshold <- 2,
      CheckpointHeights <- <<>>, MaxTimeEntries <- 5, MaxOffset <- 4, Deltas <- {2},
      Votes <- {{}, {1}}, MaxHeaders <- 5, MaxTips <- 2, MaxSamples <- 0,
      hdr <- x1, best <- x2, cache <- x3, ck <- x4, clock <- x5

HS == INSTANCE HeaderRules WITH
      medianTimeBlocks <- 3, TargetTime <- 2, Window <- 2, MinTimespan <- 1,
      MaxTimespan <- 16, MaxWork <- 65536, PowLimit <- 1023, NoRetargeting <- TRUE,
      MantissaDigits <- 3, Base <- 4, ReductionTime <- 0, MaxTimeWarp <- 1,
      Topics <- {"votes"}, Deployments <- <<Deployment(1, 4, 1, 6)>>,
      WarnBits <- {1}, ConfirmationWindow <- 2, Threshold <- 2,
      CheckpointHeights <- <<>>, MaxTimeEntries <- 5, MaxOffset <- 4, Deltas <- {2},
      Votes <- {{}, {1}}, MaxHeaders <- 6, MaxTips <- 1, MaxSamples <- 0,
      hdr <- x1, best <- x2, cache <- x3, ck <- x4, clock <- x5

HC == INSTANCE HeaderRules WITH
      medianTimeBlocks <- 3, TargetTime <- 2, Window <- 2, MinTimespan <- 1,
      MaxTimespan <- 16, MaxWork <- 65536, PowLimit <- 1023, NoRetargeting <- FALSE,
      MantissaDigits <- 3, Base <- 4, ReductionTime <- 0, MaxTimeWarp <- 1,
      Topics <- {"chain"}, Deployments <- <<>>, WarnBits <- {},
      ConfirmationWindow <- 2, Threshold <- 2, CheckpointHeights <- <<2, 4>>,
      MaxTimeEntries <- 5, MaxOffset <- 4, Deltas <- {0, 1, 3, 9}, Votes <- {{}},
      MaxHeaders <- 5, MaxTips <- 2, MaxSamples <- 0,
      hdr <- x1, best <- x2, cache <- x3, ck <- x4, clock <- x5

HK == INSTANCE HeaderRules WITH
      medianTimeBlocks <- 3, TargetTime <- 2, Window <- 2, MinTimespan <- 1,
      MaxTimespan <- 16, MaxWork <- 65536, PowLimit <- 1023, NoRetargeting <- TRUE,
      MantissaDigits <- 3, Base <- 4, ReductionTime <- 0, MaxTimeWarp <- 1,
      Topics <- {"clock"}, Deployments <- <<>>, WarnBits <- {},
      ConfirmationWindow <- 2, Threshold <- 2, CheckpointHeights <- <<>>,
      MaxTimeEntries <- 5, MaxOffset <- 4, Deltas <- {1, 2}, Votes <- {{}},
      MaxHeaders <- 6, MaxTips <- 1, MaxSamples <- 6,
      hdr <- x1, best <- x2, cache <- x3, ck <- x4, clock <- x5

\* Two transactions in a block; two inputs, overspent and unspendable outputs, extra
\* signature operations; relative and absolute lock times.
BT == INSTANCE BlockRules WITH
      baseSubsidy <- 2, SubsidyReductionInterval <- 2, CoinbaseMaturity <- 1,
      MaxDoo <- 8, TxStart <- 2, MaxBlockSigOpsCost <- 2, BlockSpacing <- 2,
      LockTimeMultiplier <- 3, SeqChoices <- {[kind |-> "off", n |-> 0]},
      LockChoices <- {[kind |-> "none", n |-> 0]}, Shapes <- {"all", "fee"},
      Extras <- {0}, Conjured <- {0}, MaxIns <- 1, MaxTxs <- 2, MaxHeight <- 3,
      MaxLength <- 5,
      chain <- x1, utxo <- x2, undo <- x3, pre <- x4

BV == INSTANCE BlockRules WITH
      baseSubsidy <- 2, SubsidyReductionInterval <- 2, CoinbaseMaturity <- 1,
      MaxDoo <- 8, TxStart <- 2, MaxBlockSigOpsCost <- 2, BlockSpacing <- 2,
      LockTimeMultiplier <- 3, SeqChoices <- {[kind |-> "off", n |-> 0]},
      LockChoices <- {[kind |-> "none", n |-> 0]},
      Shapes <- {"all", "fee", "over", "burn"}, Extras <- {0, 1}, Conjured <- {0},
      MaxIns <- 2, MaxTxs <- 1, MaxHeight <- 3, MaxLength <- 5,
      chain <- x1, utxo <- x2, undo <- x3, pre <- x4

BL == INSTANCE BlockRules WITH
      baseSubsidy <- 2, SubsidyReductionInterval <- 2, CoinbaseMaturity <- 1,
      MaxDoo <- 8, TxStart <- 2, MaxBlockSigOpsCost <- 2, BlockSpacing <- 2,
      LockTimeMultiplier <- 3,
      SeqChoices <- {[kind |-> "off", n |-> 0], [kind |-> "blocks", n |-> 2], [kind |-> "time", n |-> 1], [kind |-> "max", n |-> 0]},
      LockChoices <- {[kind |-> "none", n |-> 0], [kind |-> "height", n |-> 2], [kind |-> "time", n |-> 1]},
      Shapes <- {"all"}, Extras <- {0}, Conjured <- {0}, MaxIns <- 1, MaxTxs <- 1,
      MaxHeight <- 3, MaxLength <- 5,
      chain <- x1, utxo <- x2, undo <- x3, pre <- x4

-----------------------------------------------------------------------------
\* The scripts and witnesses that are run.  Numbers have one byte, lock
\* times and sequences seven bits.

O(n) == [name |-> n, arg |-> <<>>]
N(i) == [name |-> "N", arg |-> i]
D(v) == [name |-> "DATA", arg |-> v]
Ops(names) == {O(x) : x \in names}

PlainTx == [covenant |-> 0, lockTime |-> 0, sequence |-> 127]

Spend(k, s, w, t) ==
  [kind |-> k, script |-> s, witness |-> w, matches |-> TRUE, program |-> <<2, 1>>, tx |-> t]

UpTo(S, n) == UNION {[1..k -> S] : k \in 0..n}
Wsh(ss, ws) == {Spend("p2wsh", s, w, PlainTx) : s \in ss, w \in ws}

\* Every nesting of conditionals, well formed or not.
Branches ==
  Wsh(UpTo(Ops({"IF", "NOTIF", "ELSE", "ENDIF", "0", "CAT", "VERIF"}) \cup {N(1)}, 4), {<<>>, <<<<1>>>>})
DeepBranches ==
  Wsh(UpTo(Ops({"IF", "ELSE", "ENDIF"}) \cup {N(1)}, 5), {<<<<>>>>, <<<<1>>, <<>>>>})

\* Pairs of stack operations on stacks that are too small, just and more than enough.
Moves ==
  Wsh(UpTo(Ops({"2DROP", "2DUP", "3DUP", "2OVER", "2ROT", "2SWAP", "DROP", "DUP", "NIP", "OVER", "ROT",
                "SWAP", "TUCK", "TOALTSTACK", "FROMALTSTACK", "DEPTH", "PICK", "ROLL", "IFDUP", "SIZE"}), 2),
      {<<<<1>>>>, <<<<3>>, <<4>>, <<1>>>>, <<<<3>>, <<4>>, <<5>>, <<6>>, <<7>>, <<1>>>>})

\* Arithmetic at the edges of a number: zero, both signs, the largest, not minimal.
Numbers == {<<>>, <<1>>, <<129>>, <<127>>, <<128>>, <<5, 0>>, <<200, 0>>}
Sums ==
  Wsh(UpTo(Ops({"1ADD", "1SUB", "NEGATE", "ABS", "NOT", "0NOTEQUAL", "ADD", "SUB", "BOOLAND", "BOOLOR",
                "NUMEQUAL", "NUMEQUALVERIFY", "NUMNOTEQUAL", "LESSTHAN", "GREATERTHAN", "LESSTHANOREQUAL",
                "GREATERTHANOREQUAL", "MIN", "MAX", "WITHIN", "EQUAL", "EQUALVERIFY", "VERIFY", "SHA3"}), 2),
      {<<<<1>>, m, n>> : m \in Numbers, n \in {<<>>, <<129>>, <<127>>}})

\* Signatures that are empty, malformed, of another key or script, or good.
Sig(k) == <<k, 0, 1>>
Sigs ==
  Wsh({<<O("CHECKSIG")>>, <<O("CODESEPARATOR"), O("CHECKSIG")>>, <<O("CHECKSIGVERIFY"), N(1)>>,
       <<O("CHECKSIGADD")>>, <<O("CHECKSIG"), O("NOT")>>},
      {<<s, k>> : s \in {<<>>, <<1>>, Sig(1), <<1, 1, 1>>, <<0, 0, 1>>, <<1, 0, 9>>},
                  k \in {<<2, 1>>, <<4, 1>>, <<2, 0>>, <<9>>}})

\* Up to two signatures for up to two keys, in every order.
MultiSigs ==
  Wsh({<<O("CHECKMULTISIG")>>, <<N(2), O("CHECKMULTISIG"), O("NOP")>>,
       <<N(2), O("CHECKMULTISIGVERIFY"), N(1)>>},
      {<<d>> \o ss \o <<n>> \o ks \o t :
         d \in {<<>>, <<1>>}, ss \in UpTo({Sig(1), Sig(2), <<>>}, 2), n \in {<<>>, <<1>>, <<2>>},
         ks \in UpTo({<<2, 1>>, <<2, 2>>, <<4, 1>>}, 2), t \in {<<>>, <<<<1>>>>, <<<<2>>>>}})

\* Lock times and sequences around the requirement, in both units.
LockTimes ==
  {Spend("p2wsh", <<O(x), O("DROP"), N(1)>>, <<v>>, t) :
     x \in {"CHECKLOCKTIMEVERIFY", "CHECKSEQUENCEVERIFY"},
     v \in {<<>>, <<3>>, <<17>>, <<18>>, <<66>>, <<131>>, <<64>>},
     t \in [covenant : {0, 5}, lockTime : {0, 3, 64, 70}, sequence : {0, 3, 17, 19, 127}]}

RawScripts ==
  {Spend("raw", s, w, PlainTx) :
     s \in UpTo(Ops({"CHECKSIG", "CODESEPARATOR", "NOP1"}) \cup
                  {N(1), D(Sig(1)), D(<<2, 1>>), D(<<5, 5, 5, 5>>), [name |-> "PUSHDATA1", arg |-> <<9>>]}, 3),
     w \in {<<>>, <<<<1>>>>}}

Programs ==
  {Spend(k, <<N(1)>>, w, PlainTx) : k \in {"badlen", "v1", "future"}, w \in {<<>>, <<<<1>>>>}}
  \cup {Spend("p2wpkh", <<>>, w, PlainTx) :
          w \in {<<>>, <<Sig(1), <<2, 1>>>>, <<Sig(2), <<2, 1>>>>, <<Sig(1), <<2, 2>>>>, <<<<>>, <<2, 1>>>>}}
  \cup {[Spend("p2wsh", <<N(1)>>, <<>>, PlainTx) EXCEPT !.matches = FALSE],
        Spend("p2wsh", <<N(1)>>, <<<<1, 1, 1, 1>>>>, PlainTx)}

ScriptInputs ==
  <<Branches, DeepBranches, Moves, Sums, Sigs, MultiSigs, LockTimes, RawScripts, Programs>>

SE == INSTANCE ScriptEngine WITH
      maxScriptNumLen <- 1, LockTimeFlag <- 64, SequenceDisabled <- 64,
      SequenceSeconds <- 16, SequenceMask <- 15, MaxSequence <- 127,
      Inputs <- ScriptInputs, MaxStackSize <- 9, MaxOpsPerScript <- 4,
      MaxScriptElementSize <- 3, MaxPubKeysPerMultiSig <- 2, MaxScriptSize <- 6,
      input <- x1, vm <- x2, lastOp <- x3

\* A block of two transactions and the pool's check of the second.
Checked == [block |-> <<"t1", "t2">>, pool |-> <<"t2">>]
CheckedInputs == [t1 |-> <<[hash |-> 1, key |-> 1], [hash |-> 1, key |-> 2]>>, t2 |-> <<[hash |-> 2, key |-> 1]>>]

SV == INSTANCE ScriptValidator WITH
      Callers <- {"block", "pool"}, Txs <- Checked, InputsOf <- CheckedInputs,
      MaxGoRoutines <- 2, MaxSigs <- 1, MaxHashes <- 1,
      good <- x1, call <- x2, worker <- x3, validSigs <- x4, sigHashes <- x5,
      hashed <- x6

-----------------------------------------------------------------------------
\* The ownership proofs and airdrop trees .

-------------------------------------------------------------------------------
\* Proofs that "com." is owned: the root zone refers to com, whose keys sign the
\* claim.  Key tags collide between "com" and "other".
Com == <<"com">>
Tag(pub) == CASE pub = "root" -> 1 [] pub = "zsk" -> 3 [] OTHER -> 2
AlgTag(pub, alg) == Tag(pub) + (IF alg = "rsasha1" THEN 10 ELSE 0)

Key(owner, pub, alg, rev, bits) ==
  [t |-> "key", owner |-> owner, tag |-> AlgTag(pub, alg), alg |-> alg, revoked |-> rev,
   pub |-> pub, bits |-> bits]
DS(pub, alg, dtype) ==
  [t |-> "ds", owner |-> Com, tag |-> AlgTag(pub, alg), alg |-> alg, dtype |-> dtype,
   digest |-> <<Com, pub, alg, dtype>>]
Txt(fee, ch) ==
  [t |-> "txt", owner |-> Com,
   data |-> [prefix |-> TRUE, decodes |-> TRUE, fee |-> fee, address |-> "ca", commit |-> "cb",
             commitHeight |-> ch]]
Signed(set, owner, covered, signer, pub, alg, from, to) ==
  Append(set, [t |-> "sig", owner |-> owner, covered |-> covered, alg |-> alg, labels |-> Len(owner),
               signer |-> signer, tag |-> Tag(pub), inception |-> from, expiration |-> to,
               by |-> pub, over |-> ToSet(set)])

Anchor ==
  [t |-> "ds", owner |-> <<>>, tag |-> 1, alg |-> "rsasha256", dtype |-> "sha256",
   digest |-> <<<<>>, "root", "rsasha256", "sha256">>]
ReservedNames == [com |-> [target |-> Com, value |-> 5]]

RootZone(ds, by) ==
  [keys |-> Signed(<<Key(<<>>, "root", "rsasha256", FALSE, 2048)>>, <<>>, "key", <<>>, "root", "rsasha256", 1, 9),
   referral |-> Signed(<<ds>>, Com, "ds", <<>>, by, "rsasha256", 1, 9), claim |-> <<>>]
ComZone(keys, ksig, csig, calg, txt, from, to) ==
  [keys |-> Signed(keys, Com, "key", Com, ksig, "rsasha256", from, to), referral |-> <<>>,
   claim |-> Signed(<<txt>>, Com, "txt", Com, csig, calg, from, to)]

\* What may be wrong with a proof, in every combination.
Flaws ==
  [ds : {"com", "other"}, dsAlg : {"rsasha256", "rsasha1"}, dtype : {"sha1", "sha256"},
   by : {"root", "other"}, rev : BOOLEAN, twin : BOOLEAN, ksig : {"com", "other"},
   csig : {"com", "zsk"}, zrev : BOOLEAN, first : BOOLEAN]

Flawed(v) ==
  LET com == Key(Com, "com", "rsasha256", v.rev, 2048)
      other == Key(Com, "other", "rsasha256", FALSE, 2048)
      zsk == Key(Com, "zsk", "p256", v.zrev, 0)
      twin == Key(Com, "com", "rsasha1", FALSE, 2048)
      keys == (IF v.first THEN <<com, other, zsk>> ELSE <<other, com, zsk>>)
                \o (IF v.twin THEN <<twin>> ELSE <<>>)
  IN  <<RootZone(DS(v.ds, v.dsAlg, v.dtype), v.by),
        ComZone(keys, v.ksig, v.csig, IF v.csig = "zsk" THEN "p256" ELSE "rsasha256", Txt(1, 1), 1, 9)>>

OwnershipProofs == <<{Flawed(v) : v \in Flaws}>>

Claim(bits, from, to, fee, ch) ==
  [kind |-> "claim", zones |->
     <<RootZone(DS("com", "rsasha256", "sha256"), "root"),
       ComZone(<<Key(Com, "com", "rsasha256", FALSE, bits)>>, "com", "com", "rsasha256", Txt(fee, ch), from, to)>>]

-------------------------------------------------------------------------------
\* Three airdrop leaves of two keys each, one of them weak, and two faucet leaves.
K(id) == [type |-> IF id = "k4" THEN "goo" ELSE "rsa", id |-> id,
                bits |-> IF id = "k1" THEN 1024 ELSE 2048]
AirdropKeys == [i \in 0..2 |-> [j \in 0..1 |-> K(<<"k0", "k1", "k2", "k3", "k4", "k5">>[2 * i + j + 1])]]
FaucetKeys == [i \in 0..1 |-> [type |-> "address", id |-> <<"f0", "f1">>[i + 1],
                               address |-> <<"fa", "fb">>[i + 1], value |-> 4, sponsor |-> i = 1]]

Trees == INSTANCE CoinbaseProofs WITH
  airdropLeaves <- 3, airdropSubLeaves <- 2, airdropDepth <- 2, airdropSubDepth <- 1, faucetLeaves <- 2,
  faucetDepth <- 1, AirdropKey <- AirdropKeys, FaucetKey <- FaucetKeys, Reserved <- 0, RootAnchor <- 0,
  NoData <- 0, Topics <- 0, TrustProofs <- 0, RawProofs <- 0, airdropReward <- 0, airdropSponsorFee <- 0,
  airdropRecipientFee <- 0, AirdropGooSigStop <- 0, AirstopHeight <- 0, HardeningHeight <- 0,
  NameClaimPeriod <- 0, NameDeflationHeight <- 0, DeflationFee <- 0, MaxDoo <- 0, MaxHeight <- 0,
  MaxTime <- 0, MaxMoves <- 0, topic <- 0, subject <- 0, chain <- 0, spent <- 0, pool <- 0,
  converted <- 0, moves <- 0

Path(tree, depth, i) ==
  [d \in 1..depth |-> LET k == i \div 2 ^ (d - 1) IN tree[d - 1][IF k % 2 = 0 THEN k + 1 ELSE k - 1]]
Airdrop(i, j, fee) ==
  [kind |-> "airdrop", index |-> i, path |-> Path(Trees!MainTree, 2, i), subindex |-> j,
   subpath |-> Path(Trees!SubTree(i), 1, j), key |-> AirdropKeys[i][j], address |-> "aa", fee |-> fee,
   signature |-> "valid"]
Faucet(i) ==
  [kind |-> "airdrop", index |-> i, path |-> Path(Trees!FaucetTree, 1, i), subindex |-> 0,
   subpath |-> <<>>, key |-> FaucetKeys[i], address |-> FaucetKeys[i].address, fee |-> 1,
   signature |-> "empty"]

\* Two keys of one leaf, a goosig key, a faucet leaf, a strong and a weak claim.
CirculatingProofs ==
  {Airdrop(0, 0, 1), Airdrop(0, 1, 0), Airdrop(2, 0, 1), Faucet(1),
   Claim(2048, 1, 2, 1, 1), Claim(1024, 2, 4, 2, 2)}

CP == INSTANCE CoinbaseProofs WITH
      Reserved <- ReservedNames, RootAnchor <- Anchor, NoData <- NoData,
      Topics <- {"trust", "chain"}, TrustProofs <- OwnershipProofs,
      RawProofs <- CirculatingProofs, airdropLeaves <- 3, airdropSubLeaves <- 2,
      airdropDepth <- 2, airdropSubDepth <- 1, faucetLeaves <- 2, faucetDepth <- 1,
      AirdropKey <- AirdropKeys, FaucetKey <- FaucetKeys, airdropReward <- 3,
      airdropSponsorFee <- 2, airdropRecipientFee <- 1, AirdropGooSigStop <- 2,
      AirstopHeight <- 4, HardeningHeight <- 3, NameClaimPeriod <- 4,
      NameDeflationHeight <- 2, DeflationFee <- 1, MaxDoo <- 9, MaxHeight <- 2,
      MaxTime <- 3, MaxMoves <- 3,
      topic <- x1, subject <- x2, chain <- x3, spent <- x4, pool <- x5,
      converted <- x6, moves <- x7

-----------------------------------------------------------------------------
\* A variable that the acting component does not have holds NoValue.
NoValue == 0

Idle7 == x7 = NoValue
Idle6 == x6 = NoValue /\ Idle7
Idle5 == x5 = NoValue /\ Idle6
Idle4 == x4 = NoValue /\ Idle5
Idle3 == x3 = NoValue /\ Idle4
Idle2 == x2 = NoValue /\ Idle3
Idle1 == x1 = NoValue /\ Idle2

OrphansPart == /\ part = "orphans" /\ Next
               /\ UNCHANGED <<part, x1, x2, x3, x4, x5, x6, x7>>
ViewPart == /\ part = "view" /\ CV!CvNext
            /\ UNCHANGED <<part, x4, x5, x6, x7, vars>>
VotesPart == /\ part = "votes" /\ HV!HrNext
             /\ UNCHANGED <<part, x6, x7, vars>>
SpeedyPart == /\ part = "speedy" /\ HS!HrNext
              /\ UNCHANGED <<part, x6, x7, vars>>
HeadersPart == /\ part = "headers" /\ HC!HrNext
               /\ UNCHANGED <<part, x6, x7, vars>>
ClockPart == /\ part = "clock" /\ HK!HrNext
             /\ UNCHANGED <<part, x6, x7, vars>>
BlocksPart == /\ part = "blocks" /\ BT!BrNext
              /\ UNCHANGED <<part, x5, x6, x7, vars>>
ValuesPart == /\ part = "values" /\ BV!BrNext
              /\ UNCHANGED <<part, x5, x6, x7, vars>>
LocksPart == /\ part = "locks" /\ BL!BrNext
             /\ UNCHANGED <<part, x5, x6, x7, vars>>
ScriptsPart == /\ part = "scripts" /\ SE!SeNext
               /\ UNCHANGED <<part, x4, x5, x6, x7, vars>>
ValidatorPart == /\ part = "validator" /\ SV!SvNext
                 /\ UNCHANGED <<part, x7, vars>>
ProofsPart == /\ part = "proofs" /\ CP!CpNext
              /\ UNCHANGED <<part, vars>>

MCInit ==
  /\ part \in Parts
  /\ Init
  /\ \/ part = "orphans" /\ Idle1
     \/ part = "view" /\ CV!CvInit /\ Idle4
     \/ part = "votes" /\ HV!HrInit /\ Idle6
     \/ part = "speedy" /\ HS!HrInit /\ Idle6
     \/ part = "headers" /\ HC!HrInit /\ Idle6
     \/ part = "clock" /\ HK!HrInit /\ Idle6
     \/ part = "blocks" /\ BT!BrInit /\ Idle5
     \/ part = "values" /\ BV!BrInit /\ Idle5
     \/ part = "locks" /\ BL!BrInit /\ Idle5
     \/ part = "scripts" /\ SE!SeInit /\ Idle4
     \/ part = "validator" /\ SV!SvInit /\ Idle7
     \/ part = "proofs" /\ CP!CpInit

MCNext == OrphansPart \/ ViewPart \/ VotesPart \/ SpeedyPart \/ HeadersPart \/
  ClockPart \/ BlocksPart \/ ValuesPart \/ LocksPart \/ ScriptsPart \/ ValidatorPart
  \/ ProofsPart

mcvars == <<part, x1, x2, x3, x4, x5, x6, x7, vars>>

MCSpec == MCInit /\ [][MCNext]_mcvars

-----------------------------------------------------------------------------
\* ViewExact and LocatorsMeet of ChainView, CachesSound, HeadersSound and
\* CheckpointsHold of HeaderRules: the view, the ancestors found by skipping and
\* the locators agree with the tree of headers; cached deployment states and
\* warnings are those of the branch asked about; headers meet the rules of
\* difficulty and time; and no branch leaves the chain below a checkpoint.
HeaderChainSound ==
  /\ part = "view" => CV!ViewExact /\ CV!LocatorsMeet
  /\ part = "votes" => HV!CachesSound /\ HV!HeadersSound
  /\ part = "speedy" => HS!CachesSound /\ HS!HeadersSound
  /\ part = "headers" => HC!CachesSound /\ HC!HeadersSound /\ HC!CheckpointsHold
  /\ part = "clock" => HK!HeadersSound

\* ViewsExact and ChainsHonest of BlockRules: the unspent outputs are those of the
\* blocks of the chain after any disconnections, and the connected blocks create
\* no more than subsidy and proofs allow, spend nothing immature or locked, and
\* have distinct merkle roots.
BlocksSound ==
  /\ part = "blocks" => BT!ViewsExact /\ BT!ChainsHonest /\ BT!MerkleInjective
  /\ part = "values" => BV!ViewsExact /\ BV!ChainsHonest
  /\ part = "locks" => BL!ViewsExact /\ BL!ChainsHonest

\* SpendsSound of ScriptEngine and VerdictsSound of ScriptValidator.
ScriptsSound ==
  /\ part = "scripts" => SE!SpendsSound
  /\ part = "validator" => SV!VerdictsSound

\* OpcodesAsDocumented of ScriptEngine.
OpcodesAsDocumented == [][part = "scripts" => SE!StepAsDocumented]_mcvars

\* CoinbaseProofsSound of CoinbaseProofs.
CoinbaseProofsSound == part = "proofs" => CP!CoinbaseProofsSound
=============================================================================
