-------------------------- MODULE ScriptValidator --------------------------
(* Checking the scripts of a block's or a transaction's inputs with several   *)
(* goroutines (blockchain/scriptval.go), while another caller does the same,  *)
(* and the two caches they share: the signatures known to be valid            *)
(* (txscript/sigcache.go) and the partial hashes of transactions              *)
(* (txscript/hashcache.go).  The channels are unbuffered, so a send and the   *)
(* receive it meets are one step; a closed quitChan is c.quit.                *)
EXTENDS Naturals, Sequences, SequencesExt, FiniteSets

CONSTANTS
  Callers,        \* "block" connects a block, any other validates for the pool
  Txs,            \* per caller, the transactions it validates, in order
  InputsOf,       \* per transaction, its inputs: records [hash, key]
  MaxGoRoutines,  \* three per processor in the code
  MaxSigs,        \* maxEntries of the signature cache
  MaxHashes       \* maxEntries of the hash cache

VARIABLES
  good,           \* the inputs whose signature is valid
  call,           \* per caller, its call of checkBlockScripts or its like
  worker,         \* per caller and number, a goroutine in validateHandler
  validSigs,      \* the signature cache: sighash -> key it was found valid for
  sigHashes,      \* the hash cache: transactions, the oldest first
  hashed          \* the transactions whose hashes a caller has computed

svVars == <<good, call, worker, validSigs, sigHashes, hashed>>

AllInputs == UNION {ToSet(InputsOf[t]) : t \in DOMAIN InputsOf}

\* The items to validate, as far as they have been collected.
Items(c) == FlattenSeq([i \in 1..(call[c].tx - 1) |-> InputsOf[Txs[c][i]]])

Goroutines == 1..MaxGoRoutines

Gone == [pc |-> "gone", item |-> 0, ok |-> TRUE]

Idle == [pc |-> "idle", item |-> 0, ok |-> TRUE]

SvInit ==
  /\ good \in SUBSET AllInputs
  /\ call = [c \in Callers |-> [pc |-> "lookup", tx |-> 1, currentItem |-> 0,
                                processedItems |-> 0, quit |-> FALSE,
                                result |-> "none"]]
  /\ worker = [c \in Callers |-> [g \in Goroutines |-> Gone]]
  /\ validSigs = <<>>
  /\ sigHashes = <<>>
  /\ hashed = {}

----------------------------------------------------------------------------
(* The hash cache.                                                           *)

removeEntry(s, t) == SelectSeq(s, LAMBDA x : x # t)

addEntry(s, t) ==
  CASE MaxHashes = 0 \/ t \in ToSet(s) -> s
    [] MaxHashes # 0 /\ t \notin ToSet(s) ->
         Append(IF Len(s) >= MaxHashes THEN Tail(s) ELSE s, t)

\* The next transaction's hashes are there, or everything has been collected:
\* then Validate starts its goroutines, unless there is nothing to validate.
Collected(c, tx) ==
  LET n == [call[c] EXCEPT !.tx = tx, !.pc = "lookup"]
      items == FlattenSeq([i \in 1..(tx - 1) |-> InputsOf[Txs[c][i]]])
  IN CASE tx <= Len(Txs[c]) -> call' = [call EXCEPT ![c] = n] /\ UNCHANGED worker
       [] tx > Len(Txs[c]) ->
            /\ call' = [call EXCEPT ![c] =
                 IF items = <<>> THEN [n EXCEPT !.pc = "purge", !.result = "ok"]
                 ELSE [n EXCEPT !.pc = "validate"]]
            /\ worker' = [worker EXCEPT ![c] =
                 [g \in Goroutines |-> IF g <= Len(items) THEN Idle ELSE Gone]]

\* GetOrAddSigHashes, in its read lock.
LookupSigHashes(c) ==
  /\ call[c].pc = "lookup"
  /\ LET t == Txs[c][call[c].tx]
     IN IF t \in ToSet(sigHashes) THEN Collected(c, call[c].tx + 1)
        ELSE call' = [call EXCEPT ![c].pc = "add"] /\ UNCHANGED worker
  /\ UNCHANGED <<good, validSigs, sigHashes, hashed>>

\* GetOrAddSigHashes, in its write lock: the value that was inserted first is
\* the one used.
AddSigHashes(c) ==
  /\ call[c].pc = "add"
  /\ sigHashes' = addEntry(sigHashes, Txs[c][call[c].tx])
  /\ hashed' = hashed \cup {Txs[c][call[c].tx]}
  /\ Collected(c, call[c].tx + 1)
  /\ UNCHANGED <<good, validSigs>>

\* checkBlockScripts, once everything was found valid: the block's
\* transactions leave the cache.
PurgeSigHashes(c) ==
  /\ call[c].pc = "purge"
  /\ sigHashes' = IF c = "block" /\ call[c].result = "ok"
                  THEN FoldLeft(removeEntry, sigHashes, Txs[c]) ELSE sigHashes
  /\ call' = [call EXCEPT ![c].pc = "returned"]
  /\ UNCHANGED <<good, worker, validSigs, hashed>>

----------------------------------------------------------------------------
(* The signature cache.                                                      *)

Exists(in) == in.hash \in DOMAIN validSigs /\ validSigs[in.hash] = in.key

\* Add: what may be in the cache afterwards, as any entry may be evicted.
Add(in) ==
  LET with(d) == [h \in d \cup {in.hash} |->
                    IF h = in.hash THEN in.key ELSE validSigs[h]]
  IN CASE MaxSigs = 0 -> {validSigs}
       [] MaxSigs # 0 ->
            IF Cardinality(DOMAIN validSigs) + 1 > MaxSigs
            THEN {with(DOMAIN validSigs \ {h}) : h \in DOMAIN validSigs}
            ELSE {with(DOMAIN validSigs)}

----------------------------------------------------------------------------
(* Validate and its goroutines.                                              *)

\* Validate hands the next item to a goroutine that waits for one.
SendItem(c, g) ==
  /\ call[c].pc = "validate"
  /\ call[c].currentItem < Len(Items(c))
  /\ worker[c][g].pc = "idle"
  /\ call' = [call EXCEPT ![c].currentItem = @ + 1]
  /\ worker' = [worker EXCEPT ![c][g] =
                  [pc |-> "check", item |-> call[c].currentItem + 1, ok |-> TRUE]]
  /\ UNCHANGED <<good, validSigs, sigHashes, hashed>>

\* The engine asks whether the signature is already known.
CheckSig(c, g) ==
  LET in == Items(c)[worker[c][g].item]
  IN /\ worker[c][g].pc = "check"
     /\ worker' = [worker EXCEPT ![c][g].pc = IF Exists(in) THEN "send" ELSE "verify"]
     /\ UNCHANGED <<good, call, validSigs, sigHashes, hashed>>

\* It was not: it is verified, and remembered when it is valid.
VerifySig(c, g) ==
  LET in == Items(c)[worker[c][g].item]
  IN /\ worker[c][g].pc = "verify"
     /\ worker' = [worker EXCEPT ![c][g] =
                     [@ EXCEPT !.pc = "send", !.ok = in \in good]]
     /\ validSigs' \in IF in \in good THEN Add(in) ELSE {validSigs}
     /\ UNCHANGED <<good, call, sigHashes, hashed>>

\* What Validate makes of a result: an error ends it, and so does the last
\* item.
Processed(c, ok) ==
  LET n == [call[c] EXCEPT !.processedItems = @ + 1]
  IN IF ok /\ n.processedItems < Len(Items(c)) THEN n
     ELSE [n EXCEPT !.pc = "purge", !.quit = TRUE,
                    !.result = IF ok THEN "ok" ELSE "error"]

\* sendResult meets Validate: a goroutine that found an error ends.
SendResult(c, g) ==
  /\ call[c].pc = "validate"
  /\ worker[c][g].pc = "send"
  /\ call' = [call EXCEPT ![c] = Processed(c, worker[c][g].ok)]
  /\ worker' = [worker EXCEPT ![c][g] = IF worker[c][g].ok THEN Idle ELSE Gone]
  /\ UNCHANGED <<good, validSigs, sigHashes, hashed>>

\* The states in which a goroutine sees the closed quit channel.
SeesQuit == {"idle", "send"}

\* quitChan is closed: a waiting goroutine ends, one whose result nobody takes
\* drops it and, unless it was an error, comes back for another.
Quit(c, g) ==
  /\ call[c].quit
  /\ worker[c][g].pc \in SeesQuit
  /\ worker' = [worker EXCEPT ![c][g] =
                  IF @.pc = "send" /\ @.ok THEN Idle ELSE Gone]
  /\ UNCHANGED <<good, call, validSigs, sigHashes, hashed>>

SvNext ==
  \E c \in Callers :
    \/ LookupSigHashes(c)
    \/ AddSigHashes(c)
    \/ PurgeSigHashes(c)
    \/ \E g \in Goroutines :
         SendItem(c, g) \/ CheckSig(c, g) \/ VerifySig(c, g)
         \/ SendResult(c, g) \/ Quit(c, g)

SvSpec == SvInit /\ [][SvNext]_svVars

\* Every goroutine is scheduled.
FairSv ==
  /\ SvSpec
  /\ \A c \in Callers :
       /\ WF_svVars(LookupSigHashes(c) \/ AddSigHashes(c) \/ PurgeSigHashes(c))
       /\ \A g \in Goroutines :
            WF_svVars(SendItem(c, g) \/ CheckSig(c, g) \/ VerifySig(c, g)
                      \/ SendResult(c, g) \/ Quit(c, g))

----------------------------------------------------------------------------
(* Properties.                                                               *)

\* A caller is told that its inputs are valid exactly when every one of them
\* is, however its goroutines and the other caller's share the caches
\* (Validate); and the caches hold no more than their limits, the signature
\* cache only what is valid.
VerdictsSound ==
  /\ \A c \in Callers :
       /\ call[c].result = "ok" => ToSet(Items(c)) \subseteq good
       /\ call[c].result = "error" => ~(ToSet(Items(c)) \subseteq good)
  /\ \A h \in DOMAIN validSigs : [hash |-> h, key |-> validSigs[h]] \in good
  /\ Cardinality(DOMAIN validSigs) <= MaxSigs
  /\ Len(sigHashes) <= MaxHashes /\ IsInjective(sigHashes)

\* Every validation returns, and leaves no goroutine behind, whichever of them
\* finds an error first (the orderly shutdown sendResult is for).
Validated(c) == call[c].pc = "returned" /\ \A g \in Goroutines : worker[c][g].pc = "gone"
ValidationEnds == \A c \in Callers : <>Validated(c)

=============================================================================
