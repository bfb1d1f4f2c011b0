-------------------------------- MODULE UtxoSet --------------------------------
(***************************************************************************)
(* What the unspent outputs are, seen from the best chain: the set a reader *)
(* of FetchUtxoEntry is promised, without cache, database or crashes.      *)
(***************************************************************************)
EXTENDS Integers

CONSTANTS
  Block, Genesis, Parent,
  Coin,       \* the spendable outputs
  Creates,    \* Creates[b]: the outputs of the transactions of b
  Spends      \* Spends[b]: the outputs its inputs refer to

VARIABLES
  tip,        \* the end of the best chain
  utxo        \* the unspent outputs

Init ==
  /\ tip = Genesis
  /\ utxo = {}

Connect(b) ==
  /\ Parent[b] = tip
  /\ tip' = b
  /\ utxo' = (utxo \cup Creates[b]) \ Spends[b]

Disconnect ==
  /\ tip # Genesis
  /\ tip' = Parent[tip]
  /\ utxo' = (utxo \cup Spends[tip]) \ Creates[tip]

Next == (\E b \in Block \ {Genesis} : Connect(b)) \/ Disconnect

Spec == Init /\ [][Next]_<<tip, utxo>>
================================================================================
