---------------------------- MODULE MCBlockChain ----------------------------
(***************************************************************************)
(* Instances of BlockChain for TLC: one master tree, of which each run     *)
(* takes a part.                                                           *)
(*                                                                         *)
(*           +- a2 -- a3                                                   *)
(*   G -- a1 +- c2 -- c3                                                   *)
(*     \                                                                   *)
(*      \     +- b2 -- b3                                                  *)
(*       - b1 +- d2 -- d3                                                  *)
(***************************************************************************)
EXTENDS BlockChain, Functions

CONSTANT Heavy   \* the blocks that carry two units of work instead of one

MasterParent ==
  [a1 |-> "G", a2 |-> "a1", a3 |-> "a2", c2 |-> "a1", c3 |-> "c2",
   b1 |-> "G", b2 |-> "b1", b3 |-> "b2", d2 |-> "b1", d3 |-> "d2"]

MCParent == Restrict(MasterParent, Block \ {Genesis})

MCAncestors ==
  LET anc[b \in Block] == IF b = Genesis THEN {b} ELSE {b} \cup anc[MCParent[b]]
  IN  anc

MCHeight == [b \in Block |-> Cardinality(MCAncestors[b]) - 1]

MCWorkSum ==
  [b \in Block |-> MCHeight[b] + Cardinality(MCAncestors[b] \cap Heavy)]
=============================================================================
