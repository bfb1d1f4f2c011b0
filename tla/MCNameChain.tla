------------------------------ MODULE MCNameChain ------------------------------
(***************************************************************************)
(* Two instances of NameChain for TLC, with periods of a block or two: the *)
(* auctions of the configuration, with reorganizations and failing         *)
(* transactions, and the whole life of a name that can also be claimed.    *)
(***************************************************************************)
EXTENDS NameChain

CONSTANTS Parts, a, b

VARIABLE part

MCRollout == [n \in Name |-> 1]

Life == INSTANCE NameChain WITH
  NameTreeInterval <- 1, NameRevealPeriod <- 1, NameRenewalWindow <- 5,
  NameClaimPeriod <- 4, NameDeflationHeight <- 3, Reserved <- Name,
  Address <- {a, b}, Amount <- {1}, MaxHeight <- 13, MaxTxs <- 1, MaxBids <- 1,
  MaxReorg <- 1, DbMayFail <- FALSE

MCInit == part \in Parts /\ Init
AuctionNext == part = "auction" /\ Next /\ UNCHANGED part
LifeNext == part = "life" /\ Life!Next /\ UNCHANGED part
MCNext == AuctionNext \/ LifeNext
MCSpec == MCInit /\ [][MCNext]_<<vars, part>>

\* SecondPriceAuction, ProofTreeRewinds and OwnerHoldsName of NameChain.
NamesSound ==
  /\ OwnerHoldsName
  /\ part = "auction" => SecondPriceAuction /\ ProofTreeRewinds

\* DisconnectRestores and TransferWaits of NameChain.
NamesKept ==
  [][/\ part = "auction" => DisconnectStep
     /\ part = "life" => Life!DisconnectStep /\ Life!TransferStep]_<<vars, part>>
================================================================================
