SPECIFICATION MCSpec
CONSTANTS
  None = none
  NameTreeInterval = 2
  NameBiddingPeriod = 1
  NameRevealPeriod = 1
  NameLockupPeriod = 1
  NameRenewalWindow = 5
  NameTransferLockup = 2
  NameAuctionMaturity = 2
  NameClaimPeriod = 0
  NameClaimFrequency = 1
  NameDeflationHeight = 100
  Name = {"x"}
  Reserved = {}
  Rollout <- MCRollout
  Parts = {"auction"}  Address = {a}  a = a  b = b
  Amount = {1, 2}
  MaxHeight = 4
  MaxTxs = 2
  MaxBids = 2
  MaxReorg = 1
  DbMayFail = FALSE
CHECK_DEADLOCK FALSE
INVARIANTS
  DisconnectRootMatches
