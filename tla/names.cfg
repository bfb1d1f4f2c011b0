SPECIFICATION MCSpec
CONSTANTS
  Parts = {"auction", "life"}  a = a  b = b
  None = none
  NameTreeInterval = 2
  NameBiddingPeriod = 1
  NameRevealPeriod = 2
  NameLockupPeriod = 1
  NameRenewalWindow = 8
  NameTransferLockup = 2
  NameAuctionMaturity = 2
  NameClaimPeriod = 0
  NameClaimFrequency = 1
  NameDeflationHeight = 100
  Name = {"x"}
  Reserved = {}
  Rollout <- MCRollout
  Address = {a}
  Amount = {1, 2, 3}
  MaxHeight = 8
  MaxTxs = 2
  MaxBids = 2
  MaxReorg = 2
  DbMayFail = TRUE
CHECK_DEADLOCK FALSE
INVARIANTS
  NamesSound
  CacheIsBucket
PROPERTIES
  NamesKept
