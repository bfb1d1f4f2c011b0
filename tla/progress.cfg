SPECIFICATION FairSpec
CONSTANTS
  Parts = {"negotiation", "ends", "loops", "sync", "download", "quits", "stops", "requests", "chain", "files", "validator", "miner", "stratum"}
  ad1 = ad1  n1 = n1  NoJob = NoJob
PROPERTIES
  
  ClosesDown
CHECK_DEADLOCK FALSE
