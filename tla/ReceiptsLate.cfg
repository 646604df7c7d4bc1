SPECIFICATION FairSpec
CONSTANTS
  i1 = i1
  i2 = i2
  r1 = r1
  r2 = r2
  cycle = cycle
  button = button
  review = review
  NoRecord = NoRecord
  Items <- OneItem
  Records <- TwoRecords
  Lines <- OneItem
  LineOf <- LinesDiffer
  Cycle = cycle
  Callers <- TwoCallers
  ReceiptMode = "auto"
  SearchLimit = 1
  MaxAttempts = 1
  LateCalls = TRUE
  MaxCrashes = 1
  MaxPosts = 3
INVARIANTS OnePostPerRecord ReceiptIsBacked
PROPERTIES PendingSettles
