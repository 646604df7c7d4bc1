SPECIFICATION Spec
CONSTANTS
  i1 = i1
  i2 = i2
  r1 = r1
  r2 = r2
  cycle = cycle
  button = button
  review = review
  NoRecord = NoRecord
  Items <- TwoItems
  Records <- TwoRecords
  Lines <- TwoItems
  LineOf <- LinesDiffer
  Cycle = cycle
  Callers <- Button
  ReceiptMode = "auto"
  SearchLimit = 1
  MaxAttempts = 1
  LateCalls = FALSE
  MaxCrashes = 1
  MaxPosts = 3
SYMMETRY Symmetry
INVARIANTS TypeOK OnePostPerRecord ReceiptIsBacked
