SPECIFICATION Spec
CONSTANTS
  i1 = i1
  i2 = i2
  r1 = r1
  r2 = r2
  cycle = cycle
  button = button
  review = review
  NoRecord = NoRecord
  Items <- TwoItems
  Records <- OneRecord
  Lines <- TwoItems
  LineOf <- LinesCoincide
  Cycle = cycle
  Callers <- Button
  ReceiptMode = "auto"
  SearchLimit = 2
  MaxAttempts = 1
  LateCalls = FALSE
  MaxCrashes = 0
  MaxPosts = 2
INVARIANTS MessageSustainsOneReceipt
CHECK_DEADLOCK FALSE
