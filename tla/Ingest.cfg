SPECIFICATION FairSpec
CONSTANTS
  p = p
  w1 = w1
  w2 = w2
  g = g
  c1 = c1
  c2 = c2
  MaxMessage = 2
  Direct <- OneDirect
  Unmapped <- OneDirect
  Contents <- OneContent
  Poller = p
  Threads <- OneThread
  MaxAttempts = 2
  BatchLimit = 2
  MaxReplays = 1
  MaxItems = 2
INVARIANTS TypeOK ChatterIngestedOnce CursorPassesSettled WithdrawnIsUnsettled
PROPERTIES ExtractionFailuresSettle
