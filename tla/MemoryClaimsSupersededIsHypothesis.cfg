SPECIFICATION Spec
CONSTANTS
  ana = ana
  victor = victor
  m1 = m1
  m2 = m2
  x = x
  y = y
  t1 = t1
  t2 = t2
  None = None
  People <- Persons
  Validators <- Authorised
  Externals <- TwoExternals
  Contents <- TwoContents
  Threads <- TwoThreads
  MaxEvidence = 2
  MaxClaims = 2
SYMMETRY Symmetry
CHECK_DEADLOCK FALSE
INVARIANTS SupersededIsHypothesis
