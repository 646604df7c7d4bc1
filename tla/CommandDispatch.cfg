SPECIFICATION FairSpec
CONSTANTS
  c1 = c1
  c2 = c2
  c3 = c3
  k1 = k1
  k2 = k2
  t1 = t1
  t2 = t2
  Nothing = Nothing
  Clients <- ThreeClients
  Keys <- TwoKeys
  Tasks <- TwoTasks
  MaxLosses = 1
  MaxId = 6
INVARIANTS TypeOK EffectOnce OutboxIsTransactional AnswersAgree
PROPERTIES EveryCommandAnswered ImplementsAtomicCommands
CHECK_DEADLOCK FALSE
