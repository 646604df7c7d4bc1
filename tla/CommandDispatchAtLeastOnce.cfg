SPECIFICATION Spec
CONSTANTS
  c1 = c1
  c2 = c2
  c3 = c3
  k1 = k1
  k2 = k2
  t1 = t1
  t2 = t2
  Nothing = Nothing
  Clients <- TwoClients
  Keys <- TwoKeys
  Tasks <- TwoTasks
  MaxLosses = 0
  MaxId = 4
INVARIANTS DeliveredAtLeastOnce
CHECK_DEADLOCK FALSE
