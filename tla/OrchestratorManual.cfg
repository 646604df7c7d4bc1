SPECIFICATION MSpec
CONSTANTS
  t1 = t1
  t2 = t2
  Unset = Unset
  Tasks <- OneTask
  Times <- LongTimes
  ClockMode = "client"
  LeaseRequests <- FewRequests
  DefaultLease = 1
  MaxLease = 2
  MaxRuns = 2
  MaxEvents = 2
  MaxNotes = 0
INVARIANTS ExclusiveOwner
CHECK_DEADLOCK FALSE
