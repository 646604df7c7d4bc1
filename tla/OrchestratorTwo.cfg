SPECIFICATION FairSpec
CONSTANTS
  t1 = t1
  t2 = t2
  Unset = Unset
  Tasks <- TwoTasks
  Times <- LongTimes
  ClockMode = "tick"
  LeaseRequests <- ShortRequests
  DefaultLease = 1
  MaxLease = 2
  MaxRuns = 2
  MaxEvents = 3
  MaxNotes = 0
PROPERTIES ImplementsTaskLease LeaseNeverLeaks
CHECK_DEADLOCK FALSE
