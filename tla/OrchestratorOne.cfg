SPECIFICATION Spec
CONSTANTS
  t1 = t1
  t2 = t2
  Unset = Unset
  Tasks <- OneTask
  Times <- LongTimes
  ClockMode = "tick"
  LeaseRequests <- LongRequests
  DefaultLease = 1
  MaxLease = 2
  MaxRuns = 3
  MaxEvents = 5
  MaxNotes = 1
INVARIANTS TypeOK OwnershipAgrees FencedJournal JournalReplays LeaseHorizon
PROPERTIES EndedRunsFrozen TerminalIsFinal NoEarlyWake
CHECK_DEADLOCK FALSE
