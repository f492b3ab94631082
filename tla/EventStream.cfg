SPECIFICATION FairSpec
CONSTANTS
  Members = {m1}
  Processes = {p1, p2}
  QueueSize = 2
  HistoryLimit = 3
  MaxEvents = 4
  MaxBreaks = 2
  MaxOutages = 1
INVARIANTS TypeOK ReplayIsExact
PROPERTIES DeliversInOrder EventsReachReaders
CHECK_DEADLOCK FALSE
