\* Kills and restarts, a registry that comes to rest after MaxSeq changes; more
\* packages than results that can be in hand at once.
CONSTANTS
  Names = {a, b, c}
  Absent = Absent
  StatusBody = StatusBody
  NotFound = NotFound
  SeqModulus = 16
  MaxConnections = 1
  FaultKinds <- CrashOnly
  MaxSeq = 3
SPECIFICATION Spec
INVARIANTS
  CaughtUpIsExact
PROPERTIES
  RoundsFollow
  IncompleteSettled
  PollingConverges
