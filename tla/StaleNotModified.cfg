\* One client and one package, and nothing fails.
CONSTANTS
  Names = {a}
  Clients = {c1}
  Absent = Absent
  StatusBody = StatusBody
  NotFound = NotFound
  SeqModulus = 16
  MaxConnections = 1
  FaultKinds <- NoFaults
  MaxSeq = 2
SPECIFICATION ServerSpec
INVARIANT NotModifiedIsTrue
