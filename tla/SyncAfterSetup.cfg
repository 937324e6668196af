\* Nothing fails: the first run completes and the process stays up.
CONSTANTS
  Names = {a, b}
  Absent = Absent
  StatusBody = StatusBody
  NotFound = NotFound
  SeqModulus = 16
  MaxConnections = 1
  FaultKinds <- NoFaults
  MaxSeq = 3
SPECIFICATION Spec
PROPERTIES
  SyncAfterSetup
