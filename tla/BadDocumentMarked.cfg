\* Only requests for documents fail.
CONSTANTS
  Names = {a, b}
  Absent = Absent
  StatusBody = StatusBody
  NotFound = NotFound
  SeqModulus = 16
  MaxConnections = 1
  FaultKinds <- DocumentFaults
  MaxSeq = 2
SPECIFICATION Spec
INVARIANTS
  MarkedConsistent
