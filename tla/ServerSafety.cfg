\* Two clients and one package; the process dies, commits and requests fail.
CONSTANTS
  Names = {a}
  Clients = {c1, c2}
  Absent = Absent
  StatusBody = StatusBody
  NotFound = NotFound
  SeqModulus = 16
  MaxConnections = 1
  FaultKinds <- ServerFaults
  MaxSeq = 2
SPECIFICATION ServerSpec
INVARIANTS
  ServerTypeOK
  NeverAhead
  NotModifiedIfComplete
SYMMETRY Symmetry
