\* Documents, tarballs, removals and sequences fail, and the process is killed, at
\* any moment.
CONSTANTS
  Names = {a, b}
  Absent = Absent
  StatusBody = StatusBody
  NotFound = NotFound
  SeqModulus = 16
  MaxConnections = 1
  FaultKinds <- SilentFaults
  MaxSeq = 3
SPECIFICATION SafeSpec
INVARIANTS
  LiveChangesShow
  FilesOnDisk
SYMMETRY Symmetry
