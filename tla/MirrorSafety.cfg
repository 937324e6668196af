\* All faults but failed documents and tarballs and unsaved sequences, at any moment
\* and any number of times.
CONSTANTS
  Names = {a, b}
  Absent = Absent
  StatusBody = StatusBody
  NotFound = NotFound
  SeqModulus = 16
  MaxConnections = 1
  FaultKinds <- RecoverableFaults
  MaxSeq = 4
SPECIFICATION SafeSpec
INVARIANTS
  TypeOK
  NoLostChange
  MarkedConsistent
  FilesOnDisk
  KeysAgree
PROPERTIES
  NeverRegress
  ImplementsStore
SYMMETRY Symmetry
