\* Runs that are killed and repeated, a mirror using either database in between.
CONSTANTS
  Names = {a}
  Revisions = {1, 2}
  MaxSeq = 2
  NoValue = NoValue
SPECIFICATION MigrateSpec
INVARIANTS
  TypeOK
  MigratedOrSkipped
  RevisionsMigrated
PROPERTY CallsKeepStore
