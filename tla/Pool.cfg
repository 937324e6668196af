\* More packages than workers and queue slots together: every channel fills.
\* No symmetry: two of the properties are temporal.
CONSTANTS
  Packages = {p1, p2, p3, p4}
  Workers = {w1, w2}
  QueueCapacity = 1
  None = None
SPECIFICATION Spec
INVARIANTS
  TypeOK
  WaitGroupAccounts
  RoundSettledBeforeStop
  WorkerSlots
  NothingLeftBehind
  NeverAllBlocked
PROPERTIES
  AlwaysForward
  Terminates
  ImplementsRound
