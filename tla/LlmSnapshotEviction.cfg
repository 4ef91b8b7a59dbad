SPECIFICATION Spec
CONSTANTS
  Projects = {p1}
  Weeks = {1, 2}
  Repos = {r1}
  Calls = {c1, c2}
  LockIds = {l1, l2, l3, l4}
  NoLock = NoLock
  NoCall = NoCall
  LockCap = 0
  Mapped <- FirstWeekMapped
  StagedBatches <- FirstWeekStaged
  Paused <- NothingPaused
SYMMETRY Interchangeable
INVARIANTS
  OneVerdictPerWeek
  VerdictsAreInspectable
  ComputedIsDurable
PROPERTIES
  VerdictsAreImmutable
  ImplementsLedger
CHECK_DEADLOCK FALSE
