SPECIFICATION FairSpec
CONSTANTS
  Projects = {p1}
  Weeks = {1, 2}
  Repos = {r1}
  Calls = {c1, c2}
  LockIds = {l1, l2, l3}
  NoLock = NoLock
  NoCall = NoCall
  LockCap = 2
  Mapped <- AllMapped
  StagedBatches <- NothingStaged
  Paused <- SecondWeekPaused
INVARIANTS
  TypeOK
  OneCallerComputes
  NothingWrittenUnlessComputing
  OnlyCronFreezesARunningWeek
PROPERTIES
  EveryCallIsAnswered
CHECK_DEADLOCK FALSE
