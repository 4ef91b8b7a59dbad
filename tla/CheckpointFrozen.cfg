SPECIFICATION Spec
CONSTANTS
  Calls = {a}
  DaysPerWeek = 2
  Start = 0
  Horizon = 3
  MappedFrom = {0}
  DeepTail = 1
  RebuildDepth = 1
  Ttl = 1
  MaxClears = 0
  None = None
INVARIANTS
  NoFailureIsFrozen
