SPECIFICATION Spec
CONSTANTS
  Calls = {a, b}
  DaysPerWeek = 2
  Start = 1
  Horizon = 4
  MappedFrom = {1}
  DeepTail = 1
  RebuildDepth = 1
  Ttl = 1
  MaxClears = 0
  None = None
SYMMETRY InterchangeableCalls
INVARIANTS
  FinalMeansOver
  ChainIsSound
  IncrementsLeaveNoGap
  SourcesAreOnFile
PROPERTIES
  FinalStaysFinal
