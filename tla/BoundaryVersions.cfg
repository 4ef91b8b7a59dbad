SPECIFICATION Spec
CONSTANTS
  Orgs = {o1}
  Slugs = {o1}
  SlugOf <- OwnSlug
  Repos = {r1}
  Readers = {}
  Operators = {op}
  Editors = {e1, e2}
  Portal = Portal
  NoOne = NoOne
  Days = {0, 1, 2, 3}
  Today = 3
  Forever = 4
  Contents <- GrowingGitea
  Exports <- OneExport
  MaxDocuments = 3
  MaxMishaps = 0
SYMMETRY InterchangeableEditors
INVARIANTS
  TypeOK
PROPERTIES
  EditsKeepThePast
  DiscoveryYieldsToMappings
CHECK_DEADLOCK FALSE
