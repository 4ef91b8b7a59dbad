SPECIFICATION FairSpec
CONSTANTS
  Orgs = {o1}
  Slugs = {o1}
  SlugOf <- OwnSlug
  Repos = {r1}
  Readers = {a, b}
  Operators = {op}
  Editors = {}
  Portal = Portal
  NoOne = NoOne
  Days = {0, 1}
  Today = 1
  Forever = 2
  Contents <- StaticGitea
  Exports <- NoExports
  MaxDocuments = 20
  MaxMishaps = 1
INVARIANTS
  ColdReadsRegisterOnce
PROPERTIES
  EveryReadIsServed
  AnEmptyRegistryHeals
  RediscoveryRepairs
CHECK_DEADLOCK FALSE
