SPECIFICATION Spec
CONSTANTS
  Orgs = {o1, o2}
  Slugs = {s}
  SlugOf <- OneSlug
  Repos = {r1, r2}
  Readers = {}
  Operators = {op}
  Editors = {}
  Portal = Portal
  NoOne = NoOne
  Days = {0, 1}
  Today = 1
  Forever = 2
  Contents <- GrowingGitea
  Exports <- NoExports
  MaxDocuments = 4
  MaxMishaps = 0
PROPERTIES
  OnlyChangesAreVersioned
CHECK_DEADLOCK FALSE
