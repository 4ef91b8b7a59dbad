--------------------------- MODULE MCProjectRegistry ---------------------------
(* Small instances of ProjectRegistry: constant values a .cfg cannot write. *)
EXTENDS ProjectRegistry, TLC

\* Organisations with a slug each, and organisations whose names collide.
OwnSlug == [o \in Orgs |-> o]
OneSlug == [o \in Orgs |-> CHOOSE p \in Slugs : TRUE]

\* Every organisation holds every repository, for good.
StaticGitea == {[o \in Orgs |-> Repos]}
\* Repositories come and go.
GrowingGitea == {[o \in Orgs |-> R] : R \in SUBSET Repos}

NoExports == {}
\* The portal exports each project from day 1 on, with one set of repositories.
OneExport == {{[project |-> p, from |-> 1, repos |-> Repos] : p \in Slugs}}

InterchangeableEditors == Permutations(Editors)
===============================================================================
