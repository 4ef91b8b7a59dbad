------------------------- MODULE ProjectRegistryProofs -------------------------
(***************************************************************************)
(* Theorems about ProjectRegistry, for any organisations, readers, editors *)
(* and days: the gate lets one cold read through at a time, which then     *)
(* register each project's boundary once; discovery never displaces a      *)
(* mapping; and an edit leaves the days before its own as they were.       *)
(***************************************************************************)
EXTENDS ProjectRegistry, DataLemmas

-------------------------------------------------------------------------------
(* Types *)

\* What the stages say beyond the types: a discoverer past the look-up has an
\* organisation, a fold past the project has a row, a request under way a project.
StagesInv ==
    /\ \A c \in Discoverers : pc[c] \in {"register", "compare", "map"} => work[c].org \in Orgs
    /\ fold.pc = "boundary" => fold.row # {}
    /\ \A e \in Editors : edit[e].pc \in {"close", "add"} => edit[e].project \in Slugs

Work0 == [listed: [Orgs -> SUBSET Repos], todo: SUBSET Orgs, seen: SUBSET Slugs, org: Orgs \cup {NoOne}, created: BOOLEAN]
Edit0 == [pc: {"idle", "close", "add", "done", "cut"}, project: Slugs \cup {NoOne}, from: Days, repos: SUBSET Repos,
          old: SUBSET Version]
Fold0 == [pc: {"idle", "read", "project", "boundary"}, projects: [Slugs -> ProjectDoc \cup {NoProject}],
          known: Seq(Version), todo: SUBSET CatalogRow, row: SUBSET CatalogRow]

LEMMA NothingInHand ==
    /\ NoWork \in Work0 /\ NoEdit \in Edit0 /\ NoFold \in Fold0
    /\ NoProjects \in [Slugs -> ProjectDoc \cup {NoProject}]
    /\ NoFold.pc = "idle" /\ \A e : NoEdit.pc = "idle"
<1>1. NoWork \in Work0
  BY DEF NoWork, Work0
<1>2. NoEdit \in Edit0
  BY DaysAssumption DEF NoEdit, Edit0
<1>3. NoProjects \in [Slugs -> ProjectDoc \cup {NoProject}]
  BY DEF NoProjects
<1>4. NoFold \in Fold0
  <2>1. <<>> \in Seq(Version)
    OBVIOUS
  <2> HIDE DEF NoProjects
  <2>2. QED BY <1>3, <2>1 DEF NoFold, Fold0
<1>5. QED BY <1>1, <1>2, <1>3, <1>4 DEF NoFold, NoEdit

LEMMA InsertTypes ==
    ASSUME boundaries \in Seq(Version), issued \in Nat, NEW p \in Slugs, NEW repos \in SUBSET Repos, NEW from \in Days,
           NEW by \in Writers, Insert(p, repos, from, by)
    PROVE  boundaries' \in Seq(Version) /\ issued' \in Nat
<1> DEFINE v == [id |-> issued, project |-> p, repos |-> repos, from |-> from, to |-> Forever, by |-> by]
<1>1. v \in Version
  BY DEF Version
<1>2. boundaries' = Append(boundaries, v) /\ issued' = issued + 1
  BY DEF Insert
<1> HIDE DEF v
<1>3. QED BY <1>1, <1>2

LEMMA UpdateTypes ==
    ASSUME boundaries \in Seq(Version), NEW v \in Version
    PROVE  /\ Update(v) \in Seq(Version) /\ DOMAIN Update(v) = DOMAIN boundaries
           /\ \A i \in DOMAIN boundaries : Update(v)[i] = IF boundaries[i].id = v.id THEN v ELSE boundaries[i]
<1> DEFINE new == [i \in DOMAIN boundaries |-> IF boundaries[i].id = v.id THEN v ELSE boundaries[i]]
<1>1. Update(v) = new
  BY DEF Update
<1>2. Len(boundaries) \in Nat /\ DOMAIN boundaries = 1..Len(boundaries) /\ \A i \in DOMAIN boundaries : boundaries[i] \in Version
  OBVIOUS
<1>3. new \in [1..Len(boundaries) -> Version]
  BY <1>2
<1>4. /\ DOMAIN new = DOMAIN boundaries
      /\ \A i \in DOMAIN boundaries : new[i] = IF boundaries[i].id = v.id THEN v ELSE boundaries[i]
  OBVIOUS
<1> HIDE DEF new
<1>5. new \in Seq(Version)
  BY <1>2, <1>3
<1>6. QED BY <1>1, <1>4, <1>5

LEMMA InsertProjectTypes ==
    ASSUME projects \in [Slugs -> ProjectDoc \cup {NoProject}], issued \in Nat, NEW p,
           NEW by \in {"discovery", "catalog"}, InsertProject(p, by)
    PROVE  projects' \in [Slugs -> ProjectDoc \cup {NoProject}] /\ issued' \in Nat
<1> DEFINE new == [by |-> by, id |-> issued]
<1>1. new \in ProjectDoc
  BY DEF ProjectDoc
<1>2. projects' = [projects EXCEPT ![p] = new] /\ issued' = issued + 1
  BY DEF InsertProject
<1> HIDE DEF new
<1>3. new \in ProjectDoc \cup {NoProject}
  BY <1>1
<1>4. projects' \in [Slugs -> ProjectDoc \cup {NoProject}]
  BY <1>2, <1>3, Zenon
<1>5. QED BY <1>2, <1>4

\* The types, without the bound.
Types ==
    /\ gitea \in Contents
    /\ projects \in [Slugs -> ProjectDoc \cup {NoProject}]
    /\ boundaries \in Seq(Version)
    /\ issued \in Nat
    /\ gate \in [holder: Readers \cup {NoOne}, cooling: BOOLEAN]
    /\ pc \in [Discoverers -> Stages]
    /\ work \in [Discoverers -> Work0]
    /\ edit \in [Editors -> Edit0]
    /\ fold \in Fold0
    /\ wipe \in SUBSET {"projects", "boundaries", "gate"}

LEMMA TypesAreTypeOK == TypeOK <=> Types /\ mishaps \in 0..MaxMishaps
BY DEF TypeOK, Types, Work0, Edit0, Fold0

LEMMA IdleTypes ==
    ASSUME Types, StagesInv, NEW c \in Discoverers, Idle(c)
    PROVE  /\ pc' \in [Discoverers -> Stages] /\ work' \in [Discoverers -> Work0]
           /\ \A d \in Discoverers : pc'[d] \in {"register", "compare", "map"} => work'[d].org \in Orgs
<1>1. pc' = [pc EXCEPT ![c] = "idle"] /\ work' = [work EXCEPT ![c] = NoWork]
  BY DEF Idle
<1>2. "idle" \in Stages /\ NoWork \in Work0
  BY NothingInHand DEF Stages
<1>3. QED BY <1>1, <1>2 DEF Types, StagesInv

LEMMA GateTypes ==
    ASSUME Types, StagesInv, NEW r \in Readers, Arrive(r) \/ Acquire(r) \/ Recheck(r)
    PROVE  Types' /\ StagesInv'
<1> r \in Discoverers
  BY DEF Discoverers
<1>1. UNCHANGED <<gitea, projects, boundaries, issued, edit, fold, wipe>>
  BY DEF Arrive, Acquire, Recheck, db
<1>2. CASE Arrive(r)
  <2>1. "queued" \in Stages /\ UNCHANGED <<gate, work>> /\ pc' = [pc EXCEPT ![r] = "queued"]
    BY <1>2 DEF Arrive, Stages
  <2>2. QED BY <1>1, <2>1 DEF Types, StagesInv
<1>3. CASE Acquire(r)
  <2>1. "recheck" \in Stages /\ UNCHANGED work /\ pc' = [pc EXCEPT ![r] = "recheck"] /\ gate' = [gate EXCEPT !.holder = r]
    BY <1>3 DEF Acquire, Stages
  <2>2. QED BY <1>1, <2>1 DEF Types, StagesInv
<1>4. CASE Recheck(r)
  <2>1. CASE StillNeeded
    <3>1. /\ "listing" \in Stages /\ UNCHANGED work /\ pc' = [pc EXCEPT ![r] = "listing"]
          /\ gate' = [gate EXCEPT !.cooling = TRUE]
      BY <1>4, <2>1 DEF Recheck, Stages, InDiscovery
    <3>2. QED BY <1>1, <3>1 DEF Types, StagesInv
  <2>2. CASE ~StillNeeded
    <3>1. Idle(r) /\ gate' = [gate EXCEPT !.holder = NoOne]
      BY <1>4, <2>2 DEF Recheck
    <3>2. QED BY <1>1, <3>1, IdleTypes DEF Types, StagesInv
  <2>3. QED BY <2>1, <2>2
<1>5. QED BY <1>2, <1>3, <1>4

LEMMA ReleasedTypes ==
    ASSUME Types, NEW c
    PROVE  Released(c) \in [holder: Readers \cup {NoOne}, cooling: BOOLEAN]
BY DEF Types, Released

LEMMA DiscoveryTypes ==
    ASSUME Types, StagesInv, NEW c \in Discoverers,
           (c \in Operators /\ Discover(c)) \/ ListOrgs(c) \/ ListingFails(c) \/ Work(c)
    PROVE  Types' /\ StagesInv'
<1>1. UNCHANGED <<gitea, edit, fold, wipe>>
  BY DEF Discover, ListOrgs, ListingFails, Work, SkipOrg, LookUp, Register, Compare, AddVersion, Finish, db
<1>2. work[c] \in Work0 /\ pc[c] \in Stages
  BY DEF Types
<1>3. CASE Discover(c)
  <2>1. "listing" \in Stages /\ UNCHANGED <<gate, work, projects, boundaries, issued>> /\ pc' = [pc EXCEPT ![c] = "listing"]
    BY <1>3 DEF Discover, Stages, InDiscovery, db
  <2>2. QED BY <1>1, <2>1 DEF Types, StagesInv
<1>4. CASE ListOrgs(c)
  <2> DEFINE next == [work[c] EXCEPT !.listed = gitea, !.todo = Orgs]
  <2>1. "loop" \in Stages /\ UNCHANGED <<gate, projects, boundaries, issued>> /\ pc' = [pc EXCEPT ![c] = "loop"]
    BY <1>4 DEF ListOrgs, Stages, InDiscovery, db
  <2>2. next \in Work0
    BY <1>2, ContentsAssumption DEF Types, Work0
  <2>3. work' = [work EXCEPT ![c] = next]
    BY <1>4, Zenon DEF ListOrgs
  <2> HIDE DEF next
  <2>4. QED BY <1>1, <2>1, <2>2, <2>3 DEF Types, StagesInv
<1>5. CASE ListingFails(c)
  <2>1. Idle(c) /\ gate' = Released(c) /\ UNCHANGED <<projects, boundaries, issued>>
    BY <1>5 DEF ListingFails, db
  <2>2. QED BY <1>1, <2>1, IdleTypes, ReleasedTypes DEF Types, StagesInv
<1>6. CASE SkipOrg(c)
  <2>1. PICK o \in work[c].todo : work' = [work EXCEPT ![c] = [work[c] EXCEPT !.todo = work[c].todo \ {o}]]
    BY <1>6, Zenon DEF SkipOrg
  <2> DEFINE next == [work[c] EXCEPT !.todo = work[c].todo \ {o}]
  <2>2. next \in Work0 /\ next.org = work[c].org
    BY <1>2 DEF Work0
  <2>3. work' = [work EXCEPT ![c] = next] /\ UNCHANGED <<gate, pc, projects, boundaries, issued>>
    BY <1>6, <2>1 DEF SkipOrg, db
  <2> HIDE DEF next
  <2>4. QED BY <1>1, <2>2, <2>3 DEF Types, StagesInv
<1>7. CASE LookUp(c)
  <2>1. PICK o \in work[c].todo :
          /\ work' = [work EXCEPT ![c] = [work[c] EXCEPT !.todo = work[c].todo \ {o}, !.org = o,
                                                       !.seen = work[c].seen \cup {SlugOf[o]}]]
          /\ pc' = [pc EXCEPT ![c] = AfterLookup(SlugOf[o])]
    BY <1>7, Zenon DEF LookUp
  <2> DEFINE next == [work[c] EXCEPT !.todo = work[c].todo \ {o}, !.org = o, !.seen = work[c].seen \cup {SlugOf[o]}]
             at == AfterLookup(SlugOf[o])
  <2>2. o \in Orgs
    BY <1>2 DEF Work0
  <2>3. next \in Work0 /\ next.org = o
    BY <1>2, <2>2, SlugAssumption DEF Work0
  <2>4. at \in Stages
    BY DEF AfterLookup, Stages, InDiscovery
  <2>5. /\ work' = [work EXCEPT ![c] = next] /\ pc' = [pc EXCEPT ![c] = at]
        /\ UNCHANGED <<gate, projects, boundaries, issued>>
    BY <1>7, <2>1 DEF LookUp, db
  <2> HIDE DEF next, at
  <2>6. QED BY <1>1, <2>2, <2>3, <2>4, <2>5 DEF Types, StagesInv
<1>8. CASE Register(c)
  <2> DEFINE next == [work[c] EXCEPT !.created = TRUE]
  <2>1. /\ InsertProject(SlugOf[work[c].org], "discovery") /\ UNCHANGED <<gate, boundaries>>
        /\ "compare" \in Stages /\ pc' = [pc EXCEPT ![c] = "compare"] /\ pc[c] = "register"
    BY <1>8 DEF Register, Stages, InDiscovery
  <2>2. next \in Work0 /\ next.org = work[c].org
    BY <1>2 DEF Work0
  <2>3. work' = [work EXCEPT ![c] = next]
    BY <1>8, Zenon DEF Register
  <2>4. projects' \in [Slugs -> ProjectDoc \cup {NoProject}] /\ issued' \in Nat
    BY <2>1, InsertProjectTypes DEF Types
  <2> HIDE DEF next
  <2>5. QED BY <1>1, <2>1, <2>2, <2>3, <2>4 DEF Types, StagesInv
<1>9. CASE Compare(c)
  <2>1. PICK at : at \in {"loop", "map"} /\ pc' = [pc EXCEPT ![c] = at]
    BY <1>9, Zenon DEF Compare
  <2>2. UNCHANGED <<gate, work, projects, boundaries, issued>> /\ pc[c] = "compare" /\ at \in Stages
    BY <1>9, <2>1 DEF Compare, Stages, InDiscovery, db
  <2>3. QED BY <1>1, <2>1, <2>2 DEF Types, StagesInv
<1>10. CASE AddVersion(c)
  <2>1. /\ Insert(SlugOf[work[c].org], work[c].listed[work[c].org], StartOfNewVersion, c)
        /\ pc[c] = "map" /\ pc' = [pc EXCEPT ![c] = "loop"] /\ "loop" \in Stages /\ UNCHANGED <<gate, work, projects>>
    BY <1>10 DEF AddVersion, Stages, InDiscovery
  <2>2. SlugOf[work[c].org] \in Slugs /\ work[c].listed[work[c].org] \in SUBSET Repos /\ StartOfNewVersion \in Days
    BY <1>2, <2>1, SlugAssumption, DaysAssumption DEF StagesInv, Work0, StartOfNewVersion
  <2>3. boundaries' \in Seq(Version) /\ issued' \in Nat
    BY <2>1, <2>2, InsertTypes DEF Types, Writers
  <2>4. QED BY <1>1, <2>1, <2>3 DEF Types, StagesInv
<1>11. CASE Finish(c)
  <2>1. Idle(c) /\ UNCHANGED <<projects, boundaries, issued>>
    BY <1>11 DEF Finish, db
  <2>2. gate' \in [holder: Readers \cup {NoOne}, cooling: BOOLEAN]
    BY <1>11, ReleasedTypes DEF Finish
  <2>3. QED BY <1>1, <2>1, <2>2, IdleTypes DEF Types, StagesInv
<1>12. QED BY <1>3, <1>4, <1>5, <1>6, <1>7, <1>8, <1>9, <1>10, <1>11 DEF Work

LEMMA EditTypes ==
    ASSUME Types, StagesInv, NEW e \in Editors, RequestEdit(e) \/ Editing(e)
    PROVE  Types' /\ StagesInv'
<1>1. UNCHANGED <<gitea, projects, gate, pc, work, fold, wipe>>
  BY DEF RequestEdit, Editing, CloseOld, AddEdited, db
<1>2. edit[e] \in Edit0
  BY DEF Types
<1>3. CASE RequestEdit(e)
  <2>1. PICK p \in Slugs, from \in Days, repos \in SUBSET Repos :
          edit' = [edit EXCEPT ![e] =
             [pc |-> IF {i \in Newest(Of(p)) : boundaries[i].to = Forever} = {} THEN "add" ELSE "close",
              project |-> p, from |-> from, repos |-> repos,
              old |-> {boundaries[i] : i \in {i \in Newest(Of(p)) : boundaries[i].to = Forever}}]]
    BY <1>3, Zenon DEF RequestEdit
  <2> DEFINE open == {i \in Newest(Of(p)) : boundaries[i].to = Forever}
             at == IF open = {} THEN "add" ELSE "close"
             old == {boundaries[i] : i \in open}
             next == [pc |-> at, project |-> p, from |-> from, repos |-> repos, old |-> old]
  <2>2. old \subseteq Version
    BY DEF Newest, Of, Types
  <2>3. at \in {"add", "close"}
    OBVIOUS
  <2>4. edit' = [edit EXCEPT ![e] = next] /\ UNCHANGED <<boundaries, issued>>
    BY <1>3, <2>1 DEF RequestEdit, db
  <2> HIDE DEF at, old
  <2>5. next \in Edit0 /\ next.project \in Slugs
    BY <2>2, <2>3 DEF Edit0
  <2> HIDE DEF next
  <2>6. QED BY <1>1, <2>4, <2>5 DEF Types, StagesInv
<1>4. CASE CloseOld(e)
  <2>1. PICK v \in edit[e].old : boundaries' = Update(Closed(e, v))
    BY <1>4 DEF CloseOld
  <2>2. Closed(e, v) \in Version
    BY <1>2 DEF Closed, Edit0, Version
  <2>3. boundaries' \in Seq(Version)
    BY <2>1, <2>2, UpdateTypes DEF Types
  <2> DEFINE next == [edit[e] EXCEPT !.pc = "add"]
  <2>4. edit' = [edit EXCEPT ![e] = next]
    BY <1>4, Zenon DEF CloseOld
  <2>5. next \in Edit0 /\ next.project = edit[e].project /\ edit[e].pc = "close" /\ UNCHANGED issued
    BY <1>2, <1>4 DEF Edit0, CloseOld
  <2> HIDE DEF next
  <2>6. QED BY <1>1, <2>3, <2>4, <2>5 DEF Types, StagesInv
<1>5. CASE AddEdited(e)
  <2>1. edit[e].pc = "add" /\ Insert(edit[e].project, edit[e].repos, edit[e].from, e)
    BY <1>5 DEF AddEdited
  <2>2. edit[e].project \in Slugs /\ edit[e].repos \in SUBSET Repos /\ edit[e].from \in Days /\ e \in Writers
    BY <1>2, <2>1 DEF StagesInv, Edit0, Writers
  <2>3. boundaries' \in Seq(Version) /\ issued' \in Nat
    BY <2>1, <2>2, InsertTypes DEF Types
  <2> DEFINE next == [edit[e] EXCEPT !.pc = "done"]
  <2>4. edit' = [edit EXCEPT ![e] = next]
    BY <1>5, Zenon DEF AddEdited
  <2>5. next \in Edit0 /\ next.pc = "done"
    BY <1>2 DEF Edit0
  <2> HIDE DEF next
  <2>6. QED BY <1>1, <2>3, <2>4, <2>5 DEF Types, StagesInv
<1>6. QED BY <1>3, <1>4, <1>5 DEF Editing

\* The version the fold refreshes is one it knew, of the row's project and date.
LEMMA LastKnown ==
    ASSUME fold \in Fold0, NEW row, NEW same,
           same = {i \in DOMAIN fold.known : fold.known[i].project = row.project /\ fold.known[i].from = row.from}, same # {}
    PROVE  LET last == CHOOSE i \in same : \A j \in same : j <= i IN last \in same /\ \A j \in same : j <= last
<1>1. PICK n \in Nat : DOMAIN fold.known = 1..n
  BY DEF Fold0
<1>2. same \subseteq 0..n
  BY <1>1
<1>3. Max(same) \in same /\ \A j \in same : j <= Max(same)
  BY <1>1, <1>2, GreatestNatural
<1>4. QED BY <1>3

LEMMA FoldTypes ==
    ASSUME Types, StagesInv, FoldStart \/ Folding
    PROVE  Types' /\ StagesInv'
<1>1. UNCHANGED <<gitea, gate, pc, work, edit, wipe>>
  BY DEF FoldStart, Folding, FoldRead, FoldProject, FoldBoundary, FoldDone, db
<1>2. fold \in Fold0
  BY DEF Types
<1>3. CASE FoldStart
  <2>1. PICK export \in Exports :
          fold' = [NoFold EXCEPT !.pc = "read", !.todo = export, !.projects = projects]
    BY <1>3, Zenon DEF FoldStart
  <2> DEFINE next == [NoFold EXCEPT !.pc = "read", !.todo = export, !.projects = projects]
  <2>2. NoFold \in Fold0
    BY NothingInHand
  <2>3. next \in Fold0 /\ next.pc = "read"
    BY <2>2, ExportsAssumption DEF Types, Fold0
  <2> HIDE DEF next
  <2>4. QED BY <1>1, <1>3, <2>1, <2>3 DEF FoldStart, db, Types, StagesInv, next
<1>4. CASE FoldRead
  <2> DEFINE next == [fold EXCEPT !.pc = "project", !.known = boundaries]
  <2>1. fold' = next /\ UNCHANGED <<projects, boundaries, issued>>
    BY <1>4 DEF FoldRead, db
  <2>2. next \in Fold0 /\ next.pc = "project"
    BY <1>2 DEF Types, Fold0
  <2> HIDE DEF next
  <2>3. QED BY <1>1, <2>1, <2>2 DEF Types, StagesInv
<1>5. CASE FoldProject
  <2>1. PICK row \in fold.todo :
          /\ fold' = [fold EXCEPT !.pc = "boundary", !.row = {row}, !.todo = fold.todo \ {row}]
          /\ IF fold.projects[row.project] = NoProject
             THEN InsertProject(row.project, "catalog")
             ELSE /\ projects' = IF Registered(row.project) /\ projects[row.project].id = fold.projects[row.project].id
                                 THEN [projects EXCEPT ![row.project].by = "catalog"] ELSE projects
                  /\ UNCHANGED issued
    BY <1>5, Zenon DEF FoldProject
  <2> DEFINE next == [fold EXCEPT !.pc = "boundary", !.row = {row}, !.todo = fold.todo \ {row}]
  <2>2. next \in Fold0 /\ next.row # {}
    BY <1>2 DEF Fold0
  <2>3. fold' = next /\ UNCHANGED boundaries
    BY <1>5, <2>1 DEF FoldProject
  <2> HIDE DEF next
  <2>4. row.project \in Slugs
    BY <1>2 DEF Fold0, CatalogRow
  <2>5. projects' \in [Slugs -> ProjectDoc \cup {NoProject}] /\ issued' \in Nat
    <3>1. CASE fold.projects[row.project] = NoProject
      BY <2>1, <3>1, InsertProjectTypes DEF Types
    <3>2. CASE fold.projects[row.project] # NoProject /\ Registered(row.project)
               /\ projects[row.project].id = fold.projects[row.project].id
      <4> DEFINE refreshed == [projects[row.project] EXCEPT !.by = "catalog"]
      <4>1. refreshed \in ProjectDoc
        BY <2>4, <3>2 DEF Types, Registered, ProjectDoc
      <4>2. projects' = [projects EXCEPT ![row.project] = refreshed] /\ issued' = issued
        BY <2>1, <3>2
      <4> HIDE DEF refreshed
      <4>3. QED BY <4>1, <4>2 DEF Types
    <3>3. CASE fold.projects[row.project] # NoProject
               /\ ~(Registered(row.project) /\ projects[row.project].id = fold.projects[row.project].id)
      BY <2>1, <3>3 DEF Types
    <3>4. QED BY <3>1, <3>2, <3>3
  <2>6. QED BY <1>1, <2>2, <2>3, <2>5 DEF Types, StagesInv
<1>6. CASE FoldBoundary
  <2> DEFINE row == CHOOSE r \in fold.row : TRUE
             same == {i \in DOMAIN fold.known :
                        fold.known[i].project = row.project /\ fold.known[i].from = row.from}
             last == CHOOSE i \in same : \A j \in same : j <= i
             next == [fold EXCEPT !.pc = "project", !.row = {}]
             v == [fold.known[last] EXCEPT !.repos = row.repos, !.to = Forever, !.by = Portal]
  <2>1. row \in CatalogRow
    BY <1>2, <1>6 DEF FoldBoundary, StagesInv, Fold0
  <2>2. next \in Fold0 /\ next.pc = "project"
    BY <1>2 DEF Fold0
  <2>3. fold' = next /\ UNCHANGED projects
    BY <1>6 DEF FoldBoundary
  <2>4. boundaries' \in Seq(Version) /\ issued' \in Nat
    <3>1. CASE same = {}
      <4>1. Insert(row.project, row.repos, row.from, Portal)
        BY <1>6, <3>1 DEF FoldBoundary
      <4>2. row.project \in Slugs /\ row.repos \in SUBSET Repos /\ row.from \in Days /\ Portal \in Writers
        BY <2>1 DEF CatalogRow, Writers
      <4> HIDE DEF row
      <4>3. QED BY <4>1, <4>2, InsertTypes DEF Types
    <3>2. CASE same # {}
      <4>1. boundaries' = Update(v) /\ UNCHANGED issued
        BY <1>6, <3>2 DEF FoldBoundary
      <4>2. last \in same
        <5> HIDE DEF row
        <5> QED BY <1>2, <3>2, LastKnown
      <4>3. fold.known[last] \in Version
        <5> HIDE DEF row, last
        <5> QED BY <1>2, <4>2 DEF Fold0
      <4>4. v \in Version
        <5> HIDE DEF row, last
        <5> QED BY <2>1, <4>3 DEF Version, CatalogRow, Writers
      <4> HIDE DEF v
      <4>5. QED BY <4>1, <4>4, UpdateTypes DEF Types
    <3>3. QED BY <3>1, <3>2
  <2> HIDE DEF next
  <2>5. QED BY <1>1, <2>2, <2>3, <2>4 DEF Types, StagesInv
<1>7. CASE FoldDone
  BY <1>1, <1>7, NothingInHand DEF FoldDone, db, Types, StagesInv
<1>8. QED BY <1>3, <1>4, <1>5, <1>6, <1>7 DEF Folding

MishapOrWorld ==
    StartReset \/ Wiping \/ Restart \/ CooldownExpires \/ GiteaChanges

LEMMA MishapTypes ==
    ASSUME Types, StagesInv, MishapOrWorld
    PROVE  Types' /\ StagesInv'
<1>1. CASE StartReset
  <2>1. wipe' \in SUBSET {"projects", "boundaries", "gate"}
    BY <1>1 DEF StartReset
  <2>2. UNCHANGED <<gitea, projects, boundaries, issued, gate, pc, work, edit, fold>>
    BY <1>1 DEF StartReset, db
  <2>3. QED BY <2>1, <2>2 DEF Types, StagesInv
<1>2. CASE WipeTable
  <2>1. /\ wipe' \in SUBSET {"projects", "boundaries", "gate"}
        /\ projects' \in {projects, NoProjects} /\ boundaries' \in {boundaries, <<>>}
    BY <1>2 DEF WipeTable, Types
  <2>2. UNCHANGED <<gitea, issued, gate, pc, work, edit, fold>>
    BY <1>2 DEF WipeTable
  <2>3. boundaries' \in Seq(Version) /\ projects' \in [Slugs -> ProjectDoc \cup {NoProject}]
    <3>1. <<>> \in Seq(Version)
      OBVIOUS
    <3>2. QED BY <2>1, <3>1, NothingInHand DEF Types
  <2>4. QED BY <2>1, <2>2, <2>3 DEF Types, StagesInv
<1>3. CASE ResetGate
  BY <1>3 DEF ResetGate, db, Types, StagesInv
<1>4. CASE Restart
  <2>1. /\ gate' = [holder |-> NoOne, cooling |-> FALSE] /\ pc' = [c \in Discoverers |-> "idle"]
        /\ work' = [c \in Discoverers |-> NoWork] /\ fold' = NoFold /\ wipe' = {} /\ UNCHANGED <<gitea, issued>>
    BY <1>4 DEF Restart, db
  <2>2. boundaries' \in Seq(Version) /\ projects' \in [Slugs -> ProjectDoc \cup {NoProject}]
    <3>1. <<>> \in Seq(Version)
      OBVIOUS
    <3>2. boundaries' \in {boundaries, <<>>} /\ projects' \in {projects, NoProjects}
      BY <1>4 DEF Restart, db
    <3>3. QED BY <3>1, <3>2, NothingInHand DEF Types
  <2>3. edit' \in [Editors -> Edit0] /\ \A e \in Editors : edit'[e].pc \notin {"close", "add"}
    <3>1. \A e \in Editors : [edit[e] EXCEPT !.pc = "cut"] \in Edit0 /\ [edit[e] EXCEPT !.pc = "done"] \in Edit0
      BY DEF Types, Edit0
    <3>2. \A e \in Editors : edit'[e] \in Edit0 /\ edit'[e].pc \notin {"close", "add"}
      <4> SUFFICES ASSUME NEW e \in Editors PROVE edit'[e] \in Edit0 /\ edit'[e].pc \notin {"close", "add"}
        OBVIOUS
      <4>1. edit[e] \in Edit0
        BY DEF Types
      <4>2. \/ edit'[e] = [edit[e] EXCEPT !.pc = "cut"]
            \/ edit'[e] = [edit[e] EXCEPT !.pc = "done"]
            \/ edit'[e] = edit[e] /\ edit[e].pc \notin {"close", "add"}
        BY <1>4 DEF Restart
      <4>3. [edit[e] EXCEPT !.pc = "cut"].pc = "cut" /\ [edit[e] EXCEPT !.pc = "done"].pc = "done"
        BY <4>1 DEF Edit0
      <4>4. QED BY <3>1, <4>1, <4>2, <4>3
    <3>3. \E f : edit' = [e \in Editors |-> f[e]]
      <4>1. CASE edit' = [e \in Editors |-> [edit[e] EXCEPT !.pc = "done"]]
        <5>1. edit' = [e \in Editors |-> edit'[e]]
          BY <4>1
        <5>2. QED BY <5>1
      <4>2. CASE edit' # [e \in Editors |-> [edit[e] EXCEPT !.pc = "done"]]
        <5>1. edit' = [e \in Editors |-> edit'[e]]
          BY <1>4, <4>2 DEF Restart
        <5>2. QED BY <5>1
      <4>3. QED BY <4>1, <4>2
    <3>4. QED BY <3>2, <3>3
  <2>4. QED BY <2>1, <2>2, <2>3, NothingInHand DEF Types, StagesInv, Stages
<1>5. CASE CooldownExpires
  BY <1>5 DEF CooldownExpires, db, Types, StagesInv
<1>6. CASE GiteaChanges
  BY <1>6 DEF GiteaChanges, db, Types, StagesInv
<1>7. QED BY <1>1, <1>2, <1>3, <1>4, <1>5, <1>6 DEF MishapOrWorld, Wiping

\* A step is one of these; the proofs below go through them in this order.
LEMMA StepsAre ==
    ASSUME Next
    PROVE  \/ \E r \in Readers : Arrive(r) \/ Acquire(r) \/ Recheck(r)
           \/ \E c \in Discoverers : (c \in Operators /\ Discover(c)) \/ ListOrgs(c) \/ ListingFails(c) \/ Work(c)
           \/ \E e \in Editors : RequestEdit(e) \/ Editing(e)
           \/ FoldStart \/ Folding
           \/ MishapOrWorld
BY DEF Next, Gate, MishapOrWorld, Discoverers

LEMMA TypesInit == Init => Types /\ StagesInv
<1> SUFFICES ASSUME Init PROVE Types /\ StagesInv
  OBVIOUS
<1>1. <<>> \in Seq(Version)
  OBVIOUS
<1>2. QED BY <1>1, NothingInHand DEF Init, Types, StagesInv, Stages

LEMMA TypesNext ==
    ASSUME Types, StagesInv, [Next]_vars
    PROVE  Types' /\ StagesInv'
<1>1. CASE Next
  BY <1>1, StepsAre, GateTypes, DiscoveryTypes, EditTypes, FoldTypes, MishapTypes
<1>2. CASE UNCHANGED vars
  BY <1>2 DEF vars, db, Types, StagesInv
<1>3. QED BY <1>1, <1>2

LEMMA Typed == Spec => [](Types /\ StagesInv)
<1>1. Types /\ StagesInv /\ [Next]_vars => (Types /\ StagesInv)'
  BY TypesNext
<1>2. QED BY <1>1, TypesInit, PTL DEF Spec

LEMMA MishapsCounted ==
    ASSUME mishaps \in 0..MaxMishaps, [Next]_vars
    PROVE  mishaps' \in 0..MaxMishaps
<1>1. CASE UNCHANGED mishaps
  BY <1>1
<1>2. CASE StartReset \/ Restart
  BY <1>2, BoundAssumption DEF StartReset, Restart
<1>3. CASE Next
  BY <1>1, <1>2, <1>3, Zenon
     DEF Next, Arrive, Gate, Acquire, Recheck, Discover, ListOrgs, ListingFails, Work, SkipOrg, LookUp, Register,
         Compare, AddVersion, Finish, RequestEdit, Editing, CloseOld, AddEdited, FoldStart, Folding, FoldRead,
         FoldProject, FoldBoundary, FoldDone, Wiping, WipeTable, ResetGate, CooldownExpires, GiteaChanges
<1>4. QED BY <1>1, <1>3 DEF vars

\* Every writer leaves every document and every conversation well formed, and no
\* more mishaps are counted than may happen.
THEOREM RegistryIsWellTyped == Spec => []TypeOK
<1> DEFINE Counted == mishaps \in 0..MaxMishaps
<1>1. Init => Counted
  BY BoundAssumption DEF Init
<1>2. Counted /\ [Next]_vars => Counted'
  BY MishapsCounted
<1>3. Types /\ Counted => TypeOK
  BY TypesAreTypeOK
<1> HIDE DEF Counted
<1>4. QED BY <1>1, <1>2, <1>3, Typed, PTL DEF Spec

-------------------------------------------------------------------------------
(* The gate, and what cold reads register behind it *)

\* A read that looks again or discovers holds the lock.
AloneAtTheGate ==
    \A r \in Readers : pc[r] \in {"recheck"} \cup InDiscovery => gate.holder = r

LEMMA OthersReleaseNothing ==
    ASSUME Types, NEW c \in Operators
    PROVE  Released(c) = gate
BY RolesAssumption DEF Types, Released, Writers, Discoverers

LEMMA GateStep ==
    ASSUME Types, AloneAtTheGate, [Next]_vars
    PROVE  AloneAtTheGate'
<1>1. CASE UNCHANGED <<gate, pc>>
  BY <1>1 DEF AloneAtTheGate
<1>2. ASSUME NEW r \in Readers, Arrive(r) PROVE AloneAtTheGate'
  <2>1. pc' = [pc EXCEPT ![r] = "queued"] /\ UNCHANGED gate /\ "queued" \notin {"recheck"} \cup InDiscovery
    BY <1>2 DEF Arrive, InDiscovery
  <2>2. QED BY <2>1 DEF AloneAtTheGate, Types
<1>3. ASSUME NEW r \in Readers, Acquire(r) PROVE AloneAtTheGate'
  <2>1. /\ gate.holder = NoOne /\ gate' = [gate EXCEPT !.holder = r] /\ pc' = [pc EXCEPT ![r] = "recheck"]
        /\ NoOne \notin Readers
    BY <1>3, RolesAssumption DEF Acquire, LockIsFree, Writers, Discoverers
  <2>2. gate'.holder = r
    BY <2>1 DEF Types
  <2>3. QED BY <2>1, <2>2 DEF AloneAtTheGate, Types
<1>4. ASSUME NEW r \in Readers, Recheck(r) PROVE AloneAtTheGate'
  <2>1. pc[r] = "recheck" /\ gate.holder = r /\ \A q \in Readers \ {r} : pc[q] \notin {"recheck"} \cup InDiscovery
    BY <1>4 DEF Recheck, AloneAtTheGate
  <2>2. \/ gate' = [gate EXCEPT !.cooling = TRUE] /\ pc' = [pc EXCEPT ![r] = "listing"]
        \/ pc' = [pc EXCEPT ![r] = "idle"]
    BY <1>4 DEF Recheck, Idle
  <2>3. gate' = [gate EXCEPT !.cooling = TRUE] => gate'.holder = r
    BY <2>1 DEF Types
  <2>4. \A q \in Readers \ {r} : pc'[q] = pc[q]
    BY <2>2 DEF Types, Discoverers
  <2>5. pc'[r] = "idle" \/ gate'.holder = r
    BY <2>2, <2>3 DEF Types, Discoverers
  <2>6. QED BY <2>1, <2>4, <2>5 DEF AloneAtTheGate, InDiscovery
<1>5. ASSUME NEW c \in Discoverers, (c \in Operators /\ Discover(c)) \/ ListOrgs(c) \/ SkipOrg(c) \/ LookUp(c)
                                     \/ Register(c) \/ Compare(c) \/ AddVersion(c)
      PROVE  AloneAtTheGate'
  <2>1. UNCHANGED gate
    BY <1>5 DEF Discover, ListOrgs, SkipOrg, LookUp, Register, Compare, AddVersion
  <2>2. c \in Operators \/ pc[c] \in InDiscovery
    BY <1>5 DEF ListOrgs, SkipOrg, LookUp, Register, Compare, AddVersion, InDiscovery
  <2>3. \A r \in Readers \ {c} : pc'[r] = pc[r]
    <3>1. pc' = pc \/ \E at : pc' = [pc EXCEPT ![c] = at]
      <4>1. CASE Discover(c) \/ ListOrgs(c) \/ SkipOrg(c) \/ Register(c) \/ AddVersion(c)
        BY <4>1 DEF Discover, ListOrgs, SkipOrg, Register, AddVersion
      <4>2. CASE LookUp(c)
        BY <4>2, Zenon DEF LookUp
      <4>3. CASE Compare(c)
        BY <4>3, Zenon DEF Compare
      <4>4. QED BY <1>5, <4>1, <4>2, <4>3
    <3>2. QED BY <3>1 DEF Types, Discoverers
  <2>4. c \notin Readers \/ pc' = pc \/ pc[c] \in InDiscovery
    BY <2>2, RolesAssumption
  <2>5. QED BY <2>1, <2>3, <2>4 DEF AloneAtTheGate
<1>6. ASSUME NEW c \in Discoverers, ListingFails(c) \/ Finish(c) PROVE AloneAtTheGate'
  <2>1. pc' = [pc EXCEPT ![c] = "idle"] /\ pc[c] \in InDiscovery
    BY <1>6 DEF ListingFails, Finish, Idle, InDiscovery
  <2>2. gate'.holder = Released(c).holder
    BY <1>6, ReleasedTypes DEF ListingFails, Finish
  <2>3. CASE c \in Readers
    <3>1. \A r \in Readers \ {c} : pc'[r] \notin {"recheck"} \cup InDiscovery
      BY <2>1, <2>3 DEF AloneAtTheGate, Types
    <3>2. pc'[c] = "idle"
      BY <2>1 DEF Types
    <3>3. QED BY <3>1, <3>2 DEF AloneAtTheGate, InDiscovery
  <2>4. CASE c \in Operators
    <3>1. gate'.holder = gate.holder /\ c \notin Readers
      BY <2>2, <2>4, OthersReleaseNothing, RolesAssumption
    <3>2. QED BY <2>1, <3>1 DEF AloneAtTheGate, Types
  <2>5. QED BY <2>3, <2>4 DEF Discoverers
<1>7. ASSUME ResetGate \/ CooldownExpires PROVE AloneAtTheGate'
  <2>1. gate' = [gate EXCEPT !.cooling = FALSE] /\ UNCHANGED pc
    BY <1>7 DEF ResetGate, CooldownExpires
  <2>2. gate'.holder = gate.holder
    BY <2>1 DEF Types
  <2>3. QED BY <2>1, <2>2 DEF AloneAtTheGate
<1>8. ASSUME Restart PROVE AloneAtTheGate'
  BY <1>8 DEF Restart, AloneAtTheGate, InDiscovery, Discoverers
<1>9. ASSUME \/ \E e \in Editors : RequestEdit(e) \/ Editing(e)
             \/ FoldStart \/ Folding \/ StartReset \/ WipeTable \/ GiteaChanges
      PROVE  UNCHANGED <<gate, pc>>
  BY <1>9 DEF RequestEdit, Editing, CloseOld, AddEdited, FoldStart, Folding, FoldRead, FoldProject, FoldBoundary,
              FoldDone, StartReset, WipeTable, GiteaChanges
<1>10. CASE Next
  BY <1>1, <1>2, <1>3, <1>4, <1>5, <1>6, <1>7, <1>8, <1>9, <1>10, StepsAre DEF Work, MishapOrWorld, Wiping
<1>11. QED BY <1>1, <1>10 DEF vars

\* Of some versions there is a newest.
LEMMA NewestExists ==
    ASSUME boundaries \in Seq(Version), NEW S, S \subseteq DOMAIN boundaries, S # {}
    PROVE  Newest(S) # {} /\ Newest(S) \subseteq S
<1>1. \A i \in S : i \in Nat /\ boundaries[i].from \in Nat /\ boundaries[i].from < Forever
  <2>1. \A i \in S : i \in Nat /\ boundaries[i] \in Version
    OBVIOUS
  <2>2. QED BY <2>1, DaysAssumption DEF Version
<1> DEFINE ages == {Forever - boundaries[i].from : i \in S}
<1>2. ages \subseteq Nat /\ ages # {} /\ Forever \in Nat
  BY <1>1, DaysAssumption
<1> HIDE DEF ages
<1>3. PICK least \in ages : \A a \in ages : least <= a
  BY <1>2, LeastNatural
<1> DEFINE latest == {i \in S : Forever - boundaries[i].from = least}
<1>4. latest \subseteq Nat /\ latest # {}
  BY <1>1, <1>3 DEF ages
<1>5. PICK first \in latest : \A i \in latest : first <= i
  BY <1>4, LeastNatural
<1>6. \A j \in S : \/ boundaries[j].from < boundaries[first].from
                   \/ boundaries[j].from = boundaries[first].from /\ first <= j
  <2> SUFFICES ASSUME NEW j \in S, ~(boundaries[j].from < boundaries[first].from)
               PROVE  boundaries[j].from = boundaries[first].from /\ first <= j
    OBVIOUS
  <2>1. Forever - boundaries[first].from <= Forever - boundaries[j].from
    BY <1>3, <1>5 DEF ages
  <2>2. boundaries[j].from = boundaries[first].from
    BY <1>1, <1>2, <2>1
  <2>3. QED BY <1>5, <2>2
<1>7. first \in Newest(S)
  BY <1>5, <1>6 DEF Newest
<1>8. QED BY <1>7 DEF Newest

\* With Gitea standing still, and nobody else writing, the boundaries are all
\* alike: in force for good, with what an organisation of that slug holds.
AllAlike(g) ==
    \A i \in DOMAIN boundaries :
        /\ boundaries[i].from = 0 /\ boundaries[i].to = Forever
        /\ \E o \in Orgs : SlugOf[o] = boundaries[i].project /\ boundaries[i].repos = g[o]

\* What a discoverer has listed is what Gitea holds.
ListedIs(g) ==
    /\ gitea = g
    /\ \A c \in Discoverers : pc[c] \in {"loop", "register", "compare", "map"} => work[c].listed = g

\* A fold has nothing to write.
NothingToFold == fold.todo = {} /\ fold.pc # "boundary"

\* A read about to add a version finds none by a read before it.
ReadsFindNone ==
    \A r \in Readers : pc[r] = "map" =>
        \A i \in DOMAIN boundaries : boundaries[i].project = SlugOf[work[r].org] => boundaries[i].by \notin Readers

ColdInv(g) == AllAlike(g) /\ ListedIs(g) /\ NothingToFold /\ ReadsFindNone /\ ColdReadsRegisterOnce

\* A discovery that finds the boundary at odds with its listing finds none at all.
LEMMA OddMeansNone ==
    ASSUME NEW g, \A a, b \in Orgs : SlugOf[a] = SlugOf[b] => g[a] = g[b],
           boundaries \in Seq(Version), AllAlike(g), NEW o \in Orgs, InForce(SlugOf[o], Today) # {g[o]}
    PROVE  Of(SlugOf[o]) = {}
<1> SUFFICES ASSUME Of(SlugOf[o]) # {} PROVE FALSE
  OBVIOUS
<1>1. \A i \in Of(SlugOf[o]) : IsEffectiveAt(boundaries[i], Today) /\ boundaries[i].repos = g[o]
  <2> SUFFICES ASSUME NEW i \in Of(SlugOf[o])
               PROVE  IsEffectiveAt(boundaries[i], Today) /\ boundaries[i].repos = g[o]
    OBVIOUS
  <2>1. i \in DOMAIN boundaries /\ boundaries[i].project = SlugOf[o]
    BY DEF Of
  <2>2. boundaries[i].from = 0 /\ boundaries[i].to = Forever /\ boundaries[i].repos = g[o]
    BY <2>1 DEF AllAlike
  <2>3. Today \in Nat /\ 0 <= Today /\ Today <= Forever
    <3>1. Today \in Days /\ Today \in Nat /\ Forever \in Nat
      BY DaysAssumption
    <3>2. Today < Forever
      BY <3>1, DaysAssumption
    <3>3. QED BY <3>1, <3>2
  <2>4. QED BY <2>2, <2>3 DEF IsEffectiveAt
<1>2. BoundaryAt(SlugOf[o], Today) = Newest(Of(SlugOf[o]))
  BY <1>1 DEF BoundaryAt
<1>3. Of(SlugOf[o]) \subseteq DOMAIN boundaries
  BY DEF Of
<1>4. BoundaryAt(SlugOf[o], Today) # {} /\ BoundaryAt(SlugOf[o], Today) \subseteq Of(SlugOf[o])
  BY <1>2, <1>3, NewestExists
<1>5. QED BY <1>1, <1>4 DEF InForce

\* Where nothing is added, only the control matters.
LEMMA ColdControlStep ==
    ASSUME NEW g, ColdInv(g), boundaries' \in {boundaries, <<>>}, ListedIs(g)', NothingToFold',
           \A r \in Readers : pc'[r] = "map" => pc[r] = "map" /\ work'[r].org = work[r].org
    PROVE  ColdInv(g)'
<1>1. \A i \in DOMAIN boundaries' : i \in DOMAIN boundaries /\ boundaries'[i] = boundaries[i]
  OBVIOUS
<1>2. AllAlike(g)'
  BY <1>1 DEF ColdInv, AllAlike
<1>3. ReadsFindNone'
  <2> SUFFICES ASSUME NEW r \in Readers, pc'[r] = "map", NEW i \in DOMAIN boundaries',
                      boundaries'[i].project = SlugOf[work'[r].org]
               PROVE  boundaries'[i].by \notin Readers
    BY DEF ReadsFindNone
  <2>1. /\ i \in DOMAIN boundaries /\ boundaries'[i] = boundaries[i] /\ pc[r] = "map"
        /\ boundaries[i].project = SlugOf[work[r].org]
    BY <1>1
  <2>2. QED BY <2>1 DEF ColdInv, ReadsFindNone
<1>4. ColdReadsRegisterOnce'
  BY <1>1 DEF ColdInv, ColdReadsRegisterOnce
<1>5. QED BY <1>2, <1>3, <1>4 DEF ColdInv

LEMMA ColdStep ==
    ASSUME NEW g, Contents = {g}, \A a, b \in Orgs : SlugOf[a] = SlugOf[b] => g[a] = g[b],
           Editors = {}, \A export \in Exports : export = {},
           Types, Types', StagesInv, AloneAtTheGate, ColdInv(g), [Next]_vars
    PROVE  ColdInv(g)'
<1>1. gitea' = g /\ gitea = g
  BY DEF Types
<1>2. CASE UNCHANGED vars
  BY <1>2, ColdControlStep DEF vars, db, ColdInv, ListedIs, NothingToFold
<1>3. ASSUME NEW r \in Readers, Arrive(r) \/ Acquire(r) \/ Recheck(r) PROVE ColdInv(g)'
  <2>1. UNCHANGED <<boundaries, fold>>
    BY <1>3 DEF Arrive, Acquire, Recheck, db
  <2>2. \A c \in Discoverers : pc'[c] \in InDiscovery \ {"listing"} => c # r /\ pc'[c] = pc[c] /\ work'[c] = work[c]
    <3>1. \/ pc' = [pc EXCEPT ![r] = "queued"] /\ work' = work
          \/ pc' = [pc EXCEPT ![r] = "recheck"] /\ work' = work
          \/ pc' = [pc EXCEPT ![r] = "listing"] /\ work' = work
          \/ pc' = [pc EXCEPT ![r] = "idle"] /\ work' = [work EXCEPT ![r] = NoWork]
      BY <1>3 DEF Arrive, Acquire, Recheck, Idle
    <3>2. pc \in [Discoverers -> Stages] /\ work \in [Discoverers -> Work0]
      BY DEF Types
    <3>3. QED BY <3>1, <3>2 DEF InDiscovery
  <2>3. ListedIs(g)' /\ NothingToFold'
    BY <1>1, <2>1, <2>2 DEF ColdInv, ListedIs, NothingToFold, InDiscovery
  <2>4. QED BY <2>1, <2>2, <2>3, ColdControlStep DEF Discoverers, InDiscovery
<1>4. ASSUME NEW c \in Discoverers, (c \in Operators /\ Discover(c)) \/ ListOrgs(c) \/ ListingFails(c) \/ Work(c)
      PROVE  ColdInv(g)'
  <2>1. UNCHANGED fold /\ pc \in [Discoverers -> Stages] /\ work \in [Discoverers -> Work0] /\ work[c] \in Work0
    BY <1>4 DEF Discover, ListOrgs, ListingFails, Work, SkipOrg, LookUp, Register, Compare, AddVersion, Finish, Types
  <2>2. NothingToFold'
    BY <2>1 DEF ColdInv, NothingToFold
  <2>3. ASSUME UNCHANGED boundaries,
               NEW at, pc' = [pc EXCEPT ![c] = at], at # "map",
               NEW next, work' = [work EXCEPT ![c] = next],
               at \in {"loop", "register", "compare"} => next.listed = g
        PROVE  ColdInv(g)'
    <3>1. \A d \in Discoverers \ {c} : pc'[d] = pc[d] /\ work'[d] = work[d]
      BY <2>1, <2>3
    <3>2. pc'[c] = at /\ work'[c] = next
      BY <2>1, <2>3
    <3>3. ListedIs(g)'
      BY <1>1, <2>3, <3>1, <3>2 DEF ColdInv, ListedIs
    <3>4. QED BY <2>2, <2>3, <3>1, <3>2, <3>3, ColdControlStep DEF Discoverers
  <2>4. CASE Discover(c)
    <3>1. PICK at : at = "listing" /\ pc' = [pc EXCEPT ![c] = at]
      BY <2>4 DEF Discover
    <3>2. work' = [work EXCEPT ![c] = work[c]] /\ UNCHANGED boundaries
      BY <2>1, <2>4 DEF Discover, db
    <3>3. at # "map" /\ at \notin {"loop", "register", "compare"}
      BY <3>1
    <3>4. pc' = [pc EXCEPT ![c] = at]
      BY <3>1
    <3>5. QED BY <2>3, <3>2, <3>3, <3>4, Zenon
  <2>5. CASE ListOrgs(c)
    <3> DEFINE next == [work[c] EXCEPT !.listed = gitea, !.todo = Orgs]
    <3>1. next.listed = g
      BY <1>1, <2>1 DEF Work0
    <3>2. pc' = [pc EXCEPT ![c] = "loop"] /\ work' = [work EXCEPT ![c] = next] /\ UNCHANGED boundaries
      BY <2>5, Zenon DEF ListOrgs, db
    <3> HIDE DEF next
    <3>3. PICK at : at = "loop" /\ pc' = [pc EXCEPT ![c] = at]
      BY <3>2
    <3>4. at # "map" /\ work' = [work EXCEPT ![c] = next] /\ UNCHANGED boundaries
      BY <3>2, <3>3
    <3>5. QED BY <2>3, <3>1, <3>3, <3>4, Zenon
  <2>6. CASE ListingFails(c) \/ Finish(c)
    <3>1. PICK at, next : /\ at = "idle" /\ pc' = [pc EXCEPT ![c] = at]
                          /\ next = NoWork /\ work' = [work EXCEPT ![c] = next]
      BY <2>6 DEF ListingFails, Finish, Idle
    <3>2. UNCHANGED boundaries
      BY <2>6 DEF ListingFails, Finish, db
    <3>3. at # "map" /\ at \notin {"loop", "register", "compare"}
      BY <3>1
    <3>4. pc' = [pc EXCEPT ![c] = at] /\ work' = [work EXCEPT ![c] = next]
      BY <3>1
    <3>5. QED BY <2>3, <3>2, <3>3, <3>4, Zenon
  <2>7. CASE SkipOrg(c)
    <3>1. PICK o : work' = [work EXCEPT ![c] = [work[c] EXCEPT !.todo = work[c].todo \ {o}]]
      BY <2>7, Zenon DEF SkipOrg
    <3> DEFINE next == [work[c] EXCEPT !.todo = work[c].todo \ {o}]
    <3>2. pc' = [pc EXCEPT ![c] = "loop"] /\ pc[c] = "loop" /\ UNCHANGED boundaries
      BY <2>1, <2>7 DEF SkipOrg, db
    <3>3. next.listed = g
      BY <2>1, <3>2 DEF Work0, ColdInv, ListedIs
    <3>4. work' = [work EXCEPT ![c] = next]
      BY <3>1
    <3> HIDE DEF next
    <3>5. PICK at : at = "loop" /\ pc' = [pc EXCEPT ![c] = at]
      BY <3>2
    <3>6. at # "map" /\ UNCHANGED boundaries
      BY <3>2, <3>5
    <3>7. QED BY <2>3, <3>3, <3>4, <3>5, <3>6, Zenon
  <2>8. CASE LookUp(c)
    <3>1. PICK o, at : /\ work' = [work EXCEPT ![c] = [work[c] EXCEPT !.todo = work[c].todo \ {o}, !.org = o,
                                                       !.seen = work[c].seen \cup {SlugOf[o]}]]
                       /\ pc' = [pc EXCEPT ![c] = at] /\ at = AfterLookup(SlugOf[o])
      <4>1. PICK o \in work[c].todo :
              /\ work' = [work EXCEPT ![c].todo = @ \ {o}, ![c].org = o, ![c].seen = @ \cup {SlugOf[o]}]
              /\ pc' = [pc EXCEPT ![c] = AfterLookup(SlugOf[o])]
        BY <2>8, Zenon DEF LookUp
      <4>2. PICK w : w = work[c]
        OBVIOUS
      <4>3. work'[c] = [w EXCEPT !.todo = w.todo \ {o}, !.org = o, !.seen = w.seen \cup {SlugOf[o]}]
        BY <2>1, <4>1, <4>2 DEF Work0
      <4>4. work' = [work EXCEPT ![c] = work'[c]]
        BY <2>1, <4>1
      <4>5. PICK at : at = AfterLookup(SlugOf[o]) /\ pc' = [pc EXCEPT ![c] = at]
        BY <4>1
      <4>6. QED BY <4>2, <4>3, <4>4, <4>5, Zenon
    <3> DEFINE next == [work[c] EXCEPT !.todo = work[c].todo \ {o}, !.org = o, !.seen = work[c].seen \cup {SlugOf[o]}]
    <3>2. at \in {"register", "compare"} /\ pc[c] = "loop" /\ UNCHANGED boundaries
      BY <2>8, <3>1 DEF AfterLookup, LookUp, db
    <3>3. next.listed = g
      BY <2>1, <3>2 DEF Work0, ColdInv, ListedIs
    <3>4. work' = [work EXCEPT ![c] = next]
      BY <3>1
    <3> HIDE DEF next
    <3>5. QED BY <2>3, <3>1, <3>2, <3>3, <3>4
  <2>9. CASE Register(c)
    <3> DEFINE next == [work[c] EXCEPT !.created = TRUE]
    <3>1. pc[c] = "register" /\ pc' = [pc EXCEPT ![c] = "compare"] /\ UNCHANGED boundaries
      BY <2>9 DEF Register
    <3>2. next.listed = g
      BY <2>1, <3>1 DEF Work0, ColdInv, ListedIs
    <3>3. work' = [work EXCEPT ![c] = next]
      BY <2>9, Zenon DEF Register
    <3> HIDE DEF next
    <3>4. PICK at : at = "compare" /\ pc' = [pc EXCEPT ![c] = at]
      BY <3>1
    <3>5. at # "map" /\ UNCHANGED boundaries
      BY <3>1, <3>4
    <3>6. QED BY <2>3, <3>2, <3>3, <3>4, <3>5, Zenon
  <2>10. CASE Compare(c)
    <3> DEFINE o == work[c].org
    <3>1. /\ pc[c] = "compare" /\ UNCHANGED <<boundaries, work>> /\ o \in Orgs /\ work[c].listed = g
          /\ pc' = [pc EXCEPT ![c] = IF InForce(SlugOf[o], Today) = {g[o]} THEN "loop" ELSE "map"]
      BY <2>10 DEF Compare, db, StagesInv, ColdInv, ListedIs
    <3> HIDE DEF o
    <3>2. CASE InForce(SlugOf[o], Today) = {g[o]}
      <4>1. pc' = [pc EXCEPT ![c] = "loop"] /\ work' = [work EXCEPT ![c] = work[c]]
        BY <2>1, <3>1, <3>2
      <4>2. QED BY <2>3, <3>1, <4>1
    <3>3. CASE InForce(SlugOf[o], Today) # {g[o]}
      <4>1. pc' = [pc EXCEPT ![c] = "map"]
        BY <3>1, <3>3
      <4>2. Of(SlugOf[o]) = {}
        <5>1. boundaries \in Seq(Version) /\ AllAlike(g)
          BY DEF Types, ColdInv
        <5>2. QED BY <3>1, <3>3, <5>1, OddMeansNone
      <4>3. AllAlike(g)' /\ ColdReadsRegisterOnce' /\ ListedIs(g)'
        BY <1>1, <2>1, <3>1, <4>1 DEF ColdInv, AllAlike, ColdReadsRegisterOnce, ListedIs
      <4>4. ReadsFindNone'
        BY <2>1, <3>1, <4>1, <4>2 DEF ColdInv, ReadsFindNone, Of, Discoverers, o
      <4>5. QED BY <2>2, <4>3, <4>4 DEF ColdInv
    <3>4. QED BY <3>2, <3>3
  <2>11. CASE AddVersion(c)
    <3> DEFINE o == work[c].org
               v == [id |-> issued, project |-> SlugOf[o], repos |-> g[o], from |-> 0, to |-> Forever, by |-> c]
    <3>1. /\ pc[c] = "map" /\ pc' = [pc EXCEPT ![c] = "loop"] /\ UNCHANGED work /\ o \in Orgs /\ work[c].listed = g
          /\ boundaries' = Append(boundaries, v)
      BY <2>11 DEF AddVersion, Insert, StartOfNewVersion, StagesInv, ColdInv, ListedIs
    <3>2. /\ v.project = SlugOf[o] /\ v.repos = g[o] /\ v.from = 0 /\ v.to = Forever /\ v.by = c
      OBVIOUS
    <3> HIDE DEF v
    <3>3. PICK n \in Nat : DOMAIN boundaries = 1..n /\ n = Len(boundaries)
      BY DEF Types
    <3>4. /\ DOMAIN boundaries' = 1..(n + 1) /\ boundaries'[n + 1] = v
          /\ \A i \in 1..n : boundaries'[i] = boundaries[i]
      BY <3>1, <3>3 DEF Types
    <3>5. AllAlike(g)'
      BY <3>1, <3>2, <3>3, <3>4 DEF ColdInv, AllAlike
    <3>6. ListedIs(g)'
      BY <1>1, <2>1, <3>1 DEF ColdInv, ListedIs
    <3>7. \A r \in Readers : pc'[r] = "map" => pc[r] = "map" /\ r # c
      BY <2>1, <3>1 DEF Discoverers
    <3>8. CASE c \in Readers
      <4>1. \A r \in Readers : pc[r] = "map" => r = c
        BY <3>1, <3>8 DEF AloneAtTheGate, InDiscovery
      <4>2. ReadsFindNone'
        BY <3>7, <4>1 DEF ReadsFindNone
      <4>3. \A i \in 1..n : boundaries[i].project = v.project => boundaries[i].by \notin Readers
        BY <3>1, <3>2, <3>3, <3>8 DEF ColdInv, ReadsFindNone
      <4>4. \A i \in DOMAIN boundaries' : i \in 1..n \/ i = n + 1
        BY <3>3, <3>4
      <4>5. ColdReadsRegisterOnce'
        BY <3>3, <3>4, <4>3, <4>4 DEF ColdInv, ColdReadsRegisterOnce
      <4>6. QED BY <2>2, <3>5, <3>6, <4>2, <4>5 DEF ColdInv
    <3>9. CASE c \in Operators
      <4>1. v.by \notin Readers
        BY <3>2, <3>9, RolesAssumption
      <4>2. \A i \in DOMAIN boundaries' : i \in 1..n \/ i = n + 1
        BY <3>3, <3>4
      <4>3. ReadsFindNone'
        BY <3>1, <3>3, <3>4, <3>7, <4>1, <4>2 DEF ColdInv, ReadsFindNone
      <4>4. ColdReadsRegisterOnce'
        BY <3>3, <3>4, <4>1, <4>2 DEF ColdInv, ColdReadsRegisterOnce
      <4>5. QED BY <2>2, <3>5, <3>6, <4>3, <4>4 DEF ColdInv
    <3>10. QED BY <3>8, <3>9 DEF Discoverers
  <2>12. QED BY <1>4, <2>4, <2>5, <2>6, <2>7, <2>8, <2>9, <2>10, <2>11 DEF Work
<1>5. CASE FoldStart \/ Folding
  <2>1. UNCHANGED <<boundaries, pc, work>>
    <3>1. ~FoldBoundary
      BY DEF FoldBoundary, ColdInv, NothingToFold
    <3>2. QED BY <1>5, <3>1 DEF FoldStart, Folding, FoldRead, FoldProject, FoldDone, db
  <2>2. NothingToFold'
    <3>1. fold \in Fold0 /\ fold.todo = {} /\ fold.pc # "boundary"
      BY DEF Types, ColdInv, NothingToFold
    <3>2. CASE FoldStart
      BY <3>2, NothingInHand DEF FoldStart, NothingToFold, Fold0
    <3>3. CASE FoldRead
      BY <3>1, <3>3 DEF FoldRead, NothingToFold, Fold0
    <3>4. CASE FoldDone
      BY <3>4 DEF FoldDone, NothingToFold, NoFold
    <3>5. ~FoldProject /\ ~FoldBoundary
      BY <3>1 DEF FoldProject, FoldBoundary
    <3>6. QED BY <1>5, <3>2, <3>3, <3>4, <3>5 DEF Folding
  <2>3. ListedIs(g)'
    BY <1>1, <2>1 DEF ColdInv, ListedIs
  <2>4. QED BY <2>1, <2>2, <2>3, ColdControlStep
<1>6. CASE MishapOrWorld
  <2>1. boundaries' \in {boundaries, <<>>}
    BY <1>6 DEF MishapOrWorld, StartReset, Wiping, WipeTable, ResetGate, Restart, CooldownExpires, GiteaChanges, db
  <2>2. \/ UNCHANGED <<pc, work, fold>>
        \/ pc' = [c \in Discoverers |-> "idle"] /\ fold' = NoFold
    BY <1>6 DEF MishapOrWorld, StartReset, Wiping, WipeTable, ResetGate, Restart, CooldownExpires, GiteaChanges
  <2>3. ListedIs(g)' /\ NothingToFold'
    BY <1>1, <2>2 DEF ColdInv, ListedIs, NothingToFold, NoFold
  <2>4. QED BY <2>1, <2>2, <2>3, ColdControlStep DEF Discoverers
<1>7. CASE Next
  BY <1>3, <1>4, <1>5, <1>6, <1>7, StepsAre
<1>8. QED BY <1>2, <1>7

\* While Gitea holds the same repositories, the same for organisations that share
\* a slug, and nobody edits or exports boundaries, cold reads register each
\* project's boundary once: any number of reads, resets, restarts and operators.
THEOREM ColdReadsShareOneBootstrap ==
    ASSUME NEW g, Contents = {g}, \A a, b \in Orgs : SlugOf[a] = SlugOf[b] => g[a] = g[b],
           Editors = {}, \A export \in Exports : export = {}
    PROVE  Spec => []ColdReadsRegisterOnce
<1> DEFINE Inv == Types /\ StagesInv /\ AloneAtTheGate /\ ColdInv(g)
<1>1. Init => Inv
  <2>1. Init => AloneAtTheGate
    BY DEF Init, AloneAtTheGate, InDiscovery, Discoverers
  <2>2. Init => ColdInv(g)
    BY DEF Init, ColdInv, AllAlike, ListedIs, NothingToFold, NoFold, ReadsFindNone, Discoverers, ColdReadsRegisterOnce
  <2>3. QED BY <2>1, <2>2, TypesInit
<1>2. Inv /\ [Next]_vars => Inv'
  BY TypesNext, GateStep, ColdStep
<1>3. Inv => ColdReadsRegisterOnce
  BY DEF ColdInv
<1> HIDE DEF Inv
<1>4. QED BY <1>1, <1>2, <1>3, PTL DEF Spec

-------------------------------------------------------------------------------
(* A discovery yields to the mappings others made *)

\* A version dated day 0 and stored last is never the newest of several.
THEOREM DiscoveryYields == Spec => DiscoveryYieldsToMappings
<1>1. ASSUME Types, NEW c \in Discoverers, AddVersion(c), NEW p \in Slugs, NEW d \in Days,
             NEW first \in BoundaryAt(p, d)
      PROVE  InForce(p, d)' = InForce(p, d)
  <2> DEFINE effective == {i \in Of(p) : IsEffectiveAt(boundaries[i], d)}
  <2>1. PICK v : boundaries' = Append(boundaries, v) /\ v.from = 0
    BY <1>1 DEF AddVersion, Insert, StartOfNewVersion
  <2>2. PICK n \in Nat : DOMAIN boundaries = 1..n /\ n = Len(boundaries)
    BY <1>1 DEF Types
  <2>3. /\ DOMAIN boundaries' = 1..(n + 1) /\ boundaries'[n + 1].from = 0
        /\ \A i \in 1..n : boundaries'[i] = boundaries[i]
    BY <1>1, <2>1, <2>2 DEF Types
  <2>4. \A i \in 1..n : boundaries[i].from \in Nat
    <3>1. \A i \in 1..n : boundaries[i] \in Version
      BY <1>1, <2>2 DEF Types
    <3>2. QED BY <3>1, DaysAssumption DEF Version
  <2>5. /\ first \in 1..n /\ IsEffectiveAt(boundaries[first], d) /\ boundaries[first].project = p
    BY <1>1, <2>2 DEF BoundaryAt, Newest, Of
  <2>6. ASSUME NEW j PROVE j \in BoundaryAt(p, d)' <=> j \in BoundaryAt(p, d)
    <3>1. BoundaryAt(p, d)' =
            {i \in 1..(n + 1) :
               /\ boundaries'[i].project = p /\ IsEffectiveAt(boundaries'[i], d)
               /\ \A k \in 1..(n + 1) : boundaries'[k].project = p /\ IsEffectiveAt(boundaries'[k], d) =>
                     \/ boundaries'[k].from < boundaries'[i].from
                     \/ boundaries'[k].from = boundaries'[i].from /\ i <= k}
      BY <2>3 DEF BoundaryAt, Newest, Of, IsEffectiveAt
    <3>2. BoundaryAt(p, d) =
            {i \in 1..n :
               /\ boundaries[i].project = p /\ IsEffectiveAt(boundaries[i], d)
               /\ \A k \in 1..n : boundaries[k].project = p /\ IsEffectiveAt(boundaries[k], d) =>
                     \/ boundaries[k].from < boundaries[i].from
                     \/ boundaries[k].from = boundaries[i].from /\ i <= k}
      BY <2>2 DEF BoundaryAt, Newest, Of
    <3>3. ASSUME j \in BoundaryAt(p, d) PROVE j \in BoundaryAt(p, d)'
      <4>1. /\ j \in 1..n /\ boundaries[j].project = p /\ IsEffectiveAt(boundaries[j], d)
            /\ \A k \in 1..n : boundaries[k].project = p /\ IsEffectiveAt(boundaries[k], d) =>
                     \/ boundaries[k].from < boundaries[j].from
                     \/ boundaries[k].from = boundaries[j].from /\ j <= k
        BY <3>2, <3>3
      <4>2. ASSUME NEW k \in 1..(n + 1), boundaries'[k].project = p, IsEffectiveAt(boundaries'[k], d)
            PROVE  \/ boundaries'[k].from < boundaries'[j].from
                   \/ boundaries'[k].from = boundaries'[j].from /\ j <= k
        <5>1. CASE k \in 1..n
          BY <2>3, <4>1, <4>2, <5>1
        <5>2. CASE k = n + 1
          BY <2>3, <2>4, <4>1, <5>2
        <5>3. QED BY <5>1, <5>2
      <4>3. QED BY <2>3, <3>1, <4>1, <4>2
    <3>4. ASSUME j \in BoundaryAt(p, d)' PROVE j \in BoundaryAt(p, d)
      <4>1. /\ j \in 1..(n + 1) /\ boundaries'[j].project = p /\ IsEffectiveAt(boundaries'[j], d)
            /\ \A k \in 1..(n + 1) : boundaries'[k].project = p /\ IsEffectiveAt(boundaries'[k], d) =>
                     \/ boundaries'[k].from < boundaries'[j].from
                     \/ boundaries'[k].from = boundaries'[j].from /\ j <= k
        BY <3>1, <3>4
      <4>2. j # n + 1
        <5> SUFFICES ASSUME j = n + 1 PROVE FALSE
          OBVIOUS
        <5>1. first \in 1..(n + 1) /\ boundaries'[first] = boundaries[first]
          BY <2>3, <2>5
        <5>2. boundaries'[first].from < 0 \/ n + 1 <= first
          BY <2>3, <2>5, <4>1, <5>1
        <5>3. QED BY <2>4, <2>5, <5>1, <5>2
      <4>3. j \in 1..n /\ \A k \in 1..n : k \in 1..(n + 1) /\ boundaries'[k] = boundaries[k]
        BY <2>3, <4>1, <4>2
      <4>4. QED BY <3>2, <4>1, <4>3
    <3>5. QED BY <3>3, <3>4
  <2>7. BoundaryAt(p, d)' = BoundaryAt(p, d) /\ BoundaryAt(p, d) \subseteq 1..n
    <3>1. BoundaryAt(p, d)' = BoundaryAt(p, d)
      BY <2>6
    <3>2. QED BY <2>2, <3>1 DEF BoundaryAt, Newest, Of
  <2>8. \A i \in BoundaryAt(p, d) : boundaries'[i].repos = boundaries[i].repos
    BY <2>3, <2>7
  <2>9. QED BY <2>7, <2>8 DEF InForce
<1>2. Types /\ [Next]_vars =>
        [\A c \in Discoverers : AddVersion(c) =>
          \A p \in Slugs, d \in Days :
              (\E i \in BoundaryAt(p, d) : boundaries[i].by \notin Discoverers) =>
                  InForce(p, d)' = InForce(p, d)]_vars
  BY <1>1
<1>3. QED BY <1>2, Typed, PTL DEF Spec, DiscoveryYieldsToMappings

-------------------------------------------------------------------------------
(* An edit leaves the past alone *)

\* Primary keys are never reused, and nobody moves a document to another
\* project or another start.
IdsInv ==
    /\ \A i \in DOMAIN boundaries : boundaries[i].id < issued
    /\ \A i, j \in DOMAIN boundaries : boundaries[i].id = boundaries[j].id => i = j

\* What was read of a document agrees on that with what is on file, if it still is.
Genuine(v) ==
    /\ v.id < issued
    /\ \A i \in DOMAIN boundaries :
          boundaries[i].id = v.id => boundaries[i].project = v.project /\ boundaries[i].from = v.from

ReadsInv ==
    /\ \A k \in DOMAIN fold.known : Genuine(fold.known[k])
    /\ \A e \in Editors : edit[e].pc = "close" =>
          \A v \in edit[e].old : Genuine(v) /\ v.project = edit[e].project /\ v.from < edit[e].from

\* The day d of the version v that an edit e is about to write back: v is still
\* in force then, or a later version is, or another edit is about to add one.
Covered(e, v, i, d) ==
    \/ IsEffectiveAt(boundaries[i], d)
    \/ \E j \in DOMAIN boundaries :
          boundaries[j].project = v.project /\ v.from < boundaries[j].from /\ IsEffectiveAt(boundaries[j], d)
    \/ \E f \in Editors \ {e} :
          edit[f].pc = "add" /\ edit[f].old # {} /\ edit[f].project = v.project
              /\ v.from < edit[f].from /\ edit[f].from <= d

CoverInv ==
    \A e \in Editors : edit[e].pc = "close" =>
        \A v \in edit[e].old, i \in DOMAIN boundaries, d \in Days :
            boundaries[i].id = v.id /\ v.from <= d => Covered(e, v, i, d)

\* A step that adds at most one document, under a new key, and changes the
\* identity of none.
KeepsIdentity ==
    /\ issued <= issued'
    /\ \A i \in DOMAIN boundaries' :
          \/ /\ i \in DOMAIN boundaries
             /\ boundaries'[i].id = boundaries[i].id
             /\ boundaries'[i].project = boundaries[i].project /\ boundaries'[i].from = boundaries[i].from
          \/ i \notin DOMAIN boundaries /\ boundaries'[i].id = issued /\ issued < issued'
    /\ \A i, j \in DOMAIN boundaries' \ DOMAIN boundaries : i = j

LEMMA IdentityKept ==
    ASSUME Types, Types', IdsInv, KeepsIdentity
    PROVE  IdsInv' /\ \A v \in Version : Genuine(v) => Genuine(v)'
<1>1. issued \in Nat /\ issued' \in Nat /\ issued <= issued'
  BY DEF Types, KeepsIdentity
<1>2. \A i \in DOMAIN boundaries : boundaries[i].id \in Nat
  <2>1. \A i \in DOMAIN boundaries : boundaries[i] \in Version
    BY DEF Types
  <2>2. QED BY <2>1 DEF Version
<1>3. IdsInv'
  <2>1. \A i \in DOMAIN boundaries' : boundaries'[i].id < issued'
    BY <1>1, <1>2 DEF KeepsIdentity, IdsInv
  <2>2. ASSUME NEW i \in DOMAIN boundaries', NEW j \in DOMAIN boundaries', boundaries'[i].id = boundaries'[j].id
        PROVE  i = j
    <3>1. CASE i \in DOMAIN boundaries /\ j \in DOMAIN boundaries
      BY <2>2, <3>1 DEF KeepsIdentity, IdsInv
    <3>2. CASE i \notin DOMAIN boundaries /\ j \notin DOMAIN boundaries
      BY <3>2 DEF KeepsIdentity
    <3>3. CASE i \in DOMAIN boundaries /\ j \notin DOMAIN boundaries
      BY <1>1, <1>2, <2>2, <3>3 DEF KeepsIdentity, IdsInv
    <3>4. CASE i \notin DOMAIN boundaries /\ j \in DOMAIN boundaries
      BY <1>1, <1>2, <2>2, <3>4 DEF KeepsIdentity, IdsInv
    <3>5. QED BY <3>1, <3>2, <3>3, <3>4
  <2>3. QED BY <2>1, <2>2 DEF IdsInv
<1>4. ASSUME NEW v \in Version, Genuine(v) PROVE Genuine(v)'
  <2>1. v.id \in Nat /\ v.id < issued
    BY <1>4 DEF Version, Genuine
  <2>2. v.id < issued'
    BY <1>1, <2>1
  <2>3. ASSUME NEW i \in DOMAIN boundaries', boundaries'[i].id = v.id
        PROVE  boundaries'[i].project = v.project /\ boundaries'[i].from = v.from
    <3>1. i \in DOMAIN boundaries
      BY <1>1, <2>1, <2>3 DEF KeepsIdentity
    <3>2. QED BY <1>4, <2>3, <3>1 DEF KeepsIdentity, Genuine
  <2>4. QED BY <2>2, <2>3 DEF Genuine
<1>5. QED BY <1>3, <1>4

LEMMA InsertKeepsIdentity ==
    ASSUME Types, NEW p, NEW repos, NEW from, NEW by, Insert(p, repos, from, by)
    PROVE  /\ KeepsIdentity /\ DOMAIN boundaries \subseteq DOMAIN boundaries'
           /\ \A i \in DOMAIN boundaries : boundaries'[i] = boundaries[i]
           /\ \E i \in DOMAIN boundaries' : boundaries'[i].project = p /\ boundaries'[i].from = from
                                             /\ boundaries'[i].to = Forever
           /\ \A i \in DOMAIN boundaries' \ DOMAIN boundaries : boundaries'[i].from = from
<1> DEFINE v == [id |-> issued, project |-> p, repos |-> repos, from |-> from, to |-> Forever, by |-> by]
<1>1. boundaries' = Append(boundaries, v) /\ issued' = issued + 1 /\ issued \in Nat
  BY DEF Insert, Types
<1>2. v.id = issued /\ v.project = p /\ v.from = from /\ v.to = Forever
  OBVIOUS
<1> HIDE DEF v
<1>3. SomeSeq(boundaries)
  BY DEF Types, SomeSeq
<1>4. PICK n : DOMAIN boundaries' = DOMAIN boundaries \cup {n} /\ n \notin DOMAIN boundaries /\ boundaries'[n] = v
  BY <1>1, <1>3, AppendIsASeq
<1>5. \A i \in DOMAIN boundaries : boundaries'[i] = boundaries[i]
  BY <1>1, <1>3, AppendIsASeq
<1>6. KeepsIdentity
  BY <1>1, <1>2, <1>4, <1>5 DEF KeepsIdentity
<1>7. QED BY <1>2, <1>4, <1>5, <1>6

\* Writing back a document that was read, with other contents.
LEMMA UpdateKeepsIdentity ==
    ASSUME Types, NEW u, Genuine(u), NEW v \in Version, v.id = u.id, v.project = u.project, v.from = u.from,
           boundaries' = Update(v), issued' = issued
    PROVE  /\ KeepsIdentity /\ DOMAIN boundaries' = DOMAIN boundaries
           /\ \A i \in DOMAIN boundaries : boundaries'[i] = IF boundaries[i].id = v.id THEN v ELSE boundaries[i]
<1>1. /\ DOMAIN boundaries' = DOMAIN boundaries
      /\ \A i \in DOMAIN boundaries : boundaries'[i] = IF boundaries[i].id = v.id THEN v ELSE boundaries[i]
  BY UpdateTypes DEF Types
<1>2. issued <= issued'
  BY DEF Types
<1>3. QED BY <1>1, <1>2 DEF KeepsIdentity, Genuine

\* The document a fold refreshes, and what it writes.
LEMMA FoldBoundaryWrites ==
    ASSUME Types, StagesInv, ReadsInv, FoldBoundary
    PROVE  \/ \E p, repos, from : Insert(p, repos, from, Portal)
           \/ \E u, v \in Version :
                 /\ Genuine(u) /\ v.id = u.id /\ v.project = u.project /\ v.from = u.from /\ v.to = Forever
                 /\ boundaries' = Update(v) /\ issued' = issued
<1> DEFINE row == CHOOSE r \in fold.row : TRUE
           same == {i \in DOMAIN fold.known :
                      fold.known[i].project = row.project /\ fold.known[i].from = row.from}
           last == CHOOSE i \in same : \A j \in same : j <= i
           u == fold.known[last]
           v == [fold.known[last] EXCEPT !.repos = row.repos, !.to = Forever, !.by = Portal]
<1>1. CASE same = {}
  BY <1>1 DEF FoldBoundary
<1>2. CASE same # {}
  <2>1. boundaries' = Update(v) /\ UNCHANGED issued
    BY <1>2 DEF FoldBoundary
  <2>2. last \in same
    <3>1. fold \in Fold0
      BY DEF Types
    <3> HIDE DEF row
    <3>2. QED BY <1>2, <3>1, LastKnown
  <2>3. row \in CatalogRow
    BY DEF FoldBoundary, StagesInv, Types, Fold0
  <2>4. u \in Version /\ Genuine(u)
    <3> HIDE DEF row, last
    <3> QED BY <2>2 DEF Types, Fold0, ReadsInv
  <2>5. v \in Version /\ v.id = u.id /\ v.project = u.project /\ v.from = u.from /\ v.to = Forever
    <3> HIDE DEF row, last
    <3> QED BY <2>3, <2>4 DEF Version, CatalogRow, Writers
  <2> HIDE DEF v, u
  <2>6. QED BY <2>1, <2>4, <2>5
<1>3. QED BY <1>1, <1>2

RegistryInv == Types /\ StagesInv /\ IdsInv /\ ReadsInv /\ CoverInv

\* What a fold knows is what it knew, or what is on file.
LEMMA KnownIsGenuine ==
    ASSUME Types, IdsInv, ReadsInv, fold'.known \in {fold.known, boundaries, <<>>}
    PROVE  \A k \in DOMAIN fold'.known : Genuine(fold'.known[k])
<1>1. \A i \in DOMAIN boundaries : Genuine(boundaries[i])
  BY DEF IdsInv, Genuine
<1>2. QED BY <1>1 DEF ReadsInv

\* Steps that take no day from a version, and no half-done edit away without
\* adding its version.
LEMMA GivingStep ==
    ASSUME RegistryInv, Types', KeepsIdentity, fold'.known \in {fold.known, boundaries, <<>>},
           \A e \in Editors : edit'[e].pc = "close" => edit'[e] = edit[e],
           \A i \in DOMAIN boundaries :
              /\ i \in DOMAIN boundaries'
              /\ \A d \in Days : IsEffectiveAt(boundaries[i], d) => IsEffectiveAt(boundaries'[i], d),
           \A f \in Editors : edit[f].pc = "add" =>
              \/ edit'[f] = edit[f]
              \/ \E j \in DOMAIN boundaries' :
                    boundaries'[j].project = edit[f].project /\ boundaries'[j].from = edit[f].from
                       /\ boundaries'[j].to = Forever
    PROVE  IdsInv' /\ ReadsInv' /\ CoverInv'
<1>1. IdsInv' /\ \A v \in Version : Genuine(v) => Genuine(v)'
  BY IdentityKept DEF RegistryInv
<1>2. ReadsInv'
  <2>1. \A k \in DOMAIN fold'.known : Genuine(fold'.known[k]) /\ fold'.known[k] \in Version
    BY KnownIsGenuine DEF RegistryInv, Types, Fold0
  <2>2. \A k \in DOMAIN fold'.known : Genuine(fold.known[k])'
    BY <1>1, <2>1
  <2>3. ASSUME NEW e \in Editors, edit'[e].pc = "close", NEW v \in edit'[e].old
        PROVE  Genuine(v)' /\ v.project = edit'[e].project /\ v.from < edit'[e].from
    <3>1. edit'[e] = edit[e] /\ v \in Version
      BY <2>3 DEF RegistryInv, Types, Edit0
    <3>2. Genuine(v) /\ v.project = edit[e].project /\ v.from < edit[e].from
      BY <2>3, <3>1 DEF RegistryInv, ReadsInv
    <3>3. QED BY <1>1, <3>1, <3>2
  <2>4. QED BY <2>2, <2>3 DEF ReadsInv
<1>3. CoverInv'
  <2> SUFFICES ASSUME NEW e \in Editors, edit'[e].pc = "close", NEW v \in edit'[e].old,
                      NEW i \in DOMAIN boundaries', NEW d \in Days, boundaries'[i].id = v.id, v.from <= d
               PROVE  Covered(e, v, i, d)'
    BY DEF CoverInv
  <2>1. edit'[e] = edit[e] /\ v \in Version /\ Genuine(v)
    BY DEF RegistryInv, Types, Edit0, ReadsInv
  <2>2. i \in DOMAIN boundaries /\ boundaries[i].id = v.id
    BY <2>1 DEF KeepsIdentity, Genuine, RegistryInv, Types, Version
  <2>3. Covered(e, v, i, d)
    BY <2>1, <2>2 DEF RegistryInv, CoverInv
  <2>4. CASE IsEffectiveAt(boundaries[i], d)
    BY <2>2, <2>4 DEF Covered
  <2>5. ASSUME NEW j \in DOMAIN boundaries, boundaries[j].project = v.project, v.from < boundaries[j].from,
               IsEffectiveAt(boundaries[j], d)
        PROVE  Covered(e, v, i, d)'
    <3>1. j \in DOMAIN boundaries' /\ boundaries'[j].project = v.project /\ v.from < boundaries'[j].from
      BY <2>5 DEF KeepsIdentity
    <3>2. IsEffectiveAt(boundaries'[j], d)
      BY <2>5
    <3>3. QED BY <3>1, <3>2 DEF Covered
  <2>6. ASSUME NEW f \in Editors \ {e}, edit[f].pc = "add", edit[f].old # {}, edit[f].project = v.project,
               v.from < edit[f].from, edit[f].from <= d
        PROVE  Covered(e, v, i, d)'
    <3>1. CASE edit'[f] = edit[f]
      BY <2>6, <3>1 DEF Covered
    <3>2. CASE edit'[f] # edit[f]
      <4>1. PICK j \in DOMAIN boundaries' :
               boundaries'[j].project = edit[f].project /\ boundaries'[j].from = edit[f].from
                  /\ boundaries'[j].to = Forever
        BY <2>6, <3>2
      <4>2. d <= Forever
        BY DaysAssumption
      <4>3. IsEffectiveAt(boundaries'[j], d)
        BY <2>6, <4>1, <4>2 DEF IsEffectiveAt
      <4>4. QED BY <2>6, <4>1, <4>3 DEF Covered
    <3>3. QED BY <3>1, <3>2
  <2>7. QED BY <2>3, <2>4, <2>5, <2>6 DEF Covered
<1>4. QED BY <1>1, <1>2, <1>3

LEMMA NothingWritten ==
    ASSUME Types, UNCHANGED boundaries, issued' \in {issued, issued + 1}
    PROVE  KeepsIdentity
BY DEF Types, KeepsIdentity

\* A request reads the newest version, which is open.
LEMMA RequestStep ==
    ASSUME RegistryInv, Types', NEW e0 \in Editors, RequestEdit(e0)
    PROVE  IdsInv' /\ ReadsInv' /\ CoverInv'
<1>1. UNCHANGED <<boundaries, issued, fold>> /\ edit[e0].pc = "idle" /\ edit \in [Editors -> Edit0]
  BY DEF RequestEdit, db, RegistryInv, Types
<1>2. PICK p \in Slugs, from \in Days, repos \in SUBSET Repos :
         /\ Accepts(p, from)
         /\ edit' = [edit EXCEPT ![e0] =
             [pc |-> IF {i \in Newest(Of(p)) : boundaries[i].to = Forever} = {} THEN "add" ELSE "close",
              project |-> p, from |-> from, repos |-> repos,
              old |-> {boundaries[i] : i \in {i \in Newest(Of(p)) : boundaries[i].to = Forever}}]]
  BY Zenon DEF RequestEdit
<1>3. /\ edit'[e0].project = p /\ edit'[e0].from = from
      /\ edit'[e0].old = {boundaries[i] : i \in {i \in Newest(Of(p)) : boundaries[i].to = Forever}}
  BY <1>1, <1>2
<1>4. \A e \in Editors \ {e0} : edit'[e] = edit[e]
  BY <1>1, <1>2
<1>5. \A v \in edit'[e0].old :
         \E k \in DOMAIN boundaries : v = boundaries[k] /\ v.to = Forever /\ v.project = p /\ v.from < from
  BY <1>2, <1>3 DEF Newest, Of, Accepts
<1>6. IdsInv'
  BY <1>1 DEF RegistryInv, IdsInv
<1>7. ReadsInv'
  <2>1. \A v \in edit'[e0].old : Genuine(v) /\ v.project = p /\ v.from < from
    BY <1>5 DEF Genuine, RegistryInv, IdsInv
  <2>2. \A v : Genuine(v)' <=> Genuine(v)
    BY <1>1 DEF Genuine
  <2>3. \A e \in Editors : edit'[e].pc = "close" =>
          \A v \in edit'[e].old : Genuine(v) /\ v.project = edit'[e].project /\ v.from < edit'[e].from
    BY <1>3, <1>4, <2>1 DEF RegistryInv, ReadsInv
  <2>4. \A k \in DOMAIN fold'.known : Genuine(fold'.known[k])
    BY <1>1 DEF RegistryInv, ReadsInv
  <2>5. \A k \in DOMAIN fold'.known : Genuine(fold.known[k])'
    BY <2>2, <2>4
  <2>6. QED BY <2>2, <2>3, <2>5 DEF ReadsInv
<1>8. CoverInv'
  <2> SUFFICES ASSUME NEW e \in Editors, edit'[e].pc = "close", NEW v \in edit'[e].old,
                      NEW i \in DOMAIN boundaries, NEW d \in Days, boundaries[i].id = v.id, v.from <= d
               PROVE  Covered(e, v, i, d)'
    BY <1>1 DEF CoverInv
  <2>1. CASE e = e0
    <3>1. v = boundaries[i] /\ v.to = Forever
      BY <1>5, <2>1 DEF RegistryInv, IdsInv
    <3>2. d <= Forever
      BY DaysAssumption
    <3>3. QED BY <1>1, <3>1, <3>2 DEF Covered, IsEffectiveAt
  <2>2. CASE e # e0
    <3>1. edit'[e] = edit[e] /\ Covered(e, v, i, d)
      BY <1>4, <2>2 DEF RegistryInv, CoverInv
    <3>2. \A f \in Editors : edit[f].pc = "add" => edit'[f] = edit[f]
      BY <1>1, <1>4
    <3>3. QED BY <1>1, <3>1, <3>2 DEF Covered
  <2>3. QED BY <2>1, <2>2
<1>9. QED BY <1>6, <1>7, <1>8

\* What closing a version writes.
LEMMA CloseWrites ==
    ASSUME RegistryInv, NEW e \in Editors, CloseOld(e)
    PROVE  \E v, w \in Version :
              /\ v \in edit[e].old /\ w = Closed(e, v) /\ boundaries' = Update(w)
              /\ w.id = v.id /\ w.project = v.project /\ w.from = v.from /\ w.repos = v.repos /\ w.to = edit[e].from
              /\ Genuine(v) /\ v.project = edit[e].project /\ v.from < edit[e].from /\ edit[e].from \in Days
<1>1. PICK v \in edit[e].old : boundaries' = Update(Closed(e, v))
  BY DEF CloseOld
<1>2. edit[e] \in Edit0 /\ edit[e].pc = "close"
  BY DEF CloseOld, RegistryInv, Types
<1>3. v \in Version /\ edit[e].from \in Days
  BY <1>2 DEF Edit0
<1> DEFINE w == Closed(e, v)
<1>4. /\ w \in Version /\ w.id = v.id /\ w.project = v.project /\ w.from = v.from /\ w.repos = v.repos
      /\ w.to = edit[e].from
  BY <1>3 DEF Closed, Version
<1>5. Genuine(v) /\ v.project = edit[e].project /\ v.from < edit[e].from
  BY <1>2 DEF RegistryInv, ReadsInv
<1> HIDE DEF w
<1>6. boundaries' = Update(w) /\ w = Closed(e, v)
  BY <1>1 DEF w
<1>7. QED BY <1>3, <1>4, <1>5, <1>6

\* An edit that closes a version shortens it, and promises the next.
LEMMA CloseStep ==
    ASSUME RegistryInv, Types', NEW e0 \in Editors, CloseOld(e0)
    PROVE  IdsInv' /\ ReadsInv' /\ CoverInv'
<1>1. PICK u, w \in Version :
         /\ u \in edit[e0].old /\ boundaries' = Update(w)
         /\ w.id = u.id /\ w.project = u.project /\ w.from = u.from /\ w.to = edit[e0].from
         /\ Genuine(u) /\ u.project = edit[e0].project /\ u.from < edit[e0].from /\ edit[e0].from \in Days
  BY CloseWrites
<1>2. UNCHANGED <<issued, fold>>
  BY DEF CloseOld
<1>3. /\ KeepsIdentity /\ DOMAIN boundaries' = DOMAIN boundaries
      /\ \A i \in DOMAIN boundaries : boundaries'[i] = IF boundaries[i].id = w.id THEN w ELSE boundaries[i]
  BY <1>1, <1>2, UpdateKeepsIdentity DEF RegistryInv
<1>4. edit' = [edit EXCEPT ![e0] = [edit[e0] EXCEPT !.pc = "add"]] /\ edit[e0] \in Edit0 /\ edit[e0].pc = "close"
      /\ edit \in [Editors -> Edit0]
  BY Zenon DEF CloseOld, RegistryInv, Types
<1>5. /\ \A e \in Editors \ {e0} : edit'[e] = edit[e]
      /\ edit'[e0].pc = "add" /\ edit'[e0].old = edit[e0].old /\ edit'[e0].project = edit[e0].project
      /\ edit'[e0].from = edit[e0].from
  BY <1>4 DEF Edit0
<1>6. IdsInv' /\ \A v \in Version : Genuine(v) => Genuine(v)'
  BY <1>3, IdentityKept DEF RegistryInv
<1>7. ReadsInv'
  <2>1. \A k \in DOMAIN fold.known : Genuine(fold.known[k]) /\ fold.known[k] \in Version
    BY DEF RegistryInv, ReadsInv, Types, Fold0
  <2>2. \A k \in DOMAIN fold'.known : Genuine(fold.known[k])'
    BY <1>2, <1>6, <2>1
  <2>3. ASSUME NEW e \in Editors, edit'[e].pc = "close", NEW v \in edit'[e].old
        PROVE  Genuine(v)' /\ v.project = edit'[e].project /\ v.from < edit'[e].from
    <3>1. edit'[e] = edit[e]
      BY <1>5, <2>3
    <3>2. v \in Version /\ Genuine(v) /\ v.project = edit[e].project /\ v.from < edit[e].from
      BY <2>3, <3>1 DEF RegistryInv, ReadsInv, Types, Edit0
    <3>3. QED BY <1>6, <3>1, <3>2
  <2>4. QED BY <2>2, <2>3 DEF ReadsInv
\* A version in force on a day still is, or the day belongs to the next version.
<1>8. ASSUME NEW j \in DOMAIN boundaries, NEW d \in Days, IsEffectiveAt(boundaries[j], d)
      PROVE  \/ IsEffectiveAt(boundaries'[j], d)
             \/ /\ boundaries[j].project = edit[e0].project /\ boundaries[j].from < edit[e0].from
                /\ edit[e0].from <= d
  <2>1. CASE boundaries[j].id # w.id
    BY <1>3, <1>8, <2>1
  <2>2. CASE boundaries[j].id = w.id
    <3>1. boundaries[j].project = u.project /\ boundaries[j].from = u.from /\ boundaries'[j] = w
      BY <1>1, <1>3, <2>2 DEF Genuine
    <3>2. d \in Nat /\ edit[e0].from \in Nat
      BY <1>1, DaysAssumption
    <3>3. d <= edit[e0].from \/ edit[e0].from <= d
      BY <3>2
    <3>4. QED BY <1>1, <1>8, <3>1, <3>3 DEF IsEffectiveAt
  <2>3. QED BY <2>1, <2>2
<1>9. CoverInv'
  <2> SUFFICES ASSUME NEW e \in Editors, edit'[e].pc = "close", NEW v \in edit'[e].old,
                      NEW i \in DOMAIN boundaries', NEW d \in Days, boundaries'[i].id = v.id, v.from <= d
               PROVE  Covered(e, v, i, d)'
    BY DEF CoverInv
  <2>1. e # e0 /\ edit'[e] = edit[e] /\ v \in Version /\ Genuine(v)
    BY <1>5 DEF RegistryInv, Types, Edit0, ReadsInv
  <2>2. i \in DOMAIN boundaries /\ boundaries[i].id = v.id /\ boundaries[i].project = v.project /\ boundaries[i].from = v.from
    BY <1>1, <1>3, <2>1 DEF Genuine
  <2>3. Covered(e, v, i, d)
    BY <2>1, <2>2 DEF RegistryInv, CoverInv
  <2>4. v.project = edit[e0].project /\ v.from < edit[e0].from /\ edit[e0].from <= d => Covered(e, v, i, d)'
    BY <1>1, <1>5, <2>1 DEF Covered
  <2>5. CASE IsEffectiveAt(boundaries[i], d)
    BY <1>8, <2>2, <2>4, <2>5 DEF Covered
  <2>6. ASSUME NEW j \in DOMAIN boundaries, boundaries[j].project = v.project, v.from < boundaries[j].from,
               IsEffectiveAt(boundaries[j], d)
        PROVE  Covered(e, v, i, d)'
    <3>1. boundaries'[j].project = v.project /\ v.from < boundaries'[j].from /\ j \in DOMAIN boundaries'
      BY <1>3, <2>6 DEF KeepsIdentity
    <3>2. CASE IsEffectiveAt(boundaries'[j], d)
      BY <3>1, <3>2 DEF Covered
    <3>3. CASE ~IsEffectiveAt(boundaries'[j], d)
      <4>1. boundaries[j].project = edit[e0].project /\ boundaries[j].from < edit[e0].from /\ edit[e0].from <= d
        BY <1>8, <2>6, <3>3
      <4>2. v.from \in Nat /\ boundaries[j].from \in Nat /\ edit[e0].from \in Nat
        <5>1. boundaries[j] \in Version
          BY DEF RegistryInv, Types
        <5>2. QED BY <1>1, <2>1, <5>1, DaysAssumption DEF Version
      <4>3. v.from < edit[e0].from
        BY <2>6, <4>1, <4>2
      <4>4. QED BY <2>4, <2>6, <4>1, <4>3
    <3>4. QED BY <3>2, <3>3
  <2>7. ASSUME NEW f \in Editors \ {e}, edit[f].pc = "add", edit[f].old # {}, edit[f].project = v.project,
               v.from < edit[f].from, edit[f].from <= d
        PROVE  Covered(e, v, i, d)'
    <3>1. edit'[f] = edit[f]
      BY <1>4, <1>5, <2>7
    <3>2. QED BY <2>7, <3>1 DEF Covered
  <2>8. QED BY <2>3, <2>5, <2>6, <2>7 DEF Covered
<1>10. QED BY <1>6, <1>7, <1>9

\* A wipe or a restart: no version is left, or no edit about to close one.
LEMMA EmptyingStep ==
    ASSUME RegistryInv, Types', WipeTable \/ Restart
    PROVE  IdsInv' /\ ReadsInv' /\ CoverInv'
<1>1. boundaries' = boundaries \/ DOMAIN boundaries' = {}
  BY DEF WipeTable, Restart, db
<1>2. issued' = issued
  BY DEF WipeTable, Restart, db
<1>3. KeepsIdentity
  BY <1>1, <1>2 DEF KeepsIdentity, RegistryInv, Types
<1>4. IdsInv' /\ \A v \in Version : Genuine(v) => Genuine(v)'
  BY <1>3, IdentityKept DEF RegistryInv
<1>5. CASE WipeTable
  <2>1. UNCHANGED <<edit, fold>>
    BY <1>5 DEF WipeTable
  <2>2. ReadsInv'
    <3>1. \A k \in DOMAIN fold.known : Genuine(fold.known[k]) /\ fold.known[k] \in Version
      BY DEF RegistryInv, ReadsInv, Types, Fold0
    <3>2. \A k \in DOMAIN fold'.known : Genuine(fold.known[k])'
      BY <1>4, <2>1, <3>1
    <3>3. \A e \in Editors : edit[e].pc = "close" =>
            \A v \in edit[e].old : v \in Version /\ Genuine(v) /\ v.project = edit[e].project /\ v.from < edit[e].from
      BY DEF RegistryInv, ReadsInv, Types, Edit0
    <3>4. QED BY <1>4, <2>1, <3>2, <3>3 DEF ReadsInv
  <2>3. CoverInv'
    <3>1. CASE boundaries' = boundaries
      BY <2>1, <3>1 DEF RegistryInv, CoverInv, Covered
    <3>2. CASE DOMAIN boundaries' = {}
      BY <3>2 DEF CoverInv
    <3>3. QED BY <1>1, <3>1, <3>2
  <2>4. QED BY <1>4, <2>2, <2>3
<1>6. CASE Restart
  <2>1. \A e \in Editors : edit'[e].pc # "close"
    <3> SUFFICES ASSUME NEW e \in Editors PROVE edit'[e].pc # "close"
      OBVIOUS
    <3>1. edit[e] \in Edit0
      BY DEF RegistryInv, Types
    <3>2. \/ edit'[e] = [edit[e] EXCEPT !.pc = "cut"]
          \/ edit'[e] = [edit[e] EXCEPT !.pc = "done"]
          \/ edit'[e] = edit[e] /\ edit[e].pc \notin {"close", "add"}
      BY <1>6 DEF Restart
    <3>3. [edit[e] EXCEPT !.pc = "cut"].pc = "cut" /\ [edit[e] EXCEPT !.pc = "done"].pc = "done"
      BY <3>1 DEF Edit0
    <3>4. QED BY <3>2, <3>3
  <2>2. DOMAIN fold'.known = {}
    BY <1>6 DEF Restart, NoFold
  <2>3. QED BY <1>4, <2>1, <2>2 DEF ReadsInv, CoverInv
<1>7. QED BY <1>5, <1>6

\* Steps that leave boundaries and edits alone.
LEMMA QuietStep ==
    ASSUME RegistryInv, Types', UNCHANGED <<boundaries, edit>>, issued' \in {issued, issued + 1},
           fold'.known \in {fold.known, boundaries, <<>>}
    PROVE  IdsInv' /\ ReadsInv' /\ CoverInv'
<1>1. KeepsIdentity
  BY NothingWritten DEF RegistryInv
<1>2. QED BY <1>1, GivingStep

LEMMA InsertStep ==
    ASSUME RegistryInv, Types', NEW p, NEW repos, NEW from, NEW by, Insert(p, repos, from, by),
           fold'.known = fold.known,
           \A e \in Editors : edit'[e].pc = "close" => edit'[e] = edit[e],
           \A f \in Editors : edit[f].pc = "add" =>
              edit'[f] = edit[f] \/ (edit[f].project = p /\ edit[f].from = from)
    PROVE  IdsInv' /\ ReadsInv' /\ CoverInv'
<1>1. /\ KeepsIdentity /\ DOMAIN boundaries \subseteq DOMAIN boundaries'
      /\ \A i \in DOMAIN boundaries : boundaries'[i] = boundaries[i]
      /\ \E i \in DOMAIN boundaries' : boundaries'[i].project = p /\ boundaries'[i].from = from
                                        /\ boundaries'[i].to = Forever
  BY InsertKeepsIdentity DEF RegistryInv
<1>2. \A i \in DOMAIN boundaries :
         /\ i \in DOMAIN boundaries'
         /\ \A d \in Days : IsEffectiveAt(boundaries[i], d) => IsEffectiveAt(boundaries'[i], d)
  BY <1>1
<1>3. \A f \in Editors : edit[f].pc = "add" =>
         \/ edit'[f] = edit[f]
         \/ \E j \in DOMAIN boundaries' :
               boundaries'[j].project = edit[f].project /\ boundaries'[j].from = edit[f].from
                  /\ boundaries'[j].to = Forever
  BY <1>1
<1>4. QED BY <1>1, <1>2, <1>3, GivingStep

LEMMA RefreshStep ==
    ASSUME RegistryInv, Types', FoldBoundary
    PROVE  IdsInv' /\ ReadsInv' /\ CoverInv'
<1>1. fold'.known = fold.known /\ UNCHANGED edit
  BY DEF FoldBoundary, RegistryInv, Types, Fold0
<1>2. CASE \E p, repos, from : Insert(p, repos, from, Portal)
  BY <1>1, <1>2, InsertStep
<1>3. ASSUME NEW u \in Version, NEW v \in Version, Genuine(u), v.id = u.id, v.project = u.project, v.from = u.from,
             v.to = Forever, boundaries' = Update(v), issued' = issued
      PROVE  IdsInv' /\ ReadsInv' /\ CoverInv'
  <2>1. /\ KeepsIdentity /\ DOMAIN boundaries' = DOMAIN boundaries
        /\ \A i \in DOMAIN boundaries : boundaries'[i] = IF boundaries[i].id = v.id THEN v ELSE boundaries[i]
    BY <1>3, UpdateKeepsIdentity DEF RegistryInv
  <2>2. \A i \in DOMAIN boundaries :
           /\ i \in DOMAIN boundaries'
           /\ \A d \in Days : IsEffectiveAt(boundaries[i], d) => IsEffectiveAt(boundaries'[i], d)
    <3> SUFFICES ASSUME NEW i \in DOMAIN boundaries, NEW d \in Days, IsEffectiveAt(boundaries[i], d)
                 PROVE  IsEffectiveAt(boundaries'[i], d)
      BY <2>1
    <3>1. d <= Forever
      BY DaysAssumption
    <3>2. QED BY <1>3, <2>1, <3>1 DEF Genuine, IsEffectiveAt
  <2>3. QED BY <1>1, <2>1, <2>2, GivingStep
<1>4. QED BY <1>2, <1>3, FoldBoundaryWrites DEF RegistryInv

LEMMA RegistryStep ==
    ASSUME RegistryInv, [Next]_vars
    PROVE  RegistryInv'
<1>1. Types' /\ StagesInv'
  BY TypesNext DEF RegistryInv
<1> SUFFICES IdsInv' /\ ReadsInv' /\ CoverInv'
  BY <1>1 DEF RegistryInv
<1>2. CASE UNCHANGED vars
  BY <1>1, <1>2, QuietStep DEF vars, db
<1>3. ASSUME NEW r \in Readers, Arrive(r) \/ Acquire(r) \/ Recheck(r) PROVE IdsInv' /\ ReadsInv' /\ CoverInv'
  <2>1. UNCHANGED <<boundaries, edit, issued, fold>>
    BY <1>3 DEF Arrive, Acquire, Recheck, db
  <2>2. QED BY <1>1, <2>1, QuietStep
<1>4. ASSUME NEW c \in Discoverers, (c \in Operators /\ Discover(c)) \/ ListOrgs(c) \/ ListingFails(c) \/ Work(c)
      PROVE  IdsInv' /\ ReadsInv' /\ CoverInv'
  <2>1. CASE AddVersion(c)
    <3>1. /\ Insert(SlugOf[work[c].org], work[c].listed[work[c].org], StartOfNewVersion, c)
          /\ UNCHANGED <<edit, fold>>
      BY <2>1 DEF AddVersion
    <3>2. QED BY <1>1, <3>1, InsertStep
  <2>2. CASE ~AddVersion(c)
    <3>1. UNCHANGED <<boundaries, edit, fold>> /\ issued' \in {issued, issued + 1}
      BY <1>4, <2>2 DEF Discover, ListOrgs, ListingFails, Work, SkipOrg, LookUp, Register, InsertProject, Compare,
                        Finish, db
    <3>2. QED BY <1>1, <3>1, QuietStep
  <2>3. QED BY <2>1, <2>2
<1>5. ASSUME NEW e \in Editors, RequestEdit(e) \/ Editing(e) PROVE IdsInv' /\ ReadsInv' /\ CoverInv'
  <2>1. CASE AddEdited(e)
    <3>1. /\ Insert(edit[e].project, edit[e].repos, edit[e].from, e) /\ UNCHANGED fold
          /\ edit' = [edit EXCEPT ![e] = [edit[e] EXCEPT !.pc = "done"]]
      BY <2>1, Zenon DEF AddEdited
    <3>2. edit[e] \in Edit0 /\ edit \in [Editors -> Edit0]
      BY DEF RegistryInv, Types
    <3>3. edit'[e].pc = "done" /\ \A f \in Editors \ {e} : edit'[f] = edit[f]
      BY <3>1, <3>2 DEF Edit0
    <3>4. QED BY <1>1, <3>1, <3>3, InsertStep
  <2>2. QED BY <1>1, <1>5, <2>1, RequestStep, CloseStep DEF Editing
<1>6. CASE FoldStart \/ Folding
  <2>1. CASE FoldBoundary
    BY <1>1, <2>1, RefreshStep
  <2>2. CASE ~FoldBoundary
    <3>1. UNCHANGED <<boundaries, edit>> /\ issued' \in {issued, issued + 1}
      BY <1>6, <2>2 DEF FoldStart, Folding, FoldRead, FoldProject, InsertProject, FoldDone, db
    <3>2. fold'.known \in {fold.known, boundaries, <<>>}
      <4>1. fold \in Fold0 /\ NoFold.known = <<>> /\ NoFold \in Fold0
        BY NothingInHand DEF RegistryInv, Types, NoFold
      <4>2. CASE FoldStart
        BY <4>1, <4>2 DEF FoldStart, Fold0
      <4>3. CASE FoldRead
        BY <4>1, <4>3 DEF FoldRead, Fold0
      <4>4. CASE FoldProject
        <5>1. PICK row : fold' = [fold EXCEPT !.pc = "boundary", !.row = {row}, !.todo = @ \ {row}]
          BY <4>4, Zenon DEF FoldProject
        <5>2. QED BY <4>1, <5>1 DEF Fold0
      <4>5. CASE FoldDone
        BY <4>1, <4>5 DEF FoldDone
      <4>6. QED BY <1>6, <2>2, <4>2, <4>3, <4>4, <4>5 DEF Folding
    <3>3. QED BY <1>1, <3>1, <3>2, QuietStep
  <2>3. QED BY <2>1, <2>2
<1>7. CASE MishapOrWorld
  <2>1. CASE WipeTable \/ Restart
    BY <1>1, <2>1, EmptyingStep
  <2>2. CASE ~(WipeTable \/ Restart)
    <3>1. UNCHANGED <<boundaries, edit, issued, fold>>
      BY <1>7, <2>2 DEF MishapOrWorld, StartReset, Wiping, ResetGate, CooldownExpires, GiteaChanges, db
    <3>2. QED BY <1>1, <3>1, QuietStep
  <2>3. QED BY <2>1, <2>2
<1>8. CASE Next
  BY <1>3, <1>4, <1>5, <1>6, <1>7, <1>8, StepsAre
<1>9. QED BY <1>2, <1>8

LEMMA RegistryInvariant == Spec => []RegistryInv
<1>1. Init => RegistryInv
  <2>1. Init => IdsInv /\ ReadsInv /\ CoverInv
    BY DEF Init, IdsInv, ReadsInv, CoverInv, NoEdit, NoFold
  <2>2. QED BY <2>1, TypesInit DEF RegistryInv
<1>2. RegistryInv /\ [Next]_vars => RegistryInv'
  BY RegistryStep
<1>3. QED BY <1>1, <1>2, PTL DEF Spec

Effective(p, d) == {i \in Of(p) : IsEffectiveAt(boundaries[i], d)}

\* With the newest the same, with the same repositories, the same are in force.
LEMMA SameInForce ==
    ASSUME NEW p, NEW d, \A i : i \in BoundaryAt(p, d)' <=> i \in BoundaryAt(p, d),
           \A i \in BoundaryAt(p, d) : boundaries'[i].repos = boundaries[i].repos
    PROVE  InForce(p, d)' = InForce(p, d)
<1>1. BoundaryAt(p, d)' = BoundaryAt(p, d)
  OBVIOUS
<1>2. QED BY <1>1 DEF InForce

\* So they are with the same versions effective, from the same days.
LEMMA SameEffective ==
    ASSUME NEW p, NEW d, Effective(p, d)' = Effective(p, d),
           \A i \in Effective(p, d) :
              boundaries'[i].from = boundaries[i].from /\ boundaries'[i].repos = boundaries[i].repos
    PROVE  InForce(p, d)' = InForce(p, d)
<1>1. BoundaryAt(p, d) = Newest(Effective(p, d)) /\ BoundaryAt(p, d) \subseteq Effective(p, d)
  BY DEF BoundaryAt, Effective, Newest
<1>2. BoundaryAt(p, d)' =
        {i \in Effective(p, d)' : \A j \in Effective(p, d)' :
            \/ boundaries'[j].from < boundaries'[i].from
            \/ boundaries'[j].from = boundaries'[i].from /\ i <= j}
  BY DEF BoundaryAt, Effective, Newest
<1>3. BoundaryAt(p, d) =
        {i \in Effective(p, d) : \A j \in Effective(p, d) :
            \/ boundaries[j].from < boundaries[i].from
            \/ boundaries[j].from = boundaries[i].from /\ i <= j}
  BY DEF BoundaryAt, Effective, Newest
<1>4. \A i : i \in BoundaryAt(p, d)' <=> i \in BoundaryAt(p, d)
  BY <1>2, <1>3
<1>5. QED BY <1>1, <1>4, SameInForce

\* What an edit adds is in force from its own day on only.
LEMMA AddingKeepsThePast ==
    ASSUME RegistryInv, NEW e \in Editors, AddEdited(e), NEW d \in Days, d < edit[e].from
    PROVE  InForce(edit[e].project, d)' = InForce(edit[e].project, d)
<1>p. PICK p : p = edit[e].project
  OBVIOUS
<1>1. edit[e] \in Edit0 /\ edit'[e].project = p
  <2>1. edit[e] \in Edit0 /\ edit \in [Editors -> Edit0]
    BY DEF RegistryInv, Types
  <2>2. edit' = [edit EXCEPT ![e] = [edit[e] EXCEPT !.pc = "done"]]
    BY Zenon DEF AddEdited
  <2>3. QED BY <1>p, <2>1, <2>2 DEF Edit0
<1>2. Insert(p, edit[e].repos, edit[e].from, e)
  BY <1>p DEF AddEdited
<1>3. /\ DOMAIN boundaries \subseteq DOMAIN boundaries'
      /\ \A i \in DOMAIN boundaries : boundaries'[i] = boundaries[i]
      /\ \A i \in DOMAIN boundaries' \ DOMAIN boundaries : boundaries'[i].from = edit[e].from
  BY <1>2, InsertKeepsIdentity DEF RegistryInv
<1>4. edit[e].from \in Nat /\ d \in Nat
  BY <1>1, DaysAssumption DEF Edit0
<1>5. Effective(p, d)' = Effective(p, d) /\ Effective(p, d) \subseteq DOMAIN boundaries
  BY <1>3, <1>4 DEF Effective, Of, IsEffectiveAt
<1>6. InForce(p, d)' = InForce(p, d)
  BY <1>3, <1>5, SameEffective
<1>7. QED BY <1>p, <1>1, <1>6

\* Closing the version it read takes days from the edit's own on only; the days
\* it gives back to a version closed before are covered, or about to be.
LEMMA ClosingKeepsThePast ==
    ASSUME RegistryInv, NEW e \in Editors, CloseOld(e), ~CatalogCameBetween(e),
           NEW d \in Days, d < edit[e].from, ~AnotherIsHalfWay(e, d)
    PROVE  InForce(edit[e].project, d)' = InForce(edit[e].project, d)
<1>p. PICK p : p = edit[e].project
  OBVIOUS
<1>1. PICK v, w \in Version :
         /\ v \in edit[e].old /\ boundaries' = Update(w)
         /\ w.id = v.id /\ w.project = v.project /\ w.from = v.from /\ w.repos = v.repos /\ w.to = edit[e].from
         /\ Genuine(v) /\ v.project = p /\ v.from < edit[e].from /\ edit[e].from \in Days
  BY <1>p, CloseWrites
<1>2. edit'[e].project = p /\ edit[e].pc = "close" /\ issued' = issued
  <2>1. edit[e] \in Edit0 /\ edit \in [Editors -> Edit0]
    BY DEF RegistryInv, Types
  <2>2. edit' = [edit EXCEPT ![e] = [edit[e] EXCEPT !.pc = "add"]] /\ edit[e].pc = "close" /\ issued' = issued
    BY Zenon DEF CloseOld
  <2>3. QED BY <1>p, <2>1, <2>2 DEF Edit0
<1>3. /\ DOMAIN boundaries' = DOMAIN boundaries
      /\ \A i \in DOMAIN boundaries : boundaries'[i] = IF boundaries[i].id = w.id THEN w ELSE boundaries[i]
  BY <1>1, <1>2, UpdateKeepsIdentity DEF RegistryInv
<1>4. d \in Nat /\ edit[e].from \in Nat /\ d <= w.to
  BY <1>1, DaysAssumption
<1>5. \A i \in DOMAIN boundaries :
         /\ boundaries'[i].project = boundaries[i].project /\ boundaries'[i].from = boundaries[i].from
         /\ boundaries'[i].repos = boundaries[i].repos
  BY <1>1, <1>3 DEF Genuine, CatalogCameBetween
<1>6. \A i \in DOMAIN boundaries : boundaries[i].id # w.id => boundaries'[i] = boundaries[i]
  BY <1>3
<1>7. \A i \in DOMAIN boundaries : boundaries[i].id = w.id =>
         (IsEffectiveAt(boundaries'[i], d) <=> boundaries[i].from <= d)
  BY <1>1, <1>3, <1>4, <1>5 DEF IsEffectiveAt
<1>8. CASE \A i \in DOMAIN boundaries :
              boundaries[i].id = w.id /\ boundaries[i].from <= d => IsEffectiveAt(boundaries[i], d)
  <2>1. Effective(p, d)' = Effective(p, d) /\ Effective(p, d) \subseteq DOMAIN boundaries
    <3>1. \A i \in DOMAIN boundaries : IsEffectiveAt(boundaries'[i], d) <=> IsEffectiveAt(boundaries[i], d)
      BY <1>6, <1>7, <1>8 DEF IsEffectiveAt
    <3>2. Effective(p, d)' = {i \in DOMAIN boundaries' : boundaries'[i].project = p /\ IsEffectiveAt(boundaries'[i], d)}
      BY DEF Effective, Of, IsEffectiveAt
    <3>3. Effective(p, d) = {i \in DOMAIN boundaries : boundaries[i].project = p /\ IsEffectiveAt(boundaries[i], d)}
      BY DEF Effective, Of
    <3>4. QED BY <1>3, <1>5, <3>1, <3>2, <3>3
  <2>2. InForce(p, d)' = InForce(p, d)
    BY <1>5, <2>1, SameEffective
  <2>3. QED BY <1>p, <1>2, <2>2
\* A version closed before comes back to d; a later one is in force that day.
<1>9. ASSUME NEW k \in DOMAIN boundaries, boundaries[k].id = w.id, boundaries[k].from <= d,
             ~IsEffectiveAt(boundaries[k], d)
      PROVE  InForce(edit[e].project, d)' = InForce(edit[e].project, d)
  <2>1. boundaries[k].project = p /\ boundaries[k].from = v.from
    BY <1>1, <1>9 DEF Genuine
  <2>2. \A f \in Editors \ {e} :
           ~(edit[f].pc = "add" /\ edit[f].old # {} /\ edit[f].project = v.project
               /\ v.from < edit[f].from /\ edit[f].from <= d)
    BY <1>p, <1>1 DEF AnotherIsHalfWay
  <2>3. Covered(e, v, k, d)
    BY <1>1, <1>2, <1>9, <2>1 DEF RegistryInv, CoverInv
  <2>4. PICK j \in DOMAIN boundaries :
           boundaries[j].project = p /\ boundaries[k].from < boundaries[j].from /\ IsEffectiveAt(boundaries[j], d)
    BY <1>1, <1>9, <2>1, <2>2, <2>3 DEF Covered
  <2>5. \A i \in DOMAIN boundaries : boundaries[i].id = w.id <=> i = k
    BY <1>9 DEF RegistryInv, IdsInv
  <2>6. \A i \in DOMAIN boundaries : boundaries[i].from \in Nat
    <3>1. \A i \in DOMAIN boundaries : boundaries[i] \in Version
      BY DEF RegistryInv, Types
    <3>2. QED BY <3>1, DaysAssumption DEF Version
  <2>7. Effective(p, d)' = Effective(p, d) \cup {k} /\ k \notin Effective(p, d) /\ j \in Effective(p, d)
        /\ Effective(p, d) \subseteq DOMAIN boundaries
    <3>1. \A i \in DOMAIN boundaries : IsEffectiveAt(boundaries'[i], d) <=> IsEffectiveAt(boundaries[i], d) \/ i = k
      BY <1>6, <1>7, <1>9, <2>5
    <3>2. Effective(p, d)' = {i \in DOMAIN boundaries' : boundaries'[i].project = p /\ IsEffectiveAt(boundaries'[i], d)}
      BY DEF Effective, Of, IsEffectiveAt
    <3>3. Effective(p, d) = {i \in DOMAIN boundaries : boundaries[i].project = p /\ IsEffectiveAt(boundaries[i], d)}
      BY DEF Effective, Of
    <3>4. QED BY <1>3, <1>5, <1>9, <2>1, <2>4, <3>1, <3>2, <3>3
  <2>8. \A i : i \in BoundaryAt(p, d)' <=> i \in BoundaryAt(p, d)
    <3>1. BoundaryAt(p, d)' =
            {i \in Effective(p, d)' : \A m \in Effective(p, d)' :
                \/ boundaries'[m].from < boundaries'[i].from
                \/ boundaries'[m].from = boundaries'[i].from /\ i <= m}
      BY DEF BoundaryAt, Effective, Newest
    <3>2. BoundaryAt(p, d) =
            {i \in Effective(p, d) : \A m \in Effective(p, d) :
                \/ boundaries[m].from < boundaries[i].from
                \/ boundaries[m].from = boundaries[i].from /\ i <= m}
      BY DEF BoundaryAt, Effective, Newest
    <3>3. ASSUME NEW i \in BoundaryAt(p, d) PROVE i \in BoundaryAt(p, d)'
      <4>1. i \in Effective(p, d) /\ \A m \in Effective(p, d) :
                \/ boundaries[m].from < boundaries[i].from
                \/ boundaries[m].from = boundaries[i].from /\ i <= m
        BY <3>2, <3>3
      <4>2. boundaries[k].from < boundaries[i].from
        BY <2>4, <2>6, <2>7, <4>1
      <4>3. QED BY <1>5, <2>7, <3>1, <4>1, <4>2
    <3>4. ASSUME NEW i \in BoundaryAt(p, d)' PROVE i \in BoundaryAt(p, d)
      <4>1. i \in Effective(p, d) \cup {k} /\ \A m \in Effective(p, d) :
                \/ boundaries[m].from < boundaries[i].from
                \/ boundaries[m].from = boundaries[i].from /\ i <= m
        BY <1>5, <1>9, <2>7, <3>1
      <4>2. i # k
        BY <2>4, <2>6, <2>7, <4>1
      <4>3. QED BY <3>2, <4>1, <4>2
    <3>5. QED BY <3>3, <3>4
  <2>9. InForce(p, d)' = InForce(p, d)
    <3>1. BoundaryAt(p, d) \subseteq DOMAIN boundaries
      BY DEF BoundaryAt, Newest, Of
    <3>2. QED BY <1>5, <2>8, <3>1, SameInForce
  <2>10. QED BY <1>p, <1>2, <2>9
<1>10. QED BY <1>8, <1>9

\* Two edits of one project, discoveries and catalog folds may interleave in any
\* way, with restarts and resets between: no write of an edit changes what was in
\* force before the day it asked for, but for the two exceptions the property names.
THEOREM EditsKeepThePastIntact == Spec => EditsKeepThePast
<1>1. RegistryInv /\ [Next]_vars =>
        [\A e \in Editors : Editing(e) /\ ~CatalogCameBetween(e) =>
          \A d \in Days : d < edit[e].from /\ ~AnotherIsHalfWay(e, d) =>
              InForce(edit[e].project, d)' = InForce(edit[e].project, d)]_vars
  BY AddingKeepsThePast, ClosingKeepsThePast DEF Editing
<1>2. QED BY <1>1, RegistryInvariant, PTL DEF Spec, EditsKeepThePast
================================================================================
