---------------------------- MODULE ProjectRegistry ----------------------------
(***************************************************************************)
(* The project registry and its boundaries, with everybody who writes      *)
(* them: the bootstrap that cold reads share behind a gate, the operator's *)
(* ungated discovery, POST /boundaries, the People Portal catalog fold,    *)
(* and the admin reset.  boundary_at is the reader they all matter to.     *)
(*                                                                         *)
(* A step is what runs between two awaits; `add' and `replace' are single  *)
(* steps here, their commits being LlmSnapshot's subject.                  *)
(***************************************************************************)
EXTENDS Naturals, Sequences, FiniteSets

CONSTANTS
    Orgs, Repos,
    Slugs, SlugOf,    \* two organisations may share a slug
    Readers,          \* user-facing reads, through the gate
    Operators,        \* POST /admin/sync/discover-projects
    Editors,          \* POST /boundaries, one request each
    Portal,           \* the catalog fold, as a writer
    NoOne,
    Days, Today,      \* day 0 is BOUNDARY_EFFECTIVE_FROM
    Forever,          \* effective_to = None
    Contents,         \* what Gitea may hold
    Exports,          \* what People Portal may have staged
    MaxDocuments,     \* bound: no new writer sets out beyond as many documents
    MaxMishaps        \* bound: crashes, redeploys and resets

Discoverers == Readers \cup Operators
Writers == Discoverers \cup Editors \cup {Portal}

ASSUME SlugAssumption == SlugOf \in [Orgs -> Slugs]
ASSUME DaysAssumption ==
    Days \subseteq Nat /\ {0, Today} \subseteq Days /\ Forever \in Nat \ Days
    /\ \A d \in Days : d < Forever
ASSUME ContentsAssumption == Contents \subseteq [Orgs -> SUBSET Repos]
ASSUME RolesAssumption ==
    /\ Readers \cap Operators = {} /\ Editors \cap Discoverers = {}
    /\ NoOne \notin Writers \cup Orgs /\ Portal \notin Discoverers \cup Editors
ASSUME BoundAssumption == MaxDocuments \in Nat /\ MaxMishaps \in Nat

VARIABLES gitea, projects, boundaries, issued, gate, pc, work, edit, fold, wipe, mishaps

db == <<projects, boundaries, issued>>
vars == <<gitea, db, gate, pc, work, edit, fold, wipe, mishaps>>

-------------------------------------------------------------------------------
(* Documents *)

\* A boundary document; `id' is its primary key.
Version == [id: Nat, project: Slugs, repos: SUBSET Repos,
            from: Days, to: Days \cup {Forever}, by: Writers]

\* A catalog row of People Portal.
CatalogRow == [project: Slugs, from: Days, repos: SUBSET Repos]

ASSUME ExportsAssumption == Exports \subseteq SUBSET CatalogRow

\* A project document: whose it is, and its primary key.
ProjectDoc == [by: {"discovery", "catalog"}, id: Nat]
NoProject == [by |-> "nobody", id |-> 0]

IsEffectiveAt(v, d) == v.from <= d /\ d <= v.to

\* max() by effective_from over rows in storage order: the first of equals.
Newest(S) ==
    {i \in S : \A j \in S : \/ boundaries[j].from < boundaries[i].from
                           \/ (boundaries[j].from = boundaries[i].from /\ i <= j)}

Of(p) == {i \in DOMAIN boundaries : boundaries[i].project = p}

\* boundary_at, as the set of at most one index.
BoundaryAt(p, d) == Newest({i \in Of(p) : IsEffectiveAt(boundaries[i], d)})

\* The repositories in force, as the set of at most one value.
InForce(p, d) == {boundaries[i].repos : i \in BoundaryAt(p, d)}

\* INSERT, and UPDATE ... WHERE id.
Insert(p, repos, from, by) ==
    /\ boundaries' = Append(boundaries,
          [id |-> issued, project |-> p, repos |-> repos, from |-> from, to |-> Forever, by |-> by])
    /\ issued' = issued + 1
Update(v) == [i \in DOMAIN boundaries |-> IF boundaries[i].id = v.id THEN v ELSE boundaries[i]]

Registered(p) == projects[p] # NoProject

\* INSERT OR REPLACE: a document filed since the look-up is replaced, and the
\* new one has another primary key.
InsertProject(p, by) ==
    /\ projects' = [projects EXCEPT ![p] = [by |-> by, id |-> issued]]
    /\ issued' = issued + 1
Cold == \A p \in Slugs : ~Registered(p)

-------------------------------------------------------------------------------
(* Control *)

InDiscovery == {"listing", "loop", "register", "compare", "map"}
Stages == {"idle", "queued", "recheck"} \cup InDiscovery

\* What a discoverer has in hand: the listing, the organisations left, the
\* slugs seen, the one it is at, and whether it created a project.
NoWork == [listed |-> [o \in Orgs |-> {}], todo |-> {}, seen |-> {}, org |-> NoOne,
           created |-> FALSE]

NoProjects == [p \in Slugs |-> NoProject]
NoEdit == [pc |-> "idle", project |-> NoOne, from |-> 0, repos |-> {}, old |-> {}]
NoFold == [pc |-> "idle", projects |-> NoProjects, known |-> <<>>, todo |-> {}, row |-> {}]

Init ==
    /\ gitea \in Contents
    /\ projects = NoProjects
    /\ boundaries = <<>>
    /\ issued = 0
    /\ gate = [holder |-> NoOne, cooling |-> FALSE]
    /\ pc = [c \in Discoverers |-> "idle"]
    /\ work = [c \in Discoverers |-> NoWork]
    /\ edit = [e \in Editors |-> NoEdit]
    /\ fold = NoFold
    /\ wipe = {}
    /\ mishaps = 0

Idle(c) == pc' = [pc EXCEPT ![c] = "idle"] /\ work' = [work EXCEPT ![c] = NoWork]

-------------------------------------------------------------------------------
(* The gate: ensure_projects_registered *)

\* The first look, without the lock; a warm registry or a cooldown ends it.
Arrive(r) ==
    /\ pc[r] = "idle"
    /\ Cold /\ ~gate.cooling
    /\ issued < MaxDocuments
    /\ pc' = [pc EXCEPT ![r] = "queued"]
    /\ UNCHANGED <<gitea, db, gate, work, edit, fold, wipe, mishaps>>

LockIsFree_Always == TRUE  \* mutant: no lock
LockIsFree == gate.holder = NoOne

Acquire(r) ==
    /\ pc[r] = "queued"
    /\ LockIsFree
    /\ gate' = [gate EXCEPT !.holder = r]
    /\ pc' = [pc EXCEPT ![r] = "recheck"]
    /\ UNCHANGED <<gitea, db, work, edit, fold, wipe, mishaps>>

\* The second look, under the lock; an attempt starts the cooldown.
StillNeeded_FirstLookOnly == TRUE  \* mutant: no second look
StillNeeded == Cold /\ ~gate.cooling

Recheck(r) ==
    /\ pc[r] = "recheck"
    /\ IF StillNeeded
       THEN /\ gate' = [gate EXCEPT !.cooling = TRUE]
            /\ pc' = [pc EXCEPT ![r] = "listing"]
            /\ UNCHANGED work
       ELSE /\ gate' = [gate EXCEPT !.holder = NoOne]
            /\ Idle(r)
    /\ UNCHANGED <<gitea, db, edit, fold, wipe, mishaps>>

CooldownExpires_WarmOnly ==  \* mutant: only a registration ends the cooldown
    /\ gate.cooling /\ ~Cold
    /\ gate' = [gate EXCEPT !.cooling = FALSE]
    /\ UNCHANGED <<gitea, db, pc, work, edit, fold, wipe, mishaps>>

CooldownExpires ==
    /\ gate.cooling
    /\ gate' = [gate EXCEPT !.cooling = FALSE]
    /\ UNCHANGED <<gitea, db, pc, work, edit, fold, wipe, mishaps>>

-------------------------------------------------------------------------------
(* discover_and_register_projects *)

\* The operator's discovery passes no gate.
Discover(o) ==
    /\ pc[o] = "idle"
    /\ issued < MaxDocuments
    /\ pc' = [pc EXCEPT ![o] = "listing"]
    /\ UNCHANGED <<gitea, db, gate, work, edit, fold, wipe, mishaps>>

ListOrgs(c) ==
    /\ pc[c] = "listing"
    /\ work' = [work EXCEPT ![c].listed = gitea, ![c].todo = Orgs]
    /\ pc' = [pc EXCEPT ![c] = "loop"]
    /\ UNCHANGED <<gitea, db, gate, edit, fold, wipe, mishaps>>

\* GiteaUnavailable: a read degrades to an empty dashboard, an operator is
\* told; either way the lock is given back and the cooldown goes on.
Released_NotOnFailure(c) == gate  \* mutant: the lock is kept on the error path
Released(c) == IF gate.holder = c THEN [gate EXCEPT !.holder = NoOne] ELSE gate

ListingFails(c) ==
    /\ pc[c] = "listing"
    /\ gate' = Released(c)
    /\ Idle(c)
    /\ UNCHANGED <<gitea, db, edit, fold, wipe, mishaps>>

\* The next organisation that has repositories and a slug not seen before.
Skipped(c, o) == work[c].listed[o] = {} \/ SlugOf[o] \in work[c].seen

SkipOrg(c) ==
    /\ pc[c] = "loop"
    /\ \E o \in work[c].todo :
          /\ Skipped(c, o)
          /\ work' = [work EXCEPT ![c].todo = @ \ {o}]
    /\ UNCHANGED <<gitea, db, gate, pc, edit, fold, wipe, mishaps>>

\* An organisation already on file goes on to its boundary.
AfterLookup_CreatedOnly(p) ==  \* mutant: boundaries only for new projects
    IF Registered(p) THEN "loop" ELSE "register"
AfterLookup(p) == IF Registered(p) THEN "compare" ELSE "register"

LookUp(c) ==
    /\ pc[c] = "loop"
    /\ \E o \in work[c].todo :
          /\ ~Skipped(c, o)
          /\ work' = [work EXCEPT ![c].todo = @ \ {o}, ![c].org = o,
                                  ![c].seen = @ \cup {SlugOf[o]}]
          /\ pc' = [pc EXCEPT ![c] = AfterLookup(SlugOf[o])]
    /\ UNCHANGED <<gitea, db, gate, edit, fold, wipe, mishaps>>

Register(c) ==
    /\ pc[c] = "register"
    /\ InsertProject(SlugOf[work[c].org], "discovery")
    /\ work' = [work EXCEPT ![c].created = TRUE]
    /\ pc' = [pc EXCEPT ![c] = "compare"]
    /\ UNCHANGED <<gitea, boundaries, gate, edit, fold, wipe, mishaps>>

\* The boundary in force today against the listing.
Compare(c) ==
    LET o == work[c].org IN
    /\ pc[c] = "compare"
    /\ pc' = [pc EXCEPT ![c] =
          IF InForce(SlugOf[o], Today) = {work[c].listed[o]} THEN "loop" ELSE "map"]
    /\ UNCHANGED <<gitea, db, gate, work, edit, fold, wipe, mishaps>>

\* The new version is backdated, and the one it supersedes is not closed.
StartOfNewVersion_Today == Today  \* mutant: the version starts when it is found
StartOfNewVersion_Open == Forever  \* mutant: start and end mixed up
StartOfNewVersion == 0

AddVersion(c) ==
    LET o == work[c].org IN
    /\ pc[c] = "map"
    /\ Insert(SlugOf[o], work[c].listed[o], StartOfNewVersion, c)
    /\ pc' = [pc EXCEPT ![c] = "loop"]
    /\ UNCHANGED <<gitea, projects, gate, work, edit, fold, wipe, mishaps>>

\* A bootstrap that created something forgets the attempt; so does the
\* operator, whatever it found.
Finish(c) ==
    /\ pc[c] = "loop" /\ work[c].todo = {}
    /\ gate' = IF work[c].created \/ c \in Operators
               THEN [Released(c) EXCEPT !.cooling = FALSE] ELSE Released(c)
    /\ Idle(c)
    /\ UNCHANGED <<gitea, db, edit, fold, wipe, mishaps>>

-------------------------------------------------------------------------------
(* POST /boundaries: read the newest version, close it, add the next *)

\* 404 without a project, 409 unless the version advances.
Accepts(p, from) ==
    Registered(p) /\ \A i \in Newest(Of(p)) : boundaries[i].from < from

RequestEdit(e) ==
    /\ edit[e].pc = "idle"
    /\ issued < MaxDocuments
    /\ \E p \in Slugs, from \in Days, repos \in SUBSET Repos :
          LET open == {i \in Newest(Of(p)) : boundaries[i].to = Forever} IN
          /\ Accepts(p, from)
          /\ edit' = [edit EXCEPT ![e] =
                [pc |-> IF open = {} THEN "add" ELSE "close",
                 project |-> p, from |-> from, repos |-> repos,
                 old |-> {boundaries[i] : i \in open}]]
    /\ UNCHANGED <<gitea, db, gate, pc, work, fold, wipe, mishaps>>

\* The whole document is written back, as it was read.
Closed_InPlace(e, v) == [v EXCEPT !.repos = edit[e].repos]  \* mutant: overwritten
Closed(e, v) == [v EXCEPT !.to = edit[e].from]

CloseOld(e) ==
    /\ edit[e].pc = "close"
    /\ \E v \in edit[e].old : boundaries' = Update(Closed(e, v))
    /\ edit' = [edit EXCEPT ![e].pc = "add"]
    /\ UNCHANGED <<gitea, projects, issued, gate, pc, work, fold, wipe, mishaps>>

AddEdited(e) ==
    /\ edit[e].pc = "add"
    /\ Insert(edit[e].project, edit[e].repos, edit[e].from, e)
    /\ edit' = [edit EXCEPT ![e].pc = "done"]
    /\ UNCHANGED <<gitea, projects, gate, pc, work, fold, wipe, mishaps>>

-------------------------------------------------------------------------------
(* fold_people_portal_catalog *)

FoldStart ==
    /\ fold.pc = "idle"
    /\ issued < MaxDocuments
    /\ \E export \in Exports :
          fold' = [NoFold EXCEPT !.pc = "read", !.todo = export,
                                 !.projects = projects]
    /\ UNCHANGED <<gitea, db, gate, pc, work, edit, wipe, mishaps>>

FoldRead ==
    /\ fold.pc = "read"
    /\ fold' = [fold EXCEPT !.pc = "project", !.known = boundaries]
    /\ UNCHANGED <<gitea, db, gate, pc, work, edit, wipe, mishaps>>

\* A known project is refreshed, which does nothing if that document is gone
\* or replaced by now; an unknown one is inserted or replaced.
FoldProject ==
    /\ fold.pc = "project"
    /\ \E row \in fold.todo :
          LET p == row.project
              known == fold.projects[p]
          IN
          /\ fold' = [fold EXCEPT !.pc = "boundary", !.row = {row}, !.todo = @ \ {row}]
          /\ IF known = NoProject
             THEN InsertProject(p, "catalog")
             ELSE /\ projects' = IF Registered(p) /\ projects[p].id = known.id
                                 THEN [projects EXCEPT ![p].by = "catalog"] ELSE projects
                  /\ UNCHANGED issued
    /\ UNCHANGED <<gitea, boundaries, gate, pc, work, edit, wipe, mishaps>>

\* The version known under the row's date is refreshed in place, else added.
FoldBoundary ==
    LET row == CHOOSE r \in fold.row : TRUE
        same == {i \in DOMAIN fold.known :
                    fold.known[i].project = row.project /\ fold.known[i].from = row.from}
    IN
    /\ fold.pc = "boundary"
    /\ IF same = {}
       THEN Insert(row.project, row.repos, row.from, Portal)
       ELSE LET last == CHOOSE i \in same : \A j \in same : j <= i IN
            /\ boundaries' = Update([fold.known[last] EXCEPT
                                 !.repos = row.repos, !.to = Forever, !.by = Portal])
            /\ UNCHANGED issued
    /\ fold' = [fold EXCEPT !.pc = "project", !.row = {}]
    /\ UNCHANGED <<gitea, projects, gate, pc, work, edit, wipe, mishaps>>

FoldDone ==
    /\ fold.pc = "project" /\ fold.todo = {}
    /\ fold' = NoFold
    /\ UNCHANGED <<gitea, db, gate, pc, work, edit, wipe, mishaps>>

-------------------------------------------------------------------------------
(* Mishaps and the world *)

\* POST /admin/sync/reset: the tables in any order, then the gate.
StartReset ==
    /\ wipe = {} /\ mishaps < MaxMishaps
    /\ wipe' = {"projects", "boundaries"}
    /\ mishaps' = mishaps + 1
    /\ UNCHANGED <<gitea, db, gate, pc, work, edit, fold>>

WipeTable ==
    /\ \E t \in wipe \ {"gate"} :
          /\ wipe' = IF wipe = {t} THEN {"gate"} ELSE wipe \ {t}
          /\ projects' = IF t = "projects" THEN NoProjects ELSE projects
          /\ boundaries' = IF t = "boundaries" THEN <<>> ELSE boundaries
    /\ UNCHANGED <<gitea, issued, gate, pc, work, edit, fold, mishaps>>

ResetGate ==
    /\ wipe = {"gate"}
    /\ wipe' = {}
    /\ gate' = [gate EXCEPT !.cooling = FALSE]
    /\ UNCHANGED <<gitea, db, pc, work, edit, fold, mishaps>>

\* The process restarts; on a host without a persistent disk, with an empty
\* database.  An edit cut off between its two writes is remembered as such.
Restart ==
    /\ mishaps < MaxMishaps
    /\ mishaps' = mishaps + 1
    /\ gate' = [holder |-> NoOne, cooling |-> FALSE]
    /\ pc' = [c \in Discoverers |-> "idle"]
    /\ work' = [c \in Discoverers |-> NoWork]
    /\ fold' = NoFold
    /\ wipe' = {}
    /\ \/ /\ edit' = [e \in Editors |->
                CASE edit[e].pc = "add" /\ edit[e].old # {} -> [edit[e] EXCEPT !.pc = "cut"]
                  [] edit[e].pc = "close" \/ (edit[e].pc = "add" /\ edit[e].old = {}) -> [edit[e] EXCEPT !.pc = "done"]
                  [] OTHER -> edit[e]]
          /\ UNCHANGED db
       \/ /\ edit' = [e \in Editors |-> [edit[e] EXCEPT !.pc = "done"]]
          /\ projects' = NoProjects /\ boundaries' = <<>>
          /\ UNCHANGED issued
    /\ UNCHANGED gitea

\* Teams create repositories and organisations.
GiteaChanges ==
    /\ gitea' \in Contents \ {gitea}
    /\ UNCHANGED <<db, gate, pc, work, edit, fold, wipe, mishaps>>

-------------------------------------------------------------------------------

\* What a discoverer does by itself once Gitea has answered or failed to.
Work(c) ==
    SkipOrg(c) \/ LookUp(c) \/ Register(c) \/ Compare(c) \/ AddVersion(c) \/ Finish(c)

Gate(r) == Acquire(r) \/ Recheck(r)
Editing(e) == CloseOld(e) \/ AddEdited(e)
Folding == FoldRead \/ FoldProject \/ FoldBoundary \/ FoldDone
Wiping == WipeTable \/ ResetGate

Next ==
    \/ \E r \in Readers : Arrive(r) \/ Gate(r)
    \/ \E o \in Operators : Discover(o)
    \/ \E c \in Discoverers : ListOrgs(c) \/ ListingFails(c) \/ Work(c)
    \/ \E e \in Editors : RequestEdit(e) \/ Editing(e)
    \/ FoldStart \/ Folding
    \/ StartReset \/ Wiping \/ Restart
    \/ CooldownExpires \/ GiteaChanges

Spec == Init /\ [][Next]_vars

\* The event loop runs ready coroutines, asyncio.Lock is first come first
\* served, the HTTP client times out, and 300 seconds pass.
FairSpec ==
    /\ Spec
    /\ \A c \in Discoverers : WF_vars(Work(c)) /\ WF_vars(ListOrgs(c) \/ ListingFails(c))
    /\ \A r \in Readers : SF_vars(Acquire(r)) /\ WF_vars(Recheck(r))
    /\ WF_vars(Wiping) /\ WF_vars(CooldownExpires)

-------------------------------------------------------------------------------
(* Properties *)

TypeOK ==
    /\ gitea \in Contents
    /\ projects \in [Slugs -> ProjectDoc \cup {NoProject}]
    /\ boundaries \in Seq(Version)
    /\ issued \in Nat
    /\ gate \in [holder: Readers \cup {NoOne}, cooling: BOOLEAN]
    /\ pc \in [Discoverers -> Stages]
    /\ work \in [Discoverers -> [listed: [Orgs -> SUBSET Repos], todo: SUBSET Orgs,
                 seen: SUBSET Slugs, org: Orgs \cup {NoOne}, created: BOOLEAN]]
    /\ edit \in [Editors -> [pc: {"idle", "close", "add", "done", "cut"},
                 project: Slugs \cup {NoOne}, from: Days, repos: SUBSET Repos,
                 old: SUBSET Version]]
    /\ fold \in [pc: {"idle", "read", "project", "boundary"}, projects: [Slugs -> ProjectDoc \cup {NoProject}],
                 known: Seq(Version), todo: SUBSET CatalogRow, row: SUBSET CatalogRow]
    /\ wipe \in SUBSET {"projects", "boundaries", "gate"}
    /\ mishaps \in 0..MaxMishaps

\* However many cold reads arrive at once, and whatever resets and restarts
\* come between, as long as Gitea stays the same they register a project's
\* boundary once ("race to insert the same rows" is what the gate is against).
ColdReadsRegisterOnce ==
    \A i, j \in DOMAIN boundaries :
        /\ boundaries[i].by \in Readers /\ boundaries[j].by \in Readers
        /\ boundaries[i].project = boundaries[j].project
        => i = j

\* Every read gets through the gate, whether it discovers, waits for another
\* read's discovery, or Gitea fails.
EveryReadIsServed == \A r \in Readers : pc[r] # "idle" ~> pc[r] = "idle"

Unmapped(p) == projects[p].by = "discovery" /\ BoundaryAt(p, Today) = {}

ReadsKeepComing == \A r \in Readers : WF_vars(Arrive(r))
OperatorsReturn == \A o \in Operators : WF_vars(Discover(o))
GiteaAnswers == \A c \in Discoverers : SF_vars(ListOrgs(c))

\* An empty registry heals by itself as long as reads keep coming and Gitea
\* answers now and then: neither the cooldown nor a failed attempt locks the
\* bootstrap out for good.
AnEmptyRegistryHeals == ReadsKeepComing /\ GiteaAnswers => (Cold ~> ~Cold)

\* A project that lost its boundary (a restart between the two writes, a reset
\* racing a discovery) gets one from the next operator discovery, although the
\* project itself is already on file.
RediscoveryRepairs ==
    OperatorsReturn /\ GiteaAnswers =>
        \A p \in Slugs : Unmapped(p) ~> ~Unmapped(p)

\* A boundary is re-versioned by a discovery only when the repositories
\* differ from the version the previous discovery wrote ("a boundary is only
\* re-versioned when its repo set actually changed since the last run").
OnlyChangesAreVersioned ==
    [][\A c \in Operators, p \in Slugs :
          LET mine == {i \in Of(p) : boundaries[i].by \in Discoverers} IN
          AddVersion(c) /\ SlugOf[work[c].org] = p /\ mine # {} =>
              boundaries[CHOOSE i \in mine : \A j \in mine : j <= i].repos
                  # work[c].listed[work[c].org]]_vars

\* The version an edit read was refreshed by the catalog before the edit wrote
\* it back: that refresh is lost, in the code as here.
CatalogCameBetween(e) ==
    \E v \in edit[e].old, i \in DOMAIN boundaries :
        boundaries[i].id = v.id /\ boundaries[i].repos # v.repos

\* Another edit of the project has closed the version it read and has yet to add
\* its own, which would be in force from then on.
AnotherIsHalfWay(e, d) ==
    \E f \in Editors \ {e} :
        edit[f].pc = "add" /\ edit[f].old # {} /\ edit[f].project = edit[e].project /\ edit[f].from <= d

\* POST /boundaries leaves the past alone: unless the catalog came between,
\* none of its writes changes which repositories are in force on a day before
\* the day asked for, even when two edits of one project interleave ("boundary
\* changes are versioned, not overwritten"); but a stale close may cover, for as
\* long as it lasts, the gap another edit leaves between its two writes.
EditsKeepThePast ==
    [][\A e \in Editors : Editing(e) /\ ~CatalogCameBetween(e) =>
          \A d \in Days : d < edit[e].from /\ ~AnotherIsHalfWay(e, d) =>
              InForce(edit[e].project, d)' = InForce(edit[e].project, d)]_vars

\* Discovery never displaces a mapping somebody made: on a day on which an
\* edited or exported version is in force, the version a discovery adds changes
\* nothing, however stale the comparison it acts on.
DiscoveryYieldsToMappings ==
    [][\A c \in Discoverers : AddVersion(c) =>
          \A p \in Slugs, d \in Days :
              (\E i \in BoundaryAt(p, d) : boundaries[i].by \notin Discoverers) =>
                  InForce(p, d)' = InForce(p, d)]_vars
===============================================================================
