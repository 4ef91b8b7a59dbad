-------------------------------- MODULE Dashboard --------------------------------
(***************************************************************************)
(* The browser's state and the requests it has under way.  The reader      *)
(* moves between views and dates faster than the server answers; each view *)
(* asks for what it lacks, one request a project, and an answer may come   *)
(* when its reader is elsewhere.                                           *)
(*                                                                         *)
(* The state object is split in two: `progress' is what state.progress*    *)
(* holds, the lazy* variables are what fills the live tables.  A request   *)
(* carries the run that made it.                                           *)
(***************************************************************************)
EXTENDS Integers, Sequences, SequencesExt

CONSTANTS
    Shown,                \* the projects in the reader's scope
    LazyRows,             \* those of them the database may have nothing on
    Dates,                \* dates that may be picked
    FanOut,               \* PROGRESS_FAN_OUT_CONCURRENCY
    MaxProgressRuns, MaxClicks    \* bounds

NoDate == 0
ASSUME DashboardAssumption ==
    /\ Dates \subseteq Nat \ {NoDate} /\ {FanOut, MaxProgressRuns} \subseteq Nat \ {0}
    /\ LazyRows \subseteq Shown /\ {"all", "none"} \cap Shown = {}    \* these name a scope

VARIABLES
    snapshot,             \* GET /snapshots/latest: "loading", "ready" or "error"
    boot,                 \* the first load of the page: "going", "done" or "failed"
    screen,               \* the route shown: [view, project, asOf]
    progress,             \* [date, run, scope, loading, failed, loaded, result]
    fanOut,               \* run -> the projects its workers have not taken yet
    inFlight,             \* progress requests not answered yet
    lazyMissing, lazyComputing, lazyErrors,
    lazyPosts             \* project -> [open, sent, clicks], counted for the properties

dashboardVars ==
    <<snapshot, boot, screen, progress, fanOut, inFlight, lazyMissing, lazyComputing, lazyErrors, lazyPosts>>
lazyVars == <<lazyMissing, lazyComputing, lazyErrors, lazyPosts>>

Routes ==
    [view : {"overview"}, project : {""}, asOf : {NoDate}]
      \cup [view : {"projects"}, project : {""}, asOf : Dates \cup {NoDate}]
      \cup [view : {"progress"}, project : Shown, asOf : Dates]

With(f, key, value) == [x \in DOMAIN f \cup {key} |-> IF x = key THEN value ELSE f[x]]

Pending == [state |-> "pending", of |-> NoDate]
Failed == [state |-> "error", of |-> NoDate]
Done(date) == [state |-> "done", of |-> date]

ListRequest(p) == [kind |-> "list", run |-> p.run, date |-> p.date, project |-> p.scope, worker |-> FALSE]
PostRequest(run, date, project, worker) ==
    [kind |-> "post", run |-> run, date |-> date, project |-> project, worker |-> worker]

-------------------------------------------------------------------------------
(* The router *)

\* Nothing changes when the date stays; a new date orphans what is in flight.
SetProgressDate(p, date) ==
    IF p.date = date THEN p
    ELSE [p EXCEPT !.run = @ + 1, !.date = date, !.scope = "none", !.result = <<>>, !.loaded = NoDate,
                   !.failed = FALSE, !.loading = date # NoDate]

LoadProgressAt(p) ==
    [p EXCEPT !.run = @ + 1, !.scope = "all", !.result = <<>>, !.loading = TRUE, !.failed = FALSE]

LoadProgressForProject(p, project) ==
    [p EXCEPT !.run = @ + 1, !.scope = project, !.result = [q \in {project} |-> Pending], !.loading = FALSE, !.failed = FALSE]

\* startRouteLoads: the runs the route needs, none when its data is in memory.
RouteLoads(p, route) ==
    CASE route.view = "projects" /\ p.date # NoDate /\ p.loaded # p.date -> {LoadProgressAt(p)}
      [] route.view = "progress" /\ ~(route.project \in DOMAIN p.result /\ p.result[route.project].state = "done")
           -> {LoadProgressForProject(p, route.project)}
      [] OTHER -> {}

Begin(runs, otherwise) ==
    /\ progress' = IF runs = {} THEN otherwise ELSE CHOOSE p \in runs : TRUE
    /\ progress'.run <= MaxProgressRuns
    /\ inFlight' = inFlight \cup {ListRequest(p) : p \in runs}

Goto(route) ==
    LET p == IF route.view = "overview" THEN progress ELSE SetProgressDate(progress, route.asOf)
    IN  /\ screen' = route
        /\ Begin(IF snapshot = "ready" THEN RouteLoads(p, route) ELSE {}, p)
        /\ UNCHANGED <<snapshot, boot, fanOut, lazyVars>>

-------------------------------------------------------------------------------
(* The portfolio *)

DashboardInit ==
    /\ snapshot = "loading" /\ boot = "going"
    /\ screen \in Routes
    /\ progress = SetProgressDate([date |-> NoDate, run |-> 0, scope |-> "none", loading |-> FALSE, failed |-> FALSE,
                                   loaded |-> NoDate, result |-> <<>>], screen.asOf)
    /\ fanOut = [r \in 1..MaxProgressRuns |-> {}] /\ inFlight = {}
    /\ lazyMissing = {} /\ lazyComputing = {} /\ lazyErrors = {}
    /\ lazyPosts = [p \in LazyRows |-> [open |-> 0, sent |-> 0, clicks |-> 0]]

\* Only the page's first load goes on to the route's own requests.
SnapshotArrives ==
    /\ snapshot = "loading"
    /\ snapshot' = "ready"
    /\ lazyMissing' \in SUBSET LazyRows /\ lazyComputing' = {} /\ lazyErrors' = {}
    /\ boot' = IF boot = "going" THEN "done" ELSE boot
    /\ Begin(IF boot = "going" THEN RouteLoads(progress, screen) ELSE {}, progress)
    /\ UNCHANGED <<screen, fanOut, lazyPosts>>

SnapshotFails ==
    /\ snapshot = "loading"
    /\ snapshot' = "error"
    /\ boot' = IF boot = "going" THEN "failed" ELSE boot
    /\ UNCHANGED <<screen, progress, fanOut, inFlight, lazyVars>>

RetryLatest ==
    /\ snapshot = "error"
    /\ snapshot' = "loading"
    /\ UNCHANGED <<boot, screen, progress, fanOut, inFlight, lazyVars>>

-------------------------------------------------------------------------------
(* Progress as of a date *)

Stale_Never(request) == FALSE  \* mutant: the run is not compared
Stale(request) == request.run # progress.run

\* What the server has is shown; the workers take the first of the rest.
ListArrives(request, missing) ==
    LET p == request.project
        posts(projects, worker) == {PostRequest(request.run, request.date, q, worker) : q \in projects}
        entry(q) == IF q \in missing THEN Pending ELSE Done(request.date)
    IN  /\ request \in inFlight /\ request.kind = "list"
        /\ \/ Stale(request) /\ inFlight' = inFlight \ {request} /\ UNCHANGED <<progress, fanOut>>
           \/ /\ ~Stale(request) /\ p = "all"
              /\ progress' = [progress EXCEPT !.result = [q \in Shown |-> entry(q)], !.loading = FALSE,
                                              !.loaded = request.date]
              /\ \E first \in SUBSET missing :
                    /\ Cardinality(first) = Min({FanOut, Cardinality(missing)})
                    /\ inFlight' = (inFlight \ {request}) \cup posts(first, TRUE)
                    /\ fanOut' = [fanOut EXCEPT ![request.run] = missing \ first]
           \/ /\ ~Stale(request) /\ p # "all"
              /\ progress' = [progress EXCEPT !.result = With(@, p, entry(p))]
              /\ inFlight' = (inFlight \ {request}) \cup posts({p} \cap missing, FALSE)
              /\ UNCHANGED fanOut
        /\ UNCHANGED <<snapshot, boot, screen, lazyVars>>

ListFails(request) ==
    /\ request \in inFlight /\ request.kind = "list"
    /\ inFlight' = inFlight \ {request}
    /\ progress' = IF Stale(request) THEN progress
                   ELSE IF request.project = "all"
                        THEN [progress EXCEPT !.loading = FALSE, !.loaded = NoDate, !.failed = TRUE]
                        ELSE [progress EXCEPT !.result = With(@, request.project, Failed)]
    /\ UNCHANGED <<snapshot, boot, screen, fanOut, lazyVars>>

\* A worker takes its run's next project, whether the run is still wanted or not.
PostAnswered(request, entry) ==
    /\ request \in inFlight /\ request.kind = "post"
    /\ progress' = IF Stale(request) THEN progress
                   ELSE [progress EXCEPT !.result = With(@, request.project, entry)]
    /\ \/ /\ request.worker
          /\ \E q \in fanOut[request.run] :
                /\ fanOut' = [fanOut EXCEPT ![request.run] = @ \ {q}]
                /\ inFlight' = (inFlight \ {request}) \cup {PostRequest(request.run, request.date, q, TRUE)}
       \/ /\ ~request.worker \/ fanOut[request.run] = {}
          /\ inFlight' = inFlight \ {request}
          /\ UNCHANGED fanOut
    /\ UNCHANGED <<snapshot, boot, screen, lazyVars>>

PostArrives(request) == PostAnswered(request, Done(request.date))
PostFails(request) == PostAnswered(request, Failed)

InError(project) == project \in DOMAIN progress.result /\ progress.result[project].state = "error"

RetryProjectProgress(project) ==
    /\ snapshot = "ready" /\ screen.view = "projects" /\ ~progress.loading /\ ~progress.failed /\ InError(project)
    /\ progress' = [progress EXCEPT !.result[project] = Pending]
    /\ inFlight' = inFlight \cup {PostRequest(progress.run, progress.date, project, FALSE)}
    /\ UNCHANGED <<snapshot, boot, screen, fanOut, lazyVars>>

\* "Try again" on the list, and on the detail of one project.
RetryProgress ==
    /\ snapshot = "ready"
    /\ \/ screen.view = "projects" /\ progress.failed /\ Begin({LoadProgressAt(progress)}, progress)
       \/ /\ screen.view = "progress" /\ InError(screen.project)
          /\ Begin({LoadProgressForProject(progress, screen.project)}, progress)
    /\ UNCHANGED <<snapshot, boot, screen, fanOut, lazyVars>>

-------------------------------------------------------------------------------
(* Rows of the live tables, computed when they scroll into view *)

LazyRowState_Forgets(project) ==  \* mutant: a row that failed is observed again
    CASE project \in lazyComputing -> "computing"
      [] project \notin lazyComputing /\ project \in lazyMissing -> "pending"
      [] OTHER -> "filled"
LazyRowState(project) ==
    CASE project \in lazyComputing -> "computing"
      [] project \notin lazyComputing /\ project \in lazyErrors -> "error"
      [] project \notin lazyComputing \cup lazyErrors /\ project \in lazyMissing -> "pending"
      [] OTHER -> "filled"

Compute(project, clicked) ==
    /\ snapshot = "ready" /\ screen.view = "projects" /\ project \in lazyMissing \ lazyComputing
    /\ lazyComputing' = lazyComputing \cup {project}
    /\ lazyErrors' = lazyErrors \ {project}
    /\ lazyPosts' = [lazyPosts EXCEPT ![project] =
                        [open |-> @.open + 1, sent |-> @.sent + 1, clicks |-> @.clicks + clicked]]
    /\ UNCHANGED <<snapshot, boot, screen, progress, fanOut, inFlight, lazyMissing>>

RowIsSeen(project) == LazyRowState(project) = "pending" /\ Compute(project, 0)

RetryRow(project) ==
    LazyRowState(project) = "error" /\ lazyPosts[project].clicks < MaxClicks /\ Compute(project, 1)

RowAnswered(project, filled) ==
    /\ lazyPosts[project].open > 0
    /\ lazyComputing' = lazyComputing \ {project}
    /\ lazyMissing' = IF filled THEN lazyMissing \ {project} ELSE lazyMissing
    /\ lazyErrors' = IF filled THEN lazyErrors ELSE lazyErrors \cup {project}
    /\ lazyPosts' = [lazyPosts EXCEPT ![project].open = @ - 1]
    /\ UNCHANGED <<snapshot, boot, screen, progress, fanOut, inFlight>>

RowArrives(project) == RowAnswered(project, TRUE)
RowFails(project) == RowAnswered(project, FALSE)

DashboardNext ==
    \/ \E route \in Routes : Goto(route)
    \/ SnapshotArrives \/ SnapshotFails \/ RetryLatest \/ RetryProgress
    \/ \E r \in inFlight : (\E missing \in SUBSET Shown : ListArrives(r, missing)) \/ ListFails(r)
    \/ \E r \in inFlight : PostArrives(r) \/ PostFails(r)
    \/ \E p \in Shown : RetryProjectProgress(p)
    \/ \E p \in LazyRows : RowIsSeen(p) \/ RetryRow(p) \/ RowArrives(p) \/ RowFails(p)

DashboardSpec == DashboardInit /\ [][DashboardNext]_dashboardVars

-------------------------------------------------------------------------------
ListIsUp ==
    snapshot = "ready" /\ screen.view = "projects" /\ progress.date # NoDate /\ ~progress.loading /\ ~progress.failed

\* loadProgressForProject empties the list but leaves the date marked as loaded:
\* coming Back to the list finds one project and asks for nothing.
ListWasNarrowed == progress.scope # "all" /\ progress.loaded = progress.date

\* However fast the reader moves and however late answers come, what is shown as
\* progress was computed for the date on the screen; and the list of that date
\* has every project, unless a single project was loaded over it.
ProgressIsForTheChosenDate ==
    /\ \A p \in DOMAIN progress.result :
        progress.result[p].state = "done" => progress.result[p].of = progress.date
    /\ ListIsUp /\ ~ListWasNarrowed => DOMAIN progress.result = Shown

Behind(project) ==
    {r \in inFlight : r.run = progress.run /\ r.project = project}
      \cup {q \in {project} : progress.run > 0 /\ q \in fanOut[progress.run]}

\* The page's first load failed: "Try again" brings the portfolio back, but not
\* what the route was waiting for.
RouteLoadsWereLost == boot = "failed" /\ progress.scope = "none"

\* A row or a list that says it is loading has exactly one request behind it,
\* and a live row that failed asks again only when it is clicked: nothing spins
\* for ever and nothing silently pays twice.
EveryWaitHasOneRequest ==
    /\ \A p \in DOMAIN progress.result :
        progress.result[p].state = "pending" => Cardinality(Behind(p)) = 1
    /\ snapshot = "ready" /\ screen.view = "projects" /\ progress.loading /\ ~RouteLoadsWereLost
        => Cardinality(Behind("all")) = 1
    /\ \A p \in LazyRows :
        /\ lazyPosts[p].open = Cardinality({p} \cap lazyComputing)
        /\ lazyPosts[p].sent <= 1 + lazyPosts[p].clicks
===============================================================================
