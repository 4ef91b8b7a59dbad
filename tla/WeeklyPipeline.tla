----------------------------- MODULE WeeklyPipeline -----------------------------
(***************************************************************************)
(* The jobs that feed the rule engine: the nightly pull, the backfill and  *)
(* the weekly judgement, run by the service's routes and by the operator's *)
(* script, in any overlap, over one database.  Each process stages rows in *)
(* its own memory; the fold carries them into repo_activity; a snapshot is *)
(* written once and never again.                                           *)
(*                                                                         *)
(* Between two awaits a process runs on its own, so a pull of all windows  *)
(* is one step; each write to the database is a step of its own.           *)
(***************************************************************************)
EXTENDS RuleEngine, Ingestion

CONSTANTS
    Repos,                \* what Gitea holds, now and later
    Boundaries,           \* versions [n, project, team, repos, excluded, from, to]
    Projects,             \* [id, lifecycle, pauses], in the order they are listed
    Orgs,                 \* the organisations the versions name, sorted
    Directory,            \* team -> members
    Workers, ProcessOf,   \* who runs jobs, and in which process
    Kinds,                \* the jobs each worker may run
    VersionsOf,           \* the rule-set versions each kind of job is run with
    LookbackWeeks, BackfillWeeks,
    StartDay, EndDay, MaxJobs, MaxFailures, Faults, Pulls  \* bounds

ASSUME PipelineAssumption ==
    /\ Orgs \in Seq(Range(Orgs)) /\ Projects \in Seq(Range(Projects))
    /\ Range(Orgs) = {b.team : b \in Boundaries}
    /\ IsFiniteSet(Repos) /\ IsFiniteSet(Boundaries) /\ DOMAIN ProcessOf = Workers
    /\ \A r, s \in Repos : r.id = s.id => r = s  \* one Gitea, whose ids tell repositories apart
    /\ {LookbackWeeks, BackfillWeeks} \subseteq Nat \ {0}
    /\ {StartDay, EndDay, MaxJobs, MaxFailures} \subseteq Nat
    /\ {"teams", "projects"} \cap DOMAIN Directory = {}  \* no team is called what a pull may lack
    /\ \A t \in DOMAIN Directory : Directory[t] \in Nat
    /\ \A b \in Boundaries : b.n \in Nat  \* its place in the listing

VARIABLES
    today,
    staged,               \* process -> [rows, sizes], lost when it restarts
    activity,             \* repo_activity
    warnings, snapshots,
    jobs,                 \* worker -> the job it runs or ran last
    started, failures      \* counters for the bounds

stores == <<activity, warnings, snapshots>>
pipelineVars == <<today, staged, activity, warnings, snapshots, jobs, started, failures>>

Processes == Range(ProcessOf)

\* synced_at: the day, and the order of the starts within it.
Stamp == today * (MaxJobs + 1) + started
DayOf(stamp) == stamp \div (MaxJobs + 1)

NoJob == [kind |-> "none", pc |-> "idle", stamp |-> 0, version |-> 0, team |-> "none", weeks |-> <<>>,
          adapters |-> <<>>, statuses |-> <<>>, documents |-> <<>>, known |-> <<>>, alone |-> TRUE,
          judging |-> <<>>, left |-> {}, rows |-> {}, draft |-> <<>>, unsaved |-> {}]

PipelineInit ==
    /\ today = StartDay
    /\ staged = [p \in Processes |-> [rows |-> <<>>, sizes |-> <<>>]]
    /\ activity = <<>> /\ warnings = {} /\ snapshots = {}
    /\ jobs = [w \in Workers |-> NoJob]
    /\ started = 0 /\ failures = 0

-------------------------------------------------------------------------------
(* Starting *)

Resting(w) == jobs[w].pc \in {"idle", "done", "failed"}

\* The nightly pulls the directory first; the backfill never does; the weekly
\* job reads what is there.  All start from today's week.
Start(w, kind, version) ==
    /\ Resting(w) /\ kind \in Kinds[w] /\ started < MaxJobs
    /\ started' = started + 1
    /\ jobs' = [jobs EXCEPT ![w] =
        [NoJob EXCEPT !.kind = kind, !.version = version, !.stamp = Stamp,
            !.pc = CASE kind = "nightly" -> "teams" [] kind = "backfill" -> "pull" [] OTHER -> "read",
            !.weeks = CASE kind = "nightly" -> WeekWindows(LookbackWeeks, today)
                        [] kind = "backfill" -> WeekWindows(BackfillWeeks, today) [] OTHER -> <<>>,
            !.judging = CASE kind = "nightly" -> <<>>
                          [] kind = "backfill" -> WeekWindows(BackfillWeeks, today) [] OTHER -> <<WeekOf(today)>>]]
    /\ UNCHANGED <<today, staged, stores, failures>>

-------------------------------------------------------------------------------
(* Pulling *)

\* Everything that goes wrong counts against one bound.
Fails(something) ==
    /\ something => failures < MaxFailures
    /\ failures' = IF something THEN failures + 1 ELSE failures

PullTeams(w, pull) ==
    LET p == ProcessOf[w]
        found == SyncTeams(Directory, pull)
    IN  /\ jobs[w].pc = "teams" /\ Fails(pull # {})
        /\ staged' = [staged EXCEPT ![p].sizes = SizesAfter(@, found.rows)]
        /\ jobs' = [jobs EXCEPT ![w] = [@ EXCEPT !.pc = "adapters", !.team = found.status]]
        /\ UNCHANGED <<today, stores, started>>

\* build_gitea_adapters: an adapter for every organisation any version names.
BuildAdapters(sizes, at) ==
    [i \in DOMAIN Orgs |-> [org |-> Orgs[i], boundary |-> BuildBoundaryResolver(Boundaries, at),
                       sizes |-> BuildTeamSizeResolver(Boundaries, sizes, at)]]

ResolveForTonight(w) ==
    /\ jobs[w].pc = "adapters"
    /\ jobs' = [jobs EXCEPT ![w] = [@ EXCEPT !.pc = "sync",
                    !.adapters = BuildAdapters(staged[ProcessOf[w]].sizes, DayOf(jobs[w].stamp))]]
    /\ UNCHANGED <<today, staged, stores, started, failures>>

\* What the listing and the fetches of one organisation and week return, when
\* one of them may fail: a fault is <<week, org, repository or "all", outcome>>.
Fetch(org, week, fault) ==
    IF fault = <<week, org, "all", "list">> THEN <<>>
    ELSE [r \in {x \in Repos : x.org = org} |->
            IF fault[1] = week /\ fault[2] = org /\ fault[3] = r.slug THEN fault[4] ELSE "fine"]

NoFault == <<Absent, "", "", "fine">>

Pull(adapter, week, window, stamp, fault) ==
    Sync(adapter, Repos, window, today, stamp, Fetch(adapter.org, week, fault))

\* What a list of results adds to the staging buffer and to the job's record.
Stage(w, results) ==
    staged' = [staged EXCEPT ![ProcessOf[w]].rows =
                 @ \o FlattenSeq([i \in DOMAIN results |-> SetToSeq(results[i].rows)])]
Statuses(results) == [i \in DOMAIN results |-> results[i].status]

\* The nightly's windows end now at the latest, adapter by adapter; one step,
\* since nothing in it gives up the loop.
SyncTonight(w, fault) ==
    LET job == jobs[w]
        results == FlattenSeq([a \in DOMAIN job.adapters |-> [i \in DOMAIN job.weeks |->
            Pull(job.adapters[a], job.weeks[i], NightlyWindow(job.weeks[i], DayOf(job.stamp)), job.stamp, fault)]])
    IN  /\ job.pc = "sync" /\ Fails(fault # NoFault)
        /\ Stage(w, results)
        /\ jobs' = [jobs EXCEPT ![w] = [@ EXCEPT !.pc = "fold", !.adapters = <<>>, !.statuses = Statuses(results)]]
        /\ UNCHANGED <<today, stores, started>>

\* The backfill builds its adapters as of each window and pulls it whole.
SyncPastWeek(w, fault) ==
    LET job == jobs[w]
        week == Head(job.weeks)
        adapters == BuildAdapters(staged[ProcessOf[w]].sizes, FirstDay(week))
        results == [a \in DOMAIN adapters |-> Pull(adapters[a], week, BackfillWindow(week), job.stamp, fault)]
    IN  /\ job.pc = "pull" /\ Fails(fault # NoFault)
        /\ Stage(w, results)
        /\ jobs' = [jobs EXCEPT ![w] = [@ EXCEPT !.weeks = Tail(job.weeks), !.statuses = Append(job.statuses, MergeStatus(Statuses(results))),
                                                 !.pc = IF Len(job.weeks) = 1 THEN "fold" ELSE "pull"]]
        /\ UNCHANGED <<today, stores, started>>

-------------------------------------------------------------------------------
(* Folding *)

RowsOnFile == Range(activity)

\* key -> the row listed last for it, as the fold remembers it.
ExistingByKey ==
    [k \in {ActivityKey(r) : r \in RowsOnFile} |->
        activity[Max({i \in DOMAIN activity : ActivityKey(activity[i]) = k})]]

\* The staged documents in the order they were staged; the fold takes the oldest
\* pull first and otherwise keeps that order.
Documents(rows) == FlattenSeq([n \in DOMAIN rows |-> SetToSeq(DocumentsForRow(rows[n]))])
TakenBefore(documents, i, j) ==
    documents[i].synced < documents[j].synced \/ (documents[i].synced = documents[j].synced /\ i < j)

\* A document is worth writing when its key is unknown, as a new row, or older on
\* file, as a refresh under the old identity.
Worth_Any(document, known) == TRUE  \* mutant: an older document refreshes too
Worth(document, known) ==
    ActivityKey(document) \notin DOMAIN known \/ document.synced > known[ActivityKey(document)].synced
Worthwhile(job) == {i \in DOMAIN job.documents : Worth(job.documents[i], job.known)}

Folding(w) == jobs[w].pc = "write"

\* The only two reads of fold_staging_activity; what it knows is not read again.
\* alone records whether no other fold was under way at the same time.
FoldReads(w) ==
    LET others == {o \in Workers \ {w} : Folding(o)}
    IN  /\ jobs[w].pc = "fold"
        /\ jobs' = [o \in Workers |->
            IF o = w THEN [jobs[w] EXCEPT !.pc = "write", !.alone = others = {}, !.known = ExistingByKey,
                               !.documents = Documents(staged[ProcessOf[w]].rows)]
            ELSE [jobs[o] EXCEPT !.alone = @ /\ o \notin others]]
        /\ UNCHANGED <<today, staged, stores, started, failures>>

\* The next document worth it; those before it are passed over without an await.
RowFor(job, document) ==
    LET id == IF ActivityKey(document) \in DOMAIN job.known
              THEN job.known[ActivityKey(document)].id ELSE job.stamp
    IN  [f \in DOMAIN document \cup {"id"} |-> IF f = "id" THEN id ELSE document[f]]
Learned(known, row) ==
    [k \in DOMAIN known \cup {ActivityKey(row)} |-> IF k = ActivityKey(row) THEN row ELSE known[k]]

FoldWrites(w) ==
    LET job == jobs[w]
    IN  /\ Folding(w)
        /\ \E next \in Worthwhile(job) :
            LET row == RowFor(job, job.documents[next])
                key == ActivityKey(row)
                same(r) == r.id = row.id /\ ActivityKey(r) = key
                later == {i \in DOMAIN job.documents : TakenBefore(job.documents, next, i)}
            IN  /\ Worthwhile(job) \subseteq later \cup {next}
                /\ activity' = IF key \notin DOMAIN job.known THEN Append(activity, row)
                               ELSE [i \in DOMAIN activity |-> IF same(activity[i]) THEN row ELSE activity[i]]
                /\ jobs' = [jobs EXCEPT ![w] = [@ EXCEPT !.known = Learned(job.known, row),
                                                         !.documents = Restrict(job.documents, later)]]
        /\ UNCHANGED <<today, staged, warnings, snapshots, started, failures>>

\* A nightly is over; a backfill goes on to judge its weeks.
FoldEnds(w) ==
    /\ Folding(w) /\ Worthwhile(jobs[w]) = {}
    /\ jobs' = [jobs EXCEPT ![w] = [@ EXCEPT !.pc = IF jobs[w].kind = "nightly" THEN "done" ELSE "read",
                                             !.documents = <<>>, !.known = <<>>]]
    /\ UNCHANGED <<today, staged, stores, started, failures>>

-------------------------------------------------------------------------------
(* Judging: generate_weekly_snapshots, once for every week of the job *)

Week(w) == Head(jobs[w].judging)
SnapshotKey(snapshot) == <<snapshot.project, snapshot.week, snapshot.version>>

ReadActivity(w) ==
    /\ jobs[w].pc = "read"
    /\ jobs' = [jobs EXCEPT ![w] = [@ EXCEPT !.pc = "keys", !.rows = RowsOnFile]]
    /\ UNCHANGED <<today, staged, stores, started, failures>>

ExistingKeys_AnyVersion(w) ==  \* mutant: a new rule set is taken for judged
    UNION {{<<s.project, s.week, v>> : v \in VersionsOf["weekly"]} : s \in snapshots}
ExistingKeys(w) == {SnapshotKey(s) : s \in snapshots}

\* The projects left to judge, by their place in the listing; one is skipped
\* when its key was on file at this moment.
ReadSnapshots(w) ==
    /\ jobs[w].pc = "keys"
    /\ jobs' = [jobs EXCEPT ![w] = [@ EXCEPT !.pc = "judge",
            !.left = {i \in DOMAIN Projects : <<Projects[i].id, Week(w), jobs[w].version>> \notin ExistingKeys(w)}]]
    /\ UNCHANGED <<today, staged, stores, started, failures>>

\* The snapshot of one project week and its warnings, from the rows read at the
\* start; seen is not stored: it remembers those rows for the properties.
DraftOf(job, project, week) ==
    LET verdict == JudgeWeek(job.rows, project, week)
        warned == [id \in DOMAIN verdict.warnings |-> <<project.id, week, job.version, id, job.stamp>>]
    IN  [project |-> project.id, week |-> week, version |-> job.version, status |-> verdict.status,
         contributors |-> verdict.contributors, warnings |-> Range(warned),
         seen |-> {r \in job.rows : r.project = project.id /\ r.week = week}]

JudgeProject(w) ==
    LET job == jobs[w]
    IN  /\ job.pc = "judge"
        /\ \E next \in job.left :
            LET draft == DraftOf(job, Projects[next], Week(w))
            IN  /\ \A other \in job.left : next <= other
                /\ jobs' = [jobs EXCEPT ![w] = [@ EXCEPT !.pc = "save", !.draft = <<draft>>,
                                !.left = job.left \ {next}, !.unsaved = draft.warnings]]
        /\ UNCHANGED <<today, staged, stores, started, failures>>

SaveWarning(w) ==
    /\ jobs[w].pc = "save"
    /\ \E warning \in jobs[w].unsaved :
        /\ warnings' = warnings \cup {warning}
        /\ jobs' = [jobs EXCEPT ![w] = [@ EXCEPT !.unsaved = jobs[w].unsaved \ {warning}]]
    /\ UNCHANGED <<today, staged, activity, snapshots, started, failures>>

\* The unique index lets one snapshot in; the loser's whole job is over.
SaveSnapshot_First(w) ==  \* mutant: before its warnings, which come after
    LET job == jobs[w]
        draft == Head(job.draft)
        taken == SnapshotKey(draft) \in {SnapshotKey(s) : s \in snapshots}
    IN  /\ job.pc = "save" /\ job.draft # <<>>
        /\ snapshots' = IF taken THEN snapshots ELSE snapshots \cup {draft}
        /\ jobs' = [jobs EXCEPT ![w] = [@ EXCEPT !.pc = "judge", !.draft = <<>>]]
        /\ UNCHANGED <<today, staged, activity, warnings, started, failures>>
SaveSnapshot(w) ==
    LET job == jobs[w]
        draft == Head(job.draft)
        taken == SnapshotKey(draft) \in {SnapshotKey(s) : s \in snapshots}
    IN  /\ job.pc = "save" /\ job.unsaved = {}
        /\ snapshots' = IF taken THEN snapshots ELSE snapshots \cup {draft}
        /\ jobs' = [jobs EXCEPT ![w] = [@ EXCEPT !.pc = IF taken THEN "failed" ELSE "judge", !.draft = <<>>]]
        /\ UNCHANGED <<today, staged, activity, warnings, started, failures>>

\* One week judged: the next, if the job has one.
WeekEnds(w) ==
    /\ jobs[w].pc = "judge" /\ jobs[w].left = {}
    /\ jobs' = [jobs EXCEPT ![w] = [@ EXCEPT !.pc = IF Len(jobs[w].judging) = 1 THEN "done" ELSE "read",
                                             !.judging = Tail(jobs[w].judging), !.rows = {}]]
    /\ UNCHANGED <<today, staged, stores, started, failures>>

-------------------------------------------------------------------------------
JobStep(w) ==
    \/ \E pull \in Pulls : PullTeams(w, pull)
    \/ ResolveForTonight(w)
    \/ \E fault \in Faults : SyncTonight(w, fault) \/ SyncPastWeek(w, fault)
    \/ FoldReads(w) \/ FoldWrites(w) \/ FoldEnds(w)
    \/ ReadActivity(w) \/ ReadSnapshots(w) \/ JudgeProject(w)
    \/ SaveWarning(w) \/ SaveSnapshot(w) \/ WeekEnds(w)

\* A process that restarts loses its jobs and its staging buffer.
Crash(p) ==
    /\ Fails(TRUE) /\ \E w \in Workers : ProcessOf[w] = p /\ ~Resting(w)
    /\ staged' = [staged EXCEPT ![p] = [rows |-> <<>>, sizes |-> <<>>]]
    /\ jobs' = [w \in Workers |-> IF ProcessOf[w] = p THEN NoJob ELSE jobs[w]]
    /\ UNCHANGED <<today, stores, started>>

Tomorrow ==
    /\ today < EndDay
    /\ today' = today + 1
    /\ UNCHANGED <<staged, stores, jobs, started, failures>>

PipelineNext ==
    \/ \E w \in Workers : JobStep(w) \/ \E kind \in Kinds[w] : \E version \in VersionsOf[kind] : Start(w, kind, version)
    \/ \E p \in Processes : Crash(p)
    \/ Tomorrow

-------------------------------------------------------------------------------
\* No crash and no lost race leaves a snapshot that cites a warning nobody stored.
SnapshotsCiteStoredWarnings == \A s \in snapshots : s.warnings \subseteq warnings

\* A judging job that came to its end left every project it was to judge with a
\* snapshot of every week, under its own rule set.
WeeksToJudge(job) ==
    CASE job.kind = "weekly" -> {WeekOf(DayOf(job.stamp))}
      [] job.kind = "backfill" -> Range(WeekWindows(BackfillWeeks, DayOf(job.stamp)))
      [] OTHER -> {}
CompletedRunCovers ==
    \A w \in Workers :
        jobs[w].pc = "done" =>
            \A project \in Range(Projects), week \in WeeksToJudge(jobs[w]) :
                \E s \in snapshots : SnapshotKey(s) = <<project.id, week, jobs[w].version>>

\* A verdict other than "insufficient data" rests on rows whose every number is
\* what Gitea held when it was asked: a fetch that failed counts as zero, and
\* such zeros must not be judged.  Of the judged week's rows, that is: the weeks it
\* is compared with are not asked how complete they are.
TrueNumbers(row) ==
    LET repo == CHOOSE r \in Repos : r.id = row.gitea
    IN  \E now \in DayOf(row.synced)..today :
            row.metric = RepoMetrics(repo, [since |-> FirstDay(row.week), until |-> row.until], now, "fine")
ScoredWeeksSawEverything ==
    \A s \in snapshots : s.status \in {"clear", "watch", "at_risk"} => \A r \in s.seen : TrueNumbers(r)

\* OwnersAt are the versions that own a row's repository at a time.
OwnersAt(row, at) == {b \in Boundaries : EffectiveAt(b, at) /\ row.repo \in BoundaryKeys(b) \ b.excluded}
ShownSizes(owners) ==
    {Directory[t] : t \in {o \in {b.team : b \in owners} \cap DOMAIN Directory : Directory[o] >= AggregationFloor}}
GatedTonight(w) ==
    {row \in Range(staged[ProcessOf[w]].rows) :
        jobs[w].kind = "nightly" /\ jobs[w].team = "ok" /\ row.synced = jobs[w].stamp}

\* A nightly gates its rows with the sizes it has just staged, on its very first
\* run too: of the teams that own a repository the largest decides, unless all are
\* below the floor, and no other team's size is ever taken: it is shown by a
\* version in force of an owning project.  That is so where names cannot be
\* confused: the repository is not called like a project, nor its owners like a
\* repository, and no version lists and excludes it at once.
NamesApart(row) ==
    /\ row.repo \notin {b.project : b \in Boundaries}
    /\ \A b \in Boundaries : row.projects \cap BoundaryKeys(b) = {} /\ row.repo \notin b.excluded
SizesReachTheRows ==
    \A w \in Workers : \A row \in GatedTonight(w) :
        LET day == DayOf(jobs[w].stamp)
            shown == ShownSizes(OwnersAt(row, day))
            versions == {b \in Boundaries : EffectiveAt(b, day) /\ b.project \in row.projects}
        IN  NamesApart(row) =>
                /\ shown # {} => row.team_size = Max(shown)
                /\ row.team_size \in ShownSizes(versions) \cup {Absent}

\* A fold no other fold overlaps never puts an older pull over a newer one, and
\* never gives a repository's week a second row.
UndisturbedFoldsMoveForward ==
    [][\A w \in Workers :
        FoldWrites(w) /\ jobs[w].alone =>
            /\ \A i \in DOMAIN activity : activity'[i].synced >= activity[i].synced
            /\ \A r \in RowsOnFile : ActivityKey(activity'[Len(activity')]) = ActivityKey(r)
                                      => Len(activity') = Len(activity)]_pipelineVars

\* A nightly that reports "ok", its fold undisturbed, leaves a complete row on
\* file for every owned repository of the organisations it asks, in every week it
\* looked back at, unless a later pull has already been folded over it.
ReportedStatus(job) == MergeStatus(<<job.team, MergeStatus(job.statuses)>>)
OkMeansComplete ==
    [][\A w \in Workers :
        LET job == jobs[w]
            day == DayOf(job.stamp)
        IN  FoldEnds(w) /\ job.kind = "nightly" /\ job.alone /\ ReportedStatus(job) = "ok" =>
                \A repo \in {r \in Repos : r.org \in Range(Orgs)}, i \in DOMAIN job.weeks :
                    \A p \in ProjectIds(BuildBoundaryResolver(Boundaries, day), repo) :
                        \E r \in RowsOnFile :
                            /\ ActivityKey(r) = <<p, repo.slug, job.weeks[i]>>
                            /\ r.synced > job.stamp \/ (r.synced = job.stamp /\ r.complete = 100)]_pipelineVars

\* An activity row is of a repository its project's boundary holds: two
\* organisations may use the same name for different repositories, which is why
\* boundaries are keyed by id.
ReposKeepTheirOwners ==
    \A r \in RowsOnFile : \E b \in Boundaries : b.project = r.project /\ r.gitea \in {x.id : x \in b.repos}

\* A project that kept committing and then fell silent for a week and more is
\* flagged as inactive when that week is judged on complete data.
DaysSilent(project, week) ==
    LET owned == {r \in Repos : \E b \in Boundaries : b.project = project /\ r.id \in {x.id : x \in b.repos}}
    IN  LastDay(week) - Max({c.day : c \in {x \in UNION {r.commits : r \in owned} : x.day <= LastDay(week)}})
SilenceIsFlagged ==
    \A s \in snapshots :
        /\ s.status \in {"clear", "watch", "at_risk"} /\ s.week >= BaselineWindow
        /\ 16 * DaysSilent(s.project, s.week) >= RiseThreshold(
               4 * Max({DaysSilent(s.project, v) : v \in (s.week - BaselineWindow)..(s.week - 1)}), 7, 3)
        => \E x \in s.warnings : x[4] = "inactivity"

-------------------------------------------------------------------------------
PipelineSpec == PipelineInit /\ [][PipelineNext]_pipelineVars
===============================================================================
