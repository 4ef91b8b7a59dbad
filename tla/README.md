# Project Health Intelligence in TLA+

A verification project for the repository's backend (`src/backend`, FastAPI on
one asyncio loop, aiosqlite on one shared connection) and the clients that drive
it. Modules are translated from the code; `PROJECT.json` maps each definition to
the lines it stands for, and lists the runs, the mutants, the hazards and the
theorems.

## 1. The system

| Component | State it keeps | Operations | What makes it correct |
|---|---|---|---|
| Lazy weekly verdict (`jobs.py`, `api.py`) | table of per-(project, week) locks; `weekly_snapshots`, `warnings`, `repo_activity` rows | `generate_llm_snapshot`, called by `POST /snapshots/at`, the weekly job and checkpoints | one computation per project-week; one immutable verdict; its evidence on disk before it; failures leave nothing; every call answered |
| SQLite store (`db.py`) | one connection, WAL file | `add` / `replace` = execute + commit, `list`, look-ups, `clear` | snapshots insert-only and unique; what a caller was told is durable |
| Staging fold (`staging.py`) | in-process staging rows | `fold_staging_activity`, `fold_people_portal_catalog` | one activity row per project, repository and week; catalog upsert |
| Registry and discovery (`discovery.py`, `admin.py`) | `projects`, `boundaries`; bootstrap gate (lock, last attempt) | gated bootstrap on reads, operator discovery, reset | single flight, cooldown, idempotent rediscovery, an empty registry heals |
| Boundaries and resolvers (`api.py`, `db.py`, `resolvers.py`) | versioned boundaries | `POST /boundaries`, `boundary_at`, resolver maps | one version in force per date; resolver and `boundary_at` agree |
| Cumulative checkpoints (`jobs.py`, `cumulative_llm.py`) | `cumulative_checkpoints` and their lock table | `generate_cumulative_checkpoint` | a final checkpoint stays final; chains are acyclic and bounded; provisional ones expire |
| Rule snapshots (`jobs.py`, `rules.py`) | `weekly_snapshots`, `warnings` of the rule sets | `generate_weekly_snapshots`, run by the weekly job and the backfill | a run that ends has judged everything; replay never looks ahead; no week is judged from its own numbers when some failed to arrive; hidden counts decide nothing |
| Nightly sync and backfill (`jobs.py`) | the status they report | pull the directory, build the resolvers, pull every organisation and week, fold | "ok" means complete; sizes are known before rows are gated; old pulls do not replace new ones |
| Judges (`signal_llm.py`, `cumulative_llm.py`, `ci_llm.py`) | none | prompt, validate, reconcile | fail closed; the model's verdict never exceeds the deterministic one's bounds |
| CI assessments (`ci_agent.py`, `api.py`) | `ci_assessments` | submit, list | append-only, one per commit |
| Ingestion (`ingestion.py`) | none (staging is the sink) | page loops, per-repository sync | no page is lost; one bad repository does not lose the others; repositories keep their owners |
| Diff evidence (`code_evidence.py`) | none | lists, metadata, diffs of a week, request by request | budgets are kept and spent on the largest changes; what is kept leaves nothing out unawares |
| Browser (`app.js`) | route, progress of a date, lazy rows: missing, computing, errors | router, list and fan-out, a row when it scrolls into view | what is shown is of the date chosen; each wait has one request; failures retried only on request |
| Read API, models, config, auth, transport, scripts | – | – | projections of the above |

**How they interact.** Requests are coroutines of one event loop: anything may
interleave at an `await`, nothing between two. They share Python objects (the
lock tables, the gate) and one SQLite connection, so an uncommitted statement of
one coroutine is visible to all of them and made durable by anybody's commit.
The scheduled jobs run either in the server (admin endpoints) or in a process of
their own (`scripts/run_jobs.py`), which shares the file but not the locks.

**What is hard.** Check-then-act across awaits (cache look-up, judge, write);
multi-document writes with a commit each; cancellation by `wait_for` at any
await; lock tables that forget; jobs overlapping requests; immutable rows that
must never be written from half a week; append-only records whose idempotence
rests on a look-up made before an LLM call; versions that tie on their date.

## 2. Modules

| Module | Role |
|---|---|
| `SnapshotLedger` | abstract specification: what the verdict store promises |
| `LlmSnapshot` | the lazy weekly verdict, its callers, locks, connection, the fold, crashes |
| `ProjectRegistry` | projects and boundary versions with all their writers: gated bootstrap, operator discovery, `POST /boundaries`, catalog fold, reset, restarts |
| `CumulativeCheckpoint` | progress as of a date: the checkpoint cache of one project over an abstract ledger of verdicts, with its lock, its chain, its timeouts and the calendar |
| `Aggregates` | the metrics of an activity row, and weeks as numbers |
| `RuleEngine` | `rules.py` as operators: histories, baselines, the six rules, pauses, status, warnings |
| `RuleReplay` | the engine over a growing history |
| `Ingestion` | the resolvers and one organisation's sync as operators: attribution, windows, metrics, completeness, statuses, staging documents |
| `WeeklyPipeline` | nightly sync, backfill and weekly judgement, overlapping in two processes; extends `RuleEngine` and `Ingestion` |
| `CiAssessment` | CI submissions: normalisation, scoring, the model's proposal, reconcile, look-up and storing |
| `SignalJudge` | the evidence of a week, request by request, and the signal made of it |
| `PageWalk` | `pages()`, the loop every list endpoint is read with |
| `Dashboard` | the browser's router and its requests |
| `LlmSnapshotProofs`, `CumulativeCheckpointProofs`, `WeeklyPipelineProofs`, `ProjectRegistryProofs`, `JudgementProofs` (the rules), `EvidenceProofs` (the page walk, the signal judge and CI submissions), `DashboardProofs` | theorems, for all constants |
| `DataLemmas` | what the proofs need of numbers and sequences: least and greatest members, induction over a set of numbers, `SetToSeq`, `FlattenSeq`, appending, finite images, sums over a function and over renamed elements |
| `MC...` and their `.cfg` | instances for TLC; `MCComponents` checks `RuleReplay`, `CiAssessment`, `SignalJudge`, `PageWalk` and `Dashboard`, which share no state, in one run: the variable `machine` says which of them moves |

### LlmSnapshot and the code

| Variable | Code |
|---|---|
| `table`, `lock` | `_LLM_SNAPSHOT_LOCKS` and the lock object each coroutine holds a reference to; `LockIds` are object identities, so "the same lock" and "a new lock for the same key" differ |
| `pc`, `req`, `draft` | a coroutine inside `generate_llm_snapshot`: where it awaits, its arguments, the documents it has built and not yet written |
| `conn`, `disk` | what the shared connection sees, uncommitted statements included; what a restart would find |
| `fold` | a coroutine inside `fold_staging_activity` with the rows it read at its start |
| `now` | the current ISO week |

A step is what runs between two awaits. `Post`, `PostCached`, `Cron` and `Deep`
are the callers with their own guards; `Enter`/`GetLock` the lock table with its
clearing; `ReadCache` the second look; `Load` the pause policy and the boundary;
`Judge` diff evidence and model, with its three outcomes; `ReadActivity` the
building of rows and warnings; `WriteActivity`, `WriteWarning`, `WriteSnapshot`
one `execute` each, followed by `Commit`; `Timeout` the cancellation at any of
these. A commit makes the whole connection durable, not the call's statement.

Abstracted: what the model said (a set of repositories its concerns cite), the
numbers in a row, prompt and evidence text; which of several activity rows of a
repository is "best" is a choice; a concern that names no mapped repository falls
back to one that is, so `cites` is the set of repositories whose rows are cited.
Locks are granted to any waiter, a superset of asyncio's FIFO order.

### ProjectRegistry and the code

| Variable | Code |
|---|---|
| `projects` | the `projects` table by slug: whose document it is, and its primary key |
| `boundaries` | the `boundaries` table in storage order, which decides ties in `boundary_at` |
| `issued` | primary keys handed out (`new_id()`), so a refresh by id can miss |
| `gate` | `_BootstrapGate`: who holds `_lock`, whether `_last_attempt` is recent |
| `pc`, `work` | a coroutine inside `_BootstrapGate.run` (`Readers`) or `trigger_discover_projects` (`Operators`): where it awaits, its listing and the organisations left |
| `edit` | a coroutine inside `create_boundary` with the version it read |
| `fold` | a coroutine inside `fold_people_portal_catalog` with the documents it read |
| `wipe` | the tables `SqliteStore.clear` has still to empty |
| `gitea` | the repositories Gitea holds, which change by themselves |

`Arrive`, `Acquire`, `Recheck` are the gate; `ListOrgs` to `Finish` are
`discover_and_register_projects`, shared by readers and operators; `RequestEdit`,
`CloseOld`, `AddEdited` are `POST /boundaries`; `FoldStart` to `FoldDone` the
catalog fold; `StartReset`, `WipeTable`, `ResetGate` the admin reset. `Restart`
is a crash, or a redeploy on a host that keeps no disk. `add` and `replace` are
single steps here. The organisations are listed at one instant and visited in any
order, a superset of Gitea's. Dates are 0 (`BOUNDARY_EFFECTIVE_FROM`) to the
largest day of the instance.

### CumulativeCheckpoint and the code

| Variable | Code |
|---|---|
| `checkpoints` | the `cumulative_checkpoints` rows of one project by week (the unique index); a row is a `CumulativeCheckpointDocument` |
| `verdicts` | the weeks with an LLM snapshot on file: `SnapshotLedger`'s promise for this project |
| `issued` | primary keys handed out |
| `life` | which life of the lock table (`_cumulative_lock`) a lock comes from; two calls share a lock when week and life agree |
| `pc`, `req`, `draft` | a coroutine inside `generate_cumulative_checkpoint`: where it awaits; what it settled before the lock; what it gathered since |
| `now` | the current day |

`Request` is all that comes before the wait for the lock, `Acquire` the lock,
`Hit` the return of the row on file, `Plan` the choice of prior, coverage and deep
weeks, `JudgeWeeks` the verdicts of the deep weeks, `Sweep` the scan of the older
history of a cold call with the promotion of verdicts on file there,
`SynthesisFails` and `Write` the two ends of the synthesis, `Timeout` the
cancellation at any await. `VerdictStored` stands for everybody else who stores
verdicts.

Abstracted: the text and score of a synthesis; the judgements of the deep weeks
are one step, because they touch different weeks and meet others only in the
ledger, which `LlmSnapshot` is about; settings are counted in weeks and, for the
time to live, in days. Two fields of a row are history of the model: `covers` (the weeks looked
at for it) and `blind` (it says "no history" although a judgement failed).

### RuleEngine, RuleReplay and the code

`HistoryByProject` merges a project's rows of a week the way `_history_by_project`
does, metric by metric; `RuleInput` truncates the history at the week judged and adds
the empty placeholder; `PrepareMetric` is the window, the floor and the minimum;
`MvpRules` the six rules as data, `Evaluate` and `Compare` their early returns and the
comparison they share; `StatusForResults`,
`WarningEvidence` and `JudgeWeek` what the job makes of the results. Quantities are
integers: baselines are kept times 4 and thresholds times 16, so quartiles, halves and
the ratios 0.75 and 1.5 are exact. The code's history is a list sorted by week that holds
a week once; here it is a function from weeks to records, `Now` and `Before` are its last
and its earlier elements, and `Ordered` finds the k-th smallest value by counting.
`Verdict` is what a snapshot publishes of it: status, rules, the count of contributors of
the week and, once that count may be shown, their chart and its baseline.
Evidence is a set of observations, as the code reads it only as one. `RuleReplay` has `rows` and `judged`: a week brings
no row, one, or one of each of two repositories, and is judged as it arrives.

### Ingestion, WeeklyPipeline and the code

| Variable | Code |
|---|---|
| `staged` | the `InMemoryStagingStore` of each process: activity rows in the order staged, team sizes |
| `activity` | `repo_activity`, in rowid order |
| `warnings`, `snapshots` | what `generate_weekly_snapshots` stores |
| `jobs` | a job under way in a worker: its step, the windows left, its adapters, what the fold has decided to write, the rows and keys it judges from, the warnings not stored yet |
| `today` | the day |

`Start` to `SyncTonight` are `run_nightly_sync`; `SyncPastWeek` is a week of
`run_weekly_backfill`; `FoldReads`, `FoldWrites`, `FoldEnds` are
`fold_staging_activity`: one read of the buffer (`documents`) and of the table
(`known`), then a step for each document worth writing, in the order of `TakenBefore`,
which is what `existing` as it stands then makes of it; documents before it are passed
over in the same step, because `continue` does not await.
`ReadActivity` to `WeekEnds` are `generate_weekly_snapshots`. A pull has no await that
yields while it runs (its HTTP client is synchronous), so it is one step with at most
one failing fetch; every write to the database is a step. The directory is pulled with a
set of troubles (`Pulls`): the list of teams fails, some teams' records are refused, or the
list of projects fails; what was read is staged all the same. Sizes are looked up in one
map, `BuildTeamSizeResolver`, which holds project ids and repository names together, as the
code's dictionary does. `ProjectIds` looks for the slug alone: the map's ids are strings,
which the numbers Gitea gives never equal. `Repos` says what Gitea
holds on each day: what a pull sees depends on its window and, for open pull
requests, on the day it is made. `Crash` ends one process: its jobs and its staging
buffer are gone. The warnings of a snapshot are stored in any order, a superset of
the list's. Fields added for the properties: `seen` (the rows a snapshot was made
from) and `alone` (no other fold overlapped this one).

### CiAssessment, SignalJudge, PageWalk, Dashboard and the code

* `CiAssessment`: `NormalizeSpec` to `ExpectedChunks` turn a plan into chunks and pick
  those of the week that mention what the evidence names, or the words of a stock question
  when it names nothing (`Query`); `AssessProject` scores them; `FactTable`, `Valid`, `Reconcile`
  and `AssessWithModel` are the model's part, its proposals a set of the instance.
  `Refuse`, `LookUp`, `Assess`, `Store` are `_submit_ci_assessment` between its
  awaits; `saw` remembers how much was on file at the look-up. Where the code cuts a
  list of tasks at its limit, the model keeps any of that many.
* `SignalJudge`: one request a step, in the order of `week_evidence`: `CommitsListed`
  or `ListingFails`, `StatArrives` or `StatFails`, `Settle` (noise, small weeks, the
  cut), `DiffArrives` or `DiffFails` under the budget, then `JudgeWeekEvidence`. The
  sorted list of the code is a set, `queue`, from which `Turn` takes the largest: the
  order is total, so it is the list's. A hunk counts as one byte, and so does a file's header.
* `PageWalk`: `Request` is a turn of the loop, `Response` the server, in four styles,
  with a cap on the page size; `ItemComesIn` puts new items in front.
* `Dashboard`: `Goto` is the router with what it starts; `inFlight` holds the
  requests, each with the run that made it; `fanOut` what the workers of a run have
  not taken yet. Answers and failures come in any order, also to runs that are over.

### What the runs show

| Run | Instance | Shows |
|---|---|---|
| `verdict_core` | 1 project, 2 weeks (the second paused), 2 one-shot calls, no eviction | typing, mutual exclusion per project-week, nothing written by failed, cached or preview calls, only the weekly job freezes a running week, every call answered |
| `verdict_eviction` | the same with a table emptied at every second entry, and a fold | without any useful lock: uniqueness, immutability, inspectable evidence, durability of "computed", refinement of the ledger |
| `registry_bootstrap` | 1 organisation, 2 cold reads, 1 operator, 1 mishap (crash, ephemeral redeploy or reset) | cold reads register once, every read is served, an empty registry heals, rediscovery repairs a project without a boundary |
| `registry_versions` | 1 organisation whose repository comes and goes, 2 edits, 1 operator, the catalog fold, 4 days | edits do not rewrite the days before them; discovery never displaces a mapping somebody made |
| `registry_reversioning` | 2 organisations with one slug, 2 repositories, 1 operator | violation: "only re-versioned when its repo set actually changed" |
| `checkpoint_core` | 2 calls, 3 weeks of 2 days, the lock table not emptied | final means over, final stays final, sound chains no longer than the rebuild depth, increments without a gap, sources on file |
| `checkpoint_rebuild` | 1 call at a time, 5 weeks | violation: the sweep happens whenever there is no prior "to build on" |
| `checkpoint_frozen` | 1 call at a time | violation: an "insufficient data" answer after failures is not "cacheable" |
| `weekly_pipeline` | 2 processes, 2 jobs of any kinds, 2 organisations that share a repository, 2 weeks of 2 days, 1 failure, 1 midnight | snapshots cite stored warnings; a run that ends covers its weeks; scored weeks saw everything of the week judged; team sizes, also of a directory pulled in part, reach the first night's rows; folds move forward; "ok" means complete |
| `components` | five machines, see below | the rule engine, CI submissions, the signal judge, the page walk and the browser |
| `silence_unflagged` | a backfill of 4 weeks of 7 days, the last ones silent | violation: "Flag a current inactivity gap" |
| `same_named_repos` | 2 organisations, each with a repository `web` | violation: ids keep "same-named repos in different orgs" apart |

Bounds: two calls are enough for every race between a caller and another one,
because calls interact only through the lock of a key, the key's rows and the
shared commit, each of which involves two parties. `LockCap` stands for 256; with
`LockCap = 0` the table is emptied whenever it holds anything, which needs no third
call to fill it. Two weeks give a finished and a running week, and the roll-over
between them. One repository suffices: repositories never meet except in
`cites`, and an uncited and a cited one are both covered by one repository and
the empty set. Calls are one-shot, so every behaviour ends and deadlock is not
checked.

For the registry: two reads are the race the gate is about, one mishap interrupts
each of its steps once (`MaxMishaps`), and `MaxDocuments` bounds how many documents
may exist before a new writer no longer sets out; it cuts no writer short. It is
never reached in `registry_bootstrap`, where it would get in the way of liveness.
Two edits and a fold are all pairs of writers of a version; four days give one
before, between, at and after the dates of two edits.

For the checkpoints: three weeks hold a row, the row built on it and the rebuild of
a chain that has reached its depth (`RebuildDepth`, `DeepTail` and `Ttl` are 1, so
each limit is met); two days a week tell the Monday from the rest, and days
pass under a waiting call, so a week ends between a request and its write.
`MaxClears` is how often the lock table is emptied; 0 in the runs, which is what
`FinalStaysFinal` and `ChainIsSound` need. No liveness is claimed here.

For the pipeline: two jobs in two processes are every pair that can race (fold
against fold, judgement against judgement, either against a pull), and a job that
starts after another has ended meets what it left. Two weeks give a week judged
and a baseline, the two organisations share a repository, one team is below the
floor, and each kind of failure (listing, pull requests, reviews, a record that does
not validate, the directory, a process) occurs at most once a run (`MaxFailures`). The
directory comes whole, without its teams or without the record of the team that counts
(`Pulls`); without its projects alone it stages what a whole one does and says "partial",
which these two cover.
`MaxJobs = 2` and `EndDay` bound starts and midnights. Jobs end and calls are
bounded, so deadlock is not checked here either.

For the components. Rules: four weeks with a window of two, so weeks leave it; three
levels, zero included, of one metric alone or of all six together; teams at and below
the floor; charts of three weeks (`SeriesWeeks`, 8 in the code), so weeks leave them too. CI: two requests, commits that share a plan, a plan that is refused,
evidence of eight kinds, one of which names nothing, and five answers of the model. Signals: no
repository, more repositories and commits than are read, noise, merges, chores, a
budget that cuts a diff, and any fetch failing. Pages: listings of up to seven items,
pages of up to three, servers in every style with caps below and above that, a limit
of four requests. Browser: two projects, one of them with nothing on file, two
dates, one worker, four runs of progress (`MaxProgressRuns`) and one click a row.
Larger instances of the browser (three projects; five runs) pass as well.

Fairness of the verdict (`FairSpec`): weak on the steps of a call that runs, since the loop runs
ready coroutines and the HTTP clients time out by themselves; strong on acquiring
a lock, since `asyncio.Lock` wakes its waiters in order. None on requests,
timeouts, crashes, the fold or the calendar. Of the registry: weak on a
discovery's steps, on the answer or failure of a listing (the HTTP client times
out) and on the end of the cooldown (time passes), strong on the gate's lock.
That reads keep coming, operators return and Gitea answers now and then are
hypotheses of `AnEmptyRegistryHeals` and `RediscoveryRepairs`, written in the
properties, not part of the specification. The other modules state no liveness: a job
that fails is started again by an operator, and requests of a browser need not be
answered.

### What is proved

`LlmSnapshotProofs` proves, for any projects, weeks, repositories, calls and lock
cap, and from the named assumptions of `LlmSnapshot` only:

* `TypeCorrect`: `Spec => []TypeOK`.
* `LockExcludes`: `Spec => []OneCallerComputes`, when the table fits
  (`TableFits`: finitely many keys, no more than `LockCap`). The invariant
  `LockInv` says that an active call's lock is the table's entry for its key, and
  that two holders have different locks; mutual exclusion alone is not inductive
  because a newcomer could be handed another lock. The hypothesis is needed: with a
  table that is emptied, TLC has two callers inside for one key.
* `DurableVerdictsAreInspectable`, `VerdictsAreUnique`, `DurableVerdictsStay`,
  `RefinesLedger`: the store, without any assumption on the locks. The invariant
  `StoreInv` joins: the disk is contained in the connection; one verdict per key;
  both views inspectable; and, for a call about to write (`DraftInv`), every
  citation of its draft is backed by a warning already written or still planned,
  whose row is likewise on file or still planned. The last part is what makes the
  write order (rows, warnings, snapshot) sufficient.

`CumulativeCheckpointProofs` proves, for any calls, calendar, mapping dates and
settings, from the named assumptions of `CumulativeCheckpoint` only:

* `FinalWeeksAreOver`: `Spec => []FinalMeansOver`. `RequestInv` carries the argument:
  while a call is under way, its week is no later than the week that was running
  when it set out, and that week's Monday was past. A final row is one whose week is
  not the running one, hence earlier, hence over.
* `SourcesAreFiled`: `Spec => []SourcesAreOnFile`; `SourcesInv` says it of the sources
  a call has gathered as well, which needs verdicts never to be withdrawn.
* `FinalIsKept` (`Spec => FinalStaysFinal`) and `ChainsAreSound`
  (`Spec => []ChainIsSound`), both when the lock table is not emptied (`Unemptied`).
  `HoldersInv` says that holders of locks work for different weeks and that a call past
  its look at the cache works for a week without a final row; `ChainInv` that the
  prior a call has planned with is still the row on file, which rests on finality.
  The hypothesis is needed: with `MaxClears = 1` in `Checkpoint.cfg`, TLC has a call
  that set out in a running week overwrite the final row another one has filed.

`ChainIsSound` bounds the chain too: a row's depth is between 0 and `RebuildDepth`.
`ShapeHolds` supplies what the steps need of the state's form (a draft is a record,
a row is filed under its own week).

`IncrementsAreWhole` (`Spec => []IncrementsLeaveNoGap`) needs no such hypothesis. A call
plans its coverage from a prior that may be replaced before it writes; `RowIds` says that
every row has an id of its own, so a replaced prior is no longer found by its id, and
`GapInv` that what a call has planned covers the weeks since the prior it names, if that
row is still on file.

Of the verdict, `TrailInv` gives three more theorems: `FailuresLeaveNothing`
(`[]NothingWrittenUnlessComputing`), `RunningWeeksAreCrons`
(`[]OnlyCronFreezesARunningWeek`) and `ComputedSurvives` (`[]ComputedIsDurable`). It
follows a call from its door to its last commit: who wrote a document is past its
judging or its end, what a caller checked when it came in holds of the verdict it
writes, and a call said to have computed has its verdict on disk. The calendar moves
meanwhile; that is why the checks at the door need an invariant.

`WeeklyPipelineProofs` proves, for any repositories, boundaries, jobs, processes, rule sets
and failures, from `PipelineAssumption` (one Gitea, whose ids tell repositories apart,
is one of its conjuncts, since a row names its repository by id; so is that sizes and the
places of boundaries in a listing are numbers):

* `SnapshotsAreBacked` (`PipelineSpec => []SnapshotsCiteStoredWarnings`). The property is
  not inductive: the snapshot's warnings were stored steps earlier, by a job others
  overlap. `WarningsComeFirst` says of every job that is saving that what its draft cites
  is stored or still to be stored by itself; `JobsAreJobs` that a job keeps the fields of
  `NoJob`, which the steps that change some of them need. That `warnings` only grows
  carries it through overlaps and crashes.
* `CompletedRunsCover` (`[]CompletedRunCovers`). `RunsCover` splits the weeks of a job into
  those ahead, the one at hand and those done, and the projects of the week at hand into
  left, in hand and done; a snapshot that loses the race on the unique index is there
  because the winner's is.
* `UndisturbedFoldsAdvance` (`PipelineSpec => UndisturbedFoldsMoveForward`). `OnFileInv`
  tells rows apart by identity and key; `HandInv` gives the documents in hand their keys
  and stamps; `AloneInv` says that a fold nobody overlaps knows every row on file and that
  none is newer than it thinks. `StampsInv` (stamps of jobs are never shared) makes the
  identity of a new row new.
* `ScoresSawEverything` (`[]ScoredWeeksSawEverything`). `PullStages` and `PulledIsTrue` say
  what a pull makes: a row whose completeness is 100 has the numbers of that moment, since
  no fetch that could have changed them failed. `SoundInv` carries that from the buffer
  through a fold's hands to the file: no document is of a stamp not yet given, each has 75
  or 100, and what 100 says stays true. `SightInv` carries it on through the rows a
  judgement read, its draft and its snapshot; `ScoresAreComplete` and `CurrentIsOfItsRows`
  show that a score needs every row of the week at 100.
* `OkNightliesAreComplete` (`PipelineSpec => OkMeansComplete`), with the restriction the
  property states: owned repositories of organisations that some version names, since
  only those are asked. `OwedInv` follows each row owed: staged when the fold begins
  (`TonightOwesNothing`), then in hand or known to be on file at its stamp or a later
  one, and what an undisturbed fold knows is on file. A second document of the same key
  and stamp is passed over; `SoundInv` says that whichever row is there is complete,
  because every row of a nightly that reports "ok" is.
* `RowsKnowTheirTeams` (`[]SizesReachTheRows`), for rows whose names the property says
  cannot be confused (`NamesApart`). `EntriesAreShown` is about the one map of sizes: an
  entry no project's name covers up is the largest of the repository's teams, and an entry
  of a project is the size of one of its own versions. `SizesInv` says that a buffer holds
  true sizes only, that a nightly whose directory came whole has them all when it reads
  the boundaries, that its adapters are built from them all, and that the rows of its
  stamp in the buffer were gated with them; stamps tell them from another job's rows.

`ProjectRegistryProofs` proves, from the named assumptions of `ProjectRegistry`:

* `RegistryIsWellTyped` (`Spec => []TypeOK`): the form of every document, coroutine and
  pending edit, and no more mishaps than `MaxMishaps`. The number of documents has no
  bound here; `MaxDocuments` only keeps new writers from setting out.
* `ColdReadsShareOneBootstrap` (`[]ColdReadsRegisterOnce`) for any number of reads,
  operators, resets and restarts, under the hypotheses the run `registry_bootstrap` has
  too: Gitea stands still and holds the same for organisations that share a slug, nobody
  edits, and exports are empty. `AloneAtTheGate` is mutual exclusion of the gate;
  `ColdInv` says that all boundaries are alike and that a read about to add one finds none.
  Without the first hypothesis a second read rightly adds a version.
* `DiscoveryYields` (`Spec => DiscoveryYieldsToMappings`): a version dated day 0 and stored
  last is never the newest of several.
* `EditsKeepThePastIntact` (`Spec => EditsKeepThePast`), for any number of editors, dates,
  discoveries, folds, resets and restarts. `IdsInv` says that primary keys are never reused
  and that no document changes project or start; `ReadsInv` that what a writer has read
  agrees with what is on file on these; `CoverInv` that on every day an edit's stale copy
  would give back, the version is still in force, or a later one is, or another edit is
  about to add one. The proof failed for the property as it first stood: when
  two edits have read one version, the stale close of the one with the later date gives
  back the days between the dates until the other has added its own version. TLC had
  not met it on three days; the run has four now, and the property names the exception
  (`AnotherIsHalfWay`).

`JudgementProofs` proves of the rules, for any history, levels, sizes and window, the five
invariants of `RuleReplay` (`ReplayAssumption`: levels and sizes are numbers of contributors
and members). `RuleInv` is the strengthening: rows are finitely many, of weeks
that were judged, with an id each, and a replay agrees with what was found.

* `ReplayIsRepeatable` (`RuleSpec => []ReplayAgrees`). `NothingAheadIsRead`: rows of later
  weeks leave the history up to a week as it was.
* `OldHistoryIsForgotten` (`[]OldHistoryDoesNotMatter`). `KeptWeeksAreTheWindow`: take away
  the rows of weeks outside the window, and the window of what is left is the same weeks
  with the same records; `WindowDecides` that the rules see nothing else.
* `WarningsCiteEnough` (`[]WarningsAreExplained`). `EvidenceIsOfTheCompared`: a warning cites
  the week judged and the weeks its rule compared it with; `ComparedDecides` that the rows
  of these alone give the same result.
* `FloorHolds` (`[]HiddenCountsDecideNothing`): with any other counts in place of the hidden
  ones, each status, warning and published count stands, and a judgement whose own week
  publishes no count stands altogether. The chart of a week that does publish one is left
  out, since it shows the hidden counts of earlier weeks (section 3). The rows with other
  hidden counts are renamed rows; `DisguisedWeek` follows the counts, sums, unions and maxima
  of a week through the renaming (`SumOfTheRenamed`, `CountOfTheRenamed`), so that its record
  differs in a count of contributors whose team size is below the floor, or in nothing.
  `EvaluateAlike` goes through the rules: those that read contributors keep no such week, and
  the others do not look. `ChartsAlike` and `VerdictAlike` do the same for what is published.
* `WarningsFollowDecline` (`[]NoAlarmWithoutDecline`): a week with a warning is worse than some
  other week on record up to it, which is a little less than some week of its baseline. A threshold lies beyond the baseline,
  and the baseline, median or quartile, between the least and the greatest value it is taken
  of (`BaselineWithin`), because the k-th smallest value is one of the values
  (`OrderedIsOneOfThem`). `TriggersHaveMoved` puts the two together for a rule that falls
  and one that rises.

`EvidenceProofs` proves of the page walk `WalksAreComplete` (`PageSpec =>
[]PagesAreComplete`), for any listing, page size, server cap and limits that satisfy
`PageAssumption`: `SoFarComplete`
says that the items the walk began with that are on pages before the cursor are collected,
`SoFarOnce` that they are once, wherever new items push them. And of the signal judge
`BudgetGoesToTheLargest` (`SignalSpec => []BudgetIsSpentOnTheLargest`) and
`KeptSignalsAreWeighed` (`[]KeptSignalsAreEarned`), for any limits and histories that satisfy
`SignalAssumption` (limits, sizes and counts are numbers, and a hash names one commit).
`Spent` is the strengthening: every commit shown is larger than every one queued, what is
neither shown nor queued has its reason, and the sum shown is within the budget. For a kept signal, `Accounted` says that a
commit is noise, or among the substantive ones, or hidden by a fetch among the errors, `Overlooked`
that this holds of everything read so far, and `Founded` what a quiet signal and the
model's rest on. A week of which no repository could be listed may still be kept
as quiet, with its errors on the list (section 3).
`TurnIsLargest` says that the largest exists, `SumExtends` of `DataLemmas` what one more
diff adds. Reasons are kept because a full budget ends the queue: once it is the reason,
nothing more is shown. Of CI submissions it proves, for
any batches, proposals and requests:

* `SubmissionsAreIdempotent` (`CiSpec => []DuplicatesOnlyWhenOverlapping`).
  `LookedBefore` is the strengthening: a request under way has missed every assessment
  of its commit among the first `saw`, and these stay where they are, since `filed` is
  only appended to; `AnswersExist` that an answer names an assessment on file.
* `EnrichmentNeverSoftens` (`CiSpec => []EnrichmentIsFailClosed`), from `CiAssumption` (a
  plan has finitely many chunks). `ReconciledIsWorse` is about `Reconcile`, and
  `EngineIsTraceable` about the engine it starts from: whatever is not a pause cites
  something, and whatever is at risk has a blocker. The latter is arithmetic: deductions
  that name no blocker take at most 20 of 100 points (`PointsTaken`), so a score below 55
  has one. `SumOfPoints` bounds the sum over a set of deductions (`SumIsBounded`);
  `OwnAnswers` carries the result from the model's answer to the filing.

`DashboardProofs` proves `ProgressFollowsTheDate` (`[]ProgressIsForTheChosenDate`) and
`WaitsAreAnsweredFor` (`[]EveryWaitHasOneRequest`) for any projects, dates, workers and
runs. `DashInv` is their common strengthening, which TLC checked as an invariant of the
instance of `components` before it was proved: no request or queue is of
a run newer than the current one, those of the current one ask for its date and scope,
and every entry that waits is in flight or queued exactly once.

**Model-checked only.** Liveness (`EveryCallIsAnswered`, `EveryReadIsServed`, `AnEmptyRegistryHeals`,
`RediscoveryRepairs`) and `ENABLED` are out of the prover's reach. So are the induction
theorems of the library, which take an operator; `SetInduction` of `DataLemmas` replaces
them where a set of numbers can take the predicate's place, which is how `FlattenSeq` and
the sum over a set are reasoned about. The violation runs refute what they state, and no
theorem is about them.

## 3. Divergences between documents and code

Shown by a run:

* `discovery.py`, `admin.py` and the repository's README say that a boundary is
  re-versioned only when its repositories changed since the last run. All versions
  of a discovery start on the same day and the oldest wins, so after a change the
  new version never comes into force and each run appends it again
  (`registry_reversioning`). `DiscoveryYieldsToMappings` is the good side of the
  same rule.
* The docstring of `generate_cumulative_checkpoint` sweeps the older history "only
  when there's no recent-enough prior checkpoint to build on". When the chain has
  reached its rebuild depth no prior is built on, but the call still counts as warm
  and nothing is swept (`checkpoint_rebuild`).
* The same docstring says a failure must not be treated as a cacheable
  "insufficient data" result. When all judgements fail and there is nothing to
  sweep, `judge_project_cumulative` answers `no_history_checkpoint()`, which is not
  marked as a failure, and it is filed as final (`checkpoint_frozen`).
* `rules.py` flags "a current inactivity gap", and `/rules` describes it. The days
  since activity are counted inside the week that was pulled: a silent week has no
  value and is omitted, and a week with a commit has less than seven, which is the
  least threshold. No week ever raises it (`silence_unflagged`).
* `ingestion.py` wants boundaries keyed by repository id so that same-named
  repositories do not collide. The resolver map has names too, for all organisations,
  and the look-up asks for the name only: the ids it holds are strings, which the numbers
  Gitea gives never equal (`same_named_repos`). The second of the two rows has the
  synced_at of the first, so the fold also drops it.

Seen while modelling; some are in the model, none is stated as a property:

* `resolvers.py` (156) gives a shared repository the size of its largest owning team. Its
  map holds project ids and repositories together, and a project's own entry (153)
  replaces what a repository of that name has taken from the versions before.
  `SizesReachTheRows` therefore speaks of rows whose names cannot be confused.
* The repository's README (187) omits contributor counts and series below the floor
  "entirely". Only the team size of the week judged is asked (`jobs.py:839`); once it
  passes, chart and baseline show the counts of earlier weeks that were below.
  `HiddenCountsDecideNothing` leaves that chart out.
* `signal_llm.py` (60, 424) says that a signal is a failure, not to be cached, when too much
  evidence failed to fetch. When no repository could be listed, there is no commit that
  could count as failed: the week is answered as quiet and frozen. The same happens if the
  metadata of some commits failed and the others are noise. `KeptSignalsAreEarned` asks
  of a quiet week no more than that its failures are on the list of errors.
* The table of `_llm_snapshot_lock` is emptied at 257 entries, held locks included,
  so "at most one OpenAI call" (`jobs.py:1022`) has an exception; and
  `generate_llm_snapshot` and a fold can both write a week's row, where
  `jobs.py:1190` says there is exactly one. Both happen in `verdict_eviction`.
* Of overlapping folds the later one may put older documents over newer ones and add
  second rows; a later fold repairs the first, not the second.
* `pages()` follows links without advancing its own counter: after a full last page
  reached by a link it starts over at page 2 and collects items twice
  (`LinkedLastPageIsFull`).
* `app.js`: opening one project empties the list and leaves its date marked as
  loaded, so coming back finds one project (`ListWasNarrowed`); "Try again" after a
  failed first load never starts what the route was waiting for
  (`RouteLoadsWereLost`); workers of a superseded fan-out go on asking.
* CI: concurrent submissions of one commit are both filed, where the README calls the
  route idempotent; progress 7 to 14 days old gives WATCH even with a score that
  otherwise means AT_RISK, so older progress can give a better status; the model's
  score is merged without validation.
* Rule job: any one failed check leaves completeness at 75, below the 80 a score
  needs; the baseline's weeks are not asked for theirs; a newer, partial pull replaces
  a complete row; CLEAR is given when no rule had its minimum of weeks.
* Backfill: it never pulls the directory, and the buffer is in memory, so in a process
  of its own it sees no team sizes; weeks up to today are judged, the running one
  included; pull requests open today count as open then.
* The nightly attributes past weeks by today's boundary, the backfill by the week's.

## 4. Plan

Done: the verdict, the registry, the checkpoints, the rule engine, the pipeline, CI
submissions, the signal judge, the page walk and the browser, with the proofs above.
Left, in order of importance:

1. The composition of the checkpoint with the detailed verdict, in place of the
   abstract ledger.
2. The profile view's pair of requests; evidence rows of a repository.

Runs stay small (two or three actors, two or three weeks); the abstract ledger
takes the place of the detailed verdict where only its promise matters.

## 5. Not modelled, and why

HTML, CSS and rendering in `app.js`, its profile view and its calendar, which no view
opens any more; prompt texts and JSON schemas, and `decompose_spec`, which makes
a plan of free text and stores nothing; HTTP parsing and retries inside `httpx`; branches, issues and
evidence rows of ingestion and the chart of open pull requests, which no decision reads; feedback, which is
appended and shown; authentication (a no-op in this build); demo data; the purge
script; deployment files. They hold no protocol state, or their content is data no
property tells apart. SQLite's lock between the service and a script is not modelled:
each statement of the pipeline is atomic, and a job that cannot write is one that
fails.
