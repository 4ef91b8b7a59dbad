-------------------------------- MODULE Ingestion --------------------------------
(***************************************************************************)
(* What one pull of Gitea and of the team directory writes to staging, and *)
(* what the resolvers make of the boundaries before it.                    *)
(*                                                                         *)
(* A repository is a record [org, id, slug, commits, prs]; a commit is     *)
(* [day, by]; a pull request is [opened, ended, merged, review, by], the   *)
(* days Absent until they come.  An outcome says which of a repository's   *)
(* fetches failed: "fine", "prs", "reviews", "commits", or "record" for a  *)
(* repository whose record breaks the handler half-way.                    *)
(***************************************************************************)
EXTENDS Aggregates

CONSTANT Names    \* who -> the identity strings Gitea reports for them

Outcomes == {"fine", "prs", "reviews", "commits", "record"}

-------------------------------------------------------------------------------
(* Boundary and team-size resolvers, built before an adapter *)

EffectiveAt(boundary, at) == boundary.from <= at /\ (boundary.to = Absent \/ at <= boundary.to)

\* A boundary names a repository by slug and by id, and either key will do.
RepoKeys(ref) == {ref.slug, ref.id}
BoundaryKeys(boundary) == UNION {RepoKeys(ref) : ref \in boundary.repos}

\* key -> projects, over every version in force, excluded keys left out.
BuildBoundaryResolver(boundaries, at) ==
    LET inForce == {b \in boundaries : EffectiveAt(b, at)}
    IN  [key \in UNION {BoundaryKeys(b) \ b.excluded : b \in inForce} |->
            {b.project : b \in {x \in inForce : key \in BoundaryKeys(x) \ x.excluded}}]

\* Sizes is team -> size.  Repository keys and project ids share one map, filled
\* version by version as listed: a version sets its project's entry, then raises
\* those of its keys.  So what an entry has taken up to its name's last version
\* as a project is overwritten there, and from then on the largest counts.
BuildTeamSizeResolver(boundaries, sizes, at) ==
    LET sized == {b \in boundaries : EffectiveAt(b, at) /\ b.team \in DOMAIN sizes}
        Entries(b) == {b.project} \cup BoundaryKeys(b)
        Overwritten(name, b) == \E o \in sized : o.project = name /\ b.n < o.n
    IN  [name \in UNION {Entries(b) : b \in sized} |->
            Max({sizes[b.team] : b \in {x \in sized : name \in Entries(x) /\ ~Overwritten(name, x)}})]

\* _project_ids_from_mapping.  It goes on to look for the id, a number, which the
\* map's keys, strings all, never equal.
ProjectIds(resolver, repo) == IF repo.slug \in DOMAIN resolver THEN resolver[repo.slug] ELSE {}

\* _team_size: the entry of the slug, else of the only project.
TeamSize_ProjectOnly(sizes, projects, repo) ==  \* mutant: a shared repository has no size
    IF Cardinality(projects) = 1 /\ projects \subseteq DOMAIN sizes
    THEN sizes[CHOOSE p \in projects : TRUE] ELSE Absent
TeamSize(sizes, projects, repo) ==
    IF repo.slug \in DOMAIN sizes THEN sizes[repo.slug]
    ELSE IF Cardinality(projects) = 1 /\ projects \subseteq DOMAIN sizes
         THEN sizes[CHOOSE p \in projects : TRUE] ELSE Absent

-------------------------------------------------------------------------------
(* The team directory *)

\* A team below the floor is staged without its size.
TeamDocument(team, members) ==
    [team |-> team, size |-> IF members >= AggregationFloor THEN members ELSE Absent]

\* What one pull stages and reports.  Troubles is what goes wrong in it: "teams",
\* the listing, without which nothing is staged; "projects", their listing or one
\* of their records; or teams whose own records are refused.
SyncTeams(directory, troubles) ==
    [rows |-> {TeamDocument(t, directory[t]) : t \in IF "teams" \in troubles THEN {} ELSE DOMAIN directory \ troubles},
     status |-> IF troubles = {} THEN "ok" ELSE "partial"]

\* The newest row of a team wins; one without a size does not erase an older one.
SizesAfter(sizes, rows) ==
    [t \in DOMAIN sizes \cup {r.team : r \in {x \in rows : x.size # Absent}} |->
        LET new == {r \in rows : r.team = t /\ r.size # Absent}
        IN  IF new = {} THEN sizes[t] ELSE (CHOOSE r \in new : TRUE).size]

-------------------------------------------------------------------------------
(* One repository in one window *)

Seen(day, now) == day # Absent /\ day <= now
InWindow(day, window) == day # Absent /\ window.since <= day /\ day <= window.until

PrState(pr, now) ==
    CASE ~Seen(pr.ended, now) -> "open"
      [] Seen(pr.ended, now) /\ pr.merged -> "merged"
      [] OTHER -> "closed"

\* Open pull requests count in every window they are looked at from.
IncludeHistory(pr, window, now) == PrState(pr, now) = "open" \/ InWindow(pr.ended, window)

\* The numbers _sync_repo derives; what a failed fetch did not return counts as
\* nothing rather than as unknown.
RepoMetrics(repo, window, now, outcome) ==
    LET prs == IF outcome = "prs" THEN {} ELSE {p \in repo.prs : p.opened <= now}
        commits == IF outcome = "commits" THEN {} ELSE {c \in repo.commits : c.day <= now /\ InWindow(c.day, window)}
        open == {p \in prs : PrState(p, now) = "open"}
        reviewed == IF outcome = "reviews" THEN {}
                    ELSE {p \in prs : Seen(p.review, now) /\ InWindow(p.review, window)}
        days == {c.day : c \in commits}
        people == {c.by : c \in commits} \cup {p.by : p \in {x \in prs : IncludeHistory(x, window, now)}}
    IN  [active_days |-> Cardinality(days),
         days_since_activity |-> IF days = {} THEN Absent ELSE window.until - Max(days),
         oldest_open_pr_days |-> IF open = {} THEN Absent
                                 ELSE Max({Greatest(0, window.until - p.opened) : p \in open}),
         review_latency_days |-> IF reviewed = {} THEN Absent
            ELSE SumFunction([p \in reviewed |-> p.review - p.opened]) \div Cardinality(reviewed),
         merged_count |-> Cardinality({p \in prs : PrState(p, now) = "merged" /\ IncludeHistory(p, window, now)}),
         active_contributors |-> Cardinality(UNION {Names[who] : who \in people})]

\* A quarter for each of: listed, pull requests, commits, reviews.
Completeness(repo, now, outcome) ==
    CASE outcome \in {"prs", "commits"} -> 75
      [] outcome = "reviews" /\ {p \in repo.prs : p.opened <= now} # {} -> 75
      [] OTHER -> 100

\* The staged activity row, one for all owning projects.
SyncRepo(adapter, repo, window, now, stamp, outcome) ==
    LET projects == ProjectIds(adapter.boundary, repo)
    IN  [repo |-> repo.slug, gitea |-> repo.id, since |-> window.since, until |-> window.until,
         synced |-> stamp, projects |-> projects,
         complete |-> Completeness(repo, now, outcome),
         team_size |-> TeamSize(adapter.sizes, projects, repo),
         metric |-> RepoMetrics(repo, window, now, outcome)]

RepoFlags(adapter, repo, now, outcome) ==
    (IF ProjectIds(adapter.boundary, repo) = {} THEN {"unmapped_repo"} ELSE {})
      \cup (IF outcome = "record" THEN {"repo_record_invalid"} ELSE {})
      \cup (IF Completeness(repo, now, outcome) < 100 THEN {outcome} ELSE {})

\* One organisation in one window.  Fetch maps its repositories to outcomes and
\* is empty when the listing itself failed.
Sync(adapter, repos, window, now, stamp, fetch) ==
    LET listed == {r \in repos : r.org = adapter.org /\ r \in DOMAIN fetch}
        flags == IF DOMAIN fetch = {} THEN {"gitea_repo_fetch_failed"}
                 ELSE UNION {RepoFlags(adapter, r, now, fetch[r]) : r \in listed}
    IN  [rows |-> {SyncRepo(adapter, r, window, now, stamp, fetch[r]) : r \in {x \in listed : fetch[x] # "record"}},
         flags |-> flags,
         status |-> IF flags = {} THEN "ok" ELSE "partial"]

\* _merge_sync_results and the job's own status.
MergeStatus_Last(statuses) == statuses[Len(statuses)]  \* mutant: an early failure is forgotten
MergeStatus(statuses) ==
    CASE statuses = <<>> -> "not_configured"
      [] Range(statuses) = {"ok"} -> "ok"
      [] OTHER -> IF Range(statuses) = {"not_configured"} THEN "not_configured" ELSE "partial"

-------------------------------------------------------------------------------
(* Windows *)

\* Oldest first; the last is the week of `through'.
WeekWindows(weeks, through) ==
    LET latest == WeekOf(through)
    IN  [i \in 1..Least(weeks, latest + 1) |-> latest - Least(weeks, latest + 1) + i]

NightlyWindow(week, now) == [since |-> FirstDay(week), until |-> Least(now, LastDay(week))]
BackfillWindow(week) == [since |-> FirstDay(week), until |-> LastDay(week)]

-------------------------------------------------------------------------------
(* The fold's reading of a staged row: one document per owning project *)

DocumentsForRow(row) ==
    {[project |-> p, repo |-> row.repo, gitea |-> row.gitea, week |-> WeekOf(row.since), until |-> row.until,
      synced |-> row.synced, metric |-> row.metric, team_size |-> row.team_size, complete |-> row.complete] : p \in row.projects}

ActivityKey(document) == <<document.project, document.repo, document.week>>
===============================================================================
