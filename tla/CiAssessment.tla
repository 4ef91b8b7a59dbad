------------------------------ MODULE CiAssessment ------------------------------
(***************************************************************************)
(* CI submissions: a committed plan and one commit's evidence are scored   *)
(* by a deterministic engine, a language model may worsen the result, and  *)
(* the assessment is filed once per commit.  Requests for the same commit  *)
(* may run side by side, and the process may restart between their steps.  *)
(*                                                                         *)
(* Texts are tokens.  A chunk of the plan is [kind, content, from, to,     *)
(* about], `about' being the tokens retrieval searches; evidence is a      *)
(* record of the fields the score depends on; what may be cited is a pair  *)
(* <<"ci", field>> or <<"spec", chunk>>.                                   *)
(***************************************************************************)
EXTENDS Aggregates

CONSTANTS
    Batches,              \* sets of [project, sha, plan, evidence] submitted together
    Proposals,            \* what the model may answer
    Requests,             \* the requests that may be in flight
    TaskLimit,            \* the tasks kept in an assessment
    MaxAssessments        \* bound: how many assessments get filed

MinSignalWeek == 2
ProgressWatchDays == 7
ProgressRiskDays == 14
LastPlanWeek == 52

-------------------------------------------------------------------------------
(* The committed plan *)

Chunk(kind, content, entry) ==
    [kind |-> kind, content |-> content, from |-> entry.from, to |-> entry.to,
     about |-> {content, entry.title} \cup entry.criteria \cup entry.artifacts]

EntryChunks(entry) ==
    {Chunk("milestone", m, entry) : m \in entry.milestone} \cup {Chunk("task", t, entry) : t \in entry.tasks}
      \cup {Chunk("acceptance", c, entry) : c \in entry.criteria}
      \cup {Chunk("artifact", a, entry) : a \in entry.artifacts}

\* The chunk of a line: its week is that of the last heading above it, 1 before any.
LineChunk(lines, i) ==
    LET above == {j \in 1..(i - 1) : lines[j].kind = "heading"}
        week == IF above = {} THEN 1 ELSE lines[Max(above)].week
        title == IF above = {} THEN "Project plan" ELSE lines[Max(above)].content
    IN  [kind |-> lines[i].kind, content |-> lines[i].content, from |-> week, to |-> week,
         about |-> {lines[i].content, title}]

PlanChunks(plan) ==
    IF plan.format = "yaml" THEN UNION {EntryChunks(e) : e \in plan.weeks}
    ELSE {LineChunk(plan.lines, i) : i \in {j \in DOMAIN plan.lines : plan.lines[j].kind # "heading"}}

\* A plan is a file: it has finitely many chunks.
ASSUME CiAssumption == \A batch \in Batches : \A c \in batch : IsFiniteSet(PlanChunks(c.plan))

\* A plan without a chunk, or with a week out of range, is refused.
NormalizeSpec(plan) ==
    LET chunks == PlanChunks(plan)
    IN  IF chunks = {} \/ \E c \in chunks : ~({c.from, c.to} \subseteq 1..LastPlanWeek)
        THEN [ok |-> FALSE, chunks |-> {}] ELSE [ok |-> TRUE, chunks |-> chunks]

\* The week's chunks that mention anything the query asks for; all of the
\* week's when none does.  (The 24 best are kept; plans here have fewer.)
RetrieveChunks(chunks, query, week) ==
    LET ofWeek == {c \in chunks : c.from <= week /\ week <= c.to}
        mentioned == {c \in ofWeek : c.about \cap query # {}}
    IN  IF mentioned # {} THEN mentioned ELSE ofWeek

\* Evidence that names nothing is searched for the words of a stock question;
\* a number of one digit is too short to be a search term.
StockTerms(week) ==
    {"week", "milestone", "tasks", "acceptance", "artifacts"} \cup (IF week > 9 THEN {ToString(week)} ELSE {})

Query(e) ==
    LET named == e.changed \cup e.milestones \cup e.criteria \cup e.artifacts
    IN  IF named # {} THEN named ELSE StockTerms(e.week)

ExpectedChunks(chunks, e) == RetrieveChunks(chunks, Query(e), e.week)

Contents(chunks, kind) == {c.content : c \in {x \in chunks : x.kind = kind}}

-------------------------------------------------------------------------------
(* The deterministic assessment *)

MissingCriteria(expected, e) == Contents(expected, "acceptance") \ e.criteria

\* What costs points: [field cited, points, whether it is also a blocker].
Deductions(expected, e) ==
    LET cost(holds, field, points, blocks) ==
            IF holds THEN {[field |-> field, points |-> points, blocks |-> blocks]} ELSE {}
        due == e.due # Absent /\ e.milestones = {}
        missing == MissingCriteria(expected, e)
    IN  cost(e.age >= ProgressRiskDays, "progress_age_days", 30, TRUE)
        \cup cost(ProgressWatchDays <= e.age /\ e.age < ProgressRiskDays, "progress_age_days", 15, TRUE)
        \cup cost(due /\ e.week > e.due, "milestone_due_week", 25, TRUE)
        \cup cost(due /\ e.week = e.due, "milestone_due_week", 10, FALSE)
        \cup cost(e.tests_failed > 0, "tests_failed", 30, TRUE)
        \cup cost(e.tests_total = Absent, "tests_total", 10, TRUE)
        \cup cost(e.coverage # Absent /\ e.coverage < 60, "coverage_pct", 20, TRUE)
        \cup cost(e.deploy = "failed", "deploy_status", 25, TRUE)
        \cup cost("failed" \in e.checks, "check_results", 20, TRUE)
        \cup cost(missing # {}, "acceptance_criteria_refs", Least(25, 5 * Cardinality(missing)), TRUE)
        \cup cost(e.scope > 3, "scope_change_count", 15, TRUE)
        \cup cost(e.docs = "unchanged" /\ Contents(expected, "artifact") # {}, "docs_updated", 5, FALSE)

Result(status, score, blockers, tasks, cites) ==
    [status |-> status, score |-> score, blockers |-> blockers, tasks |-> tasks, cites |-> cites]

Cite(fields) == {<<"ci", f>> : f \in fields}

NothingSubmitted(e) == e.changed = {} /\ e.tests_total = Absent /\ e.checks = {} /\ e.milestones = {}

StatusFor(expected, e, score) ==
    CASE e.age >= ProgressRiskDays -> "at_risk"
      [] ProgressWatchDays <= e.age /\ e.age < ProgressRiskDays -> "watch"
      [] e.age < ProgressWatchDays /\ score < 55 -> "at_risk"
      [] OTHER -> IF score < 80 \/ MissingCriteria(expected, e) # {} \/ e.milestones = {} THEN "watch" ELSE "clear"

TotalPoints(costs) == SumFunction([d \in costs |-> d.points])

Scored(expected, e) ==
    LET costs == Deductions(expected, e)
        score == 100 - TotalPoints(costs)
        status == StatusFor(expected, e, score)
        cites == {d.field : d \in costs} \cup (IF e.milestones # {} THEN {"milestone_refs"} ELSE {})
    IN  Result(status, Greatest(0, score), {d.field : d \in {x \in costs : x.blocks}},
               Contents(expected, "task") \ e.criteria,
               Cite(IF status # "clear" /\ cites = {} THEN {"commit_sha"} ELSE cites))

AssessProject(chunks, e) ==
    LET expected == ExpectedChunks(chunks, e)
        tasks == Contents(expected, "task")
    IN  CASE e.pause -> Result("planned_pause", 100, {}, {}, {})
          [] ~e.pause /\ e.week < MinSignalWeek ->
                Result("insufficient_data", 0, {"expected_week"}, tasks, Cite({"expected_week"}))
          [] ~e.pause /\ e.week >= MinSignalWeek /\ (expected = {} \/ NothingSubmitted(e)) ->
                Result("insufficient_data", 0, {"commit_sha"}, tasks, Cite({"commit_sha"}))
          [] OTHER -> Scored(expected, e)

-------------------------------------------------------------------------------
(* The model's proposal *)

\* What may be cited: every field as a fact, what is missing included, and the
\* week's chunks.
FactTable(expected, e) ==
    Cite({"changed_files", "tests_total", "coverage_pct", "deploy_status", "check_results", "milestone_refs",
          "acceptance_criteria_refs", "artifact_refs", "scope_change_count", "progress_age_days",
          "acceptance_gap", "progress_summary"})
      \cup Cite({f \in {"tests_passed"} : e.tests_total # Absent /\ e.tests_passed # Absent})
      \cup Cite({f \in {"tests_failed"} : e.tests_total # Absent /\ e.tests_failed > 0})
      \cup Cite({f \in {"milestone_due_week"} : e.due # Absent})
      \cup Cite({f \in {"artifact_gap"} : Contents(expected, "artifact") \ e.artifacts # {}})
      \cup {<<"spec", c>> : c \in expected}

Severity(status) == CASE status = "at_risk" -> 2 [] status = "watch" -> 1 [] OTHER -> 0

\* A citation the table does not hold, or a status that is not the model's to
\* give, makes the whole proposal unusable.
Valid(proposal, table) ==
    /\ proposal.status \in {"clear", "watch", "at_risk"}
    /\ \A b \in proposal.blockers : b.facts \subseteq table

\* The plan's own tasks follow the model's, up to the limit: which survive is
\* the model's order, so any choice of that size.
MergeTasks(proposed, planned) ==
    LET all == proposed \cup planned
    IN  IF Cardinality(all) <= TaskLimit THEN {all}
        ELSE {kept \in SUBSET all :
                /\ Cardinality(kept) = TaskLimit
                /\ Cardinality(kept \cap proposed) = Least(TaskLimit, Cardinality(proposed))}

\* The worse status, the lower score; a blocker that cites nothing is dropped,
\* and without one left the baseline's blockers and citations stand.
Reconcile_ModelOnly(baseline, proposal) ==  \* mutant: the baseline's citations are not kept
    {[baseline EXCEPT !.cites = UNION {b.facts : b \in proposal.blockers}]}
Reconcile(baseline, proposal) ==
    LET kept == {b \in proposal.blockers : b.facts # {}}
    IN  {Result(IF Severity(proposal.status) > Severity(baseline.status) THEN proposal.status ELSE baseline.status,
                Least(proposal.score, baseline.score),
                IF kept # {} THEN {b.text : b \in kept} ELSE baseline.blockers,
                tasks,
                IF kept # {} THEN UNION {b.facts : b \in kept} ELSE baseline.cites)
            : tasks \in MergeTasks(proposal.tasks, baseline.tasks)}

\* Every outcome of assess_project_llm: a policy state never meets the model,
\* and whatever goes wrong with the model leaves the baseline.
AssessWithModel(chunks, e) ==
    LET baseline == AssessProject(chunks, e)
        table == FactTable(ExpectedChunks(chunks, e), e)
    IN  IF baseline.status \in {"planned_pause", "insufficient_data"} THEN {baseline}
        ELSE {baseline} \cup UNION {Reconcile(baseline, p) : p \in {x \in Proposals : Valid(x, table)}}

-------------------------------------------------------------------------------
(* Requests *)

VARIABLES
    offered,              \* what CI submits in this run
    filed,                \* ci_assessments, in the order of their rowids
    request               \* where each request is

ciVars == <<offered, filed, request>>

Idle == [at |-> "idle"]

CiInit == offered \in Batches /\ filed = <<>> /\ request = [r \in Requests |-> Idle]

SameCommit(c, d) == c.project = d.project /\ c.sha = d.sha

\* The assessments on file for this commit; a request is answered with the first.
Existing_Latest(c) ==  \* mutant: compares the commit with the project's latest assessment only
    {i \in DOMAIN filed : /\ SameCommit(filed[i].commit, c)
                          /\ \A j \in DOMAIN filed : filed[j].commit.project = c.project => j <= i}
Existing(c) == {i \in DOMAIN filed : SameCommit(filed[i].commit, c)}

Move(r, to) == request' = [request EXCEPT ![r] = to]

Refuse(r) ==
    /\ request[r].at = "idle"
    /\ \E c \in offered : ~NormalizeSpec(c.plan).ok /\ Move(r, [at |-> "refused", commit |-> c])
    /\ UNCHANGED <<offered, filed>>

LookUp(r) ==
    /\ request[r].at = "idle"
    /\ \E c \in offered :
        /\ NormalizeSpec(c.plan).ok
        /\ \/ \E first \in Existing(c) :
              /\ \A i \in Existing(c) : first <= i
              /\ Move(r, [at |-> "answered", commit |-> c, with |-> first])
           \/ /\ Existing(c) = {}
              /\ Len(filed) < MaxAssessments
              /\ Move(r, [at |-> "assessing", commit |-> c, saw |-> Len(filed)])
    /\ UNCHANGED <<offered, filed>>

Assess(r) ==
    /\ request[r].at = "assessing"
    /\ \E a \in AssessWithModel(NormalizeSpec(request[r].commit.plan).chunks, request[r].commit.evidence) :
        Move(r, [at |-> "storing", commit |-> request[r].commit, saw |-> request[r].saw, found |-> a])
    /\ UNCHANGED <<offered, filed>>

Store(r) ==
    /\ request[r].at = "storing"
    /\ filed' = Append(filed, [commit |-> request[r].commit, saw |-> request[r].saw, assessment |-> request[r].found])
    /\ Move(r, [at |-> "answered", commit |-> request[r].commit, with |-> Len(filed) + 1])
    /\ UNCHANGED offered

Again(r) == request[r].at \in {"answered", "refused"} /\ Move(r, Idle) /\ UNCHANGED <<offered, filed>>

RestartServer ==
    /\ \E r \in Requests : request[r].at \in {"assessing", "storing"}
    /\ request' = [r \in Requests |-> Idle]
    /\ UNCHANGED <<offered, filed>>

CiNext == (\E r \in Requests : Refuse(r) \/ LookUp(r) \/ Assess(r) \/ Store(r) \/ Again(r)) \/ RestartServer

CiSpec == CiInit /\ [][CiNext]_ciVars

-------------------------------------------------------------------------------

\* A commit has a second assessment only when its requests overlapped: each had
\* looked before the other's was on file.  And a request is answered with an
\* assessment of its own commit.
DuplicatesOnlyWhenOverlapping ==
    /\ \A i, j \in DOMAIN filed : i < j /\ SameCommit(filed[i].commit, filed[j].commit) => filed[j].saw < i
    /\ \A r \in Requests :
        request[r].at = "answered" => SameCommit(filed[request[r].with].commit, request[r].commit)

\* What may be filed for a commit: at least as severe as the engine finds it,
\* scored no higher, a policy state as it is, and traceable.
FailClosed(c, given) ==
    LET chunks == NormalizeSpec(c.plan).chunks
        engine == AssessProject(chunks, c.evidence)
    IN  /\ Severity(given.status) >= Severity(engine.status)
        /\ given.score <= engine.score
        /\ engine.status \in {"planned_pause", "insufficient_data"} => given = engine
        /\ given.status # "planned_pause" => given.cites # {}
        /\ given.cites \subseteq engine.cites \cup FactTable(ExpectedChunks(chunks, c.evidence), c.evidence)
        /\ engine.status = "at_risk" => given.blockers # {}

\* Whatever the model proposes, an assessment on file is at least as severe as
\* the engine's, scores no higher, keeps the policy states as they are, and can
\* be traced: it cites something, and only facts of its own submission.
EnrichmentIsFailClosed == \A i \in DOMAIN filed : FailClosed(filed[i].commit, filed[i].assessment)
===============================================================================
