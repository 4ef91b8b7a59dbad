------------------------------- MODULE RuleReplay -------------------------------
(***************************************************************************)
(* The rule engine over a growing history: a week's rows arrive, the week  *)
(* is judged, and every judgement already given is asked again.  A project *)
(* is judged week by week by the nightly job and all over again by a       *)
(* backfill, so what it is told must depend on the week, not on when the   *)
(* question is put.                                                        *)
(***************************************************************************)
EXTENDS RuleEngine

CONSTANTS
    RuleWeeks,            \* how many weeks arrive
    Levels,               \* the values a metric takes
    OtherLevel,           \* what a second repository reports
    TeamSizes,
    Foci                  \* the sets of metrics a history reports

\* Metrics are counts and days; a team's size may be unknown.
ASSUME ReplayAssumption ==
    /\ Levels \cup {OtherLevel} \subseteq Nat /\ TeamSizes \subseteq Nat \cup {Absent}

VARIABLES
    subject,              \* the project and the metrics its history reports
    rows,                 \* repo_activity
    judged                \* week -> what JudgeWeek answered then

ruleVars == <<subject, rows, judged>>

RuleSubjects == [project : {[id |-> "p", lifecycle |-> l, pauses |-> {}] : l \in {"active", "paused"}},
                 focus : Foci]

RowOf(repo, week, level, size) ==
    [id |-> <<repo, week>>, project |-> "p", repo |-> repo, week |-> week, team_size |-> size, complete |-> 100,
     metric |-> [m \in Metrics |-> IF m \in subject.focus THEN level ELSE Absent]]

RuleInit ==
    /\ subject \in {s \in RuleSubjects : s.project.lifecycle = "active" \/ s.focus = {"active_days"}}
    /\ rows = {}
    /\ judged = <<>>

Judge(found, week) == JudgeWeek(found, subject.project, week)

SizesThatMatter == IF "active_contributors" \in subject.focus THEN TeamSizes ELSE {AggregationFloor}

Arrive(found) ==
    /\ Len(judged) < RuleWeeks
    /\ rows' = rows \cup found
    /\ judged' = Append(judged, Judge(rows \cup found, Len(judged) + 1))
    /\ UNCHANGED subject

NoRowArrives == Arrive({})

OneRepoArrives ==
    \E level \in Levels, size \in SizesThatMatter : Arrive({RowOf("a", Len(judged) + 1, level, size)})

TwoReposArrive ==
    \E level \in Levels :
        Arrive({RowOf("a", Len(judged) + 1, level, AggregationFloor),
                RowOf("b", Len(judged) + 1, OtherLevel, AggregationFloor)})

RuleNext == NoRowArrives \/ OneRepoArrives \/ TwoReposArrive

RuleSpec == RuleInit /\ [][RuleNext]_ruleVars

-------------------------------------------------------------------------------
Judgements == DOMAIN judged

InputOf(found, week) == RuleInput(found, "p", subject.project.lifecycle, week)

\* Asking again after later weeks arrived answers as it did then: a backfilled
\* or replayed week neither looks ahead nor disagrees with the night it was
\* first judged.
ReplayAgrees == \A w \in Judgements : Judge(rows, w) = judged[w]

\* A warning can be checked from what it cites: the weeks in its evidence, and
\* nothing else of the history, raise it again from the same baseline.
WarningsAreExplained ==
    \A w \in Judgements :
        \A id \in DOMAIN judged[w].warnings :
            LET cited == {r \in rows : <<"p", r.week>> \in judged[w].warnings[id].evidence}
                again == EvaluateMvpRules(InputOf(cited, w))[id]
            IN  /\ again.enough /\ again.evidence # {}
                /\ again.baseline = judged[w].warnings[id].baseline
                /\ again.value = judged[w].warnings[id].value

\* Weeks that left the baseline window have no say any more: only the last
\* BaselineWindow weeks on file before the one judged are compared with it.
OldHistoryDoesNotMatter ==
    \A w \in Judgements :
        LET before == {r.week : r \in {x \in rows : x.week < w}}
            recent == {v \in before : Cardinality({u \in before : u > v}) < BaselineWindow}
        IN  EvaluateMvpRules(InputOf({r \in rows : r.week \in recent \cup {w}}, w))
              = EvaluateMvpRules(InputOf(rows, w))

Falls == [activity_decline |-> "active_days", merged_throughput |-> "merged_count",
          contributor_resilience |-> "active_contributors"]
Rises == [open_pr_aging |-> "oldest_open_pr_days", review_latency |-> "review_latency_days",
          inactivity |-> "days_since_activity"]

\* A week that is no worse than any other week on record up to it raises no
\* warning, whatever its baseline is, zero included.
NoAlarmWithoutDecline ==
    \A w \in Judgements :
        LET records == HistoryRecords(InputOf(rows, w))
            past(m) == {records[v].metric[m] : v \in DOMAIN records \ {w}} \ {Absent}
            now(m) == records[w].metric[m]
        IN  \A id \in DOMAIN judged[w].warnings :
                /\ id \in DOMAIN Falls => \E v \in past(Falls[id]) : now(Falls[id]) < v
                /\ id \in DOMAIN Rises => \E v \in past(Rises[id]) : now(Rises[id]) > v

\* The rows with other counts of contributors wherever the floor hides them.
Disguised(found, other) ==
    {IF r.team_size < AggregationFloor /\ r.metric["active_contributors"] # Absent
     THEN [r EXCEPT !.metric["active_contributors"] = other] ELSE r : r \in found}

\* A verdict but for its chart of contributors.
WithoutTheChart(verdict) ==
    LET others(charts) == Restrict(charts, DOMAIN charts \ {"active_contributors"})
    IN  [[verdict EXCEPT !.series = others(@)] EXCEPT !.series_baselines = others(@)]

\* What a team below the aggregation floor did decides nothing: with any other
\* contributor counts in such weeks every status, warning and count stands, and a
\* week that is not at the floor itself shows nothing of them, charts included.  The
\* chart of a week that is at the floor does show the counts of earlier weeks below
\* it, which README.md says are omitted entirely.
HiddenCountsDecideNothing ==
    \A other \in Levels :
        LET changed == Disguised(rows, other)
        IN  changed # rows => \A w \in Judgements :
                LET verdict == Judge(changed, w)
                IN  /\ WithoutTheChart(verdict) = WithoutTheChart(judged[w])
                    /\ judged[w].contributors = Absent => verdict = judged[w]
===============================================================================
