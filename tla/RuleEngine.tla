------------------------------- MODULE RuleEngine -------------------------------
(***************************************************************************)
(* The deterministic judgement of one project week: the rows of            *)
(* repo_activity are folded into one record a week, cut off at the week    *)
(* judged, and six rules compare that week with the weeks before it.       *)
(*                                                                         *)
(* Baselines are interpolated at quarters of a position and thresholds     *)
(* take three quarters of them, so a baseline is kept times 4 and a        *)
(* threshold times 16; both are then whole numbers.                        *)
(***************************************************************************)
EXTENDS Aggregates

CONSTANTS
    BaselineWindow,       \* DEFAULT_BASELINE_WINDOW
    DefaultMinimum,       \* DEFAULT_MINIMUM_BASELINE_OBSERVATIONS
    SeriesWeeks           \* the weeks of a chart: 8

ASSUME RulesAssumption == {BaselineWindow, DefaultMinimum, SeriesWeeks} \subseteq Nat \ {0}

-------------------------------------------------------------------------------
(* One record a week *)

\* active_days is always there, and 0 when no row reports it; contributors,
\* who cannot be told apart across repositories, only when there is one row.
Combine(project, week, bucket) ==
    [week |-> week,
     ref |-> <<project, week>>,
     complete |-> Min({r.complete : r \in bucket}),
     team_size |-> IF Cardinality(bucket) = 1 /\ \E r \in bucket : r.metric["active_contributors"] # Absent
                   THEN (CHOOSE r \in bucket : TRUE).team_size ELSE Absent,
     metric |-> [m \in Metrics |->
        LET values == Values(bucket, m)
        IN  IF m # "active_days" /\ values = <<>> THEN Absent
            ELSE CASE m \in {"active_days", "merged_count"} -> SumFunction(values)
                   [] m = "days_since_activity" -> Min(Range(values))
                   [] m = "oldest_open_pr_days" -> Max(Range(values))
                   [] m = "review_latency_days" -> SumFunction(values) \div Cardinality(DOMAIN values)
                   [] OTHER -> IF Cardinality(bucket) = 1 THEN Max(Range(values)) ELSE Absent]]

\* _history_by_project for one project: week -> record.  The code keeps a list,
\* sorted by week, that holds each week once.
HistoryByProject(rows, project) ==
    LET own == {r \in rows : r.project = project}
    IN  [w \in {r.week : r \in own} |-> Combine(project, w, {r \in own : r.week = w})]

Placeholder(project, week) ==
    [week |-> week, ref |-> <<project, week>>, complete |-> 0, team_size |-> Absent, metric |-> NoMetrics]

UpTo(history, week) == Restrict(history, {w \in DOMAIN history : w <= week})

\* What generate_weekly_snapshots hands the rules: nothing later than the week.
InputFrom(history, absent, lifecycle, week) ==
    [weeks |-> history, lifecycle |-> lifecycle,
     current |-> IF week \in DOMAIN history THEN history[week] ELSE absent]
RuleInput_Unbounded(rows, project, lifecycle, week) ==  \* mutant: replay looks ahead
    LET history == HistoryByProject(rows, project)
        latest == Max({week} \cup DOMAIN history)
    IN  InputFrom(history, Placeholder(project, latest), lifecycle, latest)
RuleInput(rows, project, lifecycle, week) ==
    InputFrom(UpTo(HistoryByProject(rows, project), week), Placeholder(project, week), lifecycle, week)

-------------------------------------------------------------------------------
(* Preparation *)

HistoryRecords(input) ==
    LET now == input.current.week
    IN  [w \in DOMAIN input.weeks \cup {now} |-> IF w = now THEN input.current ELSE input.weeks[w]]

\* _pause_state: the project's own state; the folded records carry none.
PauseState(input) ==
    CASE input.lifecycle = "paused" -> "planned_pause"
      [] input.lifecycle = "archived" -> "excluded"
      [] OTHER -> "none"

MinimumObservations ==
    Least(BaselineWindow, Greatest(DefaultMinimum, (BaselineWindow + 1) \div 2))

\* Floor 0 is "no floor required".
Eligible(record, floor) == floor = 0 \/ record.team_size >= floor

\* The week judged is the last on record; it is compared with those of the weeks
\* just before it that report the metric and may be read.
Now(records) == Max(DOMAIN records)
Before(records, weeks) ==
    LET past == DOMAIN records \ {Now(records)}
    IN  {w \in past : Cardinality({v \in past : v > w}) < weeks}
Reporting(records, weeks, metric) == {w \in weeks : records[w].metric[metric] # Absent}

Prepared(records, weeks, metric) ==
    [current |-> records[Now(records)], used |-> Restrict(records, weeks),
     enough |-> records[Now(records)].metric[metric] # Absent /\ Cardinality(weeks) >= MinimumObservations]

PrepareMetric_WindowTooLong(records, metric, floor) ==  \* mutant: one week too many
    Prepared(records, {w \in Reporting(records, Before(records, BaselineWindow + 1), metric) :
                            Eligible(records[w], floor)}, metric)
PrepareMetric_FloorOnce(records, metric, floor) ==  \* mutant: only the current week is gated
    Prepared(records, Reporting(records, Before(records, BaselineWindow), metric), metric)
PrepareMetric(records, metric, floor) ==
    Prepared(records, {w \in Reporting(records, Before(records, BaselineWindow), metric) :
                            Eligible(records[w], floor)}, metric)

-------------------------------------------------------------------------------
(* Baselines, times 4 *)

\* The k-th of the values in ascending order.
Ordered(values, k) ==
    CHOOSE v \in Range(values) :
        /\ Cardinality({w \in DOMAIN values : values[w] < v}) < k
        /\ Cardinality({w \in DOMAIN values : values[w] <= v}) >= k

MedianBaseline(values) ==
    LET count == Cardinality(DOMAIN values)
        middle == count \div 2 + 1
    IN  IF count % 2 = 1 THEN 4 * Ordered(values, middle)
        ELSE 2 * (Ordered(values, middle - 1) + Ordered(values, middle))

\* The percentile at `quarters' of the way, interpolated.
PercentileBaseline(values, quarters) ==
    LET count == Cardinality(DOMAIN values)
        position == (count - 1) * quarters
        lower == position \div 4 + 1
        upper == Least(lower + 1, count)
    IN  4 * Ordered(values, lower) + (Ordered(values, upper) - Ordered(values, lower)) * (position % 4)

\* Thresholds, times 16: a fall is below three quarters of the baseline and at
\* least one below it, a rise is absolute, additive and proportional.
FallThreshold_Either(baseline) == Greatest(3 * baseline, 4 * baseline - 16)  \* mutant
FallThreshold(baseline) == Least(3 * baseline, 4 * baseline - 16)
RiseThreshold(baseline, floor, increase) ==
    Greatest(16 * floor, Greatest(4 * baseline + 16 * increase, 6 * baseline))

-------------------------------------------------------------------------------
(* Results *)

EmptyResult(value) ==
    [shown |-> TRUE, value |-> value, baseline |-> Absent, enough |-> FALSE, threshold |-> Absent, evidence |-> {}]
Omitted == [EmptyResult(Absent) EXCEPT !.shown = FALSE]

Observation(record, metric) == [week |-> record.week, value |-> record.metric[metric], ref |-> record.ref]

\* _evidence: every observation the comparison used, and the current one.
Evidence_BaselineOnly(prepared, metric) ==  \* mutant: the value judged is not kept
    {Observation(r, metric) : r \in Range(prepared.used)}
Evidence(prepared, metric) ==
    {Observation(r, metric) : r \in Range(prepared.used) \cup {prepared.current}}

RuleResult(prepared, metric, baseline, threshold, trigger) ==
    [shown |-> TRUE, value |-> prepared.current.metric[metric], baseline |-> baseline, enough |-> TRUE,
     threshold |-> threshold, evidence |-> IF trigger THEN Evidence(prepared, metric) ELSE {}]

UsedValues(prepared, metric) == [w \in DOMAIN prepared.used |-> prepared.used[w].metric[metric]]

\* The six rules: what is compared, with which statistic of the weeks before, and
\* whether a fall or a rise is flagged.  Only contributors have a floor.
Fall(metric, statistic, floor) == [metric |-> metric, statistic |-> statistic, floor |-> floor, falls |-> TRUE]
Rise(metric, least, increase) ==
    [metric |-> metric, statistic |-> "p75", floor |-> 0, falls |-> FALSE, least |-> least, increase |-> increase]

ActivityDecline == Fall("active_days", "median", 0)
OpenPrAging == Rise("oldest_open_pr_days", 7, 3)
ReviewLatency == Rise("review_latency_days", 3, 2)
MergedThroughput == Fall("merged_count", "p25", 0)
Inactivity == Rise("days_since_activity", 7, 3)
ContributorResilience == Fall("active_contributors", "p25", AggregationFloor)

MvpRules ==
    [activity_decline |-> ActivityDecline, open_pr_aging |-> OpenPrAging, review_latency |-> ReviewLatency,
     merged_throughput |-> MergedThroughput, inactivity |-> Inactivity,
     contributor_resilience |-> ContributorResilience]

Baseline(values, statistic) ==
    CASE statistic = "median" -> MedianBaseline(values)
      [] statistic = "p75" -> PercentileBaseline(values, 3)
      [] OTHER -> PercentileBaseline(values, 1)

Compare(prepared, rule, baseline) ==
    LET current == 16 * prepared.current.metric[rule.metric]
    IN  IF rule.falls
        THEN RuleResult(prepared, rule.metric, baseline, FallThreshold(baseline), current <= FallThreshold(baseline))
        ELSE RuleResult(prepared, rule.metric, baseline, RiseThreshold(baseline, rule.least, rule.increase),
                        current >= RiseThreshold(baseline, rule.least, rule.increase))

\* The early returns, then the comparison.  A rule with a floor is left out
\* altogether before a contributor count is read.
Evaluate(pause, prepared, rule) ==
    CASE pause # "none" /\ rule.floor = 0 -> EmptyResult(Absent)
      [] rule.floor # 0 /\ (pause # "none" \/ ~Eligible(prepared.current, rule.floor)) -> Omitted
      [] OTHER -> IF prepared.enough
                  THEN Compare(prepared, rule, Baseline(UsedValues(prepared, rule.metric), rule.statistic))
                  ELSE EmptyResult(prepared.current.metric[rule.metric])

EvaluateMvpRules(input) ==
    [id \in DOMAIN MvpRules |->
        Evaluate(PauseState(input),
                 PrepareMetric(HistoryRecords(input), MvpRules[id].metric, MvpRules[id].floor), MvpRules[id])]

-------------------------------------------------------------------------------
(* The verdict *)

Overlaps(pause, week) ==
    pause.starts <= LastDay(week) /\ (pause.ends = Absent \/ pause.ends >= FirstDay(week))

ScoringDecision(project, week) ==
    IF project.lifecycle = "archived" THEN "insufficient_data"
    ELSE IF project.lifecycle = "paused" \/ \E p \in project.pauses : Overlaps(p, week) THEN "planned_pause"
    ELSE "score"

\* Only 80 % or more of the sync's checks make a week comparable.
CompleteEnough_AlmostAll(current) == current.complete >= 75  \* mutant: one failed check passes
CompleteEnough(current) == current.complete >= 80

Triggered(results) == {id \in DOMAIN results : results[id].enough /\ results[id].evidence # {}}

StatusForResults(results, current) ==
    CASE ~CompleteEnough(current) -> "insufficient_data"
      [] CompleteEnough(current) /\ Triggered(results) = {} -> "clear"
      [] OTHER -> IF Cardinality(Triggered(results)) >= 2 THEN "at_risk" ELSE "watch"

WarningSeverity(triggered) == IF triggered >= 3 THEN "critical" ELSE "warning"

\* The source references of _warning_evidence.
WarningEvidence(result) == {observation.ref : observation \in result.evidence}

\* The count of contributors is published of a team at or above the floor.
PublishedContributors(current) ==
    IF current.team_size >= AggregationFloor THEN current.metric["active_contributors"] ELSE Absent

\* _trend_series: a metric of the last weeks on record, `back' weeks from the end;
\* what a short history leaves open is None, as is a week that lacks the metric.
TrendSeries(records, metric) ==
    [back \in 0..(SeriesWeeks - 1) |->
        Max({Absent} \cup {records[w].metric[metric] :
                w \in {v \in DOMAIN records : Cardinality({u \in DOMAIN records : u > v}) = back}})]

\* The charts.  Contributors are drawn when the week itself may publish them: the
\* earlier weeks of the chart are not held to the floor.
Series(input) ==
    [m \in {"active_days", "review_latency_days"} \cup
            (IF PublishedContributors(input.current) # Absent THEN {"active_contributors"} ELSE {})
        |-> TrendSeries(HistoryRecords(input), m)]

\* _series_baseline: the earliest and the latest value of a chart.
SeriesBaseline(series) ==
    LET seen == {back \in DOMAIN series : series[back] # Absent}
    IN  IF seen = {} THEN <<Absent, Absent>> ELSE <<series[Max(seen)], series[Min(seen)]>>
Baselines(series) == [m \in DOMAIN series \ {"active_days"} |-> SeriesBaseline(series[m])]

\* One pass of generate_weekly_snapshots over one project, before the writes.
\* A suppressed project keeps its metrics and charts and loses its results.
Verdict(input, results, triggered, decision) ==
    [status |-> IF decision = "score" THEN StatusForResults(results, input.current) ELSE decision,
     complete |-> input.current.complete,
     contributors |-> PublishedContributors(input.current),
     series |-> Series(input), series_baselines |-> Baselines(Series(input)),
     warnings |-> [id \in triggered |->
        [severity |-> WarningSeverity(Cardinality(triggered)), value |-> results[id].value,
         baseline |-> results[id].baseline, evidence |-> WarningEvidence(results[id])]]]
Decided(input, results, decision) ==
    Verdict(input, results, IF decision = "score" THEN Triggered(results) ELSE {}, decision)
JudgeWeek(rows, project, week) ==
    LET input == RuleInput(rows, project.id, project.lifecycle, week)
    IN  Decided(input, EvaluateMvpRules(input), ScoringDecision(project, week))
===============================================================================
