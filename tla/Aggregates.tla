------------------------------- MODULE Aggregates -------------------------------
(***************************************************************************)
(* What ingestion and the rules share: the calendar, the aggregate metrics *)
(* of a repository's week, and the floor below which contributor counts    *)
(* are not compared.  Metrics are whole numbers: the documents cut days to *)
(* integers, and the instances keep the two fractional ones whole.         *)
(***************************************************************************)
EXTENDS Integers, Sequences, SequencesExt

CONSTANTS
    DaysPerWeek,
    AggregationFloor      \* settings.aggregation_floor

ASSUME AggregatesAssumption == DaysPerWeek \in Nat \ {0} /\ AggregationFloor \in Nat \ {0}

\* None, and whatever _metric_value refuses: a list, a negative number.
Absent == -1

Metrics == {"active_days", "days_since_activity", "oldest_open_pr_days",
            "review_latency_days", "merged_count", "active_contributors"}

NoMetrics == [m \in Metrics |-> Absent]

WeekOf(day) == day \div DaysPerWeek
FirstDay(week) == week * DaysPerWeek
LastDay(week) == week * DaysPerWeek + DaysPerWeek - 1

Least(a, b) == IF a <= b THEN a ELSE b
Greatest(a, b) == IF a >= b THEN a ELSE b

\* The values of one metric over the rows that report it.
Values(rows, metric) ==
    [r \in {r \in rows : r.metric[metric] # Absent} |-> r.metric[metric]]
===============================================================================
