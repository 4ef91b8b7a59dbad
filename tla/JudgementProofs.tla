----------------------------- MODULE JudgementProofs -----------------------------
(***************************************************************************)
(* What the rule engine promises.                                          *)
(*                                                                         *)
(* A week's judgement reads the weeks up to it, which later rows do not    *)
(* touch, so asking again answers as before.  Of those it reads only the   *)
(* last ones, and of these a warning names all that count; what the        *)
(* aggregation floor hides decides nothing; and what triggers is worse     *)
(* than some week before it, because a baseline lies among its values.     *)
(***************************************************************************)
EXTENDS RuleReplay, DataLemmas

-------------------------------------------------------------------------------
(* What a judgement reads *)

\* The rows of repo_activity while the first n weeks arrive.
RuleRows(n) ==
    {r \in [id : {"a", "b"} \X (1..n), project : {"p"}, repo : {"a", "b"}, week : 1..n, team_size : Nat \cup {Absent},
            complete : {100}, metric : [Metrics -> Nat \cup {Absent}]] : r.id = <<r.repo, r.week>>}

\* Rows by their weeks, and what the weeks are folded into when week w is judged.
WeeksOf(found) == {r.week : r \in found}
RowsOf(found, v) == {r \in found : r.week = v}
RecordOf(found, v) == IF v \in WeeksOf(found) THEN Combine("p", v, RowsOf(found, v)) ELSE Placeholder("p", v)
OfTheProject(found) == IsFiniteSet(found) /\ \A r \in found : r.project = "p" /\ r.week \in Nat
OfWeeks(found, weeks) == {r \in found : r.week \in weeks}
RecordsUpTo(found, w) == [v \in {u \in WeeksOf(found) : u <= w} \cup {w} |-> RecordOf(found, v)]

LaterThan(new, week) == \A r \in new : r.week \in Nat /\ r.week > week

\* No row of a later week is read.
LEMMA NothingAheadIsRead ==
    ASSUME NEW old, NEW new, NEW name, NEW week \in Nat, LaterThan(new, week)
    PROVE  UpTo(HistoryByProject(old \cup new, name), week) = UpTo(HistoryByProject(old, name), week)
<1> DEFINE Own(R) == {r \in R : r.project = name}
           Weeks(R) == {r.week : r \in Own(R)}
           Bucket(R, w) == {r \in Own(R) : r.week = w}
           Seen(R) == {w \in Weeks(R) : w <= week}
<1>1. \A R : UpTo(HistoryByProject(R, name), week) = [w \in Seen(R) |-> Combine(name, w, Bucket(R, w))]
  <2> TAKE R
  <2> DEFINE h == [w \in Weeks(R) |-> Combine(name, w, Bucket(R, w))]
  <2>1. HistoryByProject(R, name) = h
    BY Zenon DEF HistoryByProject
  <2>2. UpTo(h, week) = [w \in {v \in DOMAIN h : v <= week} |-> h[w]]
    BY Zenon DEF UpTo, Restrict
  <2>3. DOMAIN h = Weeks(R) /\ \A w \in Weeks(R) : h[w] = Combine(name, w, Bucket(R, w))
    OBVIOUS
  <2> HIDE DEF h, Weeks, Bucket
  <2>4. QED BY <2>1, <2>2, <2>3
<1>2. \A w : w <= week => (w \in Weeks(old) <=> w \in Weeks(old \cup new)) /\ Bucket(old, w) = Bucket(old \cup new, w)
  BY DEF LaterThan
<1> HIDE DEF Own, Weeks, Bucket
<1>3. Seen(old) = Seen(old \cup new)
  BY <1>2
<1>4. [w \in Seen(old) |-> Combine(name, w, Bucket(old, w))]
        = [w \in Seen(old \cup new) |-> Combine(name, w, Bucket(old \cup new, w))]
  BY <1>2, <1>3
<1>5. QED BY <1>1, <1>4

\* What a project's rules are given to compare.
LEMMA InputIsOfTheWeeks ==
    ASSUME NEW found, \A r \in found : r.project = "p" /\ r.week \in Nat, NEW w \in Nat
    PROVE  /\ InputOf(found, w).current = RecordOf(found, w) /\ RecordOf(found, w).week = w
           /\ InputOf(found, w).lifecycle = subject.project.lifecycle
           /\ HistoryRecords(InputOf(found, w)) = RecordsUpTo(found, w)
<1>1. \A v, b : Combine("p", v, b).week = v /\ Placeholder("p", v).week = v
  BY DEF Combine, Placeholder
<1> DEFINE h == [v \in WeeksOf(found) |-> Combine("p", v, RowsOf(found, v))]
           seen == {v \in WeeksOf(found) : v <= w}
           t == [v \in seen |-> h[v]]
<1>2. HistoryByProject(found, "p") = h
  <2>1. {r \in found : r.project = "p"} = found
    OBVIOUS
  <2>2. HistoryByProject(found, "p") = [v \in {r.week : r \in found} |-> Combine("p", v, {r \in found : r.week = v})]
    BY <2>1, Zenon DEF HistoryByProject
  <2>3. QED BY <2>2, Zenon DEF WeeksOf, RowsOf
<1>3. UpTo(h, w) = t
  <2>1. DOMAIN h = WeeksOf(found)
    OBVIOUS
  <2> HIDE DEF h
  <2>2. QED BY <2>1, Zenon DEF UpTo, Restrict
<1>4. \A v \in seen : t[v] = RecordOf(found, v)
  BY DEF RecordOf
<1>5. DOMAIN t = seen /\ (w \in seen <=> w \in WeeksOf(found))
  OBVIOUS
<1> HIDE DEF t, h
<1>6. InputOf(found, w) = InputFrom(t, Placeholder("p", w), subject.project.lifecycle, w)
  BY <1>2, <1>3, Zenon DEF InputOf, RuleInput
<1>7. /\ InputOf(found, w).weeks = t /\ InputOf(found, w).lifecycle = subject.project.lifecycle
      /\ InputOf(found, w).current = IF w \in DOMAIN t THEN t[w] ELSE Placeholder("p", w)
  BY <1>6 DEF InputFrom
<1>8. InputOf(found, w).current = RecordOf(found, w)
  BY <1>4, <1>5, <1>7 DEF RecordOf
<1>9. RecordOf(found, w).week = w
  BY <1>1 DEF RecordOf
<1>10. HistoryRecords(InputOf(found, w)) = [v \in seen \cup {w} |-> IF v = w THEN RecordOf(found, w) ELSE t[v]]
  BY <1>5, <1>7, <1>8, <1>9, Zenon DEF HistoryRecords
<1>11. HistoryRecords(InputOf(found, w)) = RecordsUpTo(found, w)
  <2>1. \A v \in seen \cup {w} : (IF v = w THEN RecordOf(found, w) ELSE t[v]) = RecordOf(found, v)
    BY <1>4
  <2>2. RecordsUpTo(found, w) = [v \in seen \cup {w} |-> RecordOf(found, v)]
    BY Zenon DEF RecordsUpTo
  <2> HIDE DEF seen
  <2>3. QED BY <1>10, <2>1, <2>2
<1>12. QED BY <1>7, <1>8, <1>9, <1>11

\* The week judged is the last of the records.
LEMMA NowIsTheLast ==
    ASSUME NEW records, NEW w \in DOMAIN records, DOMAIN records \subseteq Nat, \A v \in DOMAIN records : v <= w
    PROVE  Now(records) = w
<1>1. w \in DOMAIN records /\ \A v \in DOMAIN records : w >= v
  OBVIOUS
<1>2. Max(DOMAIN records) \in DOMAIN records /\ \A v \in DOMAIN records : Max(DOMAIN records) >= v
  BY <1>1, Zenon DEF Max
<1>3. QED BY <1>1, <1>2 DEF Now

\* The judged week has the weeks before it, and those in the window are compared.
LEMMA RecordsAre ==
    ASSUME NEW found, OfTheProject(found), NEW w \in Nat
    PROVE  /\ DOMAIN RecordsUpTo(found, w) = {u \in WeeksOf(found) : u <= w} \cup {w}
           /\ \A v \in DOMAIN RecordsUpTo(found, w) :
                /\ v \in Nat /\ v <= w /\ RecordsUpTo(found, w)[v] = RecordOf(found, v)
                /\ RecordOf(found, v).week = v /\ RecordOf(found, v).ref = <<"p", v>>
           /\ Now(RecordsUpTo(found, w)) = w
           /\ IsFiniteSet(WeeksOf(found)) /\ WeeksOf(found) \subseteq Nat
<1> IsFiniteSet(found) /\ \A r \in found : r.project = "p" /\ r.week \in Nat
  BY DEF OfTheProject
<1>1. DOMAIN RecordsUpTo(found, w) = {u \in WeeksOf(found) : u <= w} \cup {w}
  BY DEF RecordsUpTo
<1>2. WeeksOf(found) \subseteq Nat
  BY DEF WeeksOf
<1>3. \A v \in DOMAIN RecordsUpTo(found, w) : v \in Nat /\ v <= w /\ RecordsUpTo(found, w)[v] = RecordOf(found, v)
  BY <1>1, <1>2 DEF RecordsUpTo
<1>4. \A v : RecordOf(found, v).week = v /\ RecordOf(found, v).ref = <<"p", v>>
  BY DEF RecordOf, Combine, Placeholder
<1>5. Now(RecordsUpTo(found, w)) = w
  <2>1. PICK records : records = RecordsUpTo(found, w)
    OBVIOUS
  <2>2. w \in DOMAIN records /\ DOMAIN records \subseteq Nat /\ \A v \in DOMAIN records : v <= w
    BY <1>1, <1>3, <2>1
  <2>3. QED BY <2>1, <2>2, NowIsTheLast
<1>6. IsFiniteSet(WeeksOf(found))
  <2> DEFINE week == [r \in found |-> r.week]
  <2>1. WeeksOf(found) = {week[r] : r \in found}
    BY DEF WeeksOf
  <2> HIDE DEF week
  <2>2. QED BY <2>1, FiniteImage
<1>7. QED BY <1>1, <1>2, <1>3, <1>4, <1>5, <1>6

\* The weeks a rule compares with.
Compared(records, metric, floor) ==
    {v \in Reporting(records, Before(records, BaselineWindow), metric) : Eligible(records[v], floor)}

\* A comparison looks at the weeks it is with, and at the one judged.
LEMMA PreparedFromTheCompared ==
    ASSUME NEW records, NEW other, Now(other) = Now(records), other[Now(records)] = records[Now(records)],
           NEW metric, NEW floor, Compared(other, metric, floor) = Compared(records, metric, floor),
           \A v \in Compared(records, metric, floor) : other[v] = records[v]
    PROVE  PrepareMetric(other, metric, floor) = PrepareMetric(records, metric, floor)
<1>1. \A f : PrepareMetric(f, metric, floor) = Prepared(f, Compared(f, metric, floor), metric)
  BY Zenon DEF PrepareMetric, Compared
<1>2. PICK weeks : weeks = Compared(records, metric, floor)
  OBVIOUS
<1>3. Restrict(other, weeks) = Restrict(records, weeks)
  BY <1>2 DEF Restrict
<1>4. Prepared(other, weeks, metric) = Prepared(records, weeks, metric)
  BY <1>3, Zenon DEF Prepared
<1>5. QED BY <1>1, <1>2, <1>4

\* Without the weeks outside the window, or any others of it, those kept are the window.
LEMMA KeptWeeksAreTheWindow ==
    ASSUME NEW found, OfTheProject(found), NEW w \in Nat,
           NEW kept, kept \subseteq Before(RecordsUpTo(found, w), BaselineWindow),
           NEW fewer, fewer = OfWeeks(found, kept \cup {w})
    PROVE  /\ IsFiniteSet(fewer) /\ fewer \subseteq found
           /\ DOMAIN RecordsUpTo(fewer, w) = kept \cup {w} /\ kept \subseteq DOMAIN RecordsUpTo(found, w) \ {w}
           /\ \A v \in kept \cup {w} : RecordsUpTo(fewer, w)[v] = RecordsUpTo(found, w)[v]
           /\ Now(RecordsUpTo(fewer, w)) = w
           /\ Before(RecordsUpTo(fewer, w), BaselineWindow) = kept
<1> IsFiniteSet(found) /\ (\A r \in found : r.project = "p" /\ r.week \in Nat)
  BY DEF OfTheProject
<1> fewer \subseteq found /\ \A r \in found : r \in fewer <=> r.week \in kept \/ r.week = w
  BY DEF OfWeeks
<1>1. IsFiniteSet(fewer) /\ fewer \subseteq found
  BY FS_Subset
<1>2. OfTheProject(fewer)
  BY <1>1 DEF OfTheProject
<1>3. PICK all : all = DOMAIN RecordsUpTo(found, w) \ {w}
  OBVIOUS
<1>0. /\ DOMAIN RecordsUpTo(found, w) = {u \in WeeksOf(found) : u <= w} \cup {w}
      /\ \A v \in DOMAIN RecordsUpTo(found, w) : v \in Nat /\ v <= w /\ RecordsUpTo(found, w)[v] = RecordOf(found, v)
  BY RecordsAre, Zenon
<1>4. all = {u \in WeeksOf(found) : u <= w} \ {w} /\ \A v \in all : v \in Nat /\ v < w
  <2>1. all = {u \in WeeksOf(found) : u <= w} \ {w}
    BY <1>0, <1>3
  <2>2. \A v \in all : v \in Nat /\ v <= w /\ v # w
    BY <1>0, <1>3
  <2>3. QED BY <2>1, <2>2
<1>5. kept \subseteq all /\ \A v \in kept : Cardinality({u \in all : u > v}) < BaselineWindow
  <2>1. Now(RecordsUpTo(found, w)) = w
    BY RecordsAre
  <2>2. Before(RecordsUpTo(found, w), BaselineWindow) = {v \in all : Cardinality({u \in all : u > v}) < BaselineWindow}
    BY <1>3, <2>1 DEF Before
  <2>3. QED BY <2>2
<1>6. {u \in WeeksOf(fewer) : u <= w} \cup {w} = kept \cup {w}
  <2>1. WeeksOf(fewer) \subseteq kept \cup {w}
    BY DEF WeeksOf
  <2>2. \A v \in kept : v \in WeeksOf(found) /\ v <= w
    BY <1>4, <1>5
  <2>3. \A v \in kept : v \in WeeksOf(fewer)
    BY <2>2 DEF WeeksOf
  <2>4. QED BY <2>1, <2>2, <2>3
<1>7. DOMAIN RecordsUpTo(fewer, w) = kept \cup {w} /\ Now(RecordsUpTo(fewer, w)) = w
  BY <1>1, <1>2, <1>6, RecordsAre
<1>8. \A v \in kept \cup {w} : RecordOf(fewer, v) = RecordOf(found, v)
  <2> TAKE v \in kept \cup {w}
  <2>1. RowsOf(fewer, v) = RowsOf(found, v) /\ (v \in WeeksOf(fewer) <=> v \in WeeksOf(found))
    BY DEF RowsOf, WeeksOf
  <2>2. QED BY <2>1 DEF RecordOf
<1>9. \A v \in kept \cup {w} : RecordsUpTo(fewer, w)[v] = RecordsUpTo(found, w)[v]
  <2>1. \A v \in kept \cup {w} : RecordsUpTo(fewer, w)[v] = RecordOf(fewer, v)
    <3>1. \A v \in DOMAIN RecordsUpTo(fewer, w) : RecordsUpTo(fewer, w)[v] = RecordOf(fewer, v)
      BY <1>1, <1>2, RecordsAre, Zenon
    <3>2. QED BY <1>7, <3>1
  <2>2. \A v \in kept \cup {w} : RecordsUpTo(found, w)[v] = RecordOf(found, v)
    BY <1>0, <1>3, <1>5
  <2>3. QED BY <1>8, <2>1, <2>2
<1>10. \A v \in kept : Cardinality({u \in kept : u > v}) < BaselineWindow
  <2> TAKE v \in kept
  <2>1. IsFiniteSet({u \in all : u > v})
    <3>1. IsFiniteSet(WeeksOf(found))
      BY RecordsAre
    <3>2. {u \in all : u > v} \subseteq WeeksOf(found)
      BY <1>4
    <3>3. QED BY <3>1, <3>2, FS_Subset
  <2>2. {u \in kept : u > v} \subseteq {u \in all : u > v}
    BY <1>5
  <2>3. PICK m \in Nat, n \in Nat : /\ m = Cardinality({u \in kept : u > v}) /\ n = Cardinality({u \in all : u > v})
                                   /\ m <= n
    BY <2>1, <2>2, FS_Subset, FS_CardinalityType
  <2>4. n < BaselineWindow
    BY <1>5, <2>3
  <2>5. QED BY <2>3, <2>4, RulesAssumption
<1>11. Before(RecordsUpTo(fewer, w), BaselineWindow) = kept
  <2>1. kept = (kept \cup {w}) \ {w}
    BY <1>4, <1>5
  <2>2. Before(RecordsUpTo(fewer, w), BaselineWindow) = {v \in kept : Cardinality({u \in kept : u > v}) < BaselineWindow}
    BY <1>7, <2>1, Zenon DEF Before
  <2>3. QED BY <1>10, <2>2
<1>12. QED BY <1>1, <1>3, <1>5, <1>7, <1>9, <1>11

\* What a rule answers is decided by the pause and by what it compares.
LEMMA RuleAnswers ==
    ASSUME NEW found, \A r \in found : r.project = "p" /\ r.week \in Nat, NEW w \in Nat, NEW id \in DOMAIN MvpRules
    PROVE  EvaluateMvpRules(InputOf(found, w))[id]
             = Evaluate(PauseState([lifecycle |-> subject.project.lifecycle]),
                        PrepareMetric(RecordsUpTo(found, w), MvpRules[id].metric, MvpRules[id].floor), MvpRules[id])
<1>1. HistoryRecords(InputOf(found, w)) = RecordsUpTo(found, w)
  BY InputIsOfTheWeeks
<1>2. PauseState(InputOf(found, w)) = PauseState([lifecycle |-> subject.project.lifecycle])
  BY InputIsOfTheWeeks DEF PauseState
<1>3. QED BY <1>1, <1>2, Zenon DEF EvaluateMvpRules

\* A rule that triggers shows what it compared.
LEMMA TriggersAreShown ==
    ASSUME NEW pause, NEW prepared, NEW rule, NEW result, result = Evaluate(pause, prepared, rule), result.evidence # {}
    PROVE  prepared.enough /\ result.evidence = Evidence(prepared, rule.metric)
<1>1. \A v : EmptyResult(v).evidence = {} /\ Omitted.evidence = {}
  BY DEF EmptyResult, Omitted
<1>2. /\ prepared.enough
      /\ result = Compare(prepared, rule, Baseline(UsedValues(prepared, rule.metric), rule.statistic))
  BY <1>1 DEF Evaluate
<1>3. QED BY <1>2 DEF Compare, RuleResult

\* The weeks an older history ends with are all that a judgement takes from it.
LEMMA WindowDecides ==
    ASSUME NEW found, OfTheProject(found), NEW w \in Nat,
           NEW recent, recent = Before(RecordsUpTo(found, w), BaselineWindow),
           NEW fewer, fewer = OfWeeks(found, recent \cup {w})
    PROVE  EvaluateMvpRules(InputOf(fewer, w)) = EvaluateMvpRules(InputOf(found, w))
<1> DEFINE records == RecordsUpTo(found, w)
           other == RecordsUpTo(fewer, w)
<1>1. /\ DOMAIN other = recent \cup {w} /\ (\A v \in recent \cup {w} : other[v] = records[v]) /\ Now(other) = w
      /\ Before(other, BaselineWindow) = recent /\ fewer \subseteq found
  BY KeptWeeksAreTheWindow
<1> IsFiniteSet(found) /\ (\A r \in found : r.project = "p" /\ r.week \in Nat)
  BY DEF OfTheProject
<1>2. Now(records) = w
  BY RecordsAre
<1> HIDE DEF records, other
<1>3. recent = Before(records, BaselineWindow)
  BY DEF records
<1>4. \A metric, floor : PrepareMetric(other, metric, floor) = PrepareMetric(records, metric, floor)
  <2> TAKE metric, floor
  <2>1. Compared(other, metric, floor) = Compared(records, metric, floor)
    BY <1>1, <1>3 DEF Compared, Reporting, Eligible
  <2>2. \A v \in Compared(records, metric, floor) : other[v] = records[v]
    BY <1>1, <1>3 DEF Compared, Reporting
  <2>3. QED BY <1>1, <1>2, <2>1, <2>2, PreparedFromTheCompared
<1>5. \A id \in DOMAIN MvpRules : EvaluateMvpRules(InputOf(fewer, w))[id] = EvaluateMvpRules(InputOf(found, w))[id]
  <2> TAKE id \in DOMAIN MvpRules
  <2>1. \A r \in fewer : r.project = "p" /\ r.week \in Nat
    BY <1>1
  <2>2. /\ EvaluateMvpRules(InputOf(fewer, w))[id]
             = Evaluate(PauseState([lifecycle |-> subject.project.lifecycle]),
                        PrepareMetric(other, MvpRules[id].metric, MvpRules[id].floor), MvpRules[id])
        /\ EvaluateMvpRules(InputOf(found, w))[id]
             = Evaluate(PauseState([lifecycle |-> subject.project.lifecycle]),
                        PrepareMetric(records, MvpRules[id].metric, MvpRules[id].floor), MvpRules[id])
    BY <2>1, RuleAnswers, Zenon DEF records, other
  <2>3. QED BY <1>4, <2>2, Zenon
<1>6. \A input : EvaluateMvpRules(input) = [id \in DOMAIN MvpRules |-> EvaluateMvpRules(input)[id]]
  BY DEF EvaluateMvpRules
<1>7. QED BY <1>5, <1>6

-------------------------------------------------------------------------------
(* The judgements that were given *)

\* Rows of a week are of different repositories, and every judgement stands.
RuleInv ==
    /\ SomeSeq(judged) /\ subject.project.id = "p"
    /\ IsFiniteSet(rows) /\ rows \subseteq RuleRows(Len(judged))
    /\ \A r, q \in rows : r.id = q.id => r = q
    /\ ReplayAgrees

\* A repository's week is one row.
LEMMA RowsAreRuleRows ==
    ASSUME NEW repo \in {"a", "b"}, NEW n \in Nat, NEW level \in Levels \cup {OtherLevel},
           NEW size \in TeamSizes \cup {AggregationFloor}, NEW row, row = RowOf(repo, n + 1, level, size)
    PROVE  row \in RuleRows(n + 1) /\ row.week = n + 1 /\ row.repo = repo
<1> DEFINE m == [x \in Metrics |-> IF x \in subject.focus THEN level ELSE Absent]
<1>1. m \in [Metrics -> Nat \cup {Absent}]
  BY ReplayAssumption
<1>2. size \in Nat \cup {Absent}
  BY ReplayAssumption, AggregatesAssumption
<1> HIDE DEF m
<1>3. row = [id |-> <<repo, n + 1>>, project |-> "p", repo |-> repo, week |-> n + 1, team_size |-> size,
             complete |-> 100, metric |-> m]
  BY Zenon DEF RowOf, m
<1>4. n + 1 \in 1..(n + 1)
  OBVIOUS
<1>5. QED BY <1>1, <1>2, <1>3, <1>4 DEF RuleRows

\* Later rows change no judgement that was given.
LEMMA ArriveStep ==
    ASSUME RuleInv, NEW found, Arrive(found), IsFiniteSet(found), found \subseteq RuleRows(Len(judged) + 1),
           \A r \in found : r.week = Len(judged) + 1, \A r, q \in found : r.repo = q.repo => r = q
    PROVE  RuleInv'
<1>1. PICK n \in Nat : n = Len(judged) /\ DOMAIN judged = 1..n
  BY SeqFacts DEF RuleInv
<1>2. PICK j : j = Judge(rows \cup found, n + 1)
  OBVIOUS
<1>3. /\ judged' = Append(judged, j) /\ rows' = rows \cup found /\ subject' = subject
  BY <1>1, <1>2 DEF Arrive
<1>4. /\ SomeSeq(judged') /\ Len(judged') = n + 1 /\ DOMAIN judged' = 1..(n + 1)
      /\ judged'[n + 1] = j /\ \A w \in 1..n : judged'[w] = judged[w]
  <2>1. SomeSeq(judged)
    BY DEF RuleInv
  <2>2. QED BY <1>1, <1>3, <2>1, AppendIsASeq
<1>5. IsFiniteSet(rows')
  BY <1>3, FS_Union DEF RuleInv
<1>6. rows' \subseteq RuleRows(n + 1)
  <2>1. RuleRows(n) \subseteq RuleRows(n + 1)
    <3>1. 1..n \subseteq 1..(n + 1)
      OBVIOUS
    <3>2. QED BY <3>1 DEF RuleRows
  <2>2. QED BY <1>1, <1>3, <2>1 DEF RuleInv
<1>7. \A r, q \in rows' : r.id = q.id => r = q
  <2>1. \A r \in rows' : r.id = <<r.repo, r.week>>
    BY <1>6 DEF RuleRows
  <2>2. \A r \in rows : r.week <= n
    BY <1>1 DEF RuleInv, RuleRows
  <2>3. \A r \in found : r.week = n + 1
    BY <1>1
  <2>4. \A r, q \in rows : r.id = q.id => r = q
    BY DEF RuleInv
  <2>5. QED BY <1>3, <2>1, <2>2, <2>3, <2>4
<1>8. \A w \in 1..n : Judge(rows, w)' = judged[w]
  <2> TAKE w \in 1..n
  <2>1. \A name : UpTo(HistoryByProject(rows \cup found, name), w) = UpTo(HistoryByProject(rows, name), w)
    <3> TAKE name
    <3>1. w \in Nat /\ LaterThan(found, w)
      BY <1>1 DEF LaterThan
    <3>2. QED BY <3>1, NothingAheadIsRead
  <2>2. \A project, lifecycle : RuleInput(rows \cup found, project, lifecycle, w) = RuleInput(rows, project, lifecycle, w)
    BY <2>1, Zenon DEF RuleInput
  <2>3. Judge(rows \cup found, w) = Judge(rows, w)
    BY <2>2, Zenon DEF Judge, JudgeWeek
  <2>4. Judge(rows, w) = judged[w]
    BY <1>1 DEF RuleInv, ReplayAgrees, Judgements
  <2>5. Judge(rows, w)' = Judge(rows \cup found, w)
    BY <1>3, Zenon DEF Judge
  <2>6. QED BY <2>3, <2>4, <2>5
<1>9. Judge(rows, n + 1)' = j
  BY <1>2, <1>3, Zenon DEF Judge
<1>10. ReplayAgrees'
  <2> SUFFICES ASSUME NEW w \in 1..(n + 1) PROVE Judge(rows, w)' = judged'[w]
    BY <1>4 DEF ReplayAgrees, Judgements
  <2>1. CASE w \in 1..n
    BY <1>4, <1>8, <2>1
  <2>2. CASE w = n + 1
    BY <1>4, <1>9, <2>2
  <2>3. QED BY <2>1, <2>2
<1>11. QED BY <1>3, <1>4, <1>5, <1>6, <1>7, <1>10 DEF RuleInv

LEMMA RuleInvInit == RuleInit => RuleInv
<1> SUFFICES ASSUME RuleInit PROVE RuleInv
  OBVIOUS
<1>1. rows = {} /\ judged = <<>>
  BY DEF RuleInit
<1>2. SomeSeq(judged) /\ DOMAIN judged = {}
  BY <1>1 DEF SomeSeq
<1>3. subject.project.id = "p"
  BY DEF RuleInit, RuleSubjects
<1>4. QED BY <1>1, <1>2, <1>3, FS_EmptySet DEF RuleInv, ReplayAgrees, Judgements

LEMMA RuleInvNext == RuleInv /\ [RuleNext]_ruleVars => RuleInv'
<1> SUFFICES ASSUME RuleInv, [RuleNext]_ruleVars PROVE RuleInv'
  OBVIOUS
<1>1. PICK n \in Nat : n = Len(judged)
  BY SeqFacts DEF RuleInv
<1>2. CASE NoRowArrives
  BY <1>2, ArriveStep, FS_EmptySet DEF NoRowArrives
<1>3. CASE OneRepoArrives
  <2>1. PICK level \in Levels, size \in SizesThatMatter : Arrive({RowOf("a", n + 1, level, size)})
    BY <1>1, <1>3, Zenon DEF OneRepoArrives
  <2>2. PICK row : row = RowOf("a", n + 1, level, size)
    OBVIOUS
  <2>3. size \in TeamSizes \cup {AggregationFloor}
    BY DEF SizesThatMatter
  <2>4. row \in RuleRows(n + 1) /\ row.week = n + 1
    BY <2>2, <2>3, RowsAreRuleRows
  <2>5. IsFiniteSet({row}) /\ {row} \subseteq RuleRows(n + 1) /\ \A r \in {row} : r.week = n + 1
    BY <2>4, FS_Singleton
  <2>6. Arrive({row})
    BY <2>1, <2>2, Zenon
  <2>7. QED BY <1>1, <2>5, <2>6, ArriveStep
<1>4. CASE TwoReposArrive
  <2>1. PICK level \in Levels : Arrive({RowOf("a", n + 1, level, AggregationFloor),
                                        RowOf("b", n + 1, OtherLevel, AggregationFloor)})
    BY <1>1, <1>4, Zenon DEF TwoReposArrive
  <2>2. PICK a, b : a = RowOf("a", n + 1, level, AggregationFloor) /\ b = RowOf("b", n + 1, OtherLevel, AggregationFloor)
    OBVIOUS
  <2>3. IsFiniteSet({a, b})
    <3>1. IsFiniteSet({a})
      BY FS_Singleton
    <3>2. IsFiniteSet({a} \cup {b})
      BY <3>1, FS_AddElement
    <3>3. {a, b} = {a} \cup {b}
      OBVIOUS
    <3>4. QED BY <3>2, <3>3, Zenon
  <2>4. a \in RuleRows(n + 1) /\ a.week = n + 1 /\ a.repo = "a"
    BY <2>2, RowsAreRuleRows
  <2>5. b \in RuleRows(n + 1) /\ b.week = n + 1 /\ b.repo = "b"
    BY <2>2, RowsAreRuleRows
  <2>6. /\ {a, b} \subseteq RuleRows(n + 1) /\ \A r \in {a, b} : r.week = n + 1
        /\ \A r, q \in {a, b} : r.repo = q.repo => r = q
    BY <2>4, <2>5
  <2>7. Arrive({a, b})
    BY <2>1, <2>2, Zenon
  <2>8. QED BY <1>1, <2>3, <2>6, <2>7, ArriveStep
<1>5. CASE UNCHANGED ruleVars
  <2>1. UNCHANGED <<subject, rows, judged>>
    BY <1>5 DEF ruleVars
  <2>2. \A w : Judge(rows, w)' = Judge(rows, w)
    BY <2>1, Zenon DEF Judge
  <2>3. ReplayAgrees'
    BY <2>1, <2>2 DEF RuleInv, ReplayAgrees, Judgements
  <2>4. QED BY <2>1, <2>3 DEF RuleInv
<1>6. QED BY <1>2, <1>3, <1>4, <1>5 DEF RuleNext

\* Asked again after any number of later weeks, whatever they bring, a week is
\* judged as it was: a backfill agrees with the nights it repeats.
THEOREM ReplayIsRepeatable == RuleSpec => []ReplayAgrees
<1>1. RuleInv => ReplayAgrees
  BY DEF RuleInv
<1>2. QED BY <1>1, RuleInvInit, RuleInvNext, PTL DEF RuleSpec

LEMMA RuleInvHolds == RuleSpec => []RuleInv
BY RuleInvInit, RuleInvNext, PTL DEF RuleSpec

LEMMA RuleInvOfTheProject ==
    ASSUME RuleInv, NEW w \in Judgements
    PROVE  OfTheProject(rows) /\ w \in Nat
<1>1. DOMAIN judged = 1..Len(judged) /\ Len(judged) \in Nat
  BY SeqFacts DEF RuleInv
<1>2. QED BY <1>1 DEF RuleInv, OfTheProject, RuleRows, Judgements

-------------------------------------------------------------------------------
(* What has left the window, and what a warning cites *)

\* Weeks that left the baseline window decide nothing: judged from the rows of
\* the last BaselineWindow weeks before it alone, a week fares the same.
THEOREM OldHistoryIsForgotten == RuleSpec => []OldHistoryDoesNotMatter
<1>1. ASSUME RuleInv PROVE OldHistoryDoesNotMatter
  <2> DEFINE past(w) == {r.week : r \in {x \in rows : x.week < w}}
             recent(w) == {v \in past(w) : Cardinality({u \in past(w) : u > v}) < BaselineWindow}
  <2>1. ASSUME NEW w \in Judgements
        PROVE  EvaluateMvpRules(InputOf({r \in rows : r.week \in recent(w) \cup {w}}, w))
                 = EvaluateMvpRules(InputOf(rows, w))
    <3>1. OfTheProject(rows) /\ w \in Nat
      BY <1>1, <2>1, RuleInvOfTheProject
    <3>2. /\ DOMAIN RecordsUpTo(rows, w) = {u \in WeeksOf(rows) : u <= w} \cup {w}
          /\ Now(RecordsUpTo(rows, w)) = w
      BY <3>1, RecordsAre
    <3>3. \A r \in rows : r.week \in Nat
      BY <3>1 DEF OfTheProject
    <3>4. DOMAIN RecordsUpTo(rows, w) \ {w} = past(w)
      BY <3>1, <3>2, <3>3 DEF WeeksOf
    <3>5. recent(w) = Before(RecordsUpTo(rows, w), BaselineWindow)
      <4> HIDE DEF past
      <4>1. QED BY <3>2, <3>4 DEF Before
    <3> HIDE DEF recent
    <3>6. PICK fewer : fewer = {r \in rows : r.week \in recent(w) \cup {w}}
      OBVIOUS
    <3>7. fewer = OfWeeks(rows, recent(w) \cup {w})
      BY <3>6, Zenon DEF OfWeeks
    <3>8. EvaluateMvpRules(InputOf(fewer, w)) = EvaluateMvpRules(InputOf(rows, w))
      BY <3>1, <3>5, <3>7, WindowDecides
    <3>9. QED BY <3>6, <3>8
  <2>2. QED BY <2>1, Zenon DEF OldHistoryDoesNotMatter
<1>2. QED BY <1>1, RuleInvHolds, PTL

\* What a verdict says of a rule is what the rule answered.
LEMMA WarningsAreResults ==
    ASSUME RuleInv, NEW w \in Judgements, NEW id \in DOMAIN judged[w].warnings,
           NEW result, result = EvaluateMvpRules(InputOf(rows, w))[id]
    PROVE  /\ id \in DOMAIN MvpRules /\ result.enough /\ result.evidence # {}
           /\ judged[w].warnings[id].baseline = result.baseline /\ judged[w].warnings[id].value = result.value
           /\ judged[w].warnings[id].evidence = WarningEvidence(result)
<1>1. PICK input : input = InputOf(rows, w)
  OBVIOUS
<1>2. PICK results : results = EvaluateMvpRules(input)
  OBVIOUS
<1>3. PICK decision : decision = ScoringDecision(subject.project, w)
  OBVIOUS
<1>4. judged[w] = Decided(input, results, decision)
  <2>1. judged[w] = Judge(rows, w)
    BY Zenon DEF RuleInv, ReplayAgrees
  <2>2. subject.project.id = "p"
    BY DEF RuleInv
  <2>3. RuleInput(rows, subject.project.id, subject.project.lifecycle, w) = input
    BY <1>1, <2>2, Zenon DEF InputOf
  <2>4. Judge(rows, w) = Decided(RuleInput(rows, subject.project.id, subject.project.lifecycle, w),
              EvaluateMvpRules(RuleInput(rows, subject.project.id, subject.project.lifecycle, w)),
              ScoringDecision(subject.project, w))
    BY Zenon DEF Judge, JudgeWeek
  <2>5. QED BY <1>2, <1>3, <2>1, <2>3, <2>4, Zenon
<1>5. PICK triggered : triggered = (IF decision = "score" THEN Triggered(results) ELSE {})
  OBVIOUS
<1>6. judged[w] = Verdict(input, results, triggered, decision)
  BY <1>4, <1>5, Zenon DEF Decided
<1>7. judged[w].warnings = [x \in triggered |->
        [severity |-> WarningSeverity(Cardinality(triggered)), value |-> results[x].value,
         baseline |-> results[x].baseline, evidence |-> WarningEvidence(results[x])]]
  BY <1>6 DEF Verdict
<1>8. id \in triggered /\ id \in Triggered(results)
  BY <1>5, <1>7
<1>9. DOMAIN results = DOMAIN MvpRules
  BY <1>2 DEF EvaluateMvpRules
<1>10. id \in DOMAIN MvpRules /\ results[id].enough /\ results[id].evidence # {}
  BY <1>8, <1>9 DEF Triggered
<1>11. result = results[id]
  BY <1>1, <1>2
<1>12. QED BY <1>7, <1>8, <1>10, <1>11

\* The references a triggered rule keeps are the weeks it compared, and the one judged.
LEMMA EvidenceIsOfTheCompared ==
    ASSUME NEW found, OfTheProject(found), NEW w \in Nat, NEW metric, NEW floor,
           NEW result, result.evidence = Evidence(PrepareMetric(RecordsUpTo(found, w), metric, floor), metric)
    PROVE  WarningEvidence(result) = {<<"p", v>> : v \in Compared(RecordsUpTo(found, w), metric, floor) \cup {w}}
<1>1. PICK records : records = RecordsUpTo(found, w)
  OBVIOUS
<1>2. PICK weeks : weeks = Compared(records, metric, floor)
  OBVIOUS
<1>3. PICK prepared : prepared = PrepareMetric(records, metric, floor)
  OBVIOUS
<1>4. w \in DOMAIN records /\ Now(records) = w /\ \A v \in DOMAIN records : records[v].ref = <<"p", v>>
  <2>1. /\ DOMAIN RecordsUpTo(found, w) = {u \in WeeksOf(found) : u <= w} \cup {w}
        /\ Now(RecordsUpTo(found, w)) = w
    BY RecordsAre
  <2>2. \A v \in DOMAIN RecordsUpTo(found, w) :
            RecordsUpTo(found, w)[v] = RecordOf(found, v) /\ RecordOf(found, v).ref = <<"p", v>>
    BY RecordsAre
  <2>3. QED BY <1>1, <2>1, <2>2
<1>5. weeks \subseteq DOMAIN records
  BY <1>2 DEF Compared, Reporting, Before
<1>6. prepared = Prepared(records, weeks, metric)
  BY <1>2, <1>3, Zenon DEF PrepareMetric, Compared
<1>7. prepared.current = records[w] /\ prepared.used = Restrict(records, weeks)
  BY <1>4, <1>6 DEF Prepared
<1>8. Range(prepared.used) = {records[v] : v \in weeks}
  BY <1>7 DEF Range, Restrict
<1>9. result.evidence = {Observation(r, metric) : r \in {records[v] : v \in weeks \cup {w}}}
  <2>1. Range(prepared.used) \cup {prepared.current} = {records[v] : v \in weeks \cup {w}}
    BY <1>7, <1>8
  <2>2. Evidence(prepared, metric) = {Observation(r, metric) : r \in Range(prepared.used) \cup {prepared.current}}
    BY Zenon DEF Evidence
  <2>3. QED BY <1>1, <1>3, <2>1, <2>2
<1>10. \A r : Observation(r, metric).ref = r.ref
  BY DEF Observation
<1>11. WarningEvidence(result) = {records[v].ref : v \in weeks \cup {w}}
  BY <1>9, <1>10 DEF WarningEvidence
<1>12. \A v \in weeks \cup {w} : records[v].ref = <<"p", v>>
  BY <1>4, <1>5
<1>13. WarningEvidence(result) = {<<"p", v>> : v \in weeks \cup {w}}
  BY <1>11, <1>12
<1>14. QED BY <1>1, <1>2, <1>13

\* What a rule compared is all it needs to answer as it did.
LEMMA ComparedDecides ==
    ASSUME NEW found, OfTheProject(found), NEW w \in Nat, NEW id \in DOMAIN MvpRules,
           NEW kept, kept = Compared(RecordsUpTo(found, w), MvpRules[id].metric, MvpRules[id].floor),
           NEW fewer, fewer = OfWeeks(found, kept \cup {w})
    PROVE  EvaluateMvpRules(InputOf(fewer, w))[id] = EvaluateMvpRules(InputOf(found, w))[id]
<1> DEFINE records == RecordsUpTo(found, w)
           other == RecordsUpTo(fewer, w)
           metric == MvpRules[id].metric
           floor == MvpRules[id].floor
<1>1. kept \subseteq Before(RecordsUpTo(found, w), BaselineWindow)
  BY DEF Compared, Reporting
<1>2. /\ (\A v \in kept \cup {w} : other[v] = records[v]) /\ Now(other) = w
      /\ Before(other, BaselineWindow) = kept /\ fewer \subseteq found
  BY <1>1, KeptWeeksAreTheWindow
<1>3. \A r \in found : r.project = "p" /\ r.week \in Nat
  BY DEF OfTheProject
<1>4. Now(records) = w
  BY RecordsAre
<1> HIDE DEF records, other, metric, floor
<1>5. kept = Compared(records, metric, floor)
  BY DEF records, metric, floor
<1>6. Compared(other, metric, floor) = kept
  <2>1. \A v \in kept : records[v].metric[metric] # Absent /\ Eligible(records[v], floor)
    BY <1>5 DEF Compared, Reporting
  <2>2. QED BY <1>2, <2>1 DEF Compared, Reporting
<1>7. PrepareMetric(other, metric, floor) = PrepareMetric(records, metric, floor)
  BY <1>2, <1>4, <1>5, <1>6, PreparedFromTheCompared
<1>8. \A r \in fewer : r.project = "p" /\ r.week \in Nat
  BY <1>2, <1>3
<1>9. /\ EvaluateMvpRules(InputOf(fewer, w))[id]
             = Evaluate(PauseState([lifecycle |-> subject.project.lifecycle]), PrepareMetric(other, metric, floor), MvpRules[id])
      /\ EvaluateMvpRules(InputOf(found, w))[id]
             = Evaluate(PauseState([lifecycle |-> subject.project.lifecycle]), PrepareMetric(records, metric, floor), MvpRules[id])
  BY <1>3, <1>8, RuleAnswers, Zenon DEF records, other, metric, floor
<1>10. QED BY <1>7, <1>9, Zenon

\* A warning carries what it takes to check it: from the weeks in its evidence
\* alone the same rule raises it again, with the baseline and the value it shows.
THEOREM WarningsCiteEnough == RuleSpec => []WarningsAreExplained
<1>1. ASSUME RuleInv PROVE WarningsAreExplained
  <2> DEFINE cited(w, id) == {r \in rows : <<"p", r.week>> \in judged[w].warnings[id].evidence}
             again(w, id) == EvaluateMvpRules(InputOf(cited(w, id), w))[id]
  <2>1. ASSUME NEW w \in Judgements, NEW id \in DOMAIN judged[w].warnings
        PROVE  /\ again(w, id).enough /\ again(w, id).evidence # {}
               /\ again(w, id).baseline = judged[w].warnings[id].baseline
               /\ again(w, id).value = judged[w].warnings[id].value
    <3>1. OfTheProject(rows) /\ w \in Nat
      BY <1>1, RuleInvOfTheProject
    <3>2. PICK result : result = EvaluateMvpRules(InputOf(rows, w))[id]
      OBVIOUS
    <3>3. /\ id \in DOMAIN MvpRules /\ result.enough /\ result.evidence # {}
          /\ judged[w].warnings[id].baseline = result.baseline /\ judged[w].warnings[id].value = result.value
          /\ judged[w].warnings[id].evidence = WarningEvidence(result)
      BY <1>1, <3>2, WarningsAreResults
    <3>4. PICK kept : kept = Compared(RecordsUpTo(rows, w), MvpRules[id].metric, MvpRules[id].floor)
      OBVIOUS
    <3>5. WarningEvidence(result) = {<<"p", v>> : v \in kept \cup {w}}
      <4>1. \A r \in rows : r.project = "p" /\ r.week \in Nat
        BY <3>1 DEF OfTheProject
      <4>2. result = Evaluate(PauseState([lifecycle |-> subject.project.lifecycle]),
                          PrepareMetric(RecordsUpTo(rows, w), MvpRules[id].metric, MvpRules[id].floor), MvpRules[id])
        BY <3>1, <3>2, <3>3, <4>1, RuleAnswers
      <4>3. result.evidence = Evidence(PrepareMetric(RecordsUpTo(rows, w), MvpRules[id].metric, MvpRules[id].floor),
                                       MvpRules[id].metric)
        BY <3>3, <4>2, TriggersAreShown
      <4>4. QED BY <3>1, <3>4, <4>3, EvidenceIsOfTheCompared
    <3>6. cited(w, id) = OfWeeks(rows, kept \cup {w})
      BY <3>3, <3>5 DEF OfWeeks
    <3>7. again(w, id) = result
      <4> HIDE DEF cited
      <4>1. PICK less : less = cited(w, id)
        OBVIOUS
      <4>2. EvaluateMvpRules(InputOf(less, w))[id] = EvaluateMvpRules(InputOf(rows, w))[id]
        BY <3>1, <3>3, <3>4, <3>6, <4>1, ComparedDecides
      <4>3. QED BY <3>2, <4>1, <4>2
    <3>8. QED BY <3>3, <3>7
  <2>2. QED BY <2>1, Zenon DEF WarningsAreExplained
<1>2. QED BY <1>1, RuleInvHolds, PTL

-------------------------------------------------------------------------------
(* A week's metrics, and what the floor hides of them *)

Counts == Nat \cup {Absent}
Contributors == "active_contributors"

\* What a week's record has for a metric.
Folded(bucket, m) ==
    LET values == Values(bucket, m)
    IN  IF m # "active_days" /\ values = <<>> THEN Absent
        ELSE CASE m \in {"active_days", "merged_count"} -> SumFunction(values)
               [] m = "days_since_activity" -> Min(Range(values))
               [] m = "oldest_open_pr_days" -> Max(Range(values))
               [] m = "review_latency_days" -> SumFunction(values) \div Cardinality(DOMAIN values)
               [] OTHER -> IF Cardinality(bucket) = 1 THEN Max(Range(values)) ELSE Absent

LEMMA CombineFolds ==
    ASSUME NEW project, NEW week, NEW bucket, NEW m \in Metrics
    PROVE  Combine(project, week, bucket).metric[m] = Folded(bucket, m)
<1>1. Combine(project, week, bucket).metric = [x \in Metrics |-> Folded(bucket, x)]
  BY Zenon DEF Combine, Folded
<1>2. QED BY <1>1

\* Everything about q is r's, but for a count of contributors below the floor.
Disguises(q, r) ==
    /\ q.week = r.week /\ q.complete = r.complete
    /\ q.team_size = r.team_size /\ r.team_size \in Counts
    /\ \A m \in Metrics :
         /\ q.metric[m] \in Counts /\ r.metric[m] \in Counts
         /\ q.metric[m] = Absent <=> r.metric[m] = Absent
         /\ q.metric[m] = r.metric[m] \/ (m = Contributors /\ r.team_size < AggregationFloor)

\* A week's rows, each in disguise.
Twins(twin, bucket, disguised) ==
    /\ IsFiniteSet(bucket) /\ disguised = {twin[r] : r \in bucket}
    /\ \A r, q \in bucket : twin[r] = twin[q] => r = q
    /\ \A r \in bucket : Disguises(twin[r], r)

\* A metric the disguise leaves alone folds as before.
LEMMA OthersFoldAlike ==
    ASSUME NEW twin, NEW bucket, NEW disguised, Twins(twin, bucket, disguised), NEW m \in Metrics, m # Contributors
    PROVE  Folded(disguised, m) = Folded(bucket, m)
<1>1. PICK f, g : f = Values(bucket, m) /\ g = Values(disguised, m)
  OBVIOUS
<1>2. \A r \in bucket : twin[r].metric[m] = r.metric[m] /\ r.metric[m] \in Counts
  BY DEF Twins, Disguises
<1>3. /\ DOMAIN f = {r \in bucket : r.metric[m] # Absent} /\ \A r \in DOMAIN f : f[r] = r.metric[m]
      /\ DOMAIN g = {r \in disguised : r.metric[m] # Absent} /\ \A r \in DOMAIN g : g[r] = r.metric[m]
  BY <1>1 DEF Values
<1>4. /\ DOMAIN f \subseteq bucket /\ DOMAIN g = {twin[r] : r \in DOMAIN f}
      /\ \A r \in DOMAIN f : g[twin[r]] = f[r] /\ f[r] \in Nat
  <2>1. disguised = {twin[r] : r \in bucket}
    BY DEF Twins
  <2>2. DOMAIN g = {twin[r] : r \in DOMAIN f}
    BY <1>2, <1>3, <2>1
  <2>3. \A r \in DOMAIN f : g[twin[r]] = f[r] /\ f[r] \in Nat
    BY <1>2, <1>3, <2>2 DEF Counts
  <2>4. QED BY <1>3, <2>2, <2>3
<1>5. Renames(twin, f, g) /\ CountsOn(f)
  <2>1. \A r, q \in bucket : twin[r] = twin[q] => r = q
    BY DEF Twins
  <2>2. IsFiniteSet(DOMAIN f)
    BY <1>4, FS_Subset DEF Twins
  <2>3. QED BY <1>4, <2>1, <2>2 DEF Renames, CountsOn
<1>6. SumFunction(g) = SumFunction(f)
  BY <1>5, SumOfTheRenamed
<1>7. Range(g) = Range(f)
  BY <1>4 DEF Range
<1>8. Cardinality(DOMAIN g) = Cardinality(DOMAIN f)
  BY <1>4, <1>5, CountOfTheRenamed DEF Renames, CountsOn
<1>9. g = <<>> <=> f = <<>>
  <2>1. f = [r \in DOMAIN f |-> f[r]] /\ g = [r \in DOMAIN g |-> g[r]]
    BY <1>1 DEF Values
  <2>2. DOMAIN g = {} <=> DOMAIN f = {}
    BY <1>4
  <2>3. DOMAIN f = {} => f = g
    BY <2>1, <2>2
  <2>4. DOMAIN <<>> = {}
    OBVIOUS
  <2>5. QED BY <2>2, <2>3, <2>4
<1>10. m \in {"active_days", "days_since_activity", "oldest_open_pr_days", "review_latency_days", "merged_count"}
  BY DEF Metrics, Contributors
<1>11. QED BY <1>1, <1>6, <1>7, <1>8, <1>9, <1>10 DEF Folded

\* Contributors are only known of a single row.
LEMMA ContributorsFolded ==
    ASSUME NEW bucket
    PROVE  /\ Cardinality(bucket) # 1 => Folded(bucket, Contributors) = Absent
           /\ \A r : bucket = {r} /\ r.metric[Contributors] \in Counts => Folded(bucket, Contributors) = r.metric[Contributors]
<1>1. PICK f : f = Values(bucket, Contributors)
  OBVIOUS
<1>2. Folded(bucket, Contributors) = IF f = <<>> \/ Cardinality(bucket) # 1 THEN Absent ELSE Max(Range(f))
  BY <1>1 DEF Folded, Contributors
<1>3. DOMAIN f = {r \in bucket : r.metric[Contributors] # Absent} /\ \A r \in DOMAIN f : f[r] = r.metric[Contributors]
  BY <1>1 DEF Values
<1>4. ASSUME NEW r, bucket = {r}, r.metric[Contributors] \in Counts
      PROVE  Folded(bucket, Contributors) = r.metric[Contributors]
  <2>1. CASE r.metric[Contributors] = Absent
    <3>1. DOMAIN f = {}
      BY <1>3, <1>4, <2>1
    <3>2. f = [x \in {} |-> x.metric[Contributors]]
      BY <1>1, <3>1 DEF Values
    <3>3. f = <<>>
      BY <3>2
    <3>4. QED BY <1>2, <2>1, <3>3
  <2>2. CASE r.metric[Contributors] \in Nat
    <3>1. DOMAIN f = {r} /\ f[r] = r.metric[Contributors]
      BY <1>3, <1>4, <2>2 DEF Absent
    <3>2. f # <<>> /\ Range(f) = {r.metric[Contributors]}
      BY <3>1 DEF Range
    <3>3. PICK n \in Nat : n = r.metric[Contributors]
      BY <2>2
    <3>4. Max({n}) = n
      <4>1. n \in {n} /\ \A y \in {n} : n >= y
        OBVIOUS
      <4>2. Max({n}) \in {n}
        BY <4>1, Zenon DEF Max
      <4>3. QED BY <4>2
    <3>5. Cardinality(bucket) = 1
      BY <1>4, FS_Singleton
    <3>6. QED BY <1>2, <3>2, <3>3, <3>4, <3>5
  <2>3. QED BY <1>4, <2>1, <2>2 DEF Counts
<1>5. QED BY <1>2, <1>4

\* A folded metric is a count, or missing.
LEMMA FoldedIsACount ==
    ASSUME NEW bucket, IsFiniteSet(bucket), NEW m \in Metrics, \A r \in bucket : r.metric[m] \in Counts
    PROVE  Folded(bucket, m) \in Counts
<1>1. PICK f : f = Values(bucket, m)
  OBVIOUS
<1>2. DOMAIN f = {r \in bucket : r.metric[m] # Absent} /\ \A r \in DOMAIN f : f[r] = r.metric[m]
  BY <1>1 DEF Values
<1>3. IsFiniteSet(DOMAIN f)
  BY <1>2, FS_Subset
<1>4. \A r \in DOMAIN f : f[r] \in Nat
  BY <1>2 DEF Counts
<1>5. CountsOn(f)
  BY <1>3, <1>4 DEF CountsOn
<1>6. SumFunction(f) \in Nat
  <2>1. PICK sf : IsSummedBy(f, sf)
    BY <1>5, SumsAre
  <2>2. DOMAIN f \in SUBSET DOMAIN f
    OBVIOUS
  <2>3. QED BY <2>1, <2>2 DEF IsSummedBy
<1>7. ASSUME f # <<>>
      PROVE  /\ Max(Range(f)) \in Nat /\ Min(Range(f)) \in Nat
             /\ SumFunction(f) \div Cardinality(DOMAIN f) \in Nat
  <2>1. DOMAIN f # {}
    <3>1. f = [r \in DOMAIN f |-> f[r]]
      BY <1>1 DEF Values
    <3>2. DOMAIN f = {} => f = <<>>
      BY <3>1
    <3>3. QED BY <1>7, <3>2
  <2>2. Range(f) = {f[r] : r \in DOMAIN f}
    BY DEF Range
  <2>3. IsFiniteSet(Range(f)) /\ Range(f) \subseteq Nat /\ Range(f) # {}
    BY <1>3, <1>4, <2>1, <2>2, FiniteImage
  <2>4. Max(Range(f)) \in Nat /\ Min(Range(f)) \in Nat
    BY <2>3, GreatestIsOfThem, LeastIsOfThem
  <2>5. Cardinality(DOMAIN f) \in Nat \ {0}
    BY <1>3, <2>1, FS_CardinalityType, FS_EmptySet
  <2>6. QED BY <1>6, <2>4, <2>5
<1>8. CASE m \in {"active_days", "merged_count"}
  BY <1>1, <1>6, <1>8 DEF Folded, Counts
<1>9. CASE m \in {"days_since_activity", "oldest_open_pr_days", "active_contributors"}
  BY <1>1, <1>7, <1>9 DEF Folded, Counts
<1>10. CASE m = "review_latency_days"
  BY <1>1, <1>7, <1>10 DEF Folded, Counts
<1>11. QED BY <1>8, <1>9, <1>10 DEF Metrics

\* Weeks whose rows differ in what the floor hides differ in it alone.
LEMMA DisguisedWeek ==
    ASSUME NEW twin, NEW bucket, NEW disguised, Twins(twin, bucket, disguised), NEW v
    PROVE  Disguises(Combine("p", v, disguised), Combine("p", v, bucket))
<1>1. PICK c, d : c = Combine("p", v, bucket) /\ d = Combine("p", v, disguised)
  OBVIOUS
<1>2. /\ IsFiniteSet(bucket) /\ disguised = {twin[r] : r \in bucket}
      /\ \A r \in bucket : Disguises(twin[r], r)
  BY DEF Twins
<1>3. IsFiniteSet(disguised) /\ Cardinality(disguised) = Cardinality(bucket)
  BY CountOfTheRenamed DEF Twins
<1>4. c.week = v /\ d.week = v
  BY <1>1 DEF Combine
<1>5. c.complete = d.complete
  <2>1. {r.complete : r \in disguised} = {r.complete : r \in bucket}
    BY <1>2 DEF Disguises
  <2>2. QED BY <1>1, <2>1 DEF Combine
<1>6. \A m \in Metrics : c.metric[m] = Folded(bucket, m) /\ d.metric[m] = Folded(disguised, m)
  BY <1>1, CombineFolds
<1>7. \A m \in Metrics : c.metric[m] \in Counts /\ d.metric[m] \in Counts
  <2> TAKE m \in Metrics
  <2>1. \A r \in bucket : r.metric[m] \in Counts
    BY <1>2 DEF Disguises
  <2>2. \A r \in disguised : r.metric[m] \in Counts
    BY <1>2 DEF Disguises
  <2>3. Folded(bucket, m) \in Counts
    BY <1>2, <2>1, FoldedIsACount
  <2>4. Folded(disguised, m) \in Counts
    BY <1>3, <2>2, FoldedIsACount
  <2>5. QED BY <1>6, <2>3, <2>4
<1>8. \A m \in Metrics \ {Contributors} : c.metric[m] = d.metric[m]
  BY <1>6, OthersFoldAlike
<1>9. CASE Cardinality(bucket) # 1
  <2>1. c.team_size = Absent /\ d.team_size = Absent
    BY <1>1, <1>3, <1>9 DEF Combine
  <2>2. c.metric[Contributors] = Absent /\ d.metric[Contributors] = Absent
    BY <1>3, <1>6, <1>9, ContributorsFolded DEF Metrics, Contributors
  <2>3. QED BY <1>1, <1>4, <1>5, <1>7, <1>8, <2>1, <2>2 DEF Disguises, Counts
<1>10. CASE Cardinality(bucket) = 1
  <2>1. PICK r : bucket = {r}
    BY <1>2, <1>10, FS_Singleton
  <2>2. PICK q : q = twin[r]
    OBVIOUS
  <2>3. disguised = {q} /\ Disguises(q, r)
    BY <1>2, <2>1, <2>2
  <2>4. Contributors \in Metrics
    BY DEF Contributors, Metrics
  <2>5. c.metric[Contributors] = r.metric[Contributors] /\ d.metric[Contributors] = q.metric[Contributors]
    <3>1. r.metric[Contributors] \in Counts /\ q.metric[Contributors] \in Counts
      BY <2>3, <2>4 DEF Disguises
    <3>2. Folded(bucket, Contributors) = r.metric[Contributors]
      BY <2>1, <3>1, ContributorsFolded
    <3>3. Folded(disguised, Contributors) = q.metric[Contributors]
      BY <2>3, <3>1, ContributorsFolded
    <3>4. QED BY <1>6, <2>4, <3>2, <3>3
  <2>6. /\ c.team_size = IF r.metric[Contributors] # Absent THEN r.team_size ELSE Absent
        /\ d.team_size = IF q.metric[Contributors] # Absent THEN q.team_size ELSE Absent
    <3>1. (CHOOSE x \in bucket : TRUE) = r /\ (CHOOSE x \in disguised : TRUE) = q
      BY <2>1, <2>3
    <3>2. Cardinality(disguised) = 1
      BY <1>3, <1>10
    <3>3. c.team_size = IF r.metric[Contributors] # Absent THEN r.team_size ELSE Absent
      BY <1>1, <1>10, <2>1, <3>1 DEF Combine, Contributors
    <3>4. d.team_size = IF q.metric[Contributors] # Absent THEN q.team_size ELSE Absent
      BY <1>1, <2>3, <3>1, <3>2 DEF Combine, Contributors
    <3>5. QED BY <3>3, <3>4
  <2>7. /\ q.team_size = r.team_size /\ r.team_size \in Counts
        /\ q.metric[Contributors] = Absent <=> r.metric[Contributors] = Absent
        /\ q.metric[Contributors] = r.metric[Contributors] \/ r.team_size < AggregationFloor
    BY <2>3, <2>4 DEF Disguises
  <2>8. d.team_size = c.team_size /\ c.team_size \in Counts
    BY <2>6, <2>7 DEF Counts
  <2>9. /\ d.metric[Contributors] = Absent <=> c.metric[Contributors] = Absent
        /\ d.metric[Contributors] = c.metric[Contributors] \/ c.team_size < AggregationFloor
    BY <2>5, <2>6, <2>7
  <2>10. QED BY <1>1, <1>4, <1>5, <1>7, <1>8, <2>8, <2>9 DEF Disguises
<1>11. QED BY <1>9, <1>10

-------------------------------------------------------------------------------
(* What the rules read of it *)

\* A rule whose metric the floor guards does not read what is below it.
ReadsOpenly(rule) ==
    /\ rule.metric \in Metrics /\ rule.floor \in {0, AggregationFloor}
    /\ rule.metric = Contributors => rule.floor = AggregationFloor

\* Two histories that differ in what the floor hides alone.
AlikeBelow(other, records) ==
    /\ DOMAIN other = DOMAIN records /\ Now(records) \in DOMAIN records
    /\ \A v \in DOMAIN records : Disguises(other[v], records[v]) /\ other[v].ref = records[v].ref

LEMMA RulesAreOpen == \A id \in DOMAIN MvpRules : ReadsOpenly(MvpRules[id])
<1>1. \A id \in DOMAIN MvpRules : MvpRules[id] \in {ActivityDecline, OpenPrAging, ReviewLatency, MergedThroughput, Inactivity, ContributorResilience}
  BY DEF MvpRules
<1>2. /\ ReadsOpenly(ActivityDecline) /\ ReadsOpenly(OpenPrAging) /\ ReadsOpenly(ReviewLatency)
      /\ ReadsOpenly(MergedThroughput) /\ ReadsOpenly(Inactivity) /\ ReadsOpenly(ContributorResilience)
  BY DEF ReadsOpenly, Metrics, Contributors, ActivityDecline, OpenPrAging, ReviewLatency, MergedThroughput,
         Inactivity, ContributorResilience, Fall, Rise
<1>3. QED BY <1>1, <1>2

\* The same weeks are compared.
LEMMA ComparedAlike ==
    ASSUME NEW records, NEW other, AlikeBelow(other, records), NEW metric \in Metrics, NEW floor \in {0, AggregationFloor}
    PROVE  Now(other) = Now(records) /\ Compared(other, metric, floor) = Compared(records, metric, floor)
<1>1. DOMAIN other = DOMAIN records
  BY DEF AlikeBelow
<1>2. Now(other) = Now(records)
  BY <1>1, Zenon DEF Now
<1>3. Before(other, BaselineWindow) = Before(records, BaselineWindow)
  BY <1>1, <1>2, Zenon DEF Before
<1>4. \A v \in DOMAIN records : /\ other[v].metric[metric] # Absent <=> records[v].metric[metric] # Absent
                               /\ Eligible(other[v], floor) = Eligible(records[v], floor)
  BY DEF AlikeBelow, Disguises, Eligible
<1>5. PICK weeks : weeks = Before(records, BaselineWindow)
  OBVIOUS
<1>6. weeks \subseteq DOMAIN records
  BY <1>5 DEF Before
<1>7. QED BY <1>2, <1>3, <1>4, <1>5, <1>6 DEF Compared, Reporting

\* Where a rule reads, the disguise shows what there was.
LEMMA ReadAlike ==
    ASSUME NEW records, NEW other, AlikeBelow(other, records), NEW rule, ReadsOpenly(rule),
           NEW v \in DOMAIN records, Eligible(records[v], rule.floor)
    PROVE  other[v].metric[rule.metric] = records[v].metric[rule.metric]
<1>1. /\ rule.metric \in Metrics /\ rule.floor \in {0, AggregationFloor}
      /\ rule.metric = Contributors => rule.floor = AggregationFloor
  BY DEF ReadsOpenly
<1>2. Disguises(other[v], records[v])
  BY DEF AlikeBelow
<1>3. /\ records[v].team_size \in Int
      /\ other[v].metric[rule.metric] = records[v].metric[rule.metric]
           \/ (rule.metric = Contributors /\ records[v].team_size < AggregationFloor)
  BY <1>1, <1>2 DEF Disguises, Counts, Absent
<1>4. AggregationFloor \in Nat \ {0}
  BY AggregatesAssumption
<1>5. QED BY <1>1, <1>3, <1>4 DEF Eligible

LEMMA EvaluateAlike ==
    ASSUME NEW records, NEW other, AlikeBelow(other, records), NEW rule, ReadsOpenly(rule), NEW pause
    PROVE  Evaluate(pause, PrepareMetric(other, rule.metric, rule.floor), rule)
             = Evaluate(pause, PrepareMetric(records, rule.metric, rule.floor), rule)
<1>1. PICK metric, floor : metric = rule.metric /\ floor = rule.floor
  OBVIOUS
<1>2. metric \in Metrics /\ floor \in {0, AggregationFloor}
  BY <1>1 DEF ReadsOpenly
<1>3. PICK weeks, now : weeks = Compared(records, metric, floor) /\ now = Now(records)
  OBVIOUS
<1>4. Now(other) = now /\ Compared(other, metric, floor) = weeks
  BY <1>2, <1>3, ComparedAlike
<1>5. PICK p, q : p = PrepareMetric(records, metric, floor) /\ q = PrepareMetric(other, metric, floor)
  OBVIOUS
<1>6. p = Prepared(records, weeks, metric) /\ q = Prepared(other, weeks, metric)
  BY <1>3, <1>4, <1>5, Zenon DEF PrepareMetric, Compared
<1>7. now \in DOMAIN records /\ weeks \subseteq DOMAIN records /\ DOMAIN other = DOMAIN records
  BY <1>3 DEF AlikeBelow, Compared, Reporting, Before
<1>8. /\ p.current = records[now] /\ q.current = other[now]
      /\ p.used = Restrict(records, weeks) /\ q.used = Restrict(other, weeks)
  BY <1>3, <1>4, <1>6 DEF Prepared
<1>9. p.enough = q.enough
  <2>1. records[now].metric[metric] # Absent <=> other[now].metric[metric] # Absent
    BY <1>2, <1>7 DEF AlikeBelow, Disguises
  <2>2. QED BY <1>3, <1>4, <1>6, <2>1 DEF Prepared
<1>10. Eligible(q.current, floor) = Eligible(p.current, floor)
  BY <1>7, <1>8 DEF AlikeBelow, Disguises, Eligible
<1>11. CASE floor # 0 /\ (pause # "none" \/ ~Eligible(p.current, floor))
  BY <1>1, <1>5, <1>10, <1>11 DEF Evaluate
<1>12. CASE floor = 0 /\ pause # "none"
  BY <1>1, <1>5, <1>12 DEF Evaluate
<1>13. CASE pause = "none" /\ (floor = 0 \/ Eligible(p.current, floor))
  <2>1. Eligible(records[now], floor)
    BY <1>8, <1>13 DEF Eligible
  <2>2. \A v \in weeks : Eligible(records[v], floor)
    BY <1>3 DEF Compared
  <2>3. \A v \in weeks \cup {now} : other[v].metric[metric] = records[v].metric[metric]
    BY <1>1, <1>7, <2>1, <2>2, ReadAlike
  <2>4. UsedValues(q, metric) = UsedValues(p, metric)
    BY <1>8, <2>3 DEF UsedValues, Restrict
  <2>5. Evidence(q, metric) = Evidence(p, metric)
    <3>1. /\ Range(p.used) \cup {p.current} = {records[v] : v \in weeks \cup {now}}
          /\ Range(q.used) \cup {q.current} = {other[v] : v \in weeks \cup {now}}
      BY <1>8 DEF Range, Restrict
    <3>2. \A v \in weeks \cup {now} : Observation(other[v], metric) = Observation(records[v], metric)
      BY <1>7, <2>3 DEF Observation, AlikeBelow, Disguises
    <3>3. Evidence(p, metric) = {Observation(records[v], metric) : v \in weeks \cup {now}}
      BY <3>1 DEF Evidence
    <3>4. Evidence(q, metric) = {Observation(other[v], metric) : v \in weeks \cup {now}}
      BY <3>1 DEF Evidence
    <3>5. QED BY <3>2, <3>3, <3>4
  <2>6. q.current.metric[metric] = p.current.metric[metric]
    BY <1>8, <2>3
  <2>7. \A b : Compare(q, rule, b) = Compare(p, rule, b)
    <3>1. \A b, t, x : RuleResult(q, metric, b, t, x) = RuleResult(p, metric, b, t, x)
      BY <2>5, <2>6 DEF RuleResult
    <3>2. QED BY <1>1, <2>6, <3>1 DEF Compare
  <2>8. \A z : z \in {p, q} => Evaluate(pause, z, rule) =
            IF z.enough THEN Compare(z, rule, Baseline(UsedValues(z, rule.metric), rule.statistic))
            ELSE EmptyResult(z.current.metric[rule.metric])
    BY <1>1, <1>10, <1>13 DEF Evaluate
  <2>9. QED BY <1>1, <1>5, <1>9, <2>4, <2>6, <2>7, <2>8
<1>14. QED BY <1>11, <1>12, <1>13

\* The charts of what is not hidden are drawn alike.
LEMMA ChartsAlike ==
    ASSUME NEW records, NEW other, AlikeBelow(other, records), NEW m \in Metrics, m # Contributors
    PROVE  TrendSeries(other, m) = TrendSeries(records, m)
<1> DEFINE at(n) == {v \in DOMAIN records : Cardinality({u \in DOMAIN records : u > v}) = n}
           shown(f, n) == {f[v].metric[m] : v \in at(n)}
<1>1. DOMAIN other = DOMAIN records /\ \A v \in DOMAIN records : other[v].metric[m] = records[v].metric[m]
  BY DEF AlikeBelow, Disguises
<1>2. \A n : shown(other, n) = shown(records, n)
  BY <1>1
<1>3. /\ TrendSeries(records, m) = [n \in 0..(SeriesWeeks - 1) |-> Max({Absent} \cup shown(records, n))]
      /\ TrendSeries(other, m) = [n \in 0..(SeriesWeeks - 1) |-> Max({Absent} \cup shown(other, n))]
  BY <1>1, Zenon DEF TrendSeries
<1> HIDE DEF shown
<1>4. QED BY <1>2, <1>3

\* A verdict shows nothing of it either, but in the chart of a week at the floor.
LEMMA VerdictAlike ==
    ASSUME NEW input, NEW other, Disguises(other.current, input.current),
           AlikeBelow(HistoryRecords(other), HistoryRecords(input)), NEW results, NEW decision,
           NEW verdict, verdict = Decided(input, results, decision), NEW again, again = Decided(other, results, decision)
    PROVE  /\ WithoutTheChart(again) = WithoutTheChart(verdict)
           /\ verdict.contributors = Absent => again = verdict
<1>1. PICK c, d, triggered : /\ c = input.current /\ d = other.current /\ Disguises(d, c)
                             /\ triggered = IF decision = "score" THEN Triggered(results) ELSE {}
  OBVIOUS
<1>2. verdict = Verdict(input, results, triggered, decision) /\ again = Verdict(other, results, triggered, decision)
  BY <1>1, Zenon DEF Decided
<1>3. c.complete = d.complete /\ c.team_size = d.team_size
  BY <1>1 DEF Disguises
<1>4. StatusForResults(results, d) = StatusForResults(results, c)
  BY <1>3 DEF StatusForResults, CompleteEnough
<1>5. PublishedContributors(d) = PublishedContributors(c)
  <2>1. c.team_size \in Int /\ AggregationFloor \in Nat
    BY <1>1, AggregatesAssumption DEF Disguises, Counts, Absent
  <2>2. "active_contributors" \in Metrics /\ Contributors = "active_contributors"
    BY DEF Metrics, Contributors
  <2>3. d.metric["active_contributors"] = c.metric["active_contributors"] \/ c.team_size < AggregationFloor
    BY <1>1, <2>2 DEF Disguises
  <2>4. QED BY <1>3, <2>1, <2>3 DEF PublishedContributors
<1>6. PICK drawn : drawn = {"active_days", "review_latency_days"} \cup
                           (IF PublishedContributors(c) # Absent THEN {Contributors} ELSE {})
  OBVIOUS
<1>7. PICK s, t : /\ s = Series(input) /\ s = [m \in drawn |-> TrendSeries(HistoryRecords(input), m)]
                  /\ t = Series(other) /\ t = [m \in drawn |-> TrendSeries(HistoryRecords(other), m)]
  BY <1>1, <1>5, <1>6, Zenon DEF Series, Contributors
<1>8. DOMAIN s = drawn /\ DOMAIN t = drawn /\ \A m \in drawn \ {Contributors} : t[m] = s[m]
  <2>1. drawn \ {Contributors} \subseteq Metrics
    BY <1>6 DEF Metrics
  <2>2. \A m \in drawn \ {Contributors} : TrendSeries(HistoryRecords(other), m) = TrendSeries(HistoryRecords(input), m)
    BY <2>1, ChartsAlike
  <2>3. QED BY <1>7, <2>2
<1>9. PICK e, f : e = Baselines(s) /\ f = Baselines(t)
  OBVIOUS
<1>10. /\ DOMAIN e = drawn \ {"active_days"} /\ DOMAIN f = drawn \ {"active_days"}
       /\ \A m \in DOMAIN e \ {Contributors} : f[m] = e[m]
       /\ e = [m \in drawn \ {"active_days"} |-> e[m]] /\ f = [m \in drawn \ {"active_days"} |-> f[m]]
  BY <1>8, <1>9 DEF Baselines
<1>11. PICK status, warnings :
         /\ status = IF decision = "score" THEN StatusForResults(results, c) ELSE decision
         /\ warnings = [id \in triggered |->
                [severity |-> WarningSeverity(Cardinality(triggered)), value |-> results[id].value,
                 baseline |-> results[id].baseline, evidence |-> WarningEvidence(results[id])]]
  OBVIOUS
<1> DEFINE shape(x, y) == [status |-> status, complete |-> c.complete, contributors |-> PublishedContributors(c),
                           series |-> x, series_baselines |-> y, warnings |-> warnings]
           less(x) == [m \in DOMAIN x \ {Contributors} |-> x[m]]
<1>12. /\ verdict = shape(s, e) /\ again = shape(t, f)
       /\ \A x, y : WithoutTheChart(shape(x, y)) = shape(less(x), less(y))
  <2>1. verdict = shape(s, e) /\ again = shape(t, f)
    BY <1>1, <1>2, <1>3, <1>4, <1>5, <1>7, <1>9, <1>11, Zenon DEF Verdict
  <2>2. ASSUME NEW x, NEW y PROVE WithoutTheChart(shape(x, y)) = shape(less(x), less(y))
    <3>1. \A v : WithoutTheChart(v) = [[v EXCEPT !.series = less(v.series)]
                                          EXCEPT !.series_baselines = less([v EXCEPT !.series = less(v.series)].series_baselines)]
      BY DEF WithoutTheChart, Restrict, Contributors
    <3> HIDE DEF less
    <3>2. \A z : [shape(x, y) EXCEPT !.series = z] = shape(z, y) /\ [shape(z, y) EXCEPT !.series_baselines = less(y)] = shape(z, less(y))
      OBVIOUS
    <3>3. shape(x, y).series = x /\ \A z : shape(z, y).series_baselines = y
      OBVIOUS
    <3> HIDE DEF shape
    <3>4. WithoutTheChart(shape(x, y)) = [shape(less(x), y) EXCEPT !.series_baselines = less(y)]
      BY <3>1, <3>2, <3>3
    <3>5. QED BY <3>2, <3>4
  <2>3. QED BY <2>1, <2>2
<1>13. less(t) = less(s) /\ less(f) = less(e)
  BY <1>8, <1>10
<1>14. ASSUME verdict.contributors = Absent PROVE t = s /\ f = e
  <2>1. PublishedContributors(c) = Absent
    BY <1>12, <1>14
  <2>2. Contributors \notin drawn
    BY <1>6, <2>1 DEF Contributors
  <2>3. \A m \in drawn : t[m] = s[m]
    BY <1>8, <2>2
  <2>4. QED BY <1>7, <1>8, <1>9, <2>3
<1> HIDE DEF shape, less
<1>15. QED BY <1>12, <1>13, <1>14

\* The disguise of a history, row by row.
IsDisguise(twin, found, changed) ==
    /\ Twins(twin, found, changed)
    /\ \A r \in found : twin[r].project = r.project

LEMMA RecordsAlike ==
    ASSUME NEW found, OfTheProject(found), NEW twin, NEW changed, IsDisguise(twin, found, changed), NEW w \in Nat
    PROVE  /\ OfTheProject(changed) /\ AlikeBelow(RecordsUpTo(changed, w), RecordsUpTo(found, w))
           /\ Disguises(RecordOf(changed, w), RecordOf(found, w))
<1>1. /\ IsFiniteSet(found) /\ changed = {twin[r] : r \in found}
      /\ \A r \in found : Disguises(twin[r], r) /\ twin[r].project = r.project /\ twin[r].week = r.week
  BY DEF IsDisguise, Twins, Disguises
<1>2. OfTheProject(changed)
  <2>1. IsFiniteSet(changed)
    BY <1>1, FiniteImage
  <2>2. QED BY <1>1, <2>1 DEF OfTheProject
<1>3. WeeksOf(changed) = WeeksOf(found)
  BY <1>1 DEF WeeksOf
<1>4. \A v : Twins(twin, RowsOf(found, v), RowsOf(changed, v))
  <2> TAKE v
  <2>1. RowsOf(changed, v) = {twin[r] : r \in RowsOf(found, v)} /\ RowsOf(found, v) \subseteq found
    BY <1>1 DEF RowsOf
  <2>2. IsFiniteSet(RowsOf(found, v))
    BY <1>1, <2>1, FS_Subset
  <2>3. QED BY <2>1, <2>2 DEF IsDisguise, Twins
<1>5. \A v \in Nat : Disguises(RecordOf(changed, v), RecordOf(found, v))
  <2> TAKE v \in Nat
  <2>1. CASE v \in WeeksOf(found)
    <3>1. RecordOf(found, v) = Combine("p", v, RowsOf(found, v)) /\ RecordOf(changed, v) = Combine("p", v, RowsOf(changed, v))
      BY <1>3, <2>1 DEF RecordOf
    <3>2. Twins(twin, RowsOf(found, v), RowsOf(changed, v))
      BY <1>4
    <3>3. Disguises(Combine("p", v, RowsOf(changed, v)), Combine("p", v, RowsOf(found, v)))
      BY <3>2, DisguisedWeek
    <3>4. QED BY <3>1, <3>3
  <2>2. CASE v \notin WeeksOf(found)
    <3>1. RecordOf(found, v) = Placeholder("p", v) /\ RecordOf(changed, v) = Placeholder("p", v)
      BY <1>3, <2>2 DEF RecordOf
    <3>2. QED BY <3>1 DEF Disguises, Placeholder, NoMetrics, Counts
  <2>3. QED BY <2>1, <2>2
<1>6. AlikeBelow(RecordsUpTo(changed, w), RecordsUpTo(found, w))
  <2>1. PICK records, other : records = RecordsUpTo(found, w) /\ other = RecordsUpTo(changed, w)
    OBVIOUS
  <2>2. DOMAIN records = {u \in WeeksOf(found) : u <= w} \cup {w} /\ Now(records) = w
    BY <2>1, RecordsAre
  <2>3. DOMAIN other = {u \in WeeksOf(changed) : u <= w} \cup {w}
    BY <1>2, <2>1, RecordsAre
  <2>4. \A v \in DOMAIN records : v \in Nat /\ records[v] = RecordOf(found, v) /\ RecordOf(found, v).ref = <<"p", v>>
    BY <2>1, RecordsAre
  <2>5. \A v \in DOMAIN other : other[v] = RecordOf(changed, v) /\ RecordOf(changed, v).ref = <<"p", v>>
    BY <1>2, <2>1, RecordsAre
  <2>6. DOMAIN other = DOMAIN records
    BY <1>3, <2>2, <2>3
  <2>7. AlikeBelow(other, records)
    BY <1>5, <2>2, <2>4, <2>5, <2>6 DEF AlikeBelow
  <2>8. QED BY <2>1, <2>7
<1>7. QED BY <1>2, <1>5, <1>6

\* A disguised history is judged as the history itself.
LEMMA DisguisedJudgement ==
    ASSUME RuleInv, NEW w \in Judgements, NEW twin, NEW changed, IsDisguise(twin, rows, changed)
    PROVE  /\ WithoutTheChart(Judge(changed, w)) = WithoutTheChart(judged[w])
           /\ judged[w].contributors = Absent => Judge(changed, w) = judged[w]
<1>1. OfTheProject(rows) /\ w \in Nat
  BY RuleInvOfTheProject
<1>2. /\ OfTheProject(changed) /\ AlikeBelow(RecordsUpTo(changed, w), RecordsUpTo(rows, w))
      /\ Disguises(RecordOf(changed, w), RecordOf(rows, w))
  BY <1>1, RecordsAlike
<1>3. \A r \in rows \cup changed : r.project = "p" /\ r.week \in Nat
  BY <1>1, <1>2 DEF OfTheProject
<1>4. /\ InputOf(rows, w).current = RecordOf(rows, w) /\ InputOf(changed, w).current = RecordOf(changed, w)
      /\ HistoryRecords(InputOf(rows, w)) = RecordsUpTo(rows, w)
      /\ HistoryRecords(InputOf(changed, w)) = RecordsUpTo(changed, w)
  BY <1>1, <1>3, InputIsOfTheWeeks
<1>5. \A id \in DOMAIN MvpRules : EvaluateMvpRules(InputOf(changed, w))[id] = EvaluateMvpRules(InputOf(rows, w))[id]
  <2> TAKE id \in DOMAIN MvpRules
  <2>1. PICK pause : pause = PauseState([lifecycle |-> subject.project.lifecycle])
    OBVIOUS
  <2>2. EvaluateMvpRules(InputOf(rows, w))[id]
             = Evaluate(pause, PrepareMetric(RecordsUpTo(rows, w), MvpRules[id].metric, MvpRules[id].floor), MvpRules[id])
    BY <1>1, <1>3, <2>1, RuleAnswers
  <2>3. EvaluateMvpRules(InputOf(changed, w))[id]
             = Evaluate(pause, PrepareMetric(RecordsUpTo(changed, w), MvpRules[id].metric, MvpRules[id].floor), MvpRules[id])
    BY <1>1, <1>3, <2>1, RuleAnswers
  <2>4. PICK rule : rule = MvpRules[id] /\ ReadsOpenly(rule)
    BY RulesAreOpen
  <2>5. Evaluate(pause, PrepareMetric(RecordsUpTo(changed, w), rule.metric, rule.floor), rule)
          = Evaluate(pause, PrepareMetric(RecordsUpTo(rows, w), rule.metric, rule.floor), rule)
    BY <1>2, <2>4, EvaluateAlike
  <2>6. QED BY <2>2, <2>3, <2>4, <2>5
<1>6. EvaluateMvpRules(InputOf(changed, w)) = EvaluateMvpRules(InputOf(rows, w))
  <2>1. \A input : EvaluateMvpRules(input) = [id \in DOMAIN MvpRules |-> EvaluateMvpRules(input)[id]]
    BY DEF EvaluateMvpRules
  <2>2. QED BY <1>5, <2>1
<1>7. \A found : Judge(found, w) = Decided(InputOf(found, w), EvaluateMvpRules(InputOf(found, w)),
                                        ScoringDecision(subject.project, w))
  <2> TAKE found
  <2>1. RuleInput(found, subject.project.id, subject.project.lifecycle, w) = InputOf(found, w)
    BY Zenon DEF RuleInv, InputOf
  <2>2. Judge(found, w) = Decided(RuleInput(found, subject.project.id, subject.project.lifecycle, w),
              EvaluateMvpRules(RuleInput(found, subject.project.id, subject.project.lifecycle, w)),
              ScoringDecision(subject.project, w))
    BY Zenon DEF Judge, JudgeWeek
  <2>3. QED BY <2>1, <2>2, Zenon
<1>8. PICK results, decision : results = EvaluateMvpRules(InputOf(rows, w)) /\ decision = ScoringDecision(subject.project, w)
  OBVIOUS
<1>9. /\ Judge(rows, w) = Decided(InputOf(rows, w), results, decision)
      /\ Judge(changed, w) = Decided(InputOf(changed, w), results, decision)
  BY <1>6, <1>7, <1>8
<1>10. Judge(rows, w) = judged[w]
  BY DEF RuleInv, ReplayAgrees
<1>11. /\ WithoutTheChart(Judge(changed, w)) = WithoutTheChart(Judge(rows, w))
       /\ Judge(rows, w).contributors = Absent => Judge(changed, w) = Judge(rows, w)
  <2>1. /\ Disguises(InputOf(changed, w).current, InputOf(rows, w).current)
        /\ AlikeBelow(HistoryRecords(InputOf(changed, w)), HistoryRecords(InputOf(rows, w)))
    BY <1>2, <1>4
  <2>2. PICK input, other : input = InputOf(rows, w) /\ other = InputOf(changed, w)
    OBVIOUS
  <2>3. PICK verdict, again : /\ verdict = Decided(input, results, decision) /\ again = Decided(other, results, decision)
    OBVIOUS
  <2>4. WithoutTheChart(again) = WithoutTheChart(verdict) /\ (verdict.contributors = Absent => again = verdict)
    BY <2>1, <2>2, <2>3, VerdictAlike
  <2>5. QED BY <1>9, <2>2, <2>3, <2>4
<1>12. QED BY <1>10, <1>11

\* How many contributors a team below the floor had decides nothing: with any other
\* counts in their place every status, warning and published count stands, and so
\* does all of a judgement whose own week publishes no count.
THEOREM FloorHolds == RuleSpec => []HiddenCountsDecideNothing
<1>1. ASSUME RuleInv PROVE HiddenCountsDecideNothing
  <2> DEFINE hidden(r) == r.team_size < AggregationFloor /\ r.metric["active_contributors"] # Absent
             put(r, n) == IF hidden(r) THEN [r EXCEPT !.metric["active_contributors"] = n] ELSE r
             changed(n) == {put(r, n) : r \in rows}
  <2>1. ASSUME NEW n \in Levels, NEW w \in Judgements
        PROVE  /\ WithoutTheChart(Judge(changed(n), w)) = WithoutTheChart(judged[w])
               /\ judged[w].contributors = Absent => Judge(changed(n), w) = judged[w]
    <3> DEFINE twin == [r \in rows |-> put(r, n)]
    <3>1. n \in Nat
      BY ReplayAssumption
    <3>2. \A r \in rows : /\ r.id = <<r.repo, r.week>> /\ r.team_size \in Counts
                          /\ r \in [id : {"a", "b"} \X (1..Len(judged)), project : {"p"}, repo : {"a", "b"},
                                    week : 1..Len(judged), team_size : Nat \cup {Absent}, complete : {100},
                                    metric : [Metrics -> Nat \cup {Absent}]]
      BY <1>1 DEF RuleInv, RuleRows, Counts
    <3>3. \A r \in rows : /\ put(r, n).id = r.id /\ put(r, n).project = r.project /\ put(r, n).week = r.week
                          /\ put(r, n).complete = r.complete /\ put(r, n).team_size = r.team_size
                          /\ put(r, n).metric = IF hidden(r) THEN [r.metric EXCEPT !["active_contributors"] = n] ELSE r.metric
      BY <3>2
    <3>4. \A r \in rows : Disguises(put(r, n), r)
      <4> TAKE r \in rows
      <4>1. r.metric \in [Metrics -> Counts] /\ r.team_size \in Counts
        BY <3>2 DEF Counts
      <4>2. PICK q : q = put(r, n)
        OBVIOUS
      <4>3. /\ q.week = r.week /\ q.complete = r.complete /\ q.team_size = r.team_size
            /\ q.metric = IF hidden(r) THEN [r.metric EXCEPT !["active_contributors"] = n] ELSE r.metric
        BY <3>3, <4>2
      <4>4. ASSUME NEW m \in Metrics
            PROVE  /\ q.metric[m] \in Counts /\ r.metric[m] \in Counts
                   /\ q.metric[m] = Absent <=> r.metric[m] = Absent
                   /\ q.metric[m] = r.metric[m] \/ (m = Contributors /\ r.team_size < AggregationFloor)
        BY <3>1, <4>1, <4>3 DEF Counts, Contributors, Absent
      <4>5. Disguises(q, r)
        BY <4>1, <4>3, <4>4 DEF Disguises
      <4>6. QED BY <4>2, <4>5
    <3> HIDE DEF put, hidden
    <3>5. changed(n) = {twin[r] : r \in rows} /\ \A r \in rows : twin[r] = put(r, n)
      OBVIOUS
    <3>6. \A r, q \in rows : twin[r] = twin[q] => r = q
      <4>1. \A r, q \in rows : r.id = q.id => r = q
        BY <1>1 DEF RuleInv
      <4>2. \A r \in rows : twin[r].id = r.id
        BY <3>3, <3>5
      <4>3. QED BY <4>1, <4>2
    <3> HIDE DEF twin, changed
    <3>7. IsDisguise(twin, rows, changed(n))
      BY <1>1, <3>3, <3>4, <3>5, <3>6 DEF IsDisguise, Twins, RuleInv
    <3>8. QED BY <1>1, <3>7, DisguisedJudgement
  <2>2. \A n : Disguised(rows, n) = changed(n)
    BY Zenon DEF Disguised
  <2> HIDE DEF changed
  <2>3. QED BY <2>1, <2>2, Zenon DEF HiddenCountsDecideNothing
<1>2. QED BY <1>1, RuleInvHolds, PTL

-------------------------------------------------------------------------------
(* Baselines lie among the values they are of *)

\* There is a k-th value.
LEMMA OrderedIsOneOfThem ==
    ASSUME NEW values, CountsOn(values), NEW k \in Nat \ {0}, k <= Cardinality(DOMAIN values)
    PROVE  Ordered(values, k) \in Range(values)
<1> DEFINE D == DOMAIN values
           Below(v) == {d \in D : values[d] < v}
           UpTo_(v) == {d \in D : values[d] <= v}
           enough == {v \in Range(values) : Cardinality(UpTo_(v)) >= k}
<1>1. /\ IsFiniteSet(D) /\ Cardinality(D) \in Nat /\ (\A d \in D : values[d] \in Nat)
      /\ Range(values) = {values[d] : d \in D}
  BY FS_CardinalityType DEF CountsOn, Range
<1>2. Range(values) \subseteq Nat /\ IsFiniteSet(Range(values))
  BY <1>1, FiniteImage
<1>3. D # {}
  BY <1>1, FS_EmptySet
<1>4. Max(Range(values)) \in enough
  <2>1. Range(values) # {}
    BY <1>1, <1>3
  <2>2. Max(Range(values)) \in Range(values) /\ \A v \in Range(values) : v <= Max(Range(values))
    BY <1>2, <2>1, GreatestIsOfThem
  <2>3. UpTo_(Max(Range(values))) = D
    BY <1>1, <2>2
  <2>4. QED BY <2>2, <2>3
<1>5. PICK x \in enough : \A y \in enough : x <= y
  <2>1. enough \subseteq Nat /\ enough # {}
    BY <1>2, <1>4
  <2>2. QED BY <2>1, LeastNatural
<1>6. Cardinality(Below(x)) < k
  <2>1. CASE Below(x) = {}
    BY <2>1, FS_EmptySet
  <2>2. CASE Below(x) # {}
    <3> DEFINE less == {values[d] : d \in Below(x)}
    <3>1. IsFiniteSet(less) /\ less \subseteq Nat /\ less # {}
      <4>1. IsFiniteSet(Below(x))
        BY <1>1, FS_Subset
      <4>2. IsFiniteSet(less)
        BY <4>1, FiniteImage
      <4>3. QED BY <1>1, <2>2, <4>2
    <3>2. PICK y \in less : \A z \in less : z <= y
      BY <3>1, GreatestIsOfThem
    <3>3. y \in Range(values) /\ y < x
      BY <1>1
    <3>4. Below(x) = UpTo_(y)
      BY <1>1, <1>2, <3>2, <3>3
    <3>5. y \notin enough
      <4>1. x \in Nat /\ y \in Nat
        BY <1>2, <3>3
      <4>2. QED BY <1>5, <3>3, <4>1
    <3>6. Cardinality(UpTo_(y)) \in Nat
      BY <1>1, FS_Subset, FS_CardinalityType
    <3>7. QED BY <3>3, <3>4, <3>5, <3>6
  <2>3. QED BY <2>1, <2>2
<1>7. x \in Range(values) /\ Cardinality(Below(x)) < k /\ Cardinality(UpTo_(x)) >= k
  BY <1>6
<1>8. Ordered(values, k) = CHOOSE v \in Range(values) : Cardinality(Below(v)) < k /\ Cardinality(UpTo_(v)) >= k
  BY Zenon DEF Ordered
<1> HIDE DEF Below, UpTo_
<1>9. QED BY <1>7, <1>8

\* Values that are counts between lo and hi.
Within(values, lo, hi) ==
    /\ CountsOn(values) /\ DOMAIN values # {} /\ lo \in Nat /\ hi \in Nat
    /\ \A d \in DOMAIN values : lo <= values[d] /\ values[d] <= hi

LEMMA OrderedWithin ==
    ASSUME NEW values, NEW lo, NEW hi, Within(values, lo, hi), NEW k \in Nat \ {0}, k <= Cardinality(DOMAIN values)
    PROVE  Ordered(values, k) \in Nat /\ lo <= Ordered(values, k) /\ Ordered(values, k) <= hi
<1>1. CountsOn(values)
  BY DEF Within
<1>2. Ordered(values, k) \in Range(values)
  BY <1>1, OrderedIsOneOfThem
<1>3. PICK d \in DOMAIN values : Ordered(values, k) = values[d]
  BY <1>2 DEF Range
<1>4. QED BY <1>3 DEF Within, CountsOn

\* A baseline lies between the least and the greatest of its values.
LEMMA BaselineWithin ==
    ASSUME NEW values, NEW lo, NEW hi, Within(values, lo, hi), NEW statistic
    PROVE  Baseline(values, statistic) \in Int /\ 4 * lo <= Baseline(values, statistic) /\ Baseline(values, statistic) <= 4 * hi
<1>1. PICK n \in Nat \ {0} : n = Cardinality(DOMAIN values)
  BY FS_CardinalityType, FS_EmptySet DEF Within, CountsOn
<1>2. lo \in Nat /\ hi \in Nat
  BY DEF Within
<1>3. \A k \in Nat \ {0} : k <= n => Ordered(values, k) \in Nat /\ lo <= Ordered(values, k) /\ Ordered(values, k) <= hi
  BY <1>1, OrderedWithin
<1>4. /\ MedianBaseline(values) \in Int /\ 4 * lo <= MedianBaseline(values) /\ MedianBaseline(values) <= 4 * hi
  <2>1. PICK middle : middle = n \div 2 + 1
    OBVIOUS
  <2>2. MedianBaseline(values) = IF n % 2 = 1 THEN 4 * Ordered(values, middle)
                                 ELSE 2 * (Ordered(values, middle - 1) + Ordered(values, middle))
    BY <1>1, <2>1 DEF MedianBaseline
  <2>4. CASE n % 2 = 1
    <3>1. middle \in Nat \ {0} /\ middle <= n
      BY <2>1, <2>4
    <3>2. QED BY <1>2, <1>3, <2>2, <2>4, <3>1
  <2>5. CASE n % 2 # 1
    <3>1. middle \in Nat \ {0} /\ middle <= n /\ middle - 1 \in Nat \ {0} /\ middle - 1 <= n
      BY <2>1, <2>5
    <3>2. PICK a, b : a = Ordered(values, middle - 1) /\ b = Ordered(values, middle)
      OBVIOUS
    <3>3. a \in Nat /\ b \in Nat /\ lo <= a /\ a <= hi /\ lo <= b /\ b <= hi
      BY <1>3, <3>1, <3>2
    <3>4. MedianBaseline(values) = 2 * (a + b)
      BY <2>2, <2>5, <3>2
    <3>5. QED BY <1>2, <3>3, <3>4
  <2>6. QED BY <2>4, <2>5
<1>5. ASSUME NEW quarters \in {1, 3}
      PROVE  /\ PercentileBaseline(values, quarters) \in Int /\ 4 * lo <= PercentileBaseline(values, quarters)
             /\ PercentileBaseline(values, quarters) <= 4 * hi
  <2>1. PICK position \in Nat : position = (n - 1) * quarters
    <3>1. (n - 1) * 1 \in Nat /\ (n - 1) * 3 \in Nat
      OBVIOUS
    <3>2. QED BY <3>1
  <2>2. PICK lower, upper : lower = position \div 4 + 1 /\ upper = Least(lower + 1, n)
    OBVIOUS
  <2>3. position <= 3 * (n - 1)
    BY <2>1
  <2>4. lower \in Nat \ {0} /\ lower <= n
    BY <2>2, <2>3
  <2>5. upper \in Nat \ {0} /\ upper <= n
    BY <2>2, <2>4 DEF Least
  <2>6. PICK a, b : a = Ordered(values, lower) /\ b = Ordered(values, upper)
    OBVIOUS
  <2>7. a \in Nat /\ b \in Nat /\ lo <= a /\ a <= hi /\ lo <= b /\ b <= hi
    BY <1>3, <2>4, <2>5, <2>6
  <2>8. PercentileBaseline(values, quarters) = 4 * a + (b - a) * (position % 4)
    BY <1>1, <2>1, <2>2, <2>6 DEF PercentileBaseline
  <2>9. position % 4 \in {0, 1, 2, 3}
    OBVIOUS
  <2>10. \A part \in {0, 1, 2, 3} :
             /\ 4 * a + (b - a) * part \in Int /\ 4 * lo <= 4 * a + (b - a) * part
             /\ 4 * a + (b - a) * part <= 4 * hi
    BY <1>2, <2>7
  <2>11. QED BY <2>8, <2>9, <2>10
<1>6. QED BY <1>4, <1>5 DEF Baseline

-------------------------------------------------------------------------------
(* What triggers *)

\* A rule that triggers is past its threshold.
LEMMA TriggersArePast ==
    ASSUME NEW pause, NEW prepared, NEW rule, NEW result, result = Evaluate(pause, prepared, rule), result.evidence # {},
           NEW b, b = Baseline(UsedValues(prepared, rule.metric), rule.statistic),
           NEW current, current = prepared.current.metric[rule.metric]
    PROVE  /\ prepared.enough
           /\ rule.falls => 16 * current <= FallThreshold(b)
           /\ ~rule.falls => 16 * current >= RiseThreshold(b, rule.least, rule.increase)
<1>1. \A v : EmptyResult(v).evidence = {} /\ Omitted.evidence = {}
  BY DEF EmptyResult, Omitted
<1>2. prepared.enough /\ result = Compare(prepared, rule, b)
  BY <1>1 DEF Evaluate
<1>3. CASE rule.falls
  <2>1. result = RuleResult(prepared, rule.metric, b, FallThreshold(b), 16 * current <= FallThreshold(b))
    BY <1>2, <1>3 DEF Compare
  <2>2. QED BY <1>2, <1>3, <2>1 DEF RuleResult
<1>4. CASE ~rule.falls
  <2>1. result = RuleResult(prepared, rule.metric, b, RiseThreshold(b, rule.least, rule.increase),
                            16 * current >= RiseThreshold(b, rule.least, rule.increase))
    BY <1>2, <1>4 DEF Compare
  <2>2. QED BY <1>2, <1>4, <2>1 DEF RuleResult
<1>5. QED BY <1>3, <1>4

\* What is compared is counted, and not nothing.
LEMMA UsedAre ==
    ASSUME RuleInv, NEW w \in Judgements, NEW metric \in Metrics, NEW floor,
           NEW records, records = RecordsUpTo(rows, w),
           NEW prepared, prepared = PrepareMetric(records, metric, floor), prepared.enough,
           NEW values, values = UsedValues(prepared, metric)
    PROVE  /\ CountsOn(values) /\ DOMAIN values # {} /\ DOMAIN values \subseteq DOMAIN records \ {w}
           /\ \A v \in DOMAIN values : values[v] = records[v].metric[metric]
           /\ prepared.current = records[w] /\ records[w].metric[metric] \in Nat
<1>1. OfTheProject(rows) /\ w \in Nat
  BY RuleInvOfTheProject
<1>2. /\ DOMAIN records = {u \in WeeksOf(rows) : u <= w} \cup {w} /\ Now(records) = w
      /\ \A v \in DOMAIN records : records[v] = RecordOf(rows, v)
      /\ IsFiniteSet(WeeksOf(rows))
  <2>1. DOMAIN records = {u \in WeeksOf(rows) : u <= w} \cup {w}
    BY <1>1, RecordsAre
  <2>2. Now(records) = w /\ IsFiniteSet(WeeksOf(rows))
    BY <1>1, RecordsAre
  <2>3. ASSUME NEW v \in DOMAIN records PROVE records[v] = RecordOf(rows, v)
    BY <1>1, <2>3, RecordsAre
  <2>4. QED BY <2>1, <2>2, <2>3
<1>3. \A v : RecordOf(rows, v).metric[metric] \in Counts
  <2> TAKE v
  <2>1. CASE v \in WeeksOf(rows)
    <3>1. RowsOf(rows, v) \subseteq rows
      BY DEF RowsOf
    <3>2. IsFiniteSet(RowsOf(rows, v))
      BY <3>1, FS_Subset DEF RuleInv
    <3>3. \A r \in RowsOf(rows, v) : r.metric[metric] \in Counts
      BY <3>1 DEF RuleInv, RuleRows, Counts
    <3>4. Folded(RowsOf(rows, v), metric) \in Counts
      BY <3>2, <3>3, FoldedIsACount
    <3>5. RecordOf(rows, v) = Combine("p", v, RowsOf(rows, v))
      BY <2>1 DEF RecordOf
    <3>6. QED BY <3>4, <3>5, CombineFolds
  <2>2. CASE v \notin WeeksOf(rows)
    BY <2>2 DEF RecordOf, Placeholder, NoMetrics, Counts
  <2>3. QED BY <2>1, <2>2
<1>4. PICK weeks : weeks = Compared(records, metric, floor)
  OBVIOUS
<1>5. weeks \subseteq DOMAIN records \ {w} /\ \A v \in weeks : records[v].metric[metric] # Absent
  BY <1>2, <1>4 DEF Compared, Reporting, Before
<1>6. prepared = Prepared(records, weeks, metric)
  BY <1>4, Zenon DEF PrepareMetric, Compared
<1>7. /\ prepared.current = records[w] /\ prepared.used = Restrict(records, weeks)
      /\ records[w].metric[metric] # Absent /\ Cardinality(weeks) >= MinimumObservations
  <2>1. Now(records) = w
    BY <1>2
  <2>2. PICK full \in BOOLEAN : full = (records[w].metric[metric] # Absent /\ Cardinality(weeks) >= MinimumObservations)
    OBVIOUS
  <2>3. prepared = [current |-> records[w], used |-> Restrict(records, weeks), enough |-> full]
    BY <1>6, <2>1, <2>2, Zenon DEF Prepared
  <2>4. prepared.current = records[w] /\ prepared.used = Restrict(records, weeks) /\ prepared.enough = full
    BY <2>3
  <2>5. QED BY <2>2, <2>4
<1>8. DOMAIN values = weeks /\ \A v \in weeks : values[v] = records[v].metric[metric]
  BY <1>7 DEF UsedValues, Restrict
<1>9. \A v \in DOMAIN records : records[v].metric[metric] \in Counts
  BY <1>2, <1>3
<1>10. IsFiniteSet(weeks)
  <2>1. IsFiniteSet(DOMAIN records)
    <3>1. IsFiniteSet({u \in WeeksOf(rows) : u <= w})
      BY <1>2, FS_Subset
    <3>2. QED BY <1>2, <3>1, FS_AddElement
  <2>2. QED BY <1>5, <2>1, FS_Subset
<1>11. CountsOn(values)
  BY <1>5, <1>8, <1>9, <1>10 DEF CountsOn, Counts
<1>12. weeks # {}
  <2>1. MinimumObservations \in Nat \ {0}
    BY RulesAssumption DEF MinimumObservations, Least, Greatest
  <2>2. QED BY <1>7, <2>1, FS_EmptySet
<1>13. records[w].metric[metric] \in Nat
  BY <1>2, <1>7, <1>9 DEF Counts
<1>14. QED BY <1>5, <1>7, <1>8, <1>11, <1>12, <1>13

\* Whatever triggers has moved: past one of the weeks it is compared with at least.
LEMMA TriggersHaveMoved ==
    ASSUME RuleInv, NEW w \in Judgements, NEW id \in DOMAIN judged[w].warnings,
           NEW metric, metric = MvpRules[id].metric, metric \in Metrics,
           NEW records, records = RecordsUpTo(rows, w), NEW now, now = records[w].metric[metric]
    PROVE  /\ MvpRules[id].falls =>
                \E v \in DOMAIN records \ {w} : records[v].metric[metric] # Absent /\ now < records[v].metric[metric]
           /\ ~MvpRules[id].falls /\ MvpRules[id].increase \in Nat \ {0} /\ MvpRules[id].least \in Nat =>
                \E v \in DOMAIN records \ {w} : records[v].metric[metric] # Absent /\ now > records[v].metric[metric]
<1>1. PICK result : result = EvaluateMvpRules(InputOf(rows, w))[id]
  OBVIOUS
<1>2. id \in DOMAIN MvpRules /\ result.evidence # {}
  BY <1>1, WarningsAreResults
<1>3. PICK rule, pause : rule = MvpRules[id] /\ pause = PauseState([lifecycle |-> subject.project.lifecycle])
  OBVIOUS
<1>4. PICK prepared : prepared = PrepareMetric(records, metric, rule.floor)
  OBVIOUS
<1>5. result = Evaluate(pause, prepared, rule)
  <2>1. OfTheProject(rows) /\ w \in Nat
    BY RuleInvOfTheProject
  <2>2. \A r \in rows : r.project = "p" /\ r.week \in Nat
    BY <2>1 DEF OfTheProject
  <2>3. EvaluateMvpRules(InputOf(rows, w))[id]
             = Evaluate(PauseState([lifecycle |-> subject.project.lifecycle]),
                        PrepareMetric(RecordsUpTo(rows, w), MvpRules[id].metric, MvpRules[id].floor), MvpRules[id])
    BY <1>2, <2>1, <2>2, RuleAnswers
  <2>4. QED BY <1>1, <1>3, <1>4, <2>3
<1>6. PICK values, b : values = UsedValues(prepared, metric) /\ b = Baseline(values, rule.statistic)
  OBVIOUS
<1>7. /\ prepared.enough
      /\ rule.falls => 16 * prepared.current.metric[metric] <= FallThreshold(b)
      /\ ~rule.falls => 16 * prepared.current.metric[metric] >= RiseThreshold(b, rule.least, rule.increase)
  BY <1>2, <1>3, <1>5, <1>6, TriggersArePast
<1>8. /\ CountsOn(values) /\ DOMAIN values # {} /\ DOMAIN values \subseteq DOMAIN records \ {w}
      /\ \A v \in DOMAIN values : values[v] = records[v].metric[metric]
      /\ prepared.current = records[w] /\ records[w].metric[metric] \in Nat
  BY <1>4, <1>6, <1>7, UsedAre
<1>9. now \in Nat /\ (\A v \in DOMAIN values : values[v] \in Nat) /\ IsFiniteSet(Range(values)) /\ Range(values) # {}
      /\ Range(values) \subseteq Nat
  <2>1. Range(values) = {values[v] : v \in DOMAIN values}
    BY DEF Range
  <2>2. QED BY <1>8, <2>1, FiniteImage DEF CountsOn
<1>10. PICK hi \in Range(values) : \A y \in Range(values) : y <= hi
  BY <1>9, GreatestIsOfThem
<1>11. PICK lo \in Range(values) : \A y \in Range(values) : lo <= y
  BY <1>9, LeastNatural
<1>12. lo \in Nat /\ hi \in Nat /\ \A v \in DOMAIN values : lo <= values[v] /\ values[v] <= hi
  BY <1>9, <1>10, <1>11 DEF Range
<1>13. b \in Int /\ 4 * lo <= b /\ b <= 4 * hi
  <2>1. Within(values, lo, hi)
    BY <1>8, <1>12 DEF Within
  <2>2. QED BY <1>6, <2>1, BaselineWithin
<1>14. ASSUME rule.falls PROVE now < hi
  <2>1. 16 * now <= FallThreshold(b)
    BY <1>7, <1>8, <1>14
  <2>2. QED BY <1>9, <1>12, <1>13, <2>1 DEF FallThreshold, Least
<1>15. ASSUME ~rule.falls, rule.increase \in Nat \ {0}, rule.least \in Nat PROVE now > lo
  <2>1. 16 * now >= RiseThreshold(b, rule.least, rule.increase)
    BY <1>7, <1>8, <1>15
  <2>2. PICK i \in Nat \ {0}, l \in Nat : i = rule.increase /\ l = rule.least
    BY <1>15
  <2>3. 16 * now >= 4 * b + 16 * i
    BY <1>9, <1>13, <2>1, <2>2 DEF RiseThreshold, Greatest
  <2>4. QED BY <1>9, <1>12, <1>13, <2>2, <2>3
<1>16. \A y \in Range(values) : \E v \in DOMAIN records \ {w} : records[v].metric[metric] # Absent /\ records[v].metric[metric] = y
  BY <1>8, <1>9 DEF Range, Absent
<1>17. QED BY <1>3, <1>10, <1>11, <1>14, <1>15, <1>16

\* The rules that watch for a fall, and those that watch for a rise.
LEMMA FallsAndRises ==
    /\ \A id \in DOMAIN Falls : MvpRules[id].metric = Falls[id] /\ MvpRules[id].falls /\ Falls[id] \in Metrics
    /\ \A id \in DOMAIN Rises :
         /\ MvpRules[id].metric = Rises[id] /\ ~MvpRules[id].falls /\ Rises[id] \in Metrics
         /\ MvpRules[id].increase \in Nat \ {0} /\ MvpRules[id].least \in Nat
<1>1. DOMAIN Falls = {"activity_decline", "merged_throughput", "contributor_resilience"}
  BY DEF Falls
<1>2. DOMAIN Rises = {"open_pr_aging", "review_latency", "inactivity"}
  BY DEF Rises
<1>3. \A id \in DOMAIN Falls : MvpRules[id].metric = Falls[id] /\ MvpRules[id].falls /\ Falls[id] \in Metrics
  BY <1>1 DEF Falls, MvpRules, Metrics, ActivityDecline, MergedThroughput, ContributorResilience, Fall
<1>4. \A id \in DOMAIN Rises :
         /\ MvpRules[id].metric = Rises[id] /\ ~MvpRules[id].falls /\ Rises[id] \in Metrics
         /\ MvpRules[id].increase \in Nat \ {0} /\ MvpRules[id].least \in Nat
  BY <1>2 DEF Rises, MvpRules, Metrics, OpenPrAging, ReviewLatency, Inactivity, Rise
<1>5. QED BY <1>3, <1>4

\* No rule cries wolf: where one warns, the week is worse than some other week on
\* record up to it, whatever the statistic, the thresholds and the length of the history.
THEOREM WarningsFollowDecline == RuleSpec => []NoAlarmWithoutDecline
<1>1. ASSUME RuleInv PROVE NoAlarmWithoutDecline
  <2> DEFINE records(w) == HistoryRecords(InputOf(rows, w))
             past(w, m) == {records(w)[v].metric[m] : v \in DOMAIN records(w) \ {w}} \ {Absent}
             now(w, m) == records(w)[w].metric[m]
  <2>1. ASSUME NEW w \in Judgements, NEW id \in DOMAIN judged[w].warnings
        PROVE  /\ id \in DOMAIN Falls => \E v \in past(w, Falls[id]) : now(w, Falls[id]) < v
               /\ id \in DOMAIN Rises => \E v \in past(w, Rises[id]) : now(w, Rises[id]) > v
    <3>1. records(w) = RecordsUpTo(rows, w)
      <4>1. OfTheProject(rows) /\ w \in Nat
        BY <1>1, RuleInvOfTheProject
      <4>2. \A r \in rows : r.project = "p" /\ r.week \in Nat
        BY <4>1 DEF OfTheProject
      <4>3. QED BY <4>1, <4>2, InputIsOfTheWeeks
    <3>2. PICK seen : seen = records(w)
      OBVIOUS
    <3>3. ASSUME NEW metric, metric = MvpRules[id].metric, metric \in Metrics
          PROVE  /\ MvpRules[id].falls =>
                      \E v \in DOMAIN seen \ {w} : seen[v].metric[metric] # Absent /\ seen[w].metric[metric] < seen[v].metric[metric]
                 /\ ~MvpRules[id].falls /\ MvpRules[id].increase \in Nat \ {0} /\ MvpRules[id].least \in Nat =>
                      \E v \in DOMAIN seen \ {w} : seen[v].metric[metric] # Absent /\ seen[w].metric[metric] > seen[v].metric[metric]
      BY <1>1, <3>1, <3>2, <3>3, TriggersHaveMoved
    <3>4. \A m : past(w, m) = {seen[v].metric[m] : v \in DOMAIN seen \ {w}} \ {Absent} /\ now(w, m) = seen[w].metric[m]
      BY <3>2
    <3> HIDE DEF past, now, records
    <3>5. ASSUME id \in DOMAIN Falls PROVE \E v \in past(w, Falls[id]) : now(w, Falls[id]) < v
      <4>1. PICK m : m = Falls[id] /\ m = MvpRules[id].metric /\ m \in Metrics
        BY <3>5, FallsAndRises
      <4>2. PICK v \in DOMAIN seen \ {w} : seen[v].metric[m] # Absent /\ seen[w].metric[m] < seen[v].metric[m]
        BY <3>3, <3>5, <4>1, FallsAndRises
      <4>3. QED BY <3>4, <4>1, <4>2
    <3>6. ASSUME id \in DOMAIN Rises PROVE \E v \in past(w, Rises[id]) : now(w, Rises[id]) > v
      <4>1. PICK m : m = Rises[id] /\ m = MvpRules[id].metric /\ m \in Metrics
        BY <3>6, FallsAndRises
      <4>2. PICK v \in DOMAIN seen \ {w} : seen[v].metric[m] # Absent /\ seen[w].metric[m] > seen[v].metric[m]
        BY <3>3, <3>6, <4>1, FallsAndRises
      <4>3. QED BY <3>4, <4>1, <4>2
    <3>7. QED BY <3>5, <3>6
  <2>2. QED BY <2>1, Zenon DEF NoAlarmWithoutDecline
<1>2. QED BY <1>1, RuleInvHolds, PTL
================================================================================
