-------------------------- MODULE CumulativeCheckpoint --------------------------
(***************************************************************************)
(* Progress as of a date: generate_cumulative_checkpoint for one project.  *)
(* A call answers from the checkpoint on file, or plans which weeks to     *)
(* judge in depth and which to sweep, builds on an earlier checkpoint, and *)
(* files the synthesis under the week of its date.                         *)
(*                                                                         *)
(* The weekly verdicts are SnapshotLedger's promise, here the set of weeks *)
(* that have one.  Projects share nothing but the lock table.              *)
(***************************************************************************)
EXTENDS Naturals, FiniteSets

CONSTANTS
    Calls,            \* concurrent requests, each free to come back
    DaysPerWeek,
    Start, Horizon,   \* bound: the first and the last day of the calendar
    MappedFrom,       \* effective_from of the boundaries a call may find
    DeepTail,         \* cumulative_deep_tail_weeks
    RebuildDepth,     \* cumulative_chain_rebuild_depth
    Ttl,              \* cumulative_provisional_ttl_minutes, in days
    MaxClears,        \* bound: how often the full lock table is emptied
    None

Days == Start..Horizon
WeekOf(d) == d \div DaysPerWeek
Monday(w) == w * DaysPerWeek
Weeks == 0..WeekOf(Horizon)

ASSUME CalendarAssumption == DaysPerWeek \in Nat \ {0} /\ {Start, Horizon} \subseteq Nat /\ Start <= Horizon /\ MappedFrom \subseteq Nat
ASSUME SettingsAssumption == {DeepTail, RebuildDepth, Ttl} \subseteq Nat \ {0} /\ MaxClears \in Nat
ASSUME NoneAssumption == None \notin Nat /\ None \notin Calls

VARIABLES now, checkpoints, verdicts, issued, life, pc, req, draft

vars == <<now, checkpoints, verdicts, issued, life, pc, req, draft>>

Least(a, b) == IF a <= b THEN a ELSE b

-------------------------------------------------------------------------------
(* Documents *)

\* A CumulativeCheckpointDocument is [id, week, coverage, generated, sources,
\* prior, depth, provisional, covers, blind].  `covers' is history: the weeks the
\* call set out to look at, whether or not the judge and Gitea then answered,
\* and those of the checkpoint it builds on.  So is `blind': it says "no
\* history" while a week it asked for got no verdict.
OnFile(w) == checkpoints[w] # None
Final(w) == OnFile(w) /\ ~checkpoints[w].provisional

Init ==
    /\ now = Start
    /\ checkpoints = [w \in Weeks |-> None]
    /\ verdicts = {}
    /\ issued = 0
    /\ life = 0
    /\ pc = [c \in Calls |-> "idle"]
    /\ req = [c \in Calls |-> None]
    /\ draft = [c \in Calls |-> None]

Return(c) ==
    /\ pc' = [pc EXCEPT ![c] = "idle"]
    /\ req' = [req EXCEPT ![c] = None]
    /\ draft' = [draft EXCEPT ![c] = None]

-------------------------------------------------------------------------------
(* The request and its lock *)

AsOf_Unclamped(d) == d  \* mutant: a date to come is taken as it is
AsOf(d) == Least(d, now)

\* The date, the week in progress and with them the kind of row are settled
\* before the wait for the lock.  A lock is known by its week and by the life
\* of the table that made it: the keys of all projects fill the table, so it
\* may be full, and emptied, at any request.
Request(c) ==
    /\ pc[c] = "idle"
    /\ \E d \in Days, l \in {life} \cup {x \in {life + 1} : x <= MaxClears} :
          /\ req' = [req EXCEPT ![c] = [asOf |-> AsOf(d), week |-> WeekOf(AsOf(d)), at |-> now,
                                        running |-> WeekOf(now), life |-> l]]
          /\ life' = l
    /\ pc' = [pc EXCEPT ![c] = "queued"]
    /\ UNCHANGED <<now, checkpoints, verdicts, issued, draft>>

SameLock(c, other) == req[c].week = req[other].week /\ req[c].life = req[other].life

Provisional(c) == req[c].week = req[c].running

Holding == {"locked", "judge", "sweep", "synthesise"}

Acquire(c) ==
    /\ pc[c] = "queued"
    /\ \A other \in Calls : pc[other] \in Holding => ~SameLock(c, other)
    /\ pc' = [pc EXCEPT ![c] = "locked"]
    /\ UNCHANGED <<now, checkpoints, verdicts, issued, life, req, draft>>

-------------------------------------------------------------------------------
(* Cache and plan *)

\* A final row answers for good, a provisional one until it is Ttl old.
Answers_ByAge(row, at) == at < row.generated + Ttl  \* mutant: final rows age too
Answers(row, at) == ~row.provisional \/ at < row.generated + Ttl

Hit(c) ==
    /\ pc[c] = "locked"
    /\ OnFile(req[c].week) /\ Answers(checkpoints[req[c].week], req[c].at)
    /\ Return(c)
    /\ UNCHANGED <<now, checkpoints, verdicts, issued, life>>

\* The latest final checkpoint of an earlier week, as the set of at most one.
Candidates_AnyRow(w) == {v \in 0..(w - 1) : OnFile(v)}  \* mutant: provisional ones too
Candidates(w) == {v \in 0..(w - 1) : Final(v)}
Prior(w) == {checkpoints[v] : v \in {x \in Candidates(w) : \A y \in Candidates(w) : y <= x}}

\* The prior that is built on: a chain of RebuildDepth starts afresh.
Extends(p) == p.depth < RebuildDepth

\* A prior within DeepTail weeks makes the call warm, built on or not.
Warm(w) == \E p \in Prior(w) : w - p.week <= DeepTail

WeeksSince_OffByOne(p, w) == p.week .. (w - 1)  \* mutant: the prior's week again, not the last
WeeksSince(p, w) == (p.week + 1) .. w

Tail(w) == {v \in Weeks : v <= w /\ w < v + DeepTail}
DeepWeeks(w, coverage) ==
    {v \in (IF Warm(w) THEN UNION {WeeksSince(p, w) : p \in Prior(w)} ELSE Tail(w)) :
        coverage <= Monday(v)}

Plan(c) ==
    LET w == req[c].week
        built == {p \in Prior(w) : Extends(p)}
    IN
    /\ pc[c] = "locked"
    /\ ~(OnFile(w) /\ Answers(checkpoints[w], req[c].at))
    /\ \E from \in MappedFrom :
          LET coverage == Least(from, req[c].asOf) IN
          draft' = [draft EXCEPT ![c] =
              [coverage |-> coverage, warm |-> Warm(w), deep |-> DeepWeeks(w, coverage),
               prior |-> built, sources |-> {}, swept |-> {}, evidence |-> FALSE, missed |-> FALSE]]
    /\ pc' = [pc EXCEPT ![c] = "judge"]
    /\ UNCHANGED <<now, checkpoints, verdicts, issued, life, req>>

-------------------------------------------------------------------------------
(* Evidence *)

\* Each deep week goes through generate_llm_snapshot, which answers from the
\* ledger, or judges and (unless the week was running) stores, or fails.
Kept_Everything(c, S) == S  \* mutant: previews count as sources
Kept(c, S) == S \ {req[c].running}

JudgeWeeks(c) ==
    /\ pc[c] = "judge"
    /\ \E judged \in SUBSET draft[c].deep :
          /\ draft[c].deep \cap verdicts \subseteq judged
          /\ verdicts' = verdicts \cup (judged \ {req[c].running})
          /\ draft' = [draft EXCEPT ![c] = [@ EXCEPT !.sources = Kept(c, judged),
                                                    !.evidence = judged # {},
                                                    !.missed = judged # draft[c].deep]]
    /\ pc' = [pc EXCEPT ![c] = IF draft[c].warm THEN "synthesise" ELSE "sweep"]
    /\ UNCHANGED <<now, checkpoints, issued, life, req>>

\* The first day that is not swept: the deep tail's, or this week's Monday.
SweepEnd(c) ==
    IF draft[c].deep = {} THEN Monday(req[c].week)
    ELSE Monday(CHOOSE v \in draft[c].deep : \A x \in draft[c].deep : v <= x)

\* A cold call sweeps the older history, where it may find commits or not, and
\* promotes the verdicts already on file there.
Sweep(c) ==
    LET older == {v \in Weeks : draft[c].coverage < Monday(v + 1) /\ Monday(v) < SweepEnd(c)}
        filed == {v \in verdicts : draft[c].coverage <= Monday(v) /\ Monday(v) < SweepEnd(c)}
    IN
    /\ pc[c] = "sweep"
    /\ \E found \in {older # {}, FALSE} :
          draft' = [draft EXCEPT ![c] = [@ EXCEPT
              !.swept = older, !.sources = draft[c].sources \cup filed,
              !.evidence = draft[c].evidence \/ filed # {} \/ found]]
    /\ pc' = [pc EXCEPT ![c] = "synthesise"]
    /\ UNCHANGED <<now, checkpoints, verdicts, issued, life, req>>

-------------------------------------------------------------------------------
(* Synthesis *)

\* No model, or an answer that does not parse: nothing is filed.  Without any
\* evidence no model is asked, and this cannot happen.
SynthesisFails(c) ==
    /\ pc[c] = "synthesise" /\ draft[c].evidence
    /\ Return(c)
    /\ UNCHANGED <<now, checkpoints, verdicts, issued, life>>

Document(c) ==
    LET d == draft[c] IN
    [id |-> issued, week |-> req[c].week, coverage |-> d.coverage, generated |-> req[c].at,
     sources |-> d.sources,
     prior |-> IF d.prior = {} THEN None ELSE (CHOOSE p \in d.prior : TRUE).id,
     depth |-> IF d.prior = {} THEN 0 ELSE (CHOOSE p \in d.prior : TRUE).depth + 1,
     provisional |-> Provisional(c),
     blind |-> ~d.evidence /\ d.missed,
     covers |-> d.deep \cup d.swept \cup UNION {p.covers : p \in d.prior}]

\* INSERT OR REPLACE under the unique index: the week's row, whatever it was.
Write(c) ==
    /\ pc[c] = "synthesise"
    /\ checkpoints' = [checkpoints EXCEPT ![req[c].week] = Document(c)]
    /\ issued' = issued + 1
    /\ Return(c)
    /\ UNCHANGED <<now, verdicts, life>>

\* wait_for gives up, or the client goes away, at any await.
Timeout(c) ==
    /\ pc[c] # "idle"
    /\ Return(c)
    /\ UNCHANGED <<now, checkpoints, verdicts, issued, life>>

-------------------------------------------------------------------------------
(* The world *)

NextDay ==
    /\ now < Horizon
    /\ now' = now + 1
    /\ UNCHANGED <<checkpoints, verdicts, issued, life, pc, req, draft>>

\* A verdict from elsewhere: POST /snapshots/at, the weekly job, or a judge that
\* outlived the call that asked for it.
VerdictStored ==
    /\ \E w \in Weeks \ verdicts : w <= WeekOf(now) /\ verdicts' = verdicts \cup {w}
    /\ UNCHANGED <<now, checkpoints, issued, life, pc, req, draft>>

Step(c) ==
    \/ Acquire(c) \/ Hit(c) \/ Plan(c) \/ JudgeWeeks(c) \/ Sweep(c)
    \/ SynthesisFails(c) \/ Write(c)

Next ==
    \/ \E c \in Calls : Request(c) \/ Step(c) \/ Timeout(c)
    \/ NextDay \/ VerdictStored

Spec == Init /\ [][Next]_vars

-------------------------------------------------------------------------------
(* Properties *)

\* A checkpoint that is final stays as it is: no later call, and none that set
\* out while its week was still running and was kept waiting, replaces it.
\* The lock per week is what makes it so.
FinalStaysFinal ==
    [][\A w \in Weeks : Final(w) => checkpoints'[w] = checkpoints[w]]_vars

\* A final checkpoint was generated when its week was over, whichever date was
\* asked for and however long the call took: the half of a week is never
\* filed as the whole.
FinalMeansOver ==
    \A w \in Weeks : Final(w) => checkpoints[w].generated >= Monday(w + 1)

\* Chains are sound: the checkpoint another one builds on is on file, final, of
\* an earlier week and one link shorter, so following prior_checkpoint_id ends
\* within RebuildDepth steps.
ChainIsSound ==
    \A w \in Weeks : OnFile(w) =>
        /\ checkpoints[w].depth \in 0..RebuildDepth
        /\ checkpoints[w].prior # None =>
            \E v \in 0..(w - 1) :
                /\ Final(v)
                /\ checkpoints[v].id = checkpoints[w].prior
                /\ checkpoints[w].depth = checkpoints[v].depth + 1

\* A checkpoint that builds on a recent one looks at every week since, the
\* first and the last included, although the prior was chosen before the wait
\* for the judges.
IncrementsLeaveNoGap ==
    \A v, w \in Weeks :
        /\ OnFile(v) /\ OnFile(w) /\ checkpoints[w].prior = checkpoints[v].id
        /\ v < w /\ w - v <= DeepTail
        => {x \in (v + 1)..w : checkpoints[w].coverage <= Monday(x)} \subseteq checkpoints[w].covers

\* The verdicts a checkpoint names as its sources are in the ledger: the
\* preview of a running week is never named, also when that week ends while
\* the call is under way.
SourcesAreOnFile ==
    \A w \in Weeks : OnFile(w) => checkpoints[w].sources \subseteq verdicts

\* Every whole week a checkpoint claims to cover was looked at for it, in
\* depth, in the sweep or by the checkpoints it builds on (the sweep is for "when
\* there's no recent-enough prior checkpoint to build on").
EveryWeekIsLookedAt ==
    \A w \in Weeks : OnFile(w) =>
        {v \in 0..w : checkpoints[w].coverage <= Monday(v)} \subseteq checkpoints[w].covers

\* A failure is never frozen: a final checkpoint says "no history" only if every
\* week it asked for was judged ("callers must not treat that as a cacheable
\* "insufficient data" result").
NoFailureIsFrozen == \A w \in Weeks : Final(w) => ~checkpoints[w].blind
===============================================================================
