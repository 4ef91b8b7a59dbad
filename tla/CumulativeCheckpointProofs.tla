---------------------- MODULE CumulativeCheckpointProofs ----------------------
(***************************************************************************)
(* Theorems about CumulativeCheckpoint, for any calendar, settings and set *)
(* of calls.  What rests on the locks assumes that their table is not      *)
(* emptied while calls hold them.                                          *)
(***************************************************************************)
EXTENDS CumulativeCheckpoint, TLAPS

Unemptied == MaxClears = 0

Active == {"queued"} \cup Holding
Planned == {"judge", "sweep", "synthesise"}

IsDraft(d) ==
    /\ d = [field \in DOMAIN d |-> d[field]]
    /\ {"coverage", "deep", "prior", "sources", "swept", "evidence", "missed"} \subseteq DOMAIN d

\* Judging and sweeping leave the plan as it was drawn up.
SamePlan(d, e) == d.prior = e.prior /\ d.deep = e.deep /\ d.coverage = e.coverage

\* The shapes the proofs rely on.
Shape ==
    /\ now \in Nat
    /\ checkpoints = [w \in Weeks |-> checkpoints[w]]
    /\ \A w \in Weeks : OnFile(w) => checkpoints[w].week = w
    /\ pc \in [Calls -> {"idle"} \cup Active]
    /\ req = [c \in Calls |-> req[c]]
    /\ draft = [c \in Calls |-> draft[c]]
    /\ \A c \in Calls : pc[c] \in Planned => IsDraft(draft[c])

LEMMA WeeksAreNat == Weeks \subseteq Nat
BY DEF Weeks

\* What a step does to the draft of its call.
LEMMA PlannedDraft ==
    ASSUME draft = [c \in Calls |-> draft[c]], NEW c \in Calls, Plan(c)
    PROVE  IsDraft(draft'[c])
<1> DEFINE w == req[c].week
           built == {p \in Prior(w) : Extends(p)}
           warm == Warm(w)
           deep(from) == DeepWeeks(w, Least(from, req[c].asOf))
<1>1. PICK from \in MappedFrom :
         draft' = [draft EXCEPT ![c] =
             [coverage |-> Least(from, req[c].asOf), warm |-> warm, deep |-> deep(from),
              prior |-> built, sources |-> {}, swept |-> {}, evidence |-> FALSE, missed |-> FALSE]]
  BY DEF Plan
<1>2. QED
  <2> HIDE DEF warm, deep, built
  <2> QED BY <1>1 DEF IsDraft

LEMMA JudgedDraft ==
    ASSUME draft = [c \in Calls |-> draft[c]], NEW c \in Calls, IsDraft(draft[c]), JudgeWeeks(c)
    PROVE  /\ IsDraft(draft'[c]) /\ SamePlan(draft'[c], draft[c])
           /\ draft'[c].sources \subseteq verdicts'
<1>1. PICK judged \in SUBSET draft[c].deep :
         /\ verdicts' = verdicts \cup (judged \ {req[c].running})
         /\ draft' = [draft EXCEPT ![c] = [@ EXCEPT !.sources = Kept(c, judged),
                                                   !.evidence = judged # {},
                                                   !.missed = judged # draft[c].deep]]
  BY DEF JudgeWeeks
<1> DEFINE S == Kept(c, judged)
           evidence == judged # {}
           missed == judged # draft[c].deep
<1>2. draft'[c] = [draft[c] EXCEPT !.sources = S, !.evidence = evidence, !.missed = missed]
  BY <1>1
<1>3. S \subseteq verdicts'
  BY <1>1 DEF Kept
<1>4. QED
  <2> HIDE DEF S, evidence, missed
  <2> QED BY <1>2, <1>3 DEF IsDraft, SamePlan

LEMMA SweptDraft ==
    ASSUME draft = [c \in Calls |-> draft[c]], NEW c \in Calls, IsDraft(draft[c]), Sweep(c)
    PROVE  /\ IsDraft(draft'[c]) /\ SamePlan(draft'[c], draft[c])
           /\ draft'[c].sources \subseteq draft[c].sources \cup verdicts
<1> DEFINE older == {v \in Weeks : draft[c].coverage < Monday(v + 1) /\ Monday(v) < SweepEnd(c)}
           filed == {v \in verdicts : draft[c].coverage <= Monday(v) /\ Monday(v) < SweepEnd(c)}
<1> DEFINE sources == draft[c].sources \cup filed
           evidence(found) == draft[c].evidence \/ filed # {} \/ found
<1>1. \E found \in {older # {}, FALSE} :
         draft' = [draft EXCEPT ![c] = [@ EXCEPT !.swept = older, !.sources = sources,
                                                !.evidence = evidence(found)]]
  BY Zenon DEF Sweep
<1>2. PICK e : draft'[c] = [draft[c] EXCEPT !.swept = older, !.sources = sources, !.evidence = e]
  <2> HIDE DEF older, sources, evidence
  <2> QED BY <1>1
<1>3. sources \subseteq draft[c].sources \cup verdicts
  OBVIOUS
<1>4. QED
  <2> HIDE DEF older, sources
  <2> QED BY <1>2, <1>3 DEF IsDraft, SamePlan

\* A document is filed under its own week.
LEMMA ShapeHolds == Spec => []Shape
<1>1. Init => Shape
  BY CalendarAssumption DEF Init, Shape, OnFile, Active, Holding, Planned
<1>2. Shape /\ [Next]_vars => Shape'
  <2> SUFFICES ASSUME Shape, [Next]_vars PROVE Shape'
    OBVIOUS
  <2> USE DEF Shape, Active, Holding, OnFile, Planned
  <2>1. ASSUME NEW c \in Calls, Request(c) PROVE Shape'
    BY <2>1 DEF Request
  <2>2. ASSUME NEW c \in Calls, Acquire(c) PROVE Shape'
    BY <2>2 DEF Acquire
  <2>3. ASSUME NEW c \in Calls, Hit(c) PROVE Shape'
    BY <2>3 DEF Hit, Return
  <2>4. ASSUME NEW c \in Calls, Plan(c) PROVE Shape'
    BY <2>4, PlannedDraft DEF Plan
  <2>5. ASSUME NEW c \in Calls, JudgeWeeks(c) PROVE Shape'
    BY <2>5, JudgedDraft DEF JudgeWeeks
  <2>6. ASSUME NEW c \in Calls, Sweep(c) PROVE Shape'
    BY <2>6, SweptDraft DEF Sweep
  <2>7. ASSUME NEW c \in Calls, SynthesisFails(c) PROVE Shape'
    BY <2>7 DEF SynthesisFails, Return
  <2>8. ASSUME NEW c \in Calls, Write(c) PROVE Shape'
    <3>1. Document(c).week = req[c].week
      BY DEF Document
    <3> QED BY <2>8, <3>1 DEF Write, Return
  <2>9. ASSUME NEW c \in Calls, Timeout(c) PROVE Shape'
    BY <2>9 DEF Timeout, Return
  <2>10. CASE NextDay \/ VerdictStored \/ UNCHANGED vars
    BY <2>10 DEF NextDay, VerdictStored, vars
  <2>11. QED
    BY <2>1, <2>2, <2>3, <2>4, <2>5, <2>6, <2>7, <2>8, <2>9, <2>10 DEF Next, Step
<1>3. QED BY <1>1, <1>2, PTL DEF Spec

-------------------------------------------------------------------------------
(* The calendar *)

LEMMA WeekAndMonday ==
    ASSUME NEW d \in Nat
    PROVE  WeekOf(d) \in Nat /\ Monday(WeekOf(d)) <= d
BY CalendarAssumption, SMT DEF WeekOf, Monday

LEMMA WeekMonotone ==
    ASSUME NEW d \in Nat, NEW e \in Nat, d <= e
    PROVE  WeekOf(d) <= WeekOf(e)
BY CalendarAssumption, SMT DEF WeekOf

LEMMA MondayMonotone ==
    ASSUME NEW v \in Nat, NEW w \in Nat, v < w
    PROVE  Monday(v + 1) <= Monday(w)
<1>1. v + 1 \in Nat /\ v + 1 <= w
  OBVIOUS
<1>2. ASSUME NEW a \in Nat, NEW b \in Nat, a <= b PROVE a * DaysPerWeek <= b * DaysPerWeek
  BY <1>2, CalendarAssumption, SMT
<1>3. QED BY <1>1, <1>2 DEF Monday

\* A call works for a week that had begun when it set out.
RequestInv ==
    /\ now \in Days
    /\ \A c \in Calls : pc[c] # "idle" =>
          /\ req[c].week \in Weeks /\ req[c].running \in Nat /\ req[c].at \in Nat
          /\ req[c].week <= req[c].running
          /\ Monday(req[c].running) <= req[c].at

LEMMA RequestHolds == Spec => []RequestInv
<1> USE DEF RequestInv
<1>1. Init => RequestInv
  BY CalendarAssumption DEF Init, Days
<1>2. Shape /\ RequestInv /\ [Next]_vars => RequestInv'
  <2> SUFFICES ASSUME Shape, RequestInv, [Next]_vars PROVE RequestInv'
    OBVIOUS
  <2> USE DEF Shape, Active, Holding
  <2>1. ASSUME NEW c \in Calls, Request(c) PROVE RequestInv'
    <3>1. PICK d \in Days, l \in {life} \cup {x \in {life + 1} : x <= MaxClears} :
             req' = [req EXCEPT ![c] = [asOf |-> AsOf(d), week |-> WeekOf(AsOf(d)), at |-> now,
                                        running |-> WeekOf(now), life |-> l]]
      BY <2>1 DEF Request
    <3>2. now \in Nat /\ Horizon \in Nat /\ now <= Horizon
      BY CalendarAssumption DEF Days
    <3>3. AsOf(d) \in Nat /\ AsOf(d) <= now
      BY CalendarAssumption DEF AsOf, Least, Days
    <3>4. WeekOf(AsOf(d)) \in Weeks /\ WeekOf(AsOf(d)) <= WeekOf(now)
      BY <3>2, <3>3, WeekAndMonday, WeekMonotone DEF Weeks
    <3>5. WeekOf(now) \in Nat /\ Monday(WeekOf(now)) <= now
      BY <3>2, WeekAndMonday
    <3>6. UNCHANGED now /\ pc' = [pc EXCEPT ![c] = "queued"]
      BY <2>1 DEF Request
    <3>7. QED BY <3>1, <3>2, <3>4, <3>5, <3>6
  <2>2. ASSUME NEW c \in Calls, Step(c) \/ Timeout(c) PROVE RequestInv'
    BY <2>2 DEF Step, Timeout, Acquire, Hit, Plan, JudgeWeeks, Sweep, SynthesisFails, Write, Return
  <2>3. CASE NextDay \/ VerdictStored \/ UNCHANGED vars
    BY <2>3, CalendarAssumption DEF NextDay, Days, VerdictStored, vars
  <2> QED BY <2>1, <2>2, <2>3 DEF Next
<1>3. QED BY <1>1, <1>2, ShapeHolds, PTL DEF Spec

\* What a write files, and that nothing else files anything.
LEMMA OnlyWritesFile ==
    ASSUME [Next]_vars
    PROVE  \/ UNCHANGED checkpoints
           \/ \E c \in Calls : Write(c)
BY DEF Next, Step, Request, Acquire, Hit, Plan, JudgeWeeks, Sweep, SynthesisFails, Timeout,
       NextDay, VerdictStored, vars

LEMMA WriteFiles ==
    ASSUME Shape, NEW c \in Calls, Write(c), NEW w \in Weeks
    PROVE  /\ w = req[c].week => checkpoints'[w] = Document(c)
           /\ w # req[c].week => checkpoints'[w] = checkpoints[w]
BY DEF Shape, Write

\* A final checkpoint is of a week that was over when its call set out, for
\* every calendar: FinalMeansOver is an invariant of the specification.
THEOREM FinalWeeksAreOver == Spec => []FinalMeansOver
<1>1. Init => FinalMeansOver
  BY DEF Init, FinalMeansOver, Final, OnFile
<1>2. Shape /\ RequestInv /\ FinalMeansOver /\ [Next]_vars => FinalMeansOver'
  <2> SUFFICES ASSUME Shape, RequestInv, FinalMeansOver, [Next]_vars,
                      NEW w \in Weeks, Final(w)'
               PROVE  (checkpoints[w].generated >= Monday(w + 1))'
    BY DEF FinalMeansOver
  <2>1. CASE checkpoints'[w] = checkpoints[w]
    BY <2>1 DEF FinalMeansOver, Final, OnFile, Monday
  <2>2. ASSUME NEW c \in Calls, Write(c), w = req[c].week PROVE (checkpoints[w].generated >= Monday(w + 1))'
    <3>1. checkpoints'[w] = Document(c)
      BY <2>2, WriteFiles
    <3>2. Document(c).generated = req[c].at /\ Document(c).provisional = Provisional(c)
      BY DEF Document
    <3>3. req[c].week # req[c].running
      BY <3>1, <3>2 DEF Final, Provisional
    <3>4. pc[c] # "idle"
      BY <2>2 DEF Write
    <3>a. /\ req[c].week \in Weeks /\ req[c].running \in Nat
          /\ req[c].week <= req[c].running
      BY <3>4 DEF RequestInv
    <3>5. req[c].week \in Nat /\ req[c].running \in Nat /\ req[c].week < req[c].running
      BY <3>3, <3>a DEF Weeks
    <3>6. Monday(w + 1) <= Monday(req[c].running)
      BY <2>2, <3>5, MondayMonotone
    <3>7. Monday(w + 1) \in Nat /\ Monday(req[c].running) \in Nat
      BY <2>2, <3>5, CalendarAssumption DEF Monday
    <3>8. req[c].at \in Nat /\ Monday(req[c].running) <= req[c].at
      BY <3>4 DEF RequestInv
    <3>9. QED BY <3>1, <3>2, <3>6, <3>7, <3>8 DEF Monday
  <2>3. QED BY <2>1, <2>2, OnlyWritesFile, WriteFiles
<1>3. QED BY <1>1, <1>2, ShapeHolds, RequestHolds, PTL DEF Spec

-------------------------------------------------------------------------------
(* The ledger of verdicts *)

SourcesInv ==
    /\ SourcesAreOnFile
    /\ \A c \in Calls : pc[c] \in Planned => draft[c].sources \subseteq verdicts

\* No lock is needed for the sources: SourcesAreOnFile holds whatever calls
\* overlap and however often the lock table is emptied, because the preview of
\* the week that was running when the call set out is left out of them.
THEOREM SourcesAreFiled == Spec => []SourcesAreOnFile
<1> USE DEF SourcesInv, Planned
<1>1. Init => SourcesInv
  BY DEF Init, SourcesAreOnFile, OnFile
<1>2. Shape /\ SourcesInv /\ [Next]_vars => SourcesInv'
  <2> SUFFICES ASSUME Shape, SourcesInv, [Next]_vars PROVE SourcesInv'
    OBVIOUS
  <2> USE DEF Shape, SourcesAreOnFile, OnFile, Active, Holding
  <2>1. ASSUME NEW c \in Calls, Request(c) PROVE SourcesInv'
    BY <2>1 DEF Request
  <2>2. ASSUME NEW c \in Calls, Acquire(c) PROVE SourcesInv'
    BY <2>2 DEF Acquire
  <2>3. ASSUME NEW c \in Calls, Hit(c) PROVE SourcesInv'
    BY <2>3 DEF Hit, Return
  <2>4. ASSUME NEW c \in Calls, Plan(c) PROVE SourcesInv'
    BY <2>4 DEF Plan
  <2>5. ASSUME NEW c \in Calls, JudgeWeeks(c) PROVE SourcesInv'
    <3>1. IsDraft(draft[c])
      BY <2>5 DEF JudgeWeeks
    <3>2. QED BY <2>5, <3>1, JudgedDraft DEF JudgeWeeks
  <2>6. ASSUME NEW c \in Calls, Sweep(c) PROVE SourcesInv'
    <3>1. pc[c] = "sweep" /\ UNCHANGED <<checkpoints, verdicts>>
      BY <2>6 DEF Sweep
    <3>2. \A d \in Calls : d # c => pc'[d] = pc[d] /\ draft'[d] = draft[d]
      BY <2>6 DEF Sweep
    <3>3. IsDraft(draft[c])
      BY <3>1
    <3>4. draft'[c].sources \subseteq draft[c].sources \cup verdicts
      BY <2>6, <3>3, SweptDraft DEF Sweep
    <3>5. QED BY <3>1, <3>2, <3>4
  <2>7. ASSUME NEW c \in Calls, SynthesisFails(c) \/ Timeout(c) PROVE SourcesInv'
    BY <2>7 DEF SynthesisFails, Timeout, Return
  <2>8. ASSUME NEW c \in Calls, Write(c) PROVE SourcesInv'
    <3>1. Document(c).sources = draft[c].sources
      BY DEF Document
    <3>2. UNCHANGED verdicts /\ pc[c] = "synthesise" /\ draft[c].sources \subseteq verdicts
      BY <2>8 DEF Write
    <3>3. SourcesAreOnFile'
      BY <2>8, <3>1, <3>2, WriteFiles
    <3> QED BY <2>8, <3>3 DEF Write, Return
  <2>9. CASE NextDay \/ VerdictStored \/ UNCHANGED vars
    BY <2>9 DEF NextDay, VerdictStored, vars
  <2>10. QED
    BY <2>1, <2>2, <2>3, <2>4, <2>5, <2>6, <2>7, <2>8, <2>9 DEF Next, Step
<1>3. SourcesInv => SourcesAreOnFile
  OBVIOUS
<1>4. QED BY <1>1, <1>2, <1>3, ShapeHolds, PTL DEF Spec

-------------------------------------------------------------------------------
(* The locks *)

\* Two calls that hold a lock work for different weeks, and one that is past its
\* look at the cache works for a week without a final checkpoint.
HoldersInv ==
    /\ life = 0
    /\ \A c \in Calls : pc[c] \in Active => req[c].life = 0
    /\ \A c, d \in Calls :
          c # d /\ pc[c] \in Holding /\ pc[d] \in Holding => req[c].week # req[d].week
    /\ \A c \in Calls : pc[c] \in Planned => ~Final(req[c].week)

LEMMA LockHolds == ASSUME Unemptied PROVE Spec => []HoldersInv
<1> USE DEF HoldersInv, Active, Holding, Planned
<1>1. Init => HoldersInv
  BY DEF Init
<1>2. Shape /\ RequestInv /\ HoldersInv /\ [Next]_vars => HoldersInv'
  <2> SUFFICES ASSUME Shape, RequestInv, HoldersInv, [Next]_vars PROVE HoldersInv'
    OBVIOUS
  <2> USE DEF Shape, Final, OnFile
  <2>1. ASSUME NEW c \in Calls, Request(c) PROVE HoldersInv'
    <3>1. PICK d \in Days, l \in {life} \cup {x \in {life + 1} : x <= MaxClears} :
             /\ req' = [req EXCEPT ![c] = [asOf |-> AsOf(d), week |-> WeekOf(AsOf(d)), at |-> now,
                                           running |-> WeekOf(now), life |-> l]]
             /\ life' = l
      BY <2>1 DEF Request
    <3>2. l = 0
      BY <3>1, Unemptied DEF Unemptied
    <3>3. pc' = [pc EXCEPT ![c] = "queued"] /\ UNCHANGED checkpoints
      BY <2>1 DEF Request
    <3>4. QED BY <3>1, <3>2, <3>3
  <2>2. ASSUME NEW c \in Calls, Acquire(c) PROVE HoldersInv'
    BY <2>2 DEF Acquire, SameLock
  <2>3. ASSUME NEW c \in Calls, Hit(c) PROVE HoldersInv'
    BY <2>3 DEF Hit, Return
  <2>4. ASSUME NEW c \in Calls, Plan(c) PROVE HoldersInv'
    BY <2>4 DEF Plan, Answers
  <2>5. ASSUME NEW c \in Calls, JudgeWeeks(c) PROVE HoldersInv'
    BY <2>5 DEF JudgeWeeks
  <2>6. ASSUME NEW c \in Calls, Sweep(c) PROVE HoldersInv'
    BY <2>6 DEF Sweep
  <2>7. ASSUME NEW c \in Calls, SynthesisFails(c) \/ Timeout(c) PROVE HoldersInv'
    BY <2>7 DEF SynthesisFails, Timeout, Return
  <2>8. ASSUME NEW c \in Calls, Write(c) PROVE HoldersInv'
    <3>1. pc' = [pc EXCEPT ![c] = "idle"] /\ UNCHANGED life
      BY <2>8 DEF Write, Return
    <3>2. \A d \in Calls : d # c => req'[d] = req[d]
      BY <2>8 DEF Write, Return
    <3>3. ASSUME NEW d \in Calls, pc'[d] \in Planned PROVE ~Final(req[d].week)'
      <4>1. d # c /\ pc[d] \in Planned
        BY <3>1, <3>3
      <4>2. pc[c] = "synthesise"
        BY <2>8 DEF Write
      <4>3. req[d].week # req[c].week /\ req[d].week \in Weeks
        BY <4>1, <4>2 DEF RequestInv
      <4>4. checkpoints'[req[d].week] = checkpoints[req[d].week]
        BY <2>8, <4>3, WriteFiles
      <4>5. QED BY <3>2, <4>1, <4>4
    <3>4. QED BY <3>1, <3>2, <3>3
  <2>9. CASE NextDay \/ VerdictStored \/ UNCHANGED vars
    BY <2>9 DEF NextDay, VerdictStored, vars
  <2>10. QED
    BY <2>1, <2>2, <2>3, <2>4, <2>5, <2>6, <2>7, <2>8, <2>9 DEF Next, Step
<1>3. QED BY <1>1, <1>2, ShapeHolds, RequestHolds, PTL DEF Spec

\* A step leaves final rows alone when the locks exclude.
LEMMA FinalRowsStay ==
    ASSUME Shape, HoldersInv, [Next]_vars, NEW w \in Weeks, Final(w)
    PROVE  checkpoints'[w] = checkpoints[w]
<1>1. ASSUME NEW c \in Calls, Write(c) PROVE checkpoints'[w] = checkpoints[w]
  <2>1. w # req[c].week
    BY <1>1 DEF Write, HoldersInv, Planned
  <2>2. QED BY <1>1, <2>1, WriteFiles
<1>2. QED BY <1>1, OnlyWritesFile

\* As long as the lock table is not emptied under its holders, a checkpoint
\* that is final is never replaced: FinalStaysFinal for any set of calls and any
\* calendar, also for calls that set out while their week was still running.
THEOREM FinalIsKept == ASSUME Unemptied PROVE Spec => FinalStaysFinal
<1>1. Shape /\ HoldersInv /\ [Next]_vars
        => [\A w \in Weeks : Final(w) => checkpoints'[w] = checkpoints[w]]_vars
  BY FinalRowsStay
<1>2. QED BY <1>1, ShapeHolds, LockHolds, PTL DEF Spec, FinalStaysFinal

-------------------------------------------------------------------------------
(* Chains *)

\* The prior a call has planned with is still the row on file.
ChainInv ==
    /\ ChainIsSound
    /\ \A c \in Calls : pc[c] \in Planned =>
          \A p \in draft[c].prior : \E v \in 0..(req[c].week - 1) : Final(v) /\ checkpoints[v] = p /\ Extends(p)

\* Under the same assumption chains are sound: ChainIsSound, the checkpoint that
\* another one names as its prior is on file, final, earlier and one link
\* shorter, although it was read before all the judging, and no chain is longer
\* than RebuildDepth.
THEOREM ChainsAreSound == ASSUME Unemptied PROVE Spec => []ChainIsSound
<1> USE DEF ChainInv, Planned
<1>1. Init => ChainInv
  BY DEF Init, ChainIsSound, OnFile
<1>2. Shape /\ RequestInv /\ HoldersInv /\ ChainInv /\ [Next]_vars => ChainInv'
  <2> SUFFICES ASSUME Shape, RequestInv, HoldersInv, ChainInv, [Next]_vars PROVE ChainInv'
    OBVIOUS
  <2> USE DEF Active, Holding
  <2>0. \A v \in Weeks : Final(v) => Final(v)' /\ checkpoints'[v] = checkpoints[v]
    BY FinalRowsStay DEF Final, OnFile
  <2>a. \A w \in Weeks : 0..(w - 1) \subseteq Weeks
    BY CalendarAssumption, WeekAndMonday DEF Weeks
  <2>b. (checkpoints' = checkpoints) => ChainIsSound'
    BY DEF ChainIsSound, Final, OnFile
  <2>1. ASSUME NEW c \in Calls, Request(c) PROVE ChainInv'
    <3>1. UNCHANGED <<checkpoints, draft>> /\ pc' = [pc EXCEPT ![c] = "queued"]
      BY <2>1 DEF Request
    <3>2. \A d \in Calls : d # c => req'[d] = req[d]
      BY <2>1 DEF Request, Shape
    <3>3. \A d \in Calls : pc'[d] \in Planned => d # c /\ pc[d] \in Planned
      BY <3>1 DEF Shape
    <3>4. QED BY <2>b, <3>1, <3>2, <3>3 DEF Final, OnFile
  <2>2. ASSUME NEW c \in Calls, Acquire(c) \/ Hit(c) \/ SynthesisFails(c) \/ Timeout(c)
        PROVE ChainInv'
    BY <2>2, <2>b DEF Acquire, Hit, SynthesisFails, Timeout, Return, Shape, Final, OnFile
  <2>3. ASSUME NEW c \in Calls, Plan(c) PROVE ChainInv'
    <3>1. UNCHANGED <<checkpoints, req>> /\ pc' = [pc EXCEPT ![c] = "judge"]
      BY <2>3 DEF Plan
    <3>2. \A d \in Calls : d # c => draft'[d] = draft[d]
      BY <2>3 DEF Plan, Shape
    <3>3. draft'[c].prior = {p \in Prior(req[c].week) : Extends(p)}
      BY <2>3 DEF Plan, Shape
    <3>4. \A p \in draft'[c].prior : \E v \in 0..(req[c].week - 1) : Final(v) /\ checkpoints[v] = p /\ Extends(p)
      BY <3>3 DEF Prior, Candidates
    <3>5. ASSUME NEW d \in Calls, pc'[d] \in Planned, NEW p \in draft'[d].prior
          PROVE  \E v \in 0..(req'[d].week - 1) : Final(v)' /\ checkpoints'[v] = p /\ Extends(p)
      <4>1. CASE d = c
        BY <3>1, <3>4, <3>5, <4>1 DEF Final, OnFile
      <4>2. CASE d # c
        <5>1. pc[d] \in Planned /\ p \in draft[d].prior
          BY <3>1, <3>2, <3>5, <4>2 DEF Shape
        <5>2. QED BY <3>1, <5>1 DEF Final, OnFile
      <4>3. QED BY <4>1, <4>2
    <3>6. QED BY <2>b, <3>1, <3>5
  <2>4. ASSUME NEW c \in Calls, JudgeWeeks(c) \/ Sweep(c) PROVE ChainInv'
    <3>1. UNCHANGED <<checkpoints, req>> /\ pc[c] \in Planned
      BY <2>4 DEF JudgeWeeks, Sweep
    <3>2. \A d \in Calls : draft'[d].prior = draft[d].prior
      <4>1. draft'[c].prior = draft[c].prior
        <5>1. IsDraft(draft[c])
          BY <3>1 DEF Shape
        <5>2. CASE JudgeWeeks(c)
          BY <5>1, <5>2, JudgedDraft DEF Shape, SamePlan
        <5>3. CASE Sweep(c)
          BY <5>1, <5>3, SweptDraft DEF Shape, SamePlan
        <5>4. QED BY <2>4, <5>2, <5>3
      <4>2. \A d \in Calls : d # c => draft'[d] = draft[d]
        BY <2>4 DEF JudgeWeeks, Sweep, Shape
      <4>3. QED BY <4>1, <4>2
    <3>3. \A d \in Calls : pc'[d] \in Planned => pc[d] \in Planned
      BY <2>4, <3>1 DEF JudgeWeeks, Sweep, Shape
    <3>4. QED BY <2>b, <3>1, <3>2, <3>3 DEF Final, OnFile
  <2>5. ASSUME NEW c \in Calls, Write(c) PROVE ChainInv'
    <3>1. pc[c] = "synthesise" /\ pc' = [pc EXCEPT ![c] = "idle"]
      BY <2>5 DEF Write, Return
    <3>2. \A d \in Calls : d # c => req'[d] = req[d] /\ draft'[d] = draft[d]
      BY <2>5 DEF Write, Return, Shape
    <3>3. \A d \in Calls : pc[d] # "idle" => req[d].week \in Weeks
      BY DEF RequestInv
    <3>4. ASSUME NEW d \in Calls, pc'[d] \in Planned, NEW p \in draft'[d].prior
          PROVE  \E v \in 0..(req'[d].week - 1) : Final(v)' /\ checkpoints'[v] = p /\ Extends(p)
      <4>1. d # c /\ pc[d] \in Planned
        BY <3>1, <3>4 DEF Shape
      <4>2. PICK v \in 0..(req[d].week - 1) : Final(v) /\ checkpoints[v] = p /\ Extends(p)
        BY <3>2, <3>4, <4>1
      <4>3. v \in Weeks
        BY <2>a, <3>3, <4>1
      <4>4. QED BY <2>0, <3>2, <4>1, <4>2, <4>3
    <3>5. ASSUME NEW w \in Weeks, OnFile(w)', checkpoints'[w].prior # None
          PROVE  \E v \in 0..(w - 1) :
                    /\ Final(v)'
                    /\ checkpoints'[v].id = checkpoints'[w].prior
                    /\ checkpoints'[w].depth = checkpoints'[v].depth + 1
      <4>1. CASE w = req[c].week
        <5>1. checkpoints'[w] = Document(c)
          BY <2>5, <4>1, WriteFiles
        <5>2. draft[c].prior # {}
          BY <3>5, <5>1 DEF Document
        <5> DEFINE q == CHOOSE p \in draft[c].prior : TRUE
        <5>3. q \in draft[c].prior
          BY <5>2
        <5>4. checkpoints'[w].prior = q.id /\ checkpoints'[w].depth = q.depth + 1
          BY <5>1, <5>2 DEF Document
        <5>5. PICK v \in 0..(w - 1) : Final(v) /\ checkpoints[v] = q
          BY <3>1, <4>1, <5>3
        <5>6. Final(v)' /\ checkpoints'[v] = q
          BY <2>0, <2>a, <5>5
        <5>7. QED BY <5>4, <5>5, <5>6
      <4>2. CASE w # req[c].week
        <5>1. checkpoints'[w] = checkpoints[w]
          BY <2>5, <4>2, WriteFiles
        <5>2. PICK v \in 0..(w - 1) :
                 /\ Final(v)
                 /\ checkpoints[v].id = checkpoints[w].prior
                 /\ checkpoints[w].depth = checkpoints[v].depth + 1
          BY <3>5, <5>1 DEF ChainIsSound, OnFile
        <5>3. Final(v)' /\ checkpoints'[v] = checkpoints[v]
          BY <2>0, <2>a, <5>2
        <5>4. QED BY <5>1, <5>2, <5>3
      <4>3. QED BY <4>1, <4>2
    <3>6. ASSUME NEW w \in Weeks, OnFile(w)' PROVE checkpoints'[w].depth \in 0..RebuildDepth
      <4>1. CASE w = req[c].week
        <5>1. checkpoints'[w] = Document(c)
          BY <2>5, <4>1, WriteFiles
        <5>2. CASE draft[c].prior = {}
          BY <5>1, <5>2, SettingsAssumption DEF Document
        <5>3. CASE draft[c].prior # {}
          <6> DEFINE q == CHOOSE p \in draft[c].prior : TRUE
          <6>1. q \in draft[c].prior /\ checkpoints'[w].depth = q.depth + 1
            BY <5>1, <5>3 DEF Document
          <6>2. PICK v \in 0..(w - 1) : Final(v) /\ checkpoints[v] = q /\ Extends(q)
            BY <3>1, <4>1, <6>1
          <6>3. q.depth \in 0..RebuildDepth
            BY <2>a, <6>2 DEF ChainIsSound, Final
          <6> HIDE DEF q
          <6> QED BY <6>1, <6>2, <6>3, SettingsAssumption DEF Extends
        <5> QED BY <5>2, <5>3
      <4>2. CASE w # req[c].week
        BY <2>5, <3>6, <4>2, WriteFiles DEF ChainIsSound, OnFile
      <4> QED BY <4>1, <4>2
    <3>7. ChainIsSound'
      BY <3>5, <3>6 DEF ChainIsSound, Weeks, WeekOf
    <3>8. QED BY <3>4, <3>7
  <2>6. CASE NextDay \/ VerdictStored \/ UNCHANGED vars
    BY <2>6, <2>b DEF NextDay, VerdictStored, vars, Final, OnFile
  <2> QED BY <2>1, <2>2, <2>3, <2>4, <2>5, <2>6 DEF Next, Step
<1>3. ChainInv => ChainIsSound
  OBVIOUS
<1>4. QED BY <1>1, <1>2, <1>3, ShapeHolds, RequestHolds, LockHolds, PTL DEF Spec

-------------------------------------------------------------------------------
(* Increments *)

\* Every row has an id of its own, so an id that a later row names as its
\* prior, or that a call has planned with, is never taken by another week.
RowIds ==
    /\ issued \in Nat
    /\ \A w \in Weeks : OnFile(w) =>
          /\ checkpoints[w].id \in Nat /\ checkpoints[w].id < issued
          /\ checkpoints[w].prior # None =>
                checkpoints[w].prior \in Nat /\ checkpoints[w].prior < issued
    /\ \A v, w \in Weeks :
          OnFile(v) /\ OnFile(w) /\ checkpoints[v].id = checkpoints[w].id => v = w

\* What a call planned with p has set out to look at, whatever has become of
\* the row p since.
PlanCovers(c, p) ==
    /\ p.week \in Weeks /\ p.week < req[c].week
    /\ p.id \in Nat /\ p.id < issued
    /\ \A v \in Weeks : OnFile(v) /\ checkpoints[v].id = p.id => v = p.week
    /\ req[c].week - p.week <= DeepTail =>
          {x \in (p.week + 1)..req[c].week : draft[c].coverage <= Monday(x)} \subseteq draft[c].deep

GapInv ==
    /\ RowIds
    /\ IncrementsLeaveNoGap
    /\ \A c \in Calls : pc[c] \in Planned => \A p \in draft[c].prior : PlanCovers(c, p)

\* A plan judges every week since the prior it builds on.
LEMMA PlanLeavesNoGap ==
    ASSUME Shape, RequestInv, RowIds, NEW c \in Calls, Plan(c)
    PROVE  \A p \in draft'[c].prior : PlanCovers(c, p)'
<1> DEFINE w == req[c].week
           built == {p \in Prior(w) : Extends(p)}
           warm == Warm(w)
           deep(from) == DeepWeeks(w, Least(from, req[c].asOf))
<1>1. PICK from \in MappedFrom :
         draft' = [draft EXCEPT ![c] =
             [coverage |-> Least(from, req[c].asOf), warm |-> warm, deep |-> deep(from),
              prior |-> built, sources |-> {}, swept |-> {}, evidence |-> FALSE, missed |-> FALSE]]
  BY DEF Plan
<1>2. /\ draft'[c].prior = built /\ draft'[c].deep = deep(from)
      /\ draft'[c].coverage = Least(from, req[c].asOf)
  <2> HIDE DEF warm, deep, built
  <2> QED BY <1>1 DEF Shape
<1>3. UNCHANGED <<checkpoints, req, issued>> /\ w \in Weeks
  BY DEF Plan, RequestInv
<1>4. ASSUME NEW p \in built PROVE PlanCovers(c, p)'
  <2>1. PICK v \in 0..(w - 1) : Final(v) /\ checkpoints[v] = p
    BY <1>4 DEF Prior, Candidates
  <2>2. v \in Weeks /\ v < w /\ v \in Nat /\ w \in Nat
    BY <1>3, <2>1, CalendarAssumption, WeekAndMonday DEF Weeks
  <2>3. p.week = v /\ OnFile(v)
    BY <2>1, <2>2 DEF Shape, Final
  <2>4. /\ p.id \in Nat /\ p.id < issued
        /\ \A x \in Weeks : OnFile(x) /\ checkpoints[x].id = p.id => x = v
    BY <2>1, <2>2, <2>3 DEF RowIds
  <2>5. ASSUME w - v <= DeepTail, NEW x \in (v + 1)..w, Least(from, req[c].asOf) <= Monday(x)
        PROVE  x \in deep(from)
    <3>1. p \in Prior(w) /\ Warm(w)
      BY <1>4, <2>3, <2>5 DEF Warm
    <3>2. x \in WeeksSince(p, w)
      BY <2>3, <2>5 DEF WeeksSince
    <3>3. QED BY <2>5, <3>1, <3>2 DEF DeepWeeks
  <2> HIDE DEF deep, built
  <2>6. (\A x \in Weeks : OnFile(x) /\ checkpoints[x].id = p.id => x = p.week)'
    BY <1>3, <2>3, <2>4 DEF OnFile
  <2>7. QED BY <1>2, <1>3, <2>2, <2>3, <2>4, <2>5, <2>6 DEF PlanCovers
<1>5. QED BY <1>2, <1>4

\* A step that files nothing and leaves a call's request and plan alone keeps
\* what it covers.
LEMMA PlanKept ==
    ASSUME NEW c \in Calls, UNCHANGED <<checkpoints, issued>>, req'[c] = req[c],
           SamePlan(draft'[c], draft[c]), \A p \in draft[c].prior : PlanCovers(c, p)
    PROVE  \A p \in draft'[c].prior : PlanCovers(c, p)'
BY DEF PlanCovers, SamePlan, OnFile

LEMMA QuietFile ==
    ASSUME UNCHANGED <<checkpoints, issued>>, RowIds, IncrementsLeaveNoGap
    PROVE  RowIds' /\ IncrementsLeaveNoGap'
BY DEF RowIds, IncrementsLeaveNoGap, OnFile

\* What a write does to the ids and to the weeks a checkpoint covers.
LEMMA WriteLeavesNoGap ==
    ASSUME Shape, RequestInv, GapInv, NEW c \in Calls, Write(c)
    PROVE  /\ RowIds' /\ IncrementsLeaveNoGap'
           /\ \A d \in Calls \ {c} : \A p \in draft[d].prior : PlanCovers(d, p) => PlanCovers(d, p)'
<1> DEFINE w == req[c].week
           q == CHOOSE p \in draft[c].prior : TRUE
<1>1. /\ pc[c] = "synthesise" /\ issued' = issued + 1 /\ w \in Weeks /\ issued \in Nat
      /\ \A d \in Calls \ {c} : req'[d] = req[d] /\ draft'[d] = draft[d]
  BY DEF Write, Return, Shape, RequestInv, GapInv, RowIds
<1>2. /\ checkpoints'[w] = Document(c)
      /\ \A v \in Weeks \ {w} : checkpoints'[v] = checkpoints[v]
  BY <1>1, WriteFiles
<1>3. /\ checkpoints'[w].id = issued
      /\ checkpoints'[w].prior = IF draft[c].prior = {} THEN None ELSE q.id
      /\ checkpoints'[w].coverage = draft[c].coverage
      /\ draft[c].deep \subseteq checkpoints'[w].covers
  BY <1>2 DEF Document
<1>4. draft[c].prior # {} => PlanCovers(c, q)
  BY <1>1 DEF GapInv, Planned
<1> HIDE DEF q
<1>5. ASSUME NEW x \in Weeks, OnFile(x)'
      PROVE  /\ checkpoints'[x].id \in Nat /\ checkpoints'[x].id < issued'
             /\ checkpoints'[x].prior # None =>
                   checkpoints'[x].prior \in Nat /\ checkpoints'[x].prior < issued
  <2>1. CASE x = w
    BY <1>1, <1>3, <1>4, <2>1 DEF PlanCovers
  <2>2. CASE x # w
    <3>1. OnFile(x) /\ checkpoints'[x] = checkpoints[x]
      BY <1>2, <1>5, <2>2 DEF OnFile
    <3>2. QED BY <1>1, <3>1 DEF GapInv, RowIds
  <2>3. QED BY <2>1, <2>2
<1>6. ASSUME NEW x \in Weeks, x # w, OnFile(x)' PROVE OnFile(x) /\ checkpoints'[x].id # issued
  <2>1. OnFile(x) /\ checkpoints'[x] = checkpoints[x]
    BY <1>2, <1>6 DEF OnFile
  <2>2. QED BY <1>1, <2>1 DEF GapInv, RowIds
<1>7. ASSUME NEW x \in Weeks, NEW y \in Weeks, OnFile(x)', OnFile(y)',
             checkpoints'[x].id = checkpoints'[y].id
      PROVE  x = y
  <2>1. CASE x = w \/ y = w
    BY <1>3, <1>6, <1>7, <2>1
  <2>2. CASE x # w /\ y # w
    BY <1>2, <1>6, <1>7, <2>2 DEF GapInv, RowIds
  <2>3. QED BY <2>1, <2>2
<1>8. RowIds'
  BY <1>1, <1>5, <1>7 DEF RowIds
<1>9. ASSUME NEW v \in Weeks, NEW x \in Weeks, OnFile(v)', OnFile(x)',
             checkpoints'[x].prior = checkpoints'[v].id, v < x, x - v <= DeepTail
      PROVE  {y \in (v + 1)..x : checkpoints'[x].coverage <= Monday(y)} \subseteq checkpoints'[x].covers
  <2>1. v # w
    <3>1. x # w => checkpoints'[x].prior # issued
      BY <1>1, <1>5, <1>9, NoneAssumption
    <3>2. QED BY <1>3, <1>9, <3>1, WeeksAreNat
  <2>2. OnFile(v) /\ checkpoints'[v] = checkpoints[v] /\ checkpoints[v].id \in Nat
    BY <1>2, <1>9, <2>1 DEF OnFile, GapInv, RowIds
  <2>3. CASE x = w
    <3>1. draft[c].prior # {} /\ checkpoints[v].id = q.id
      BY <1>3, <1>9, <2>2, <2>3, NoneAssumption
    <3>2. v = q.week
      BY <1>4, <2>2, <3>1 DEF PlanCovers
    <3>3. {y \in (v + 1)..w : draft[c].coverage <= Monday(y)} \subseteq draft[c].deep
      BY <1>4, <1>9, <2>3, <3>1, <3>2 DEF PlanCovers
    <3>4. QED BY <1>3, <2>3, <3>3
  <2>4. CASE x # w
    <3>1. OnFile(x) /\ checkpoints'[x] = checkpoints[x]
      BY <1>2, <1>9, <2>4 DEF OnFile
    <3>2. QED BY <1>9, <2>2, <3>1 DEF GapInv, IncrementsLeaveNoGap
  <2>5. QED BY <2>3, <2>4
<1>10. IncrementsLeaveNoGap'
  BY <1>9 DEF IncrementsLeaveNoGap, Weeks, WeekOf, Monday
<1>11. ASSUME NEW d \in Calls \ {c}, NEW p \in draft[d].prior, PlanCovers(d, p)
       PROVE  PlanCovers(d, p)'
  <2>1. ASSUME NEW v \in Weeks, OnFile(v)', checkpoints'[v].id = p.id PROVE v = p.week
    <3>1. v # w
      BY <1>1, <1>3, <1>11, <2>1 DEF PlanCovers
    <3>2. QED BY <1>2, <1>11, <2>1, <3>1 DEF PlanCovers, OnFile
  <2>2. QED BY <1>1, <1>11, <2>1 DEF PlanCovers, Weeks, WeekOf, Monday
<1>12. QED BY <1>8, <1>10, <1>11

\* A checkpoint that builds on a recent one looks at every week since:
\* IncrementsLeaveNoGap, also when the week's row is replaced while the call is
\* under way and however often the lock table is emptied, because a replaced
\* row gets a new id.
THEOREM IncrementsAreWhole == Spec => []IncrementsLeaveNoGap
<1>1. Init => GapInv
  BY DEF Init, GapInv, RowIds, IncrementsLeaveNoGap, OnFile, Planned
<1>2. Shape /\ RequestInv /\ GapInv /\ [Next]_vars => GapInv'
  <2> SUFFICES ASSUME Shape, RequestInv, GapInv, [Next]_vars PROVE GapInv'
    OBVIOUS
  <2>a. RowIds /\ IncrementsLeaveNoGap
    BY DEF GapInv
  <2>b. ASSUME UNCHANGED <<checkpoints, issued>>,
               \A c \in Calls : pc'[c] \in Planned =>
                   \/ \A p \in draft'[c].prior : PlanCovers(c, p)'
                   \/ /\ pc[c] \in Planned /\ req'[c] = req[c]
                      /\ SamePlan(draft'[c], draft[c])
        PROVE  GapInv'
    <3>1. \A c \in Calls : pc'[c] \in Planned => \A p \in draft'[c].prior : PlanCovers(c, p)'
      BY <2>b, PlanKept DEF GapInv
    <3>2. QED BY <2>a, <2>b, <3>1, QuietFile DEF GapInv
  <2>1. ASSUME NEW c \in Calls,
               Request(c) \/ Acquire(c) \/ Hit(c) \/ SynthesisFails(c) \/ Timeout(c)
        PROVE  GapInv'
    <3>1. /\ UNCHANGED <<checkpoints, issued>> /\ pc'[c] \notin Planned
          /\ \A d \in Calls \ {c} : pc'[d] = pc[d] /\ req'[d] = req[d] /\ draft'[d] = draft[d]
      BY <2>1 DEF Request, Acquire, Hit, SynthesisFails, Timeout, Return, Shape, Planned
    <3>2. QED BY <2>b, <3>1 DEF SamePlan
  <2>2. ASSUME NEW c \in Calls, Plan(c) PROVE GapInv'
    <3>1. /\ UNCHANGED <<checkpoints, issued, req>>
          /\ \A d \in Calls \ {c} : pc'[d] = pc[d] /\ draft'[d] = draft[d]
      BY <2>2 DEF Plan, Shape
    <3>2. \A p \in draft'[c].prior : PlanCovers(c, p)'
      BY <2>2, <2>a, PlanLeavesNoGap
    <3>3. QED BY <2>b, <3>1, <3>2 DEF SamePlan
  <2>3. ASSUME NEW c \in Calls, JudgeWeeks(c) \/ Sweep(c) PROVE GapInv'
    <3>1. /\ UNCHANGED <<checkpoints, issued, req>> /\ pc[c] \in Planned
          /\ \A d \in Calls \ {c} : pc'[d] = pc[d] /\ draft'[d] = draft[d]
      BY <2>3 DEF JudgeWeeks, Sweep, Shape, Planned
    <3>2. SamePlan(draft'[c], draft[c])
      BY <2>3, <3>1, JudgedDraft, SweptDraft DEF Shape
    <3>3. QED BY <2>b, <3>1, <3>2 DEF SamePlan
  <2>4. ASSUME NEW c \in Calls, Write(c) PROVE GapInv'
    <3>1. \A d \in Calls : pc'[d] \in Planned =>
             d # c /\ pc[d] \in Planned /\ draft'[d] = draft[d]
      BY <2>4 DEF Write, Return, Shape, Planned
    <3>2. QED BY <2>4, <3>1, WriteLeavesNoGap DEF GapInv
  <2>5. CASE NextDay \/ VerdictStored \/ UNCHANGED vars
    BY <2>5, <2>b DEF NextDay, VerdictStored, vars, SamePlan
  <2> QED BY <2>1, <2>2, <2>3, <2>4, <2>5 DEF Next, Step
<1>3. GapInv => IncrementsLeaveNoGap
  BY DEF GapInv
<1>4. QED BY <1>1, <1>2, <1>3, ShapeHolds, RequestHolds, PTL DEF Spec
===============================================================================
