-------------------------- MODULE WeeklyPipelineProofs --------------------------
(***************************************************************************)
(* Theorems about WeeklyPipeline, for any projects, jobs, processes and    *)
(* rule sets, in any overlap, whatever crashes: warnings are stored before *)
(* the snapshots that cite them, a completed run has judged all it was to  *)
(* judge, a fold that runs alone never goes back in time, a week is scored *)
(* on what Gitea held, a nightly that reports "ok" has left all it owes on *)
(* file, and the rows of a night whose team pull came whole were gated     *)
(* with every team's size.                                                 *)
(***************************************************************************)
EXTENDS WeeklyPipeline, DataLemmas

\* A job is a record with NoJob's fields.
IsJob(job) == job = [f \in DOMAIN NoJob |-> job[f]]
JobsAreJobs == jobs = [w \in Workers |-> jobs[w]] /\ \A w \in Workers : IsJob(jobs[w])

SameBut(F, job, next) == \A f \in DOMAIN NoJob \ F : next[f] = job[f]

\* One job changed, in the fields F at most, and is at `at' now.
Moves(w, F, at) ==
    /\ JobsAreJobs'
    /\ \A o \in Workers \ {w} : jobs'[o] = jobs[o]
    /\ SameBut(F, jobs[w], jobs'[w])
    /\ jobs'[w].pc = at

-------------------------------------------------------------------------------
(* What each step does to the job records *)

LEMMA Fields ==
    DOMAIN NoJob = {"kind", "pc", "stamp", "version", "team", "weeks", "adapters", "statuses", "documents", "known",
                    "alone", "judging", "left", "rows", "draft", "unsaved"}
BY DEF NoJob

\* NoJob is a record of its own fields.
LEMMA NoJobIsJob == IsJob(NoJob) /\ NoJob.pc = "idle"
BY DEF IsJob, NoJob

LEMMA OneJobChanged ==
    ASSUME JobsAreJobs, NEW w \in Workers, NEW F, NEW next, jobs' = [jobs EXCEPT ![w] = next],
           IsJob(next), NEW at, next.pc = at, SameBut(F, jobs[w], next)
    PROVE  Moves(w, F, at) /\ jobs'[w] = next
BY DEF JobsAreJobs, Moves

LEMMA StartMoves ==
    ASSUME JobsAreJobs, NEW w \in Workers, NEW kind, NEW version, Start(w, kind, version)
    PROVE  /\ \E at \in {"teams", "pull", "read"} : Moves(w, DOMAIN NoJob, at)
           /\ jobs'[w].kind = kind /\ jobs'[w].version = version /\ jobs'[w].stamp = Stamp
           /\ jobs'[w].adapters = <<>>
           /\ jobs'[w].weeks = CASE kind = "nightly" -> WeekWindows(LookbackWeeks, today)
                                 [] kind = "backfill" -> WeekWindows(BackfillWeeks, today) [] OTHER -> <<>>
           /\ jobs'[w].judging = CASE kind = "nightly" -> <<>>
                                   [] kind = "backfill" -> WeekWindows(BackfillWeeks, today)
                                   [] OTHER -> <<WeekOf(today)>>
<1> DEFINE at == CASE kind = "nightly" -> "teams" [] kind = "backfill" -> "pull" [] OTHER -> "read"
           pulled == CASE kind = "nightly" -> WeekWindows(LookbackWeeks, today)
                       [] kind = "backfill" -> WeekWindows(BackfillWeeks, today) [] OTHER -> <<>>
           judged == CASE kind = "nightly" -> <<>>
                       [] kind = "backfill" -> WeekWindows(BackfillWeeks, today) [] OTHER -> <<WeekOf(today)>>
           next == [NoJob EXCEPT !.kind = kind, !.version = version, !.stamp = Stamp,
                                 !.pc = at, !.weeks = pulled, !.judging = judged]
<1>1. at \in {"teams", "pull", "read"}
  OBVIOUS
<1>2. jobs' = [jobs EXCEPT ![w] = next]
  BY Zenon DEF Start
<1> HIDE DEF at, pulled, judged
<1>3. /\ IsJob(next) /\ next.pc = at /\ next.kind = kind /\ next.version = version
      /\ next.stamp = Stamp /\ next.weeks = pulled /\ next.judging = judged /\ next.adapters = <<>>
      /\ SameBut(DOMAIN NoJob, jobs[w], next)
  BY Fields, NoJobIsJob DEF IsJob, NoJob, SameBut
<1> HIDE DEF next
<1>4. Moves(w, DOMAIN NoJob, at) /\ jobs'[w] = next
  BY <1>2, <1>3, OneJobChanged
<1>5. QED BY <1>1, <1>3, <1>4 DEF pulled, judged

LEMMA PullTeamsMoves ==
    ASSUME JobsAreJobs, NEW w \in Workers, NEW pull, PullTeams(w, pull)
    PROVE  /\ Moves(w, {"pc", "team"}, "adapters")
           /\ jobs'[w].team = SyncTeams(Directory, pull).status
<1> DEFINE status == SyncTeams(Directory, pull).status
           next == [jobs[w] EXCEPT !.pc = "adapters", !.team = status]
<1>1. jobs' = [jobs EXCEPT ![w] = next]
  BY Zenon DEF PullTeams
<1> HIDE DEF status
<1>2. IsJob(next) /\ next.pc = "adapters" /\ next.team = status /\ SameBut({"pc", "team"}, jobs[w], next)
  BY Fields DEF JobsAreJobs, IsJob, SameBut
<1> HIDE DEF next
<1>3. Moves(w, {"pc", "team"}, "adapters") /\ jobs'[w] = next
  BY <1>1, <1>2, OneJobChanged
<1>4. QED BY <1>2, <1>3 DEF status

LEMMA ResolveMoves ==
    ASSUME JobsAreJobs, NEW w \in Workers, ResolveForTonight(w)
    PROVE  /\ Moves(w, {"pc", "adapters"}, "sync")
           /\ jobs'[w].adapters = BuildAdapters(staged[ProcessOf[w]].sizes, DayOf(jobs[w].stamp))
<1> DEFINE built == BuildAdapters(staged[ProcessOf[w]].sizes, DayOf(jobs[w].stamp))
           next == [jobs[w] EXCEPT !.pc = "sync", !.adapters = built]
<1>1. jobs' = [jobs EXCEPT ![w] = next]
  BY Zenon DEF ResolveForTonight
<1> HIDE DEF built
<1>2. /\ IsJob(next) /\ next.pc = "sync" /\ next.adapters = built
      /\ SameBut({"pc", "adapters"}, jobs[w], next)
  BY Fields DEF JobsAreJobs, IsJob, SameBut
<1> HIDE DEF next
<1>3. Moves(w, {"pc", "adapters"}, "sync") /\ jobs'[w] = next
  BY <1>1, <1>2, OneJobChanged
<1>4. QED BY <1>2, <1>3 DEF built

LEMMA SyncTonightMoves ==
    ASSUME JobsAreJobs, NEW w \in Workers, NEW fault, SyncTonight(w, fault)
    PROVE  Moves(w, {"pc", "adapters", "statuses"}, "fold") /\ jobs'[w].adapters = <<>>
<1>1. PICK found : jobs' = [jobs EXCEPT ![w] = [jobs[w] EXCEPT !.pc = "fold", !.adapters = <<>>, !.statuses = found]]
  BY Zenon DEF SyncTonight
<1> DEFINE next == [jobs[w] EXCEPT !.pc = "fold", !.adapters = <<>>, !.statuses = found]
<1>2. jobs' = [jobs EXCEPT ![w] = next]
  BY <1>1
<1>3. /\ IsJob(next) /\ next.pc = "fold" /\ next.adapters = <<>>
      /\ SameBut({"pc", "adapters", "statuses"}, jobs[w], next)
  BY Fields DEF JobsAreJobs, IsJob, SameBut
<1> HIDE DEF next
<1>4. Moves(w, {"pc", "adapters", "statuses"}, "fold") /\ jobs'[w] = next
  BY <1>2, <1>3, OneJobChanged
<1>5. QED BY <1>3, <1>4

LEMMA SyncPastWeekMoves ==
    ASSUME JobsAreJobs, NEW w \in Workers, NEW fault, SyncPastWeek(w, fault)
    PROVE  /\ \E at \in {"fold", "pull"} : Moves(w, {"pc", "weeks", "statuses"}, at)
           /\ jobs'[w].weeks = Tail(jobs[w].weeks)
<1> DEFINE at == IF Len(jobs[w].weeks) = 1 THEN "fold" ELSE "pull"
           rest == Tail(jobs[w].weeks)
<1>1. PICK found : jobs' = [jobs EXCEPT ![w] = [jobs[w] EXCEPT !.weeks = rest, !.statuses = found, !.pc = at]]
  BY Zenon DEF SyncPastWeek
<1> DEFINE next == [jobs[w] EXCEPT !.weeks = rest, !.statuses = found, !.pc = at]
<1>2. jobs' = [jobs EXCEPT ![w] = next] /\ at \in {"fold", "pull"}
  BY <1>1
<1> HIDE DEF at, rest
<1>3. /\ IsJob(next) /\ next.pc = at /\ next.weeks = rest
      /\ SameBut({"pc", "weeks", "statuses"}, jobs[w], next)
  BY Fields DEF JobsAreJobs, IsJob, SameBut
<1> HIDE DEF next
<1>4. Moves(w, {"pc", "weeks", "statuses"}, at) /\ jobs'[w] = next
  BY <1>2, <1>3, OneJobChanged
<1>5. QED BY <1>2, <1>3, <1>4 DEF rest

\* The only step that touches other workers' jobs: whether they are alone.
LEMMA FoldReadsMoves ==
    ASSUME JobsAreJobs, NEW w \in Workers, FoldReads(w)
    PROVE  /\ JobsAreJobs'
           /\ \A o \in Workers : SameBut({"pc", "alone", "known", "documents"}, jobs[o], jobs'[o])
           /\ \A o \in Workers \ {w} : \A f \in {"pc", "known", "documents"} : jobs'[o][f] = jobs[o][f]
           /\ \A o \in Workers \ {w} : jobs'[o].alone => jobs[o].alone /\ ~Folding(o)
           /\ jobs'[w].pc = "write" /\ jobs'[w].known = ExistingByKey
           /\ jobs'[w].documents = Documents(staged[ProcessOf[w]].rows)
           /\ jobs'[w].alone => \A o \in Workers \ {w} : ~Folding(o)
<1> DEFINE others == {o \in Workers \ {w} : Folding(o)}
           free == others = {}
           stillAlone == [o \in Workers |-> jobs[o].alone /\ o \notin others]
           found == ExistingByKey
           pulled == Documents(staged[ProcessOf[w]].rows)
<1>1. jobs' = [o \in Workers |->
                 IF o = w THEN [jobs[w] EXCEPT !.pc = "write", !.alone = free, !.known = found, !.documents = pulled]
                 ELSE [jobs[o] EXCEPT !.alone = stillAlone[o]]]
  <2>1. jobs' = [o \in Workers |->
                   IF o = w THEN [jobs[w] EXCEPT !.pc = "write", !.alone = free, !.known = found, !.documents = pulled]
                   ELSE [jobs[o] EXCEPT !.alone = @ /\ o \notin others]]
    BY Zenon DEF FoldReads
  <2>2. \A o \in Workers : stillAlone[o] = (jobs[o].alone /\ o \notin others)
    BY Zenon
  <2> HIDE DEF found, pulled, stillAlone
  <2>3. \A o \in Workers : [jobs[o] EXCEPT !.alone = @ /\ o \notin others] = [jobs[o] EXCEPT !.alone = stillAlone[o]]
    BY <2>2, Zenon
  <2> QED BY <2>1, <2>3, Zenon
<1>2. \A o \in Workers \ {w} : stillAlone[o] => jobs[o].alone /\ ~Folding(o)
  BY Zenon
<1>3. free => \A o \in Workers \ {w} : ~Folding(o)
  OBVIOUS
<1> HIDE DEF free, found, pulled, stillAlone
<1>4. \A o \in Workers \ {w} : jobs'[o] = [jobs[o] EXCEPT !.alone = stillAlone[o]]
  BY <1>1, Zenon
<1>5. jobs'[w] = [jobs[w] EXCEPT !.pc = "write", !.alone = free, !.known = found, !.documents = pulled]
  BY <1>1, Zenon
<1>6. ASSUME NEW o \in Workers \ {w}
      PROVE  /\ IsJob(jobs'[o]) /\ jobs'[o].alone = stillAlone[o]
             /\ \A f \in DOMAIN NoJob \ {"alone"} : jobs'[o][f] = jobs[o][f]
  BY <1>4, Fields DEF JobsAreJobs, IsJob
<1>7. /\ IsJob(jobs'[w]) /\ jobs'[w].pc = "write" /\ jobs'[w].alone = free
      /\ jobs'[w].known = found /\ jobs'[w].documents = pulled
      /\ \A f \in DOMAIN NoJob \ {"pc", "alone", "known", "documents"} : jobs'[w][f] = jobs[w][f]
  BY <1>5, Fields DEF JobsAreJobs, IsJob
<1>8. JobsAreJobs'
  BY <1>1, <1>6, <1>7 DEF JobsAreJobs
<1>9. \A o \in Workers \ {w} : jobs'[o].alone => jobs[o].alone /\ ~Folding(o)
  BY <1>2, <1>6
<1>10. \A o \in Workers \ {w} : \A f \in {"pc", "known", "documents"} : jobs'[o][f] = jobs[o][f]
  BY <1>6, Fields
<1>11. \A o \in Workers : SameBut({"pc", "alone", "known", "documents"}, jobs[o], jobs'[o])
  BY <1>6, <1>7 DEF SameBut
<1>12. QED BY <1>3, <1>7, <1>8, <1>9, <1>10, <1>11 DEF found, pulled

LEMMA FoldWritesMoves ==
    ASSUME JobsAreJobs, NEW w \in Workers, FoldWrites(w)
    PROVE  Moves(w, {"known", "documents"}, "write")
<1>1. PICK known, rest :
        jobs' = [jobs EXCEPT ![w] = [jobs[w] EXCEPT !.known = known, !.documents = rest]] /\ jobs[w].pc = "write"
  BY Zenon DEF FoldWrites, Folding
<1> DEFINE next == [jobs[w] EXCEPT !.known = known, !.documents = rest]
<1>2. jobs' = [jobs EXCEPT ![w] = next]
  BY <1>1
<1>3. IsJob(next) /\ next.pc = "write" /\ SameBut({"known", "documents"}, jobs[w], next)
  BY <1>1, Fields DEF JobsAreJobs, IsJob, SameBut
<1> HIDE DEF next
<1>4. QED BY <1>2, <1>3, OneJobChanged

LEMMA FoldEndsMoves ==
    ASSUME JobsAreJobs, NEW w \in Workers, FoldEnds(w)
    PROVE  Moves(w, {"pc", "known", "documents"}, IF jobs[w].kind = "nightly" THEN "done" ELSE "read")
<1> DEFINE at == IF jobs[w].kind = "nightly" THEN "done" ELSE "read"
           next == [jobs[w] EXCEPT !.pc = at, !.documents = <<>>, !.known = <<>>]
<1>1. jobs' = [jobs EXCEPT ![w] = next]
  BY Zenon DEF FoldEnds
<1> HIDE DEF at
<1>2. IsJob(next) /\ next.pc = at /\ SameBut({"pc", "known", "documents"}, jobs[w], next)
  BY Fields DEF JobsAreJobs, IsJob, SameBut
<1> HIDE DEF next
<1>3. Moves(w, {"pc", "known", "documents"}, at)
  BY <1>1, <1>2, OneJobChanged
<1>4. QED BY <1>3 DEF at

LEMMA ReadActivityMoves ==
    ASSUME JobsAreJobs, NEW w \in Workers, ReadActivity(w)
    PROVE  Moves(w, {"pc", "rows"}, "keys") /\ jobs'[w].rows = RowsOnFile
<1> DEFINE onFile == RowsOnFile
           next == [jobs[w] EXCEPT !.pc = "keys", !.rows = onFile]
<1>1. jobs' = [jobs EXCEPT ![w] = next]
  BY Zenon DEF ReadActivity
<1> HIDE DEF onFile
<1>2. IsJob(next) /\ next.pc = "keys" /\ next.rows = onFile /\ SameBut({"pc", "rows"}, jobs[w], next)
  BY Fields DEF JobsAreJobs, IsJob, SameBut
<1> HIDE DEF next
<1>3. Moves(w, {"pc", "rows"}, "keys") /\ jobs'[w] = next
  BY <1>1, <1>2, OneJobChanged
<1>4. QED BY <1>2, <1>3 DEF onFile

LEMMA ReadSnapshotsMoves ==
    ASSUME JobsAreJobs, NEW w \in Workers, ReadSnapshots(w)
    PROVE  /\ Moves(w, {"pc", "left"}, "judge")
           /\ jobs'[w].left = {i \in DOMAIN Projects : <<Projects[i].id, Week(w), jobs[w].version>> \notin ExistingKeys(w)}
<1> DEFINE left == {i \in DOMAIN Projects : <<Projects[i].id, Week(w), jobs[w].version>> \notin ExistingKeys(w)}
           next == [jobs[w] EXCEPT !.pc = "judge", !.left = left]
<1>1. jobs' = [jobs EXCEPT ![w] = next]
  BY Zenon DEF ReadSnapshots
<1> HIDE DEF left
<1>2. IsJob(next) /\ next.pc = "judge" /\ next.left = left /\ SameBut({"pc", "left"}, jobs[w], next)
  BY Fields DEF JobsAreJobs, IsJob, SameBut
<1> HIDE DEF next
<1>3. Moves(w, {"pc", "left"}, "judge") /\ jobs'[w] = next
  BY <1>1, <1>2, OneJobChanged
<1>4. QED BY <1>2, <1>3 DEF left

\* A judged week starts with all its warnings still to store.
LEMMA JudgeMoves ==
    ASSUME JobsAreJobs, NEW w \in Workers, JudgeProject(w)
    PROVE  /\ Moves(w, {"pc", "draft", "left", "unsaved"}, "save") /\ jobs[w].pc = "judge"
           /\ \E i \in jobs[w].left :
                 LET draft == DraftOf(jobs[w], Projects[i], Week(w))
                 IN  /\ jobs'[w].draft = <<draft>> /\ jobs'[w].unsaved = draft.warnings
                     /\ jobs'[w].left = jobs[w].left \ {i}
<1>1. PICK i \in jobs[w].left :
        jobs' = [jobs EXCEPT ![w] = [jobs[w] EXCEPT !.pc = "save", !.draft = <<DraftOf(jobs[w], Projects[i], Week(w))>>,
                    !.left = jobs[w].left \ {i}, !.unsaved = DraftOf(jobs[w], Projects[i], Week(w)).warnings]]
  BY Zenon DEF JudgeProject
<1> DEFINE draft == DraftOf(jobs[w], Projects[i], Week(w))
           left == jobs[w].left \ {i}
           next == [jobs[w] EXCEPT !.pc = "save", !.draft = <<draft>>, !.left = left, !.unsaved = draft.warnings]
<1>2. jobs' = [jobs EXCEPT ![w] = next] /\ jobs[w].pc = "judge"
  BY <1>1, Zenon DEF JudgeProject
<1> HIDE DEF draft, left
<1>3. /\ IsJob(next) /\ next.pc = "save" /\ next.draft = <<draft>> /\ next.unsaved = draft.warnings
      /\ next.left = left /\ SameBut({"pc", "draft", "left", "unsaved"}, jobs[w], next)
  BY Fields DEF JobsAreJobs, IsJob, SameBut
<1> HIDE DEF next
<1>4. Moves(w, {"pc", "draft", "left", "unsaved"}, "save") /\ jobs'[w] = next
  BY <1>2, <1>3, OneJobChanged
<1>5. QED BY <1>2, <1>3, <1>4 DEF draft, left

LEMMA SaveWarningMoves ==
    ASSUME JobsAreJobs, NEW w \in Workers, SaveWarning(w)
    PROVE  /\ Moves(w, {"unsaved"}, "save") /\ jobs[w].pc = "save"
           /\ \E warning \in jobs[w].unsaved :
                 warnings' = warnings \cup {warning} /\ jobs'[w].unsaved = jobs[w].unsaved \ {warning}
<1>1. PICK warning \in jobs[w].unsaved :
        /\ warnings' = warnings \cup {warning}
        /\ jobs' = [jobs EXCEPT ![w] = [jobs[w] EXCEPT !.unsaved = jobs[w].unsaved \ {warning}]]
  BY Zenon DEF SaveWarning
<1> DEFINE rest == jobs[w].unsaved \ {warning}
           next == [jobs[w] EXCEPT !.unsaved = rest]
<1>2. jobs' = [jobs EXCEPT ![w] = next] /\ jobs[w].pc = "save"
  BY <1>1 DEF SaveWarning
<1> HIDE DEF rest
<1>3. IsJob(next) /\ next.pc = "save" /\ next.unsaved = rest /\ SameBut({"unsaved"}, jobs[w], next)
  BY <1>2, Fields DEF JobsAreJobs, IsJob, SameBut
<1> HIDE DEF next
<1>4. Moves(w, {"unsaved"}, "save") /\ jobs'[w] = next
  BY <1>2, <1>3, OneJobChanged
<1>5. QED BY <1>1, <1>2, <1>3, <1>4 DEF rest

\* A snapshot that loses the race ends its job.
LEMMA SaveSnapshotMoves ==
    ASSUME JobsAreJobs, NEW w \in Workers, SaveSnapshot(w)
    PROVE  /\ jobs[w].pc = "save" /\ jobs[w].unsaved = {}
           /\ \/ Moves(w, {"pc", "draft"}, "failed") /\ UNCHANGED snapshots
              \/ Moves(w, {"pc", "draft"}, "judge") /\ snapshots' = snapshots \cup {Head(jobs[w].draft)}
<1> DEFINE draft == Head(jobs[w].draft)
           taken == SnapshotKey(draft) \in {SnapshotKey(s) : s \in snapshots}
           at == IF taken THEN "failed" ELSE "judge"
           next == [jobs[w] EXCEPT !.pc = at, !.draft = <<>>]
<1>1. /\ jobs' = [jobs EXCEPT ![w] = next]
      /\ snapshots' = IF taken THEN snapshots ELSE snapshots \cup {draft}
      /\ jobs[w].pc = "save" /\ jobs[w].unsaved = {}
  BY Zenon DEF SaveSnapshot
<1> HIDE DEF taken, draft, next
<1>2. \/ at = "failed" /\ snapshots' = snapshots
      \/ at = "judge" /\ snapshots' = snapshots \cup {draft}
  <2>1. CASE taken
    BY <1>1, <2>1, Zenon
  <2>2. CASE ~taken
    BY <1>1, <2>2, Zenon
  <2>3. QED BY <2>1, <2>2
<1> HIDE DEF at
<1> USE DEF draft, next
<1>3. IsJob(next) /\ next.pc = at /\ SameBut({"pc", "draft"}, jobs[w], next)
  BY Fields DEF JobsAreJobs, IsJob, SameBut
<1> HIDE DEF next
<1>4. Moves(w, {"pc", "draft"}, at)
  BY <1>1, <1>3, OneJobChanged
<1>5. QED BY <1>1, <1>2, <1>4

LEMMA WeekEndsMoves ==
    ASSUME JobsAreJobs, NEW w \in Workers, WeekEnds(w)
    PROVE  /\ Moves(w, {"pc", "judging", "rows"}, IF Len(jobs[w].judging) = 1 THEN "done" ELSE "read")
           /\ jobs[w].pc = "judge" /\ jobs[w].left = {} /\ jobs'[w].judging = Tail(jobs[w].judging)
<1> DEFINE at == IF Len(jobs[w].judging) = 1 THEN "done" ELSE "read"
           rest == Tail(jobs[w].judging)
           next == [jobs[w] EXCEPT !.pc = at, !.judging = rest, !.rows = {}]
<1>1. jobs' = [jobs EXCEPT ![w] = next] /\ jobs[w].pc = "judge" /\ jobs[w].left = {}
  BY Zenon DEF WeekEnds
<1> HIDE DEF at, rest
<1>2. IsJob(next) /\ next.pc = at /\ next.judging = rest /\ SameBut({"pc", "judging", "rows"}, jobs[w], next)
  BY Fields DEF JobsAreJobs, IsJob, SameBut
<1> HIDE DEF next
<1>3. Moves(w, {"pc", "judging", "rows"}, at) /\ jobs'[w] = next
  BY <1>1, <1>2, OneJobChanged
<1>4. QED BY <1>1, <1>2, <1>3 DEF at, rest

LEMMA CrashMoves ==
    ASSUME JobsAreJobs, NEW p, Crash(p)
    PROVE  JobsAreJobs' /\ \A w \in Workers : jobs'[w] = NoJob \/ jobs'[w] = jobs[w]
<1>1. jobs' = [w \in Workers |-> IF ProcessOf[w] = p THEN NoJob ELSE jobs[w]]
  BY DEF Crash
<1>2. QED BY <1>1, NoJobIsJob DEF JobsAreJobs

LEMMA QuietMoves ==
    ASSUME JobsAreJobs, Tomorrow \/ UNCHANGED pipelineVars
    PROVE  JobsAreJobs' /\ UNCHANGED <<jobs, stores, staged, started>>
BY DEF Tomorrow, pipelineVars, JobsAreJobs, stores

\* The actions, for a proof by cases.
LEMMA StepCases ==
    ASSUME [PipelineNext]_pipelineVars
    PROVE  \/ \E w \in Workers :
              \/ \E kind \in Kinds[w] : \E version \in VersionsOf[kind] : Start(w, kind, version)
              \/ \E pull \in Pulls : PullTeams(w, pull)
              \/ \E fault \in Faults : SyncTonight(w, fault) \/ SyncPastWeek(w, fault)
              \/ ResolveForTonight(w) \/ FoldReads(w) \/ FoldWrites(w) \/ FoldEnds(w)
              \/ ReadActivity(w) \/ ReadSnapshots(w) \/ JudgeProject(w)
              \/ SaveWarning(w) \/ SaveSnapshot(w) \/ WeekEnds(w)
           \/ \E p \in Processes : Crash(p)
           \/ Tomorrow \/ UNCHANGED pipelineVars
BY Zenon DEF PipelineNext, JobStep

LEMMA JobsHold == PipelineSpec => []JobsAreJobs
<1>1. PipelineInit => JobsAreJobs
  BY NoJobIsJob DEF PipelineInit, JobsAreJobs
<1>2. JobsAreJobs /\ [PipelineNext]_pipelineVars => JobsAreJobs'
  BY StepCases, StartMoves, PullTeamsMoves, ResolveMoves, SyncTonightMoves, SyncPastWeekMoves, FoldReadsMoves,
     FoldWritesMoves, FoldEndsMoves, ReadActivityMoves, ReadSnapshotsMoves, JudgeMoves, SaveWarningMoves,
     SaveSnapshotMoves, WeekEndsMoves, CrashMoves, QuietMoves DEF Moves
<1>3. QED BY <1>1, <1>2, PTL DEF PipelineSpec

-------------------------------------------------------------------------------
(* Warnings before snapshots *)

\* What a judged week still has to store, before its snapshot may be.
WarningsComeFirst ==
    \A w \in Workers :
        jobs[w].pc = "save" => Head(jobs[w].draft).warnings \subseteq warnings \cup jobs[w].unsaved

\* A step that moves jobs to places other than the saving of a week, or leaves
\* them there as they were, whichever jobs it is about.
LEMMA ElsewherePreserves ==
    ASSUME WarningsComeFirst, SnapshotsCiteStoredWarnings, UNCHANGED <<warnings, snapshots>>,
           \A w \in Workers : jobs'[w].pc # "save" \/ jobs'[w] = jobs[w]
                                \/ SameBut({"alone"}, jobs[w], jobs'[w])
    PROVE  WarningsComeFirst' /\ SnapshotsCiteStoredWarnings'
BY Fields DEF WarningsComeFirst, SnapshotsCiteStoredWarnings, SameBut

LEMMA JudgeWarnsFirst ==
    ASSUME JobsAreJobs, WarningsComeFirst, SnapshotsCiteStoredWarnings, NEW w \in Workers, JudgeProject(w)
    PROVE  WarningsComeFirst' /\ SnapshotsCiteStoredWarnings'
<1>1. UNCHANGED <<warnings, snapshots>>
  BY DEF JudgeProject, stores
<1>2. PICK draft : jobs'[w].draft = <<draft>> /\ jobs'[w].unsaved = draft.warnings
  BY JudgeMoves
<1>3. \A o \in Workers \ {w} : jobs'[o] = jobs[o]
  BY JudgeMoves DEF Moves
<1>4. QED BY <1>1, <1>2, <1>3 DEF WarningsComeFirst, SnapshotsCiteStoredWarnings

LEMMA SaveWarningWarnsFirst ==
    ASSUME JobsAreJobs, WarningsComeFirst, SnapshotsCiteStoredWarnings, NEW w \in Workers, SaveWarning(w)
    PROVE  WarningsComeFirst' /\ SnapshotsCiteStoredWarnings'
<1>1. UNCHANGED snapshots
  BY DEF SaveWarning
<1>2. PICK warning \in jobs[w].unsaved :
        warnings' = warnings \cup {warning} /\ jobs'[w].unsaved = jobs[w].unsaved \ {warning}
  BY SaveWarningMoves
<1>3. /\ \A o \in Workers \ {w} : jobs'[o] = jobs[o]
      /\ jobs'[w].draft = jobs[w].draft /\ jobs[w].pc = "save"
  BY SaveWarningMoves, Fields DEF Moves, SameBut
<1>4. QED BY <1>1, <1>2, <1>3 DEF WarningsComeFirst, SnapshotsCiteStoredWarnings

\* A snapshot is written when nothing of it is unsaved.
LEMMA SaveSnapshotWarnsFirst ==
    ASSUME JobsAreJobs, WarningsComeFirst, SnapshotsCiteStoredWarnings, NEW w \in Workers, SaveSnapshot(w)
    PROVE  WarningsComeFirst' /\ SnapshotsCiteStoredWarnings'
<1>1. UNCHANGED warnings
  BY DEF SaveSnapshot
<1>2. /\ \A o \in Workers \ {w} : jobs'[o] = jobs[o]
      /\ jobs'[w].pc # "save" /\ snapshots' \subseteq snapshots \cup {Head(jobs[w].draft)}
  BY SaveSnapshotMoves DEF Moves
<1>3. Head(jobs[w].draft).warnings \subseteq warnings
  BY SaveSnapshotMoves DEF WarningsComeFirst
<1>4. QED BY <1>1, <1>2, <1>3 DEF WarningsComeFirst, SnapshotsCiteStoredWarnings

\* No crash, lost race or failed job leaves a snapshot that cites a warning
\* nobody stored.
THEOREM SnapshotsAreBacked == PipelineSpec => []SnapshotsCiteStoredWarnings
<1> DEFINE Backed == WarningsComeFirst /\ SnapshotsCiteStoredWarnings
<1>1. PipelineInit => Backed
  BY NoJobIsJob DEF PipelineInit, WarningsComeFirst, SnapshotsCiteStoredWarnings
<1>2. JobsAreJobs /\ Backed /\ [PipelineNext]_pipelineVars => Backed'
  <2> SUFFICES ASSUME JobsAreJobs, WarningsComeFirst, SnapshotsCiteStoredWarnings, [PipelineNext]_pipelineVars
               PROVE  WarningsComeFirst' /\ SnapshotsCiteStoredWarnings'
    OBVIOUS
  <2>1. ASSUME NEW w \in Workers, NEW kind, NEW version, Start(w, kind, version)
        PROVE  WarningsComeFirst' /\ SnapshotsCiteStoredWarnings'
    BY <2>1, StartMoves, ElsewherePreserves DEF Moves, Start, stores
  <2>2. ASSUME NEW w \in Workers, NEW x, PullTeams(w, x) \/ SyncTonight(w, x) \/ SyncPastWeek(w, x)
        PROVE  WarningsComeFirst' /\ SnapshotsCiteStoredWarnings'
    <3>1. UNCHANGED <<warnings, snapshots>>
      BY <2>2 DEF PullTeams, SyncTonight, SyncPastWeek, stores
    <3>2. QED BY <2>2, <3>1, PullTeamsMoves, SyncTonightMoves, SyncPastWeekMoves, ElsewherePreserves DEF Moves
  <2>3. ASSUME NEW w \in Workers, FoldReads(w)
        PROVE  WarningsComeFirst' /\ SnapshotsCiteStoredWarnings'
    <3>1. \A o \in Workers \ {w} : SameBut({"alone"}, jobs[o], jobs'[o])
      BY <2>3, FoldReadsMoves DEF SameBut
    <3>2. jobs'[w].pc # "save" /\ UNCHANGED <<warnings, snapshots>>
      BY <2>3, FoldReadsMoves DEF FoldReads, stores
    <3>3. QED BY <3>1, <3>2, ElsewherePreserves
  <2>4. ASSUME NEW w \in Workers, ResolveForTonight(w) \/ FoldWrites(w) \/ FoldEnds(w) \/ ReadActivity(w)
                                    \/ ReadSnapshots(w) \/ WeekEnds(w)
        PROVE  WarningsComeFirst' /\ SnapshotsCiteStoredWarnings'
    <3>1. UNCHANGED <<warnings, snapshots>>
      BY <2>4 DEF ResolveForTonight, FoldWrites, FoldEnds, ReadActivity, ReadSnapshots, WeekEnds, stores
    <3>2. jobs'[w].pc # "save" /\ \A o \in Workers \ {w} : jobs'[o] = jobs[o]
      BY <2>4, ResolveMoves, FoldWritesMoves, FoldEndsMoves, ReadActivityMoves, ReadSnapshotsMoves, WeekEndsMoves
         DEF Moves
    <3>3. QED BY <3>1, <3>2, ElsewherePreserves
  <2>5. ASSUME NEW p, Crash(p) PROVE WarningsComeFirst' /\ SnapshotsCiteStoredWarnings'
    <3>1. UNCHANGED <<warnings, snapshots>>
      BY <2>5 DEF Crash, stores
    <3>2. QED BY <2>5, <3>1, CrashMoves, NoJobIsJob, ElsewherePreserves
  <2>6. CASE Tomorrow \/ UNCHANGED pipelineVars
    BY <2>6, QuietMoves, ElsewherePreserves DEF stores
  <2>7. QED
    BY <2>1, <2>2, <2>3, <2>4, <2>5, <2>6, JudgeWarnsFirst, SaveWarningWarnsFirst, SaveSnapshotWarnsFirst, StepCases
<1>3. QED BY <1>1, <1>2, JobsHold, PTL DEF PipelineSpec

-------------------------------------------------------------------------------
(* A completed run has covered its weeks *)

\* A stamp remembers its day.
ClockInv == today \in Nat /\ started \in 0..MaxJobs

LEMMA StampsTellTheDay ==
    ASSUME NEW day \in Nat, NEW m \in Nat \ {0}, NEW r \in 0..(m - 1)
    PROVE  (day * m + r) \div m = day /\ day * m + r \in Nat
<1>1. day * m \in Nat
  BY SMT
<1>2. (day * m + r) \div m = day
  BY <1>1, SMTT(20)
<1>3. QED BY <1>1, <1>2

LEMMA DayOfStamp ==
    ASSUME ClockInv
    PROVE  Stamp \in Nat /\ DayOf(Stamp) = today
<1>1. MaxJobs \in Nat /\ MaxJobs + 1 \in Nat \ {0} /\ started \in 0..((MaxJobs + 1) - 1) /\ today \in Nat
  BY PipelineAssumption DEF ClockInv
<1>2. QED BY <1>1, StampsTellTheDay DEF Stamp, DayOf

LEMMA ClockHolds == PipelineSpec => []ClockInv
<1>1. PipelineInit => ClockInv
  BY PipelineAssumption DEF PipelineInit, ClockInv
<1>2. ClockInv /\ [PipelineNext]_pipelineVars => ClockInv'
  <2> SUFFICES ASSUME ClockInv, [PipelineNext]_pipelineVars PROVE ClockInv'
    OBVIOUS
  <2>1. ASSUME NEW w, NEW kind, NEW version, Start(w, kind, version) PROVE ClockInv'
    <3>1. started < MaxJobs /\ started' = started + 1 /\ today' = today
      BY <2>1, Zenon DEF Start
    <3>2. QED BY <3>1, PipelineAssumption DEF ClockInv
  <2>2. ASSUME NEW w, NEW x, PullTeams(w, x) \/ SyncTonight(w, x) \/ SyncPastWeek(w, x) PROVE ClockInv'
    <3>1. UNCHANGED <<today, started>>
      BY <2>2, Zenon DEF PullTeams, SyncTonight, SyncPastWeek
    <3>2. QED BY <3>1 DEF ClockInv
  <2>3. ASSUME NEW w, ResolveForTonight(w) \/ FoldReads(w) \/ FoldWrites(w) \/ FoldEnds(w) \/ ReadActivity(w)
                      \/ ReadSnapshots(w) \/ JudgeProject(w) \/ SaveWarning(w) \/ SaveSnapshot(w) \/ WeekEnds(w)
        PROVE  ClockInv'
    <3>1. UNCHANGED <<today, started>>
      BY <2>3, Zenon DEF ResolveForTonight, FoldReads, FoldWrites, FoldEnds, ReadActivity, ReadSnapshots, JudgeProject,
                         SaveWarning, SaveSnapshot, WeekEnds
    <3>2. QED BY <3>1 DEF ClockInv
  <2>4. ASSUME NEW p, Crash(p) PROVE ClockInv'
    BY <2>4 DEF Crash, ClockInv
  <2>5. CASE Tomorrow \/ UNCHANGED pipelineVars
    BY <2>5 DEF Tomorrow, pipelineVars, ClockInv
  <2> QED BY StepCases, <2>1, <2>2, <2>3, <2>4, <2>5
<1>3. QED BY <1>1, <1>2, PTL DEF PipelineSpec

\* The windows of a run are a sequence of weeks, never an empty one.
LEMMA WindowsAreWeeks ==
    ASSUME NEW weeks \in Nat \ {0}, NEW day \in Nat
    PROVE  WeekWindows(weeks, day) \in Seq(Nat) /\ WeekWindows(weeks, day) # <<>>
<1>1. PICK latest : latest = WeekOf(day) /\ latest \in Nat
  BY AggregatesAssumption DEF WeekOf
<1>2. PICK n : n = Least(weeks, latest + 1) /\ n \in Nat \ {0} /\ n <= latest + 1
  BY <1>1 DEF Least
<1>3. WeekWindows(weeks, day) = [i \in 1..n |-> latest - n + i]
  BY <1>1, <1>2 DEF WeekWindows
<1>4. QED BY <1>1, <1>2, <1>3

\* One project's week has its snapshot under one rule set.
OnFile(onFile, i, week, version) == \E s \in onFile : SnapshotKey(s) = <<Projects[i].id, week, version>>

\* A judging job still has a week ahead of it or has judged it, and of the week
\* at hand each project is left, in hand or done.
Ahead(job, onFile) ==
    \A week \in WeeksToJudge(job) :
        week \in Range(job.judging) \/ \A i \in DOMAIN Projects : OnFile(onFile, i, week, job.version)
AtHand(job, onFile) ==
    job.pc \in {"judge", "save"} =>
        \A i \in DOMAIN Projects :
            \/ i \in job.left
            \/ OnFile(onFile, i, Head(job.judging), job.version)
            \/ job.pc = "save" /\ SnapshotKey(Head(job.draft)) = <<Projects[i].id, Head(job.judging), job.version>>
Judges(job) == job.kind # "nightly" /\ job.pc \notin {"idle", "failed"}
JobCovers(job, onFile) ==
    Judges(job) =>
        /\ job.judging \in Seq(Nat) /\ (job.judging = <<>>) = (job.pc = "done")
        /\ Ahead(job, onFile)
        /\ AtHand(job, onFile)
RunsCover == \A w \in Workers : JobCovers(jobs[w], snapshots)

\* Snapshots only come, so a job that rests, or that goes on without coming to
\* another week, still covers what it did.
LEMMA StillCovers ==
    ASSUME NEW job, NEW next, NEW old, NEW new, old \subseteq new, JobCovers(job, old),
           \A f \in {"kind", "version", "stamp", "judging"} : next[f] = job[f],
           Judges(next) => Judges(job) /\ (next.pc = "done") = (job.pc = "done"),
           \/ next.pc \notin {"judge", "save"}
           \/ next.pc = job.pc /\ next.left = job.left /\ next.draft = job.draft
    PROVE  JobCovers(next, new)
<1> SUFFICES ASSUME Judges(next) PROVE JobCovers(next, new)
  BY DEF JobCovers
<1>1. \A i, week, version : OnFile(old, i, week, version) => OnFile(new, i, week, version)
  BY DEF OnFile
<1>2. WeeksToJudge(next) = WeeksToJudge(job)
  BY DEF WeeksToJudge
<1>3. Ahead(next, new)
  BY <1>1, <1>2 DEF JobCovers, Ahead
<1>4. AtHand(next, new)
  BY <1>1 DEF JobCovers, AtHand
<1>5. QED BY <1>3, <1>4 DEF JobCovers

LEMMA StartCovers ==
    ASSUME JobsAreJobs, ClockInv, NEW w \in Workers, NEW kind, NEW version, Start(w, kind, version)
    PROVE  JobCovers(jobs'[w], snapshots)
<1> DEFINE next == jobs'[w]
<1>1. /\ next.kind = kind /\ next.stamp = Stamp /\ next.pc \in {"teams", "pull", "read"}
      /\ next.judging = CASE kind = "nightly" -> <<>>
                           [] kind = "backfill" -> WeekWindows(BackfillWeeks, today)
                           [] OTHER -> <<WeekOf(today)>>
  BY StartMoves DEF Moves
<1>2. WeekWindows(BackfillWeeks, today) \in Seq(Nat) /\ WeekWindows(BackfillWeeks, today) # <<>>
  BY WindowsAreWeeks, PipelineAssumption DEF ClockInv
<1>3. WeekOf(today) \in Nat
  BY AggregatesAssumption DEF ClockInv, WeekOf
<1> HIDE DEF next
<1>4. next.kind # "nightly" =>
        next.judging \in Seq(Nat) /\ next.judging # <<>> /\ WeeksToJudge(next) \subseteq Range(next.judging)
  <2>1. CASE kind = "backfill"
    BY <1>1, <1>2, <2>1, DayOfStamp DEF WeeksToJudge
  <2>2. CASE kind \notin {"backfill", "nightly"}
    <3>1. next.judging = <<WeekOf(today)>> /\ WeekOf(today) \in Range(<<WeekOf(today)>>)
      BY <1>1, <2>2 DEF Range
    <3>2. QED BY <1>1, <1>3, <2>2, <3>1, DayOfStamp DEF WeeksToJudge
  <2>3. QED BY <1>1, <2>1, <2>2
<1>5. JobCovers(next, snapshots)
  BY <1>1, <1>4 DEF JobCovers, Judges, Ahead, AtHand
<1>6. QED BY <1>5 DEF next

LEMMA ReadSnapshotsCovers ==
    ASSUME JobsAreJobs, RunsCover, NEW w \in Workers, ReadSnapshots(w)
    PROVE  JobCovers(jobs'[w], snapshots)
<1>1. /\ \A f \in {"kind", "version", "stamp", "judging"} : jobs'[w][f] = jobs[w][f]
      /\ jobs'[w].pc = "judge" /\ jobs[w].pc = "keys"
      /\ jobs'[w].left = {i \in DOMAIN Projects : <<Projects[i].id, Week(w), jobs[w].version>> \notin ExistingKeys(w)}
  BY ReadSnapshotsMoves, Fields DEF Moves, SameBut, ReadSnapshots
<1>2. \A i \in DOMAIN Projects : i \in jobs'[w].left \/ OnFile(snapshots, i, Head(jobs'[w].judging), jobs'[w].version)
  BY <1>1 DEF OnFile, ExistingKeys, Week
<1>3. WeeksToJudge(jobs'[w]) = WeeksToJudge(jobs[w])
  BY <1>1 DEF WeeksToJudge
<1>4. QED BY <1>1, <1>2, <1>3 DEF RunsCover, JobCovers, Judges, Ahead, AtHand

LEMMA JudgeCovers ==
    ASSUME JobsAreJobs, RunsCover, NEW w \in Workers, JudgeProject(w)
    PROVE  JobCovers(jobs'[w], snapshots)
<1>1. /\ \A f \in {"kind", "version", "stamp", "judging"} : jobs'[w][f] = jobs[w][f]
      /\ jobs'[w].pc = "save" /\ jobs[w].pc = "judge"
  BY JudgeMoves, Fields DEF Moves, SameBut
<1>2. PICK i \in jobs[w].left :
        /\ jobs'[w].draft = <<DraftOf(jobs[w], Projects[i], Week(w))>>
        /\ jobs'[w].left = jobs[w].left \ {i}
  BY JudgeMoves
<1>3. SnapshotKey(Head(jobs'[w].draft)) = <<Projects[i].id, Head(jobs'[w].judging), jobs'[w].version>>
  BY <1>1, <1>2 DEF SnapshotKey, DraftOf, Week
<1>4. WeeksToJudge(jobs'[w]) = WeeksToJudge(jobs[w])
  BY <1>1 DEF WeeksToJudge
<1>5. QED BY <1>1, <1>2, <1>3, <1>4 DEF RunsCover, JobCovers, Judges, Ahead, AtHand

\* The snapshot in hand is filed, or the job has failed.
LEMMA SaveSnapshotCovers ==
    ASSUME JobsAreJobs, RunsCover, NEW w \in Workers, SaveSnapshot(w)
    PROVE  JobCovers(jobs'[w], snapshots')
<1>1. CASE jobs'[w].pc = "failed"
  BY <1>1 DEF JobCovers, Judges
<1>2. CASE Moves(w, {"pc", "draft"}, "judge") /\ snapshots' = snapshots \cup {Head(jobs[w].draft)}
  <2>1. /\ \A f \in {"kind", "version", "stamp", "judging", "left"} : jobs'[w][f] = jobs[w][f]
        /\ jobs'[w].pc = "judge" /\ jobs[w].pc = "save"
    BY <1>2, SaveSnapshotMoves, Fields DEF Moves, SameBut
  <2>2. \A i, week, version : OnFile(snapshots, i, week, version) => OnFile(snapshots', i, week, version)
    BY <1>2 DEF OnFile
  <2>3. \A i, week, version :
          SnapshotKey(Head(jobs[w].draft)) = <<Projects[i].id, week, version>> => OnFile(snapshots', i, week, version)
    BY <1>2 DEF OnFile
  <2>4. WeeksToJudge(jobs'[w]) = WeeksToJudge(jobs[w])
    BY <2>1 DEF WeeksToJudge
  <2>5. QED BY <2>1, <2>2, <2>3, <2>4 DEF RunsCover, JobCovers, Judges, Ahead, AtHand
<1>3. QED BY <1>1, <1>2, SaveSnapshotMoves DEF Moves

\* With nobody left or in hand, the week at hand is judged.
LEMMA WeekEndsCovers ==
    ASSUME JobsAreJobs, RunsCover, NEW w \in Workers, WeekEnds(w)
    PROVE  JobCovers(jobs'[w], snapshots)
<1>1. /\ \A f \in {"kind", "version", "stamp"} : jobs'[w][f] = jobs[w][f]
      /\ jobs[w].pc = "judge" /\ jobs[w].left = {} /\ jobs'[w].judging = Tail(jobs[w].judging)
      /\ jobs'[w].pc = IF Len(jobs[w].judging) = 1 THEN "done" ELSE "read"
  BY WeekEndsMoves, Fields DEF Moves, SameBut
<1> SUFFICES ASSUME jobs'[w].kind # "nightly" PROVE JobCovers(jobs'[w], snapshots)
  BY DEF JobCovers, Judges
<1>2. jobs[w].judging \in Seq(Nat) /\ jobs[w].judging # <<>> /\ Ahead(jobs[w], snapshots) /\ AtHand(jobs[w], snapshots)
  BY <1>1 DEF RunsCover, JobCovers, Judges
<1>3. \A i \in DOMAIN Projects : OnFile(snapshots, i, Head(jobs[w].judging), jobs[w].version)
  BY <1>1, <1>2 DEF AtHand
<1>4. /\ Range(jobs[w].judging) = {Head(jobs[w].judging)} \cup Range(Tail(jobs[w].judging))
      /\ Tail(jobs[w].judging) \in Seq(Nat) /\ (Tail(jobs[w].judging) = <<>>) = (Len(jobs[w].judging) = 1)
  BY <1>2, HeadAndTail
<1>5. WeeksToJudge(jobs'[w]) = WeeksToJudge(jobs[w])
  BY <1>1 DEF WeeksToJudge
<1>6. Ahead(jobs'[w], snapshots)
  BY <1>1, <1>2, <1>3, <1>4, <1>5 DEF Ahead
<1>7. jobs'[w].judging \in Seq(Nat) /\ (jobs'[w].judging = <<>>) = (jobs'[w].pc = "done")
  BY <1>1, <1>4
<1>8. QED BY <1>1, <1>6, <1>7 DEF JobCovers, AtHand

\* Every other step leaves what is judged and what is on file as they were.
LEMMA ElsewhereCovers ==
    ASSUME JobsAreJobs, RunsCover, NEW w \in Workers, UNCHANGED snapshots, JobCovers(jobs'[w], snapshots),
           \A o \in Workers \ {w} : jobs'[o] = jobs[o]
    PROVE  RunsCover'
BY DEF RunsCover

\* A job that came to its end has left a snapshot of every project, in every week
\* it was to judge, under its own rule set.
THEOREM CompletedRunsCover == PipelineSpec => []CompletedRunCovers
<1>1. PipelineInit => RunsCover
  BY NoJobIsJob DEF PipelineInit, RunsCover, JobCovers, Judges
<1>2. JobsAreJobs /\ ClockInv /\ RunsCover /\ [PipelineNext]_pipelineVars => RunsCover'
  <2> SUFFICES ASSUME JobsAreJobs, ClockInv, RunsCover, [PipelineNext]_pipelineVars PROVE RunsCover'
    OBVIOUS
  <2>1. ASSUME NEW w \in Workers, NEW kind, NEW version, Start(w, kind, version) PROVE RunsCover'
    BY <2>1, StartCovers, StartMoves, ElsewhereCovers DEF Moves, Start, stores
  <2>2. ASSUME NEW w \in Workers, NEW x, PullTeams(w, x) \/ SyncTonight(w, x) \/ SyncPastWeek(w, x)
                                          \/ ResolveForTonight(w) \/ FoldWrites(w) \/ FoldEnds(w) \/ ReadActivity(w)
        PROVE  RunsCover'
    <3>1. UNCHANGED snapshots
      BY <2>2 DEF PullTeams, SyncTonight, SyncPastWeek, ResolveForTonight, FoldWrites, FoldEnds, ReadActivity, stores
    <3>2. /\ \A o \in Workers \ {w} : jobs'[o] = jobs[o]
          /\ \A f \in {"kind", "version", "stamp", "judging"} : jobs'[w][f] = jobs[w][f]
          /\ jobs'[w].pc \notin {"judge", "save"} /\ jobs[w].pc \notin {"idle", "failed", "done"}
          /\ jobs'[w].pc = "done" => jobs[w].kind = "nightly"
      <4>1. /\ \A o \in Workers \ {w} : jobs'[o] = jobs[o]
            /\ \A f \in {"kind", "version", "stamp", "judging"} : jobs'[w][f] = jobs[w][f]
            /\ jobs'[w].pc \in {"adapters", "sync", "fold", "pull", "write", "keys"}
                 \/ jobs'[w].pc = IF jobs[w].kind = "nightly" THEN "done" ELSE "read"
        BY <2>2, PullTeamsMoves, SyncTonightMoves, SyncPastWeekMoves, ResolveMoves, FoldWritesMoves, FoldEndsMoves,
           ReadActivityMoves, Fields DEF Moves, SameBut
      <4>2. jobs[w].pc \in {"teams", "sync", "pull", "adapters", "write", "read"}
        BY <2>2 DEF PullTeams, SyncTonight, SyncPastWeek, ResolveForTonight, FoldWrites, FoldEnds, Folding, ReadActivity
      <4>3. QED BY <4>1, <4>2
    <3>3. JobCovers(jobs'[w], snapshots)
      BY <3>2, StillCovers DEF RunsCover, Judges
    <3>4. QED BY <3>1, <3>2, <3>3, ElsewhereCovers
  <2>3. ASSUME NEW w \in Workers, FoldReads(w) PROVE RunsCover'
    <3>1. UNCHANGED snapshots /\ jobs[w].pc = "fold"
      BY <2>3 DEF FoldReads, stores
    <3>2. ASSUME NEW o \in Workers PROVE JobCovers(jobs'[o], snapshots)
      <4>1. \A f \in {"kind", "version", "stamp", "judging", "left", "draft"} : jobs'[o][f] = jobs[o][f]
        BY <2>3, FoldReadsMoves, Fields DEF SameBut
      <4>2. jobs'[o].pc = jobs[o].pc \/ (jobs'[o].pc = "write" /\ jobs[o].pc = "fold")
        BY <2>3, <3>1, FoldReadsMoves
      <4>3. QED BY <4>1, <4>2, StillCovers DEF RunsCover, Judges
    <3>3. QED BY <3>1, <3>2 DEF RunsCover
  <2>4. ASSUME NEW w \in Workers, ReadSnapshots(w) PROVE RunsCover'
    BY <2>4, ReadSnapshotsCovers, ReadSnapshotsMoves, ElsewhereCovers DEF Moves, ReadSnapshots, stores
  <2>5. ASSUME NEW w \in Workers, JudgeProject(w) PROVE RunsCover'
    BY <2>5, JudgeCovers, JudgeMoves, ElsewhereCovers DEF Moves, JudgeProject, stores
  <2>6. ASSUME NEW w \in Workers, SaveWarning(w) PROVE RunsCover'
    <3>1. /\ UNCHANGED snapshots /\ \A o \in Workers \ {w} : jobs'[o] = jobs[o]
          /\ \A f \in {"kind", "version", "stamp", "judging", "left", "draft"} : jobs'[w][f] = jobs[w][f]
          /\ jobs'[w].pc = jobs[w].pc
      BY <2>6, SaveWarningMoves, Fields DEF Moves, SameBut, SaveWarning
    <3>2. JobCovers(jobs'[w], snapshots)
      BY <3>1, StillCovers DEF RunsCover, Judges
    <3>3. QED BY <3>1, <3>2, ElsewhereCovers
  <2>7. ASSUME NEW w \in Workers, SaveSnapshot(w) PROVE RunsCover'
    <3>1. \A o \in Workers \ {w} : jobs'[o] = jobs[o]
      BY <2>7, SaveSnapshotMoves DEF Moves
    <3>2. snapshots \subseteq snapshots'
      BY <2>7, SaveSnapshotMoves
    <3>3. ASSUME NEW o \in Workers \ {w} PROVE JobCovers(jobs'[o], snapshots')
      BY <3>1, <3>2, StillCovers DEF RunsCover, Judges
    <3>4. QED BY <2>7, <3>3, SaveSnapshotCovers DEF RunsCover
  <2>8. ASSUME NEW w \in Workers, WeekEnds(w) PROVE RunsCover'
    BY <2>8, WeekEndsCovers, WeekEndsMoves, ElsewhereCovers DEF Moves, WeekEnds, stores
  <2>9. ASSUME NEW p, Crash(p) PROVE RunsCover'
    <3>1. UNCHANGED snapshots
      BY <2>9 DEF Crash, stores
    <3>2. QED BY <2>9, <3>1, CrashMoves, NoJobIsJob DEF RunsCover, JobCovers, Judges
  <2>10. CASE Tomorrow \/ UNCHANGED pipelineVars
    BY <2>10, QuietMoves DEF RunsCover, stores
  <2>11. QED BY <2>1, <2>2, <2>3, <2>4, <2>5, <2>6, <2>7, <2>8, <2>9, <2>10, StepCases
<1>3. RunsCover => CompletedRunCovers
  <2> SUFFICES ASSUME RunsCover, NEW w \in Workers, jobs[w].pc = "done",
                      NEW project \in Range(Projects), NEW week \in WeeksToJudge(jobs[w])
               PROVE  \E s \in snapshots : SnapshotKey(s) = <<project.id, week, jobs[w].version>>
    BY DEF CompletedRunCovers
  <2>1. jobs[w].kind # "nightly"
    BY DEF WeeksToJudge
  <2>2. jobs[w].judging = <<>> /\ Ahead(jobs[w], snapshots)
    BY <2>1 DEF RunsCover, JobCovers, Judges
  <2>3. PICK i \in DOMAIN Projects : project = Projects[i]
    BY DEF Range
  <2>4. Range(<<>>) = {}
    BY DEF Range
  <2>5. QED BY <2>2, <2>3, <2>4 DEF Ahead, OnFile
<1>4. QED BY <1>1, <1>2, <1>3, JobsHold, ClockHolds, PTL DEF PipelineSpec

-------------------------------------------------------------------------------
(* Jobs are told apart by their stamps *)

\* A job that is under way keeps what it was started with.
LEMMA StepsKeepStamps ==
    ASSUME JobsAreJobs, NEW w \in Workers, JobStep(w)
    PROVE  /\ jobs[w].pc \notin {"idle", "done", "failed"}
           /\ \A o \in Workers : jobs'[o].stamp = jobs[o].stamp
           /\ \A o \in Workers \ {w} : jobs'[o].pc = jobs[o].pc
           /\ UNCHANGED <<today, started>>
<1>1. ASSUME NEW F, NEW at, Moves(w, F, at), "stamp" \notin F
      PROVE  /\ \A o \in Workers : jobs'[o].stamp = jobs[o].stamp
             /\ \A o \in Workers \ {w} : jobs'[o].pc = jobs[o].pc
  BY <1>1, Fields DEF Moves, SameBut
<1>2. ASSUME NEW x, PullTeams(w, x) \/ SyncTonight(w, x) \/ SyncPastWeek(w, x)
      PROVE  /\ jobs[w].pc \notin {"idle", "done", "failed"}
             /\ \E F, at : Moves(w, F, at) /\ "stamp" \notin F
             /\ UNCHANGED <<today, started>>
  <2>1. UNCHANGED <<today, started>>
    BY <1>2, Zenon DEF PullTeams, SyncTonight, SyncPastWeek
  <2>2. jobs[w].pc \in {"teams", "sync", "pull"}
    BY <1>2, Zenon DEF PullTeams, SyncTonight, SyncPastWeek
  <2>3. \E F, at : Moves(w, F, at) /\ "stamp" \notin F
    BY <1>2, PullTeamsMoves, SyncTonightMoves, SyncPastWeekMoves
  <2>4. QED BY <2>1, <2>2, <2>3
<1>3. ASSUME ResolveForTonight(w) \/ FoldWrites(w) \/ FoldEnds(w) \/ ReadActivity(w) \/ ReadSnapshots(w)
               \/ JudgeProject(w) \/ SaveWarning(w) \/ SaveSnapshot(w) \/ WeekEnds(w)
      PROVE  /\ jobs[w].pc \notin {"idle", "done", "failed"}
             /\ \E F, at : Moves(w, F, at) /\ "stamp" \notin F
             /\ UNCHANGED <<today, started>>
  <2>1. UNCHANGED <<today, started>>
    BY <1>3, Zenon DEF ResolveForTonight, FoldWrites, FoldEnds, ReadActivity, ReadSnapshots, JudgeProject,
                       SaveWarning, SaveSnapshot, WeekEnds
  <2>2. jobs[w].pc \in {"adapters", "write", "read", "keys", "judge", "save"}
    BY <1>3, Zenon DEF ResolveForTonight, FoldWrites, FoldEnds, Folding, ReadActivity, ReadSnapshots, JudgeProject,
                       SaveWarning, SaveSnapshot, WeekEnds
  <2>3. \E F, at : Moves(w, F, at) /\ "stamp" \notin F
    BY <1>3, ResolveMoves, FoldWritesMoves, FoldEndsMoves, ReadActivityMoves, ReadSnapshotsMoves, JudgeMoves,
       SaveWarningMoves, SaveSnapshotMoves, WeekEndsMoves
  <2>4. QED BY <2>1, <2>2, <2>3
<1>4. CASE FoldReads(w)
  <2>1. UNCHANGED <<today, started>> /\ jobs[w].pc = "fold"
    BY <1>4, Zenon DEF FoldReads
  <2>2. QED BY <1>4, <2>1, FoldReadsMoves, Fields DEF SameBut
<1>5. QED BY <1>1, <1>2, <1>3, <1>4 DEF JobStep

\* The actions by who takes them.
LEMMA StepKinds ==
    ASSUME [PipelineNext]_pipelineVars
    PROVE  \/ \E w \in Workers : JobStep(w) \/ \E kind \in Kinds[w] : \E version \in VersionsOf[kind] : Start(w, kind, version)
           \/ \E p \in Processes : Crash(p)
           \/ Tomorrow \/ UNCHANGED pipelineVars
BY Zenon DEF PipelineNext

\* No two jobs share a stamp, and the next start's is later than any before it.
StampsInv ==
    /\ \A w \in Workers : jobs[w].pc # "idle" => jobs[w].stamp \in Nat /\ jobs[w].stamp < Stamp
    /\ \A v, w \in Workers :
          v # w /\ jobs[v].pc # "idle" /\ jobs[w].pc # "idle" => jobs[v].stamp # jobs[w].stamp

LEMMA StampsHold == PipelineSpec => []StampsInv
<1>1. PipelineInit => StampsInv
  BY NoJobIsJob DEF PipelineInit, StampsInv
<1>2. JobsAreJobs /\ ClockInv /\ ClockInv' /\ StampsInv /\ [PipelineNext]_pipelineVars => StampsInv'
  <2> SUFFICES ASSUME JobsAreJobs, ClockInv, ClockInv', StampsInv, [PipelineNext]_pipelineVars PROVE StampsInv'
    OBVIOUS
  <2>1. Stamp \in Nat /\ Stamp' \in Nat
    <3>1. MaxJobs + 1 \in Nat \ {0} /\ started' \in 0..((MaxJobs + 1) - 1) /\ today' \in Nat
      BY PipelineAssumption DEF ClockInv
    <3>2. today' * (MaxJobs + 1) + started' \in Nat
      BY <3>1, StampsTellTheDay
    <3>3. QED BY <3>2, DayOfStamp DEF Stamp
  <2>2. ASSUME Stamp <= Stamp',
               \A w \in Workers : jobs'[w].pc # "idle" => jobs[w].pc # "idle" /\ jobs'[w].stamp = jobs[w].stamp
        PROVE  StampsInv'
    <3>1. ASSUME NEW w \in Workers, jobs'[w].pc # "idle" PROVE jobs'[w].stamp \in Nat /\ jobs'[w].stamp < Stamp'
      BY <2>1, <2>2, <3>1 DEF StampsInv
    <3>2. ASSUME NEW v \in Workers, NEW w \in Workers, v # w, jobs'[v].pc # "idle", jobs'[w].pc # "idle"
          PROVE  jobs'[v].stamp # jobs'[w].stamp
      BY <2>2, <3>2 DEF StampsInv
    <3>3. QED BY <3>1, <3>2 DEF StampsInv
  <2>3. ASSUME NEW w \in Workers, JobStep(w) PROVE StampsInv'
    <3>1. UNCHANGED <<today, started>>
      BY <2>3, StepsKeepStamps
    <3>2. Stamp <= Stamp'
      BY <2>1, <3>1 DEF Stamp
    <3>3. QED BY <2>2, <2>3, <3>2, StepsKeepStamps
  <2>4. ASSUME NEW w \in Workers, NEW kind, NEW version, Start(w, kind, version) PROVE StampsInv'
    <3>1. today' = today /\ started' = started + 1 /\ jobs'[w].stamp = Stamp
      BY <2>4, StartMoves DEF Start
    <3>2. Stamp' = Stamp + 1
      <4>1. MaxJobs \in Nat /\ today \in Nat /\ started \in Nat
        BY PipelineAssumption DEF ClockInv
      <4>2. QED BY <3>1, <4>1 DEF Stamp
    <3>3. \A o \in Workers \ {w} : jobs'[o] = jobs[o]
      BY <2>4, StartMoves DEF Moves
    <3>4. ASSUME NEW o \in Workers, jobs'[o].pc # "idle" PROVE jobs'[o].stamp \in Nat /\ jobs'[o].stamp < Stamp'
      BY <2>1, <3>1, <3>2, <3>3, <3>4 DEF StampsInv
    <3>5. ASSUME NEW o \in Workers, NEW v \in Workers, o # v, jobs'[o].pc # "idle", jobs'[v].pc # "idle"
          PROVE  jobs'[o].stamp # jobs'[v].stamp
      BY <2>1, <3>1, <3>3, <3>5 DEF StampsInv
    <3>6. QED BY <3>4, <3>5 DEF StampsInv
  <2>5. ASSUME NEW p, Crash(p) PROVE StampsInv'
    <3>1. Stamp <= Stamp'
      BY <2>1, <2>5 DEF Crash, Stamp
    <3>2. QED BY <2>2, <2>5, <3>1, CrashMoves, NoJobIsJob
  <2>6. CASE Tomorrow
    <3>1. today' = today + 1 /\ started' = started /\ jobs' = jobs
      BY <2>6 DEF Tomorrow
    <3>2. Stamp' = Stamp + (MaxJobs + 1)
      BY <3>1, PipelineAssumption DEF Stamp, ClockInv
    <3>3. Stamp <= Stamp'
      BY <2>1, <3>2, PipelineAssumption
    <3>4. QED BY <2>2, <3>1, <3>3
  <2>7. CASE UNCHANGED pipelineVars
    <3>1. Stamp <= Stamp' /\ jobs' = jobs
      BY <2>1, <2>7 DEF pipelineVars, Stamp
    <3>2. QED BY <2>2, <3>1
  <2>8. QED BY <2>3, <2>4, <2>5, <2>6, <2>7, StepKinds
<1>3. QED BY <1>1, <1>2, JobsHold, ClockHolds, PTL DEF PipelineSpec

-------------------------------------------------------------------------------
(* What a pull stages *)

\* A staged row has the stamp of its job and owners enough to list.
GoodRow(row) == row.synced \in Nat /\ IsFiniteSet(row.projects)
GoodRows(rows) == SomeSeq(rows) /\ \A row \in Range(rows) : GoodRow(row)
GoodAdapter(adapter) == \A key \in DOMAIN adapter.boundary : IsFiniteSet(adapter.boundary[key])
GoodAdapters(adapters) == SomeSeq(adapters) /\ \A a \in DOMAIN adapters : GoodAdapter(adapters[a])

LEMMA BuiltAdaptersAreGood ==
    ASSUME NEW sizes, NEW at
    PROVE  GoodAdapters(BuildAdapters(sizes, at))
<1> DEFINE resolver == BuildBoundaryResolver(Boundaries, at)
           teams == BuildTeamSizeResolver(Boundaries, sizes, at)
           adapters == [i \in DOMAIN Orgs |-> [org |-> Orgs[i], boundary |-> resolver, sizes |-> teams]]
<1>1. \A key \in DOMAIN resolver : IsFiniteSet(resolver[key])
  <2>1. ASSUME NEW key \in DOMAIN resolver PROVE IsFiniteSet(resolver[key])
    <3> DEFINE inForce == {b \in Boundaries : EffectiveAt(b, at)}
               owning == {b \in inForce : key \in BoundaryKeys(b) \ b.excluded}
               name == [b \in owning |-> b.project]
    <3>1. resolver[key] = {b.project : b \in owning}
      BY <2>1, Zenon DEF BuildBoundaryResolver
    <3>2. IsFiniteSet(owning)
      BY PipelineAssumption, FS_Subset
    <3> HIDE DEF resolver, owning
    <3>3. IsFiniteSet({name[b] : b \in owning})
      BY <3>2, FiniteImage
    <3>4. {name[b] : b \in owning} = {b.project : b \in owning}
      OBVIOUS
    <3>5. QED BY <3>1, <3>3, <3>4
  <2>2. QED BY <2>1
<1>2. BuildAdapters(sizes, at) = adapters
  BY Zenon DEF BuildAdapters
<1> HIDE DEF resolver, teams
<1>3. SomeSeq(adapters)
  <2>1. Orgs \in Seq(Range(Orgs))
    BY PipelineAssumption
  <2>2. SomeSeq(Orgs) /\ adapters = [i \in DOMAIN Orgs |-> adapters[i]]
    BY <2>1 DEF SomeSeq
  <2>3. QED BY <2>2, SameDomainIsASeq
<1>4. \A a \in DOMAIN adapters : GoodAdapter(adapters[a])
  BY <1>1 DEF GoodAdapter
<1>5. QED BY <1>2, <1>3, <1>4 DEF GoodAdapters

LEMMA PulledRowsAreGood ==
    ASSUME NEW adapter, GoodAdapter(adapter), NEW week, NEW window, NEW stamp \in Nat, NEW fault
    PROVE  LET rows == Pull(adapter, week, window, stamp, fault).rows
           IN  SomeSeq(SetToSeq(rows)) /\ \A row \in Range(SetToSeq(rows)) : GoodRow(row)
<1> DEFINE fetch == Fetch(adapter.org, week, fault)
           listed == {x \in {r \in Repos : r.org = adapter.org /\ r \in DOMAIN fetch} : fetch[x] # "record"}
           staging == [r \in listed |-> SyncRepo(adapter, r, window, today, stamp, fetch[r])]
           rows == Pull(adapter, week, window, stamp, fault).rows
<1>1. rows = {SyncRepo(adapter, r, window, today, stamp, fetch[r]) : r \in listed}
  BY Zenon DEF Pull, Sync
<1>2. rows = {staging[r] : r \in listed}
  BY <1>1, Zenon
<1>3. IsFiniteSet(listed)
  BY PipelineAssumption, FS_Subset
<1>4. \A r \in listed : GoodRow(staging[r])
  <2>1. ASSUME NEW r \in listed PROVE GoodRow(staging[r])
    <3>1. staging[r].synced = stamp /\ staging[r].projects = ProjectIds(adapter.boundary, r)
      BY DEF SyncRepo
    <3>2. IsFiniteSet(ProjectIds(adapter.boundary, r))
      BY FS_EmptySet DEF ProjectIds, GoodAdapter
    <3>3. QED BY <3>1, <3>2 DEF GoodRow
  <2>2. QED BY <2>1
<1> HIDE DEF rows, listed, staging
<1>5. IsFiniteSet(rows)
  BY <1>2, <1>3, FiniteImage
<1>6. \A row \in rows : GoodRow(row)
  BY <1>2, <1>4
<1>7. QED BY <1>5, <1>6, SetToSeqLists DEF SomeSeq, rows

\* Results staged one after the other.
LEMMA StagedRowsAreGood ==
    ASSUME NEW results, SomeSeq(results),
           \A r \in Range(results) : GoodRows(SetToSeq(r.rows)),
           NEW rows, GoodRows(rows)
    PROVE  GoodRows(rows \o FlattenSeq([i \in DOMAIN results |-> SetToSeq(results[i].rows)]))
<1> DEFINE lists == [i \in DOMAIN results |-> SetToSeq(results[i].rows)]
<1>1. SomeSeq(lists) /\ DOMAIN lists = DOMAIN results
  BY SameDomainIsASeq
<1>2. \A i \in DOMAIN lists : GoodRows(lists[i])
  BY DEF Range
<1> HIDE DEF lists
<1>3. GoodRows(FlattenSeq(lists))
  BY <1>1, <1>2, FlattenIsASeq DEF GoodRows
<1>4. GoodRows(rows \o FlattenSeq(lists))
  BY <1>3, ConcatIsASeq DEF GoodRows
<1>5. QED BY <1>4 DEF lists

\* The staging buffers, and what a job has in hand before it folds.
Buffers ==
    /\ staged = [p \in Processes |-> staged[p]]
    /\ \A p \in Processes : staged[p] = [rows |-> staged[p].rows, sizes |-> staged[p].sizes] /\ GoodRows(staged[p].rows)
PullsInv ==
    \A w \in Workers :
        /\ jobs[w].pc \in {"teams", "adapters", "sync"} => SomeSeq(jobs[w].weeks)
        /\ jobs[w].pc = "sync" => GoodAdapters(jobs[w].adapters)

LEMMA StageKeepsBuffers ==
    ASSUME Buffers, NEW w \in Workers, NEW results, Stage(w, results), SomeSeq(results),
           \A r \in Range(results) : GoodRows(SetToSeq(r.rows))
    PROVE  Buffers'
<1> DEFINE p == ProcessOf[w]
           new == staged[p].rows \o FlattenSeq([i \in DOMAIN results |-> SetToSeq(results[i].rows)])
<1>1. p \in Processes
  BY PipelineAssumption DEF Processes, Range
<1>2. staged' = [staged EXCEPT ![p] = [staged[p] EXCEPT !.rows = new]]
  BY Zenon DEF Stage
<1>3. GoodRows(new)
  BY <1>1, StagedRowsAreGood DEF Buffers
<1> HIDE DEF new, p
<1>4. staged'[p] = [rows |-> new, sizes |-> staged[p].sizes]
  <2>1. staged'[p] = [staged[p] EXCEPT !.rows = new]
    BY <1>1, <1>2 DEF Buffers
  <2>2. staged[p] = [rows |-> staged[p].rows, sizes |-> staged[p].sizes]
    BY <1>1 DEF Buffers
  <2>3. QED BY <2>1, <2>2
<1>5. \A q \in Processes \ {p} : staged'[q] = staged[q]
  BY <1>2 DEF Buffers
<1>6. staged' = [q \in Processes |-> staged'[q]]
  BY <1>2 DEF Buffers
<1>7. QED BY <1>3, <1>4, <1>5, <1>6 DEF Buffers

LEMMA SyncTonightStages ==
    ASSUME Buffers, PullsInv, StampsInv, NEW w \in Workers, NEW fault, SyncTonight(w, fault)
    PROVE  Buffers'
<1> DEFINE job == jobs[w]
           pull(a, i) == Pull(job.adapters[a], job.weeks[i], NightlyWindow(job.weeks[i], DayOf(job.stamp)), job.stamp, fault)
           nested == [a \in DOMAIN job.adapters |-> [i \in DOMAIN job.weeks |-> pull(a, i)]]
           results == FlattenSeq(nested)
<1>1. jobs[w].pc = "sync" /\ Stage(w, results)
  BY Zenon DEF SyncTonight
<1>2. SomeSeq(job.weeks) /\ GoodAdapters(job.adapters) /\ job.stamp \in Nat
  BY <1>1 DEF PullsInv, StampsInv
<1>3. ASSUME NEW a \in DOMAIN job.adapters, NEW i \in DOMAIN job.weeks PROVE GoodRows(SetToSeq(pull(a, i).rows))
  BY <1>2, PulledRowsAreGood DEF GoodAdapters, GoodRows
<1> HIDE DEF pull
<1>4. /\ SomeSeq(nested) /\ DOMAIN nested = DOMAIN job.adapters
      /\ \A a \in DOMAIN nested : SomeSeq(nested[a])
  <2>1. SomeSeq(nested)
    BY <1>2, SameDomainIsASeq DEF GoodAdapters
  <2>2. ASSUME NEW a \in DOMAIN job.adapters PROVE SomeSeq(nested[a])
    <3>1. nested[a] = [i \in DOMAIN job.weeks |-> pull(a, i)]
      OBVIOUS
    <3>2. SomeSeq([i \in DOMAIN job.weeks |-> pull(a, i)])
      BY <1>2, SameDomainIsASeq
    <3>3. QED BY <3>1, <3>2
  <2>3. QED BY <2>1, <2>2
<1>5. \A a \in DOMAIN nested : \A r \in Range(nested[a]) : GoodRows(SetToSeq(r.rows))
  BY <1>3, Zenon DEF Range
<1> HIDE DEF nested
<1>6. SomeSeq(results) /\ \A r \in Range(results) : GoodRows(SetToSeq(r.rows))
  BY <1>4, <1>5, FlattenIsASeq
<1> HIDE DEF results
<1>7. QED BY <1>1, <1>6, StageKeepsBuffers

LEMMA SyncPastWeekStages ==
    ASSUME Buffers, StampsInv, NEW w \in Workers, NEW fault, SyncPastWeek(w, fault)
    PROVE  Buffers'
<1> DEFINE job == jobs[w]
           week == Head(job.weeks)
           adapters == BuildAdapters(staged[ProcessOf[w]].sizes, FirstDay(week))
           results == [a \in DOMAIN adapters |-> Pull(adapters[a], week, BackfillWindow(week), job.stamp, fault)]
<1>1. jobs[w].pc = "pull" /\ Stage(w, results)
  BY Zenon DEF SyncPastWeek
<1>2. job.stamp \in Nat
  BY <1>1 DEF StampsInv
<1>3. GoodAdapters(adapters)
  BY BuiltAdaptersAreGood
<1> HIDE DEF adapters, week
<1>4. SomeSeq(results)
  BY <1>3, SameDomainIsASeq DEF GoodAdapters
<1>5. \A r \in Range(results) : GoodRows(SetToSeq(r.rows))
  <2>1. ASSUME NEW a \in DOMAIN adapters
        PROVE  GoodRows(SetToSeq(Pull(adapters[a], week, BackfillWindow(week), job.stamp, fault).rows))
    BY <1>2, <1>3, PulledRowsAreGood DEF GoodAdapters, GoodRows
  <2>2. QED BY <2>1, Zenon DEF Range
<1> HIDE DEF results
<1>6. QED BY <1>1, <1>4, <1>5, StageKeepsBuffers

LEMMA PullTeamsKeepsBuffers ==
    ASSUME Buffers, NEW w \in Workers, NEW pull, PullTeams(w, pull)
    PROVE  Buffers'
<1> DEFINE p == ProcessOf[w]
           sizes == SizesAfter(staged[p].sizes, SyncTeams(Directory, pull).rows)
<1>1. staged' = [staged EXCEPT ![p] = [staged[p] EXCEPT !.sizes = sizes]] /\ p \in Processes
  BY Zenon, PipelineAssumption DEF PullTeams, Processes, Range
<1> HIDE DEF sizes, p
<1>2. staged'[p] = [rows |-> staged[p].rows, sizes |-> sizes]
  <2>1. staged'[p] = [staged[p] EXCEPT !.sizes = sizes]
    BY <1>1 DEF Buffers
  <2>2. staged[p] = [rows |-> staged[p].rows, sizes |-> staged[p].sizes]
    BY <1>1 DEF Buffers
  <2>3. QED BY <2>1, <2>2
<1>3. \A q \in Processes \ {p} : staged'[q] = staged[q]
  BY <1>1 DEF Buffers
<1>4. staged' = [q \in Processes |-> staged'[q]]
  BY <1>1 DEF Buffers
<1>5. QED BY <1>2, <1>3, <1>4 DEF Buffers

LEMMA EmptyBufferIsGood == GoodRows(<<>>)
<1>1. <<>> \in Seq({})
  OBVIOUS
<1>2. Range(<<>>) = {}
  BY DEF Range
<1>3. QED BY <1>1, <1>2 DEF GoodRows, SomeSeq

LEMMA CrashKeepsBuffers ==
    ASSUME Buffers, NEW p, Crash(p)
    PROVE  Buffers'
<1>1. staged' = [staged EXCEPT ![p] = [rows |-> <<>>, sizes |-> <<>>]]
  BY Zenon DEF Crash
<1>2. \A q \in Processes : staged'[q] = staged[q] \/ staged'[q] = [rows |-> <<>>, sizes |-> <<>>]
  BY <1>1 DEF Buffers
<1>3. staged' = [q \in Processes |-> staged'[q]]
  BY <1>1 DEF Buffers
<1>4. QED BY <1>2, <1>3, EmptyBufferIsGood DEF Buffers

LEMMA BuffersHold == PipelineSpec => [](Buffers /\ PullsInv)
<1>1. PipelineInit => Buffers /\ PullsInv
  BY EmptyBufferIsGood, NoJobIsJob DEF PipelineInit, Buffers, PullsInv
<1>2. JobsAreJobs /\ ClockInv /\ StampsInv /\ Buffers /\ PullsInv /\ [PipelineNext]_pipelineVars
        => (Buffers /\ PullsInv)'
  <2> SUFFICES ASSUME JobsAreJobs, ClockInv, StampsInv, Buffers, PullsInv, [PipelineNext]_pipelineVars
               PROVE  Buffers' /\ PullsInv'
    OBVIOUS
  <2>1. ASSUME UNCHANGED staged PROVE Buffers'
    BY <2>1 DEF Buffers
  <2>2. ASSUME \A w \in Workers : jobs'[w].pc \notin {"teams", "adapters", "sync"}
                                   \/ (\A f \in {"pc", "weeks", "adapters"} : jobs'[w][f] = jobs[w][f])
        PROVE  PullsInv'
    BY <2>2 DEF PullsInv
  <2>3. ASSUME NEW w \in Workers, NEW kind, NEW version, Start(w, kind, version) PROVE Buffers' /\ PullsInv'
    <3>1. UNCHANGED staged
      BY <2>3, Zenon DEF Start
    <3>2. /\ jobs'[w].pc \in {"teams", "pull", "read"} /\ \A o \in Workers \ {w} : jobs'[o] = jobs[o]
          /\ jobs'[w].weeks \in {WeekWindows(LookbackWeeks, today), WeekWindows(BackfillWeeks, today), <<>>}
      BY <2>3, StartMoves DEF Moves
    <3>3. SomeSeq(jobs'[w].weeks)
      <4>1. /\ WeekWindows(LookbackWeeks, today) \in Seq(Nat) /\ WeekWindows(BackfillWeeks, today) \in Seq(Nat)
            /\ <<>> \in Seq(Nat)
        <5>1. today \in Nat /\ LookbackWeeks \in Nat \ {0} /\ BackfillWeeks \in Nat \ {0}
          BY PipelineAssumption DEF ClockInv
        <5>2. <<>> \in Seq(Nat)
          OBVIOUS
        <5>3. QED BY <5>1, <5>2, WindowsAreWeeks
      <4>2. jobs'[w].weeks \in Seq(Nat)
        BY <3>2, <4>1, Zenon
      <4>3. QED BY <4>2, Zenon DEF SomeSeq
    <3>4. QED BY <2>1, <3>1, <3>2, <3>3 DEF PullsInv
  <2>4. ASSUME NEW w \in Workers, NEW pull, PullTeams(w, pull) PROVE Buffers' /\ PullsInv'
    <3>1. /\ \A o \in Workers \ {w} : jobs'[o] = jobs[o]
          /\ jobs'[w].weeks = jobs[w].weeks /\ jobs'[w].pc = "adapters" /\ jobs[w].pc = "teams"
      BY <2>4, PullTeamsMoves, Fields DEF Moves, SameBut, PullTeams
    <3>2. QED BY <2>4, <3>1, PullTeamsKeepsBuffers DEF PullsInv
  <2>5. ASSUME NEW w \in Workers, ResolveForTonight(w) PROVE Buffers' /\ PullsInv'
    <3>1. /\ \A o \in Workers \ {w} : jobs'[o] = jobs[o]
          /\ jobs'[w].weeks = jobs[w].weeks /\ jobs'[w].pc = "sync" /\ jobs[w].pc = "adapters"
      BY <2>5, ResolveMoves, Fields DEF Moves, SameBut, ResolveForTonight
    <3>2. GoodAdapters(jobs'[w].adapters)
      BY <2>5, ResolveMoves, BuiltAdaptersAreGood
    <3>3. UNCHANGED staged
      BY <2>5, Zenon DEF ResolveForTonight
    <3>4. QED BY <2>1, <3>1, <3>2, <3>3 DEF PullsInv
  <2>6. ASSUME NEW w \in Workers, NEW fault, SyncTonight(w, fault) \/ SyncPastWeek(w, fault) PROVE Buffers' /\ PullsInv'
    <3>1. jobs'[w].pc \notin {"teams", "adapters", "sync"} /\ \A o \in Workers \ {w} : jobs'[o] = jobs[o]
      BY <2>6, SyncTonightMoves, SyncPastWeekMoves DEF Moves
    <3>2. PullsInv'
      BY <2>2, <3>1
    <3>3. QED BY <2>6, <3>2, SyncTonightStages, SyncPastWeekStages
  <2>7. ASSUME NEW w \in Workers, FoldReads(w) PROVE Buffers' /\ PullsInv'
    <3>1. UNCHANGED staged
      BY <2>7, Zenon DEF FoldReads
    <3>2. \A o \in Workers \ {w} : \A f \in {"pc", "weeks", "adapters"} : jobs'[o][f] = jobs[o][f]
      BY <2>7, FoldReadsMoves, Fields DEF SameBut
    <3>3. jobs'[w].pc = "write"
      BY <2>7, FoldReadsMoves
    <3>4. QED BY <2>1, <2>2, <3>1, <3>2, <3>3
  <2>8. ASSUME NEW w \in Workers, FoldWrites(w) \/ FoldEnds(w) \/ ReadActivity(w) \/ ReadSnapshots(w) \/ JudgeProject(w)
                                     \/ SaveWarning(w) \/ SaveSnapshot(w) \/ WeekEnds(w)
        PROVE  Buffers' /\ PullsInv'
    <3>1. UNCHANGED staged
      BY <2>8, Zenon DEF FoldWrites, FoldEnds, ReadActivity, ReadSnapshots, JudgeProject, SaveWarning, SaveSnapshot, WeekEnds
    <3>2. jobs'[w].pc \notin {"teams", "adapters", "sync"} /\ \A o \in Workers \ {w} : jobs'[o] = jobs[o]
      BY <2>8, FoldWritesMoves, FoldEndsMoves, ReadActivityMoves, ReadSnapshotsMoves, JudgeMoves, SaveWarningMoves,
         SaveSnapshotMoves, WeekEndsMoves DEF Moves
    <3>3. QED BY <2>1, <2>2, <3>1, <3>2
  <2>9. ASSUME NEW p, Crash(p) PROVE Buffers' /\ PullsInv'
    BY <2>2, <2>9, CrashKeepsBuffers, CrashMoves, NoJobIsJob
  <2>10. CASE Tomorrow \/ UNCHANGED pipelineVars
    BY <2>1, <2>2, <2>10, QuietMoves
  <2>11. QED BY <2>3, <2>4, <2>5, <2>6, <2>7, <2>8, <2>9, <2>10, StepCases
<1>3. QED BY <1>1, <1>2, JobsHold, ClockHolds, StampsHold, PTL DEF PipelineSpec

-------------------------------------------------------------------------------
(* A fold that runs alone moves forward *)

\* A document has a key and a stamp, and no identity before it is written.
IsDocument(document) ==
    /\ {"project", "repo", "week", "synced"} \subseteq DOMAIN document /\ "id" \notin DOMAIN document
    /\ document.synced \in Nat

LEMMA RowsMakeDocuments ==
    ASSUME NEW row, GoodRow(row)
    PROVE  /\ SomeSeq(SetToSeq(DocumentsForRow(row)))
           /\ \A document \in Range(SetToSeq(DocumentsForRow(row))) : IsDocument(document)
<1> DEFINE made == [p \in row.projects |->
                [project |-> p, repo |-> row.repo, gitea |-> row.gitea, week |-> WeekOf(row.since), until |-> row.until,
                 synced |-> row.synced, metric |-> row.metric, team_size |-> row.team_size, complete |-> row.complete]]
<1>1. DocumentsForRow(row) = {made[p] : p \in row.projects}
  BY DEF DocumentsForRow
<1>2. \A p \in row.projects : IsDocument(made[p])
  BY DEF IsDocument, GoodRow
<1> HIDE DEF made
<1>3. IsFiniteSet(DocumentsForRow(row))
  BY <1>1, FiniteImage DEF GoodRow
<1>4. \A document \in DocumentsForRow(row) : IsDocument(document)
  BY <1>1, <1>2
<1>5. QED BY <1>3, <1>4, SetToSeqLists DEF SomeSeq

LEMMA BuffersMakeDocuments ==
    ASSUME NEW rows, GoodRows(rows)
    PROVE  \A i \in DOMAIN Documents(rows) : IsDocument(Documents(rows)[i])
<1> DEFINE lists == [n \in DOMAIN rows |-> SetToSeq(DocumentsForRow(rows[n]))]
<1>1. SomeSeq(lists) /\ DOMAIN lists = DOMAIN rows
  BY SameDomainIsASeq DEF GoodRows
<1>2. \A n \in DOMAIN lists : SomeSeq(lists[n]) /\ \A document \in Range(lists[n]) : IsDocument(document)
  BY RowsMakeDocuments DEF GoodRows, Range
<1>3. Documents(rows) = FlattenSeq(lists)
  BY DEF Documents
<1> HIDE DEF lists
<1>4. \A document \in Range(FlattenSeq(lists)) : IsDocument(document)
  BY <1>1, <1>2, FlattenIsASeq
<1>5. QED BY <1>3, <1>4 DEF Range

\* The row written for a document has its key and its stamp.
LEMMA RowKeepsKey ==
    ASSUME NEW job, NEW document, IsDocument(document)
    PROVE  LET row == RowFor(job, document)
           IN  /\ ActivityKey(row) = ActivityKey(document) /\ row.synced = document.synced
               /\ row.id = IF ActivityKey(document) \in DOMAIN job.known
                           THEN job.known[ActivityKey(document)].id ELSE job.stamp
<1> DEFINE id == IF ActivityKey(document) \in DOMAIN job.known THEN job.known[ActivityKey(document)].id ELSE job.stamp
           row == RowFor(job, document)
<1>1. row = [f \in DOMAIN document \cup {"id"} |-> IF f = "id" THEN id ELSE document[f]]
  BY Zenon DEF RowFor
<1> HIDE DEF id, row
<1>2. row["id"] = id /\ \A f \in {"project", "repo", "week", "synced"} : row[f] = document[f]
  BY <1>1 DEF IsDocument
<1>3. QED BY <1>2 DEF ActivityKey, row, id

\* The rows on file are in their places, told apart by identity and key.
OnFileInv ==
    /\ SomeSeq(activity) /\ \A i \in DOMAIN activity : activity[i].synced \in Nat
    /\ \A i, j \in DOMAIN activity :
          activity[i].id = activity[j].id /\ ActivityKey(activity[i]) = ActivityKey(activity[j]) => i = j
\* What a fold has in hand, and that it knows every row of its own making.
HandInv ==
    \A w \in Workers :
        Folding(w) =>
            /\ \A i \in DOMAIN jobs[w].documents : IsDocument(jobs[w].documents[i])
            /\ \A key \in DOMAIN jobs[w].known : jobs[w].known[key].synced \in Nat
            /\ \A i \in DOMAIN activity :
                  activity[i].id = jobs[w].stamp => ActivityKey(activity[i]) \in DOMAIN jobs[w].known
\* A fold that runs alone knows every row, and none it would refresh is newer
\* than it thinks.
Knows(job, i) ==
    LET key == ActivityKey(activity[i])
    IN  key \in DOMAIN job.known /\ (activity[i].id = job.known[key].id => activity[i].synced <= job.known[key].synced)
AloneInv ==
    \A w \in Workers :
        Folding(w) /\ jobs[w].alone =>
            /\ \A o \in Workers \ {w} : ~Folding(o)
            /\ \A i \in DOMAIN activity : Knows(jobs[w], i)
FoldsInv == OnFileInv /\ HandInv /\ AloneInv

LEMMA ExistingByKeyFacts ==
    ASSUME OnFileInv
    PROVE  /\ \A i \in DOMAIN activity : ActivityKey(activity[i]) \in DOMAIN ExistingByKey
           /\ \A key \in DOMAIN ExistingByKey :
                 \E i \in DOMAIN activity : ActivityKey(activity[i]) = key /\ ExistingByKey[key] = activity[i]
<1>1. DOMAIN ExistingByKey = {ActivityKey(r) : r \in RowsOnFile}
  BY DEF ExistingByKey
<1>2. \A i \in DOMAIN activity : ActivityKey(activity[i]) \in DOMAIN ExistingByKey
  BY <1>1 DEF RowsOnFile, Range
<1>3. ASSUME NEW key \in DOMAIN ExistingByKey
      PROVE  \E i \in DOMAIN activity : ActivityKey(activity[i]) = key /\ ExistingByKey[key] = activity[i]
  <2> DEFINE places == {i \in DOMAIN activity : ActivityKey(activity[i]) = key}
  <2>1. ExistingByKey[key] = activity[Max(places)]
    BY <1>1 DEF ExistingByKey
  <2>2. places # {}
    BY <1>1 DEF RowsOnFile, Range
  <2>3. Len(activity) \in Nat /\ places \subseteq 0..Len(activity)
    BY SeqFacts DEF OnFileInv
  <2>4. Max(places) \in places
    BY <2>2, <2>3, GreatestNatural
  <2>5. QED BY <2>1, <2>4
<1>4. QED BY <1>2, <1>3

\* One write of a fold: a new row at the end, or the rows of one identity and key.
Appends(w, row) ==
    /\ ActivityKey(row) \notin DOMAIN jobs[w].known /\ row.id = jobs[w].stamp
    /\ activity' = Append(activity, row)
Refreshes(w, row) ==
    LET key == ActivityKey(row)
        same(r) == r.id = row.id /\ ActivityKey(r) = key
    IN  /\ key \in DOMAIN jobs[w].known /\ row.id = jobs[w].known[key].id /\ row.synced > jobs[w].known[key].synced
        /\ activity' = [i \in DOMAIN activity |-> IF same(activity[i]) THEN row ELSE activity[i]]

\* It takes one document, and drops none of the others that is worth writing.
Takes(w, row) ==
    \E i \in DOMAIN jobs[w].documents :
        /\ row = RowFor(jobs[w], jobs[w].documents[i]) /\ IsDocument(jobs[w].documents[i])
        /\ Worthwhile(jobs[w]) \subseteq DOMAIN jobs'[w].documents \cup {i}

LEMMA WriteFacts ==
    ASSUME JobsAreJobs, HandInv, NEW w \in Workers, FoldWrites(w)
    PROVE  /\ Folding(w) /\ jobs'[w].pc = "write" /\ jobs'[w].stamp = jobs[w].stamp /\ jobs'[w].alone = jobs[w].alone
           /\ \A o \in Workers \ {w} : jobs'[o] = jobs[o]
           /\ \E row :
                 /\ row.synced \in Nat /\ Takes(w, row)
                 /\ Appends(w, row) \/ Refreshes(w, row)
                 /\ DOMAIN jobs'[w].known = DOMAIN jobs[w].known \cup {ActivityKey(row)}
                 /\ jobs'[w].known[ActivityKey(row)] = row
                 /\ \A key \in DOMAIN jobs[w].known \ {ActivityKey(row)} : jobs'[w].known[key] = jobs[w].known[key]
           /\ \A i \in DOMAIN jobs'[w].documents :
                 i \in DOMAIN jobs[w].documents /\ jobs'[w].documents[i] = jobs[w].documents[i]
<1>1. /\ Folding(w) /\ jobs'[w].pc = "write" /\ jobs'[w].stamp = jobs[w].stamp /\ jobs'[w].alone = jobs[w].alone
      /\ \A o \in Workers \ {w} : jobs'[o] = jobs[o]
  <2>1. Folding(w)
    BY Zenon DEF FoldWrites
  <2>2. QED BY <2>1, FoldWritesMoves, Fields DEF Moves, SameBut
<1> DEFINE job == jobs[w]
           RowOf(i) == RowFor(job, job.documents[i])
           KeyOf(i) == ActivityKey(RowOf(i))
           same(r, i) == r.id = RowOf(i).id /\ ActivityKey(r) = KeyOf(i)
           later(i) == {k \in DOMAIN job.documents : TakenBefore(job.documents, i, k)}
<1>2. PICK i \in Worthwhile(job) :
        /\ activity' = IF KeyOf(i) \notin DOMAIN job.known THEN Append(activity, RowOf(i))
                       ELSE [k \in DOMAIN activity |-> IF same(activity[k], i) THEN RowOf(i) ELSE activity[k]]
        /\ jobs' = [jobs EXCEPT ![w] = [job EXCEPT !.known = Learned(job.known, RowOf(i)),
                                                  !.documents = Restrict(job.documents, later(i))]]
        /\ Worthwhile(job) \subseteq later(i) \cup {i}
  BY Zenon DEF FoldWrites
<1> DEFINE document == job.documents[i]
           row == RowOf(i)
           key == ActivityKey(row)
           known == Learned(job.known, row)
           rest == Restrict(job.documents, later(i))
<1>3. i \in DOMAIN job.documents /\ Worth(document, job.known) /\ IsDocument(document)
  BY <1>1 DEF Worthwhile, HandInv
<1>4. /\ key = ActivityKey(document) /\ row.synced = document.synced /\ row.synced \in Nat
      /\ row.id = IF key \in DOMAIN job.known THEN job.known[key].id ELSE job.stamp
  BY <1>3, RowKeepsKey DEF IsDocument
<1>5. /\ DOMAIN known = DOMAIN job.known \cup {key} /\ known[key] = row
      /\ \A k \in DOMAIN job.known \ {key} : known[k] = job.known[k]
  <2>1. known = [k \in DOMAIN job.known \cup {key} |-> IF k = key THEN row ELSE job.known[k]]
    BY Zenon DEF Learned
  <2> HIDE DEF known, key, row, job
  <2>2. QED BY <2>1
<1>6. DOMAIN rest = later(i) /\ \A k \in DOMAIN rest : k \in DOMAIN job.documents /\ rest[k] = job.documents[k]
  BY DEF Restrict
<1>7. jobs'[w].known = known /\ jobs'[w].documents = rest
  <2> DEFINE next == [job EXCEPT !.known = known, !.documents = rest]
  <2>1. jobs' = [jobs EXCEPT ![w] = next]
    BY <1>2, Zenon
  <2> HIDE DEF known, rest
  <2>2. next.known = known /\ next.documents = rest
    BY Fields DEF JobsAreJobs, IsJob
  <2> HIDE DEF next
  <2>3. QED BY <2>1, <2>2 DEF JobsAreJobs
<1> HIDE DEF known, rest
<1>8. Appends(w, row) \/ Refreshes(w, row)
  <2>1. CASE key \notin DOMAIN job.known
    <3>1. activity' = Append(activity, row)
      BY <1>2, <2>1, Zenon
    <3>2. row.id = job.stamp
      BY <1>4, <2>1
    <3>3. QED BY <2>1, <3>1, <3>2, Zenon DEF Appends
  <2>2. CASE key \in DOMAIN job.known
    <3>1. activity' = [k \in DOMAIN activity |-> IF same(activity[k], i) THEN row ELSE activity[k]]
      BY <1>2, <2>2, Zenon
    <3>2. row.id = job.known[key].id /\ row.synced > job.known[key].synced
      <4>1. document.synced > job.known[ActivityKey(document)].synced
        BY <1>3, <1>4, <2>2, Zenon DEF Worth
      <4>2. QED BY <1>4, <2>2, <4>1, Zenon
    <3>3. QED BY <2>2, <3>1, <3>2, Zenon DEF Refreshes
  <2>3. QED BY <2>1, <2>2
<1>9. Takes(w, row)
  BY <1>2, <1>3, <1>6, <1>7, Zenon DEF Takes
<1>10. QED BY <1>1, <1>4, <1>5, <1>6, <1>7, <1>8, <1>9, Zenon

\* What a write does to the rows that were there: each keeps its identity and its
\* key, and a refreshed row is the one written.
LEMMA AppendFacts ==
    ASSUME OnFileInv, NEW w \in Workers, NEW row, Appends(w, row)
    PROVE  /\ SomeSeq(activity') /\ Len(activity') = Len(activity) + 1 /\ Len(activity) + 1 \notin DOMAIN activity
           /\ DOMAIN activity' = DOMAIN activity \cup {Len(activity) + 1}
           /\ \A i \in DOMAIN activity : activity'[i] = activity[i]
           /\ activity'[Len(activity) + 1] = row
BY AppendIsASeq DEF OnFileInv, Appends

LEMMA RefreshFacts ==
    ASSUME OnFileInv, NEW w \in Workers, NEW row, Refreshes(w, row)
    PROVE  /\ SomeSeq(activity') /\ Len(activity') = Len(activity) /\ DOMAIN activity' = DOMAIN activity
           /\ \A i \in DOMAIN activity :
                 /\ activity'[i].id = activity[i].id /\ ActivityKey(activity'[i]) = ActivityKey(activity[i])
                 /\ \/ activity'[i] = activity[i] /\ ~(activity[i].id = row.id /\ ActivityKey(activity[i]) = ActivityKey(row))
                    \/ activity'[i] = row /\ activity[i].id = row.id /\ ActivityKey(activity[i]) = ActivityKey(row)
<1> DEFINE same(i) == activity[i].id = row.id /\ ActivityKey(activity[i]) = ActivityKey(row)
           new == [i \in DOMAIN activity |-> IF same(i) THEN row ELSE activity[i]]
<1>1. activity' = new
  BY Zenon DEF Refreshes
<1>2. SomeSeq(new) /\ Len(new) = Len(activity) /\ DOMAIN new = DOMAIN activity
  BY SameDomainIsASeq DEF OnFileInv
<1>3. ASSUME NEW i \in DOMAIN activity
      PROVE  \/ new[i] = activity[i] /\ ~same(i)
             \/ new[i] = row /\ same(i)
  OBVIOUS
<1> HIDE DEF new
<1>4. QED BY <1>1, <1>2, <1>3

LEMMA WriteKeepsFile ==
    ASSUME JobsAreJobs, OnFileInv, HandInv, NEW w \in Workers, FoldWrites(w)
    PROVE  OnFileInv'
<1>1. Folding(w) /\ \E row : row.synced \in Nat /\ (Appends(w, row) \/ Refreshes(w, row))
  BY WriteFacts
<1>2. PICK row : row.synced \in Nat /\ (Appends(w, row) \/ Refreshes(w, row))
  BY <1>1
<1>3. CASE Appends(w, row)
  <2> DEFINE last == Len(activity) + 1
  <2>1. /\ SomeSeq(activity') /\ DOMAIN activity' = DOMAIN activity \cup {last} /\ last \notin DOMAIN activity
        /\ \A i \in DOMAIN activity : activity'[i] = activity[i]
        /\ activity'[last] = row
    BY <1>3, AppendFacts
  <2>2. \A i \in DOMAIN activity : ~(activity[i].id = row.id /\ ActivityKey(activity[i]) = ActivityKey(row))
    BY <1>1, <1>3 DEF HandInv, Appends
  <2> HIDE DEF last
  <2>3. \A i \in DOMAIN activity' : activity'[i].synced \in Nat
    BY <1>2, <2>1 DEF OnFileInv
  <2>4. ASSUME NEW i \in DOMAIN activity', NEW j \in DOMAIN activity',
               activity'[i].id = activity'[j].id, ActivityKey(activity'[i]) = ActivityKey(activity'[j])
        PROVE  i = j
    BY <2>1, <2>2, <2>4 DEF OnFileInv
  <2>5. QED BY <2>1, <2>3, <2>4 DEF OnFileInv
<1>4. CASE Refreshes(w, row)
  <2>1. /\ SomeSeq(activity') /\ DOMAIN activity' = DOMAIN activity
        /\ \A i \in DOMAIN activity :
              /\ activity'[i].id = activity[i].id /\ ActivityKey(activity'[i]) = ActivityKey(activity[i])
              /\ activity'[i] = activity[i] \/ activity'[i] = row
    BY <1>4, RefreshFacts
  <2>2. \A i \in DOMAIN activity' : activity'[i].synced \in Nat
    BY <1>2, <2>1 DEF OnFileInv
  <2>3. ASSUME NEW i \in DOMAIN activity', NEW j \in DOMAIN activity',
               activity'[i].id = activity'[j].id, ActivityKey(activity'[i]) = ActivityKey(activity'[j])
        PROVE  i = j
    BY <2>1, <2>3 DEF OnFileInv
  <2>4. QED BY <2>1, <2>2, <2>3 DEF OnFileInv
<1>5. QED BY <1>2, <1>3, <1>4

\* A row that was there keeps its identity and its key; one that was not is of
\* the job that wrote it.
LEMMA WriteKeepsHands ==
    ASSUME JobsAreJobs, StampsInv, OnFileInv, HandInv, NEW w \in Workers, FoldWrites(w)
    PROVE  HandInv'
<1>1. /\ Folding(w) /\ jobs'[w].pc = "write" /\ jobs'[w].stamp = jobs[w].stamp
      /\ \A o \in Workers \ {w} : jobs'[o] = jobs[o]
      /\ \A i \in DOMAIN jobs'[w].documents :
            i \in DOMAIN jobs[w].documents /\ jobs'[w].documents[i] = jobs[w].documents[i]
  BY WriteFacts
<1>2. PICK row :
        /\ row.synced \in Nat
        /\ Appends(w, row) \/ Refreshes(w, row)
        /\ DOMAIN jobs'[w].known = DOMAIN jobs[w].known \cup {ActivityKey(row)}
        /\ jobs'[w].known[ActivityKey(row)] = row
        /\ \A key \in DOMAIN jobs[w].known \ {ActivityKey(row)} : jobs'[w].known[key] = jobs[w].known[key]
  BY WriteFacts
<1>3. ASSUME NEW i \in DOMAIN activity'
      PROVE  \/ /\ i \in DOMAIN activity /\ activity'[i].id = activity[i].id
                /\ ActivityKey(activity'[i]) = ActivityKey(activity[i])
             \/ activity'[i] = row /\ row.id = jobs[w].stamp
  BY <1>2, AppendFacts, RefreshFacts DEF Appends
<1>4. \A i \in DOMAIN jobs'[w].documents : IsDocument(jobs'[w].documents[i])
  BY <1>1 DEF HandInv
<1>5. \A key \in DOMAIN jobs'[w].known : jobs'[w].known[key].synced \in Nat
  BY <1>1, <1>2 DEF HandInv
<1>6. ASSUME NEW i \in DOMAIN activity', activity'[i].id = jobs[w].stamp
      PROVE  ActivityKey(activity'[i]) \in DOMAIN jobs'[w].known
  BY <1>1, <1>2, <1>3, <1>6 DEF HandInv
<1>7. ASSUME NEW o \in Workers \ {w}, jobs[o].pc = "write", NEW i \in DOMAIN activity', activity'[i].id = jobs[o].stamp
      PROVE  ActivityKey(activity'[i]) \in DOMAIN jobs[o].known
  <2>1. jobs[o].stamp # jobs[w].stamp
    BY <1>1, <1>7 DEF StampsInv, Folding
  <2>2. i \in DOMAIN activity /\ activity[i].id = jobs[o].stamp /\ ActivityKey(activity'[i]) = ActivityKey(activity[i])
    BY <1>3, <1>7, <2>1
  <2>3. QED BY <1>7, <2>2 DEF HandInv, Folding
<1>8. QED BY <1>1, <1>4, <1>5, <1>6, <1>7 DEF HandInv, Folding

LEMMA WriteKeepsAlone ==
    ASSUME JobsAreJobs, OnFileInv, HandInv, AloneInv, NEW w \in Workers, FoldWrites(w)
    PROVE  AloneInv'
<1>1. /\ Folding(w) /\ jobs'[w].pc = "write" /\ jobs'[w].alone = jobs[w].alone
      /\ \A o \in Workers \ {w} : jobs'[o] = jobs[o]
  BY WriteFacts
<1>2. PICK row :
        /\ row.synced \in Nat
        /\ Appends(w, row) \/ Refreshes(w, row)
        /\ DOMAIN jobs'[w].known = DOMAIN jobs[w].known \cup {ActivityKey(row)}
        /\ jobs'[w].known[ActivityKey(row)] = row
        /\ \A key \in DOMAIN jobs[w].known \ {ActivityKey(row)} : jobs'[w].known[key] = jobs[w].known[key]
  BY WriteFacts
<1>3. \A o \in Workers \ {w} : ~(Folding(o) /\ jobs[o].alone)
  BY <1>1 DEF AloneInv
<1>4. ASSUME jobs[w].alone, NEW i \in DOMAIN activity' PROVE Knows(jobs[w], i)'
  <2>1. \A k \in DOMAIN activity : Knows(jobs[w], k)
    BY <1>1, <1>4 DEF AloneInv
  <2>2. CASE activity'[i] = row
    BY <1>2, <2>2 DEF Knows
  <2>3. CASE /\ i \in DOMAIN activity /\ activity'[i] = activity[i]
             /\ ~(activity[i].id = row.id /\ ActivityKey(activity[i]) = ActivityKey(row))
    <3>1. CASE ActivityKey(activity[i]) = ActivityKey(row)
      BY <1>2, <2>3, <3>1 DEF Knows
    <3>2. CASE ActivityKey(activity[i]) # ActivityKey(row)
      BY <1>2, <2>1, <2>3, <3>2 DEF Knows
    <3>3. QED BY <3>1, <3>2
  <2>4. activity'[i] = row \/ (/\ i \in DOMAIN activity /\ activity'[i] = activity[i]
                               /\ ~(activity[i].id = row.id /\ ActivityKey(activity[i]) = ActivityKey(row)))
    <3>1. CASE Appends(w, row)
      BY <2>1, <3>1, AppendFacts DEF Knows, Appends
    <3>2. CASE Refreshes(w, row)
      BY <3>2, RefreshFacts
    <3>3. QED BY <1>2, <3>1, <3>2
  <2>5. QED BY <2>2, <2>3, <2>4
<1>5. QED BY <1>1, <1>3, <1>4 DEF AloneInv, Folding

\* A fold begins with everything on file.
LEMMA ReadsKeepFolds ==
    ASSUME JobsAreJobs, Buffers, FoldsInv, NEW w \in Workers, FoldReads(w)
    PROVE  FoldsInv'
<1>1. UNCHANGED activity
  BY Zenon DEF FoldReads, stores
<1>2. /\ jobs'[w].known = ExistingByKey /\ jobs'[w].documents = Documents(staged[ProcessOf[w]].rows)
      /\ jobs'[w].pc = "write" /\ (jobs'[w].alone => \A o \in Workers \ {w} : ~Folding(o))
      /\ \A o \in Workers \ {w} :
            /\ jobs'[o].pc = jobs[o].pc /\ jobs'[o].known = jobs[o].known /\ jobs'[o].documents = jobs[o].documents
            /\ jobs'[o].stamp = jobs[o].stamp /\ (jobs'[o].alone => jobs[o].alone /\ ~Folding(o))
  BY FoldReadsMoves, Fields DEF SameBut
<1>3. OnFileInv'
  BY <1>1 DEF FoldsInv, OnFileInv
<1>4. \A i \in DOMAIN jobs'[w].documents : IsDocument(jobs'[w].documents[i])
  <2>1. ProcessOf[w] \in Processes
    BY PipelineAssumption DEF Processes, Range
  <2>2. GoodRows(staged[ProcessOf[w]].rows)
    BY <2>1 DEF Buffers
  <2>3. QED BY <1>2, <2>2, BuffersMakeDocuments
<1>5. /\ \A i \in DOMAIN activity : ActivityKey(activity[i]) \in DOMAIN ExistingByKey
      /\ \A key \in DOMAIN ExistingByKey :
            \E i \in DOMAIN activity : ActivityKey(activity[i]) = key /\ ExistingByKey[key] = activity[i]
  BY ExistingByKeyFacts DEF FoldsInv
<1>6. \A key \in DOMAIN ExistingByKey : ExistingByKey[key].synced \in Nat
  BY <1>5 DEF FoldsInv, OnFileInv
<1>7. HandInv'
  BY <1>1, <1>2, <1>4, <1>5, <1>6 DEF FoldsInv, HandInv, Folding
<1>8. ASSUME NEW i \in DOMAIN activity PROVE Knows(jobs[w], i)'
  <2>1. PICK j \in DOMAIN activity :
          /\ ActivityKey(activity[j]) = ActivityKey(activity[i])
          /\ ExistingByKey[ActivityKey(activity[i])] = activity[j]
    BY <1>5
  <2>2. activity[i].id = activity[j].id => i = j
    BY <2>1 DEF FoldsInv, OnFileInv
  <2>3. activity[i].synced \in Nat
    BY DEF FoldsInv, OnFileInv
  <2>4. QED BY <1>1, <1>2, <1>5, <2>1, <2>2, <2>3 DEF Knows
<1>9. ASSUME NEW o \in Workers, Folding(o)', jobs'[o].alone
      PROVE  o = w
  BY <1>2, <1>9 DEF Folding
<1>10. AloneInv'
  <2>1. jobs'[w].alone => \A o \in Workers \ {w} : ~Folding(o)'
    BY <1>2 DEF Folding
  <2>2. QED BY <1>1, <1>8, <1>9, <2>1 DEF AloneInv
<1>11. QED BY <1>3, <1>7, <1>10 DEF FoldsInv

\* Every other step leaves the rows on file alone and starts no fold.
LEMMA ElsewhereKeepsFolds ==
    ASSUME FoldsInv, UNCHANGED activity,
           \A w \in Workers :
              jobs'[w].pc = "write" => \A f \in {"pc", "known", "documents", "stamp", "alone"} : jobs'[w][f] = jobs[w][f]
    PROVE  FoldsInv'
<1>1. OnFileInv'
  BY DEF FoldsInv, OnFileInv
<1>2. HandInv'
  BY DEF FoldsInv, HandInv, Folding
<1>3. AloneInv'
  BY DEF FoldsInv, AloneInv, Folding, Knows
<1>4. QED BY <1>1, <1>2, <1>3 DEF FoldsInv

LEMMA FoldsHold == PipelineSpec => []FoldsInv
<1>1. PipelineInit => FoldsInv
  <2>1. <<>> \in Seq({}) /\ DOMAIN <<>> = {}
    OBVIOUS
  <2>2. QED BY <2>1, NoJobIsJob DEF PipelineInit, FoldsInv, OnFileInv, HandInv, AloneInv, Folding, SomeSeq
<1>2. JobsAreJobs /\ StampsInv /\ Buffers /\ FoldsInv /\ [PipelineNext]_pipelineVars => FoldsInv'
  <2> SUFFICES ASSUME JobsAreJobs, StampsInv, Buffers, FoldsInv, [PipelineNext]_pipelineVars PROVE FoldsInv'
    OBVIOUS
  <2>1. ASSUME NEW w \in Workers, FoldWrites(w) PROVE FoldsInv'
    BY <2>1, WriteKeepsFile, WriteKeepsHands, WriteKeepsAlone DEF FoldsInv
  <2>2. ASSUME NEW w \in Workers, FoldReads(w) PROVE FoldsInv'
    BY <2>2, ReadsKeepFolds
  <2>3. ASSUME NEW w \in Workers, NEW kind, NEW version, Start(w, kind, version) PROVE FoldsInv'
    <3>1. UNCHANGED activity
      BY <2>3, Zenon DEF Start, stores
    <3>2. jobs'[w].pc # "write" /\ \A o \in Workers \ {w} : jobs'[o] = jobs[o]
      BY <2>3, StartMoves DEF Moves
    <3>3. QED BY <3>1, <3>2, ElsewhereKeepsFolds
  <2>4. ASSUME NEW w \in Workers, NEW x, PullTeams(w, x) \/ SyncTonight(w, x) \/ SyncPastWeek(w, x) PROVE FoldsInv'
    <3>1. UNCHANGED activity
      BY <2>4, Zenon DEF PullTeams, SyncTonight, SyncPastWeek, stores
    <3>2. jobs'[w].pc # "write" /\ \A o \in Workers \ {w} : jobs'[o] = jobs[o]
      BY <2>4, PullTeamsMoves, SyncTonightMoves, SyncPastWeekMoves DEF Moves
    <3>3. QED BY <3>1, <3>2, ElsewhereKeepsFolds
  <2>5. ASSUME NEW w \in Workers, ResolveForTonight(w) \/ FoldEnds(w) \/ ReadActivity(w) \/ ReadSnapshots(w)
                 \/ JudgeProject(w) \/ SaveWarning(w) \/ SaveSnapshot(w) \/ WeekEnds(w)
        PROVE  FoldsInv'
    <3>1. UNCHANGED activity
      BY <2>5, Zenon DEF ResolveForTonight, FoldEnds, ReadActivity, ReadSnapshots, JudgeProject, SaveWarning,
                         SaveSnapshot, WeekEnds, stores
    <3>2. jobs'[w].pc # "write" /\ \A o \in Workers \ {w} : jobs'[o] = jobs[o]
      BY <2>5, ResolveMoves, FoldEndsMoves, ReadActivityMoves, ReadSnapshotsMoves, JudgeMoves, SaveWarningMoves,
         SaveSnapshotMoves, WeekEndsMoves DEF Moves
    <3>3. QED BY <3>1, <3>2, ElsewhereKeepsFolds
  <2>6. ASSUME NEW p, Crash(p) PROVE FoldsInv'
    <3>1. UNCHANGED activity
      BY <2>6, Zenon DEF Crash, stores
    <3>2. QED BY <2>6, <3>1, CrashMoves, NoJobIsJob, ElsewhereKeepsFolds
  <2>7. CASE Tomorrow \/ UNCHANGED pipelineVars
    BY <2>7, QuietMoves, ElsewhereKeepsFolds DEF stores
  <2>8. QED BY <2>1, <2>2, <2>3, <2>4, <2>5, <2>6, <2>7, StepCases
<1>3. QED BY <1>1, <1>2, JobsHold, StampsHold, BuffersHold, PTL DEF PipelineSpec

\* A fold no other fold overlaps never puts an older pull over a newer one, and
\* never gives a repository's week a second row.
THEOREM UndisturbedFoldsAdvance == PipelineSpec => UndisturbedFoldsMoveForward
<1> DEFINE Forward(w) ==
        FoldWrites(w) /\ jobs[w].alone =>
            /\ \A i \in DOMAIN activity : activity'[i].synced >= activity[i].synced
            /\ \A r \in RowsOnFile : ActivityKey(activity'[Len(activity')]) = ActivityKey(r)
                                      => Len(activity') = Len(activity)
<1>1. JobsAreJobs /\ FoldsInv => \A w \in Workers : Forward(w)
  <2> SUFFICES ASSUME JobsAreJobs, FoldsInv, NEW w \in Workers, FoldWrites(w), jobs[w].alone
               PROVE  /\ \A i \in DOMAIN activity : activity'[i].synced >= activity[i].synced
                      /\ \A r \in RowsOnFile : ActivityKey(activity'[Len(activity')]) = ActivityKey(r)
                                                => Len(activity') = Len(activity)
    OBVIOUS
  <2>1. Folding(w) /\ \E row : row.synced \in Nat /\ (Appends(w, row) \/ Refreshes(w, row))
    BY WriteFacts DEF FoldsInv
  <2>2. PICK row : row.synced \in Nat /\ (Appends(w, row) \/ Refreshes(w, row))
    BY <2>1
  <2>3. \A i \in DOMAIN activity : Knows(jobs[w], i) /\ activity[i].synced \in Nat
    BY <2>1 DEF FoldsInv, AloneInv, OnFileInv
  <2>4. CASE Appends(w, row)
    <3>1. /\ \A i \in DOMAIN activity : activity'[i] = activity[i]
          /\ activity'[Len(activity')] = row
      BY <2>4, AppendFacts DEF FoldsInv
    <3>2. \A r \in RowsOnFile : ActivityKey(r) # ActivityKey(row)
      BY <2>3, <2>4 DEF Appends, Knows, RowsOnFile, Range
    <3>3. QED BY <2>3, <3>1, <3>2
  <2>5. CASE Refreshes(w, row)
    <3>1. Len(activity') = Len(activity)
      BY <2>5, RefreshFacts DEF FoldsInv
    <3>2. ASSUME NEW i \in DOMAIN activity PROVE activity'[i].synced >= activity[i].synced
      <4>1. CASE activity'[i] = activity[i]
        BY <2>3, <4>1
      <4>2. CASE activity'[i] = row /\ activity[i].id = row.id /\ ActivityKey(activity[i]) = ActivityKey(row)
        <5>1. activity[i].synced <= jobs[w].known[ActivityKey(row)].synced
          BY <2>3, <2>5, <4>2 DEF Knows, Refreshes
        <5>2. /\ jobs[w].known[ActivityKey(row)].synced < row.synced
              /\ jobs[w].known[ActivityKey(row)].synced \in Nat
          BY <2>1, <2>5 DEF FoldsInv, HandInv, Refreshes
        <5>3. QED BY <2>2, <2>3, <4>2, <5>1, <5>2
      <4>3. QED BY <2>5, <4>1, <4>2, RefreshFacts DEF FoldsInv
    <3>3. QED BY <3>1, <3>2
  <2>6. QED BY <2>2, <2>4, <2>5
<1>2. JobsAreJobs /\ FoldsInv /\ [PipelineNext]_pipelineVars => [\A w \in Workers : Forward(w)]_pipelineVars
  BY <1>1
<1>3. QED BY <1>2, JobsHold, FoldsHold, PTL DEF PipelineSpec, UndisturbedFoldsMoveForward

-------------------------------------------------------------------------------
(* What a complete row says *)

\* The row's numbers are what Gitea held on a day between the start of its job
\* and the given one.
TrueBy(row, day) ==
    LET repo == CHOOSE r \in Repos : r.id = row.gitea
    IN  \E now \in DayOf(row.synced)..day :
            row.metric = RepoMetrics(repo, [since |-> FirstDay(row.week), until |-> row.until], now, "fine")

LEMMA TruthLasts ==
    ASSUME NEW row, NEW day \in Nat, NEW later \in Nat, day <= later, TrueBy(row, day)
    PROVE  TrueBy(row, later)
<1> DEFINE told(now) == row.metric = RepoMetrics(CHOOSE r \in Repos : r.id = row.gitea,
                                        [since |-> FirstDay(row.week), until |-> row.until], now, "fine")
<1>1. PICK now \in DayOf(row.synced)..day : told(now)
  BY Zenon DEF TrueBy
<1>2. now \in DayOf(row.synced)..later
  BY <1>1
<1>3. QED BY <1>1, <1>2, Zenon DEF TrueBy

\* No failed fetch left a mark on the numbers of a row with all its quarters.
LEMMA CompleteIsWhole ==
    ASSUME NEW repo, NEW window, NEW now, NEW outcome, Completeness(repo, now, outcome) = 100
    PROVE  RepoMetrics(repo, window, now, outcome) = RepoMetrics(repo, window, now, "fine")
<1> DEFINE opened == {p \in repo.prs : p.opened <= now}
           prs(o) == IF o = "prs" THEN {} ELSE opened
           commits(o) == IF o = "commits" THEN {} ELSE {c \in repo.commits : c.day <= now /\ InWindow(c.day, window)}
           reviewed(o) == IF o = "reviews" THEN {} ELSE {p \in prs(o) : Seen(p.review, now) /\ InWindow(p.review, window)}
           Told(P, C, R) ==
                LET open == {p \in P : PrState(p, now) = "open"}
                    days == {c.day : c \in C}
                    people == {c.by : c \in C} \cup {p.by : p \in {x \in P : IncludeHistory(x, window, now)}}
                IN  [active_days |-> Cardinality(days),
                     days_since_activity |-> IF days = {} THEN Absent ELSE window.until - Max(days),
                     oldest_open_pr_days |-> IF open = {} THEN Absent
                                             ELSE Max({Greatest(0, window.until - p.opened) : p \in open}),
                     review_latency_days |-> IF R = {} THEN Absent
                        ELSE SumFunction([p \in R |-> p.review - p.opened]) \div Cardinality(R),
                     merged_count |-> Cardinality({p \in P : PrState(p, now) = "merged" /\ IncludeHistory(p, window, now)}),
                     active_contributors |-> Cardinality(UNION {Names[who] : who \in people})]
<1>1. /\ RepoMetrics(repo, window, now, outcome) = Told(prs(outcome), commits(outcome), reviewed(outcome))
      /\ RepoMetrics(repo, window, now, "fine") = Told(prs("fine"), commits("fine"), reviewed("fine"))
  BY Zenon DEF RepoMetrics
<1>2. outcome \notin {"prs", "commits"} /\ (outcome = "reviews" => opened = {})
  BY DEF Completeness
<1>3. prs(outcome) = prs("fine") /\ commits(outcome) = commits("fine") /\ reviewed(outcome) = reviewed("fine")
  <2>1. prs(outcome) = opened /\ prs("fine") = opened /\ commits(outcome) = commits("fine")
    BY <1>2
  <2>2. reviewed(outcome) = reviewed("fine")
    <3>1. CASE outcome = "reviews"
      <4>1. opened = {}
        BY <1>2, <3>1
      <4>2. QED BY <2>1, <4>1
    <3>2. CASE outcome # "reviews"
      BY <2>1, <3>2
    <3>3. QED BY <3>1, <3>2
  <2>3. QED BY <2>1, <2>2
<1> HIDE DEF prs, commits, reviewed, Told
<1>4. QED BY <1>1, <1>3

\* A week begins on a day of its own.
LEMMA WeekOfItsFirstDay ==
    ASSUME NEW week \in Nat
    PROVE  WeekOf(FirstDay(week)) = week
<1>1. DaysPerWeek \in Nat \ {0} /\ 0 \in 0..(DaysPerWeek - 1)
  BY AggregatesAssumption
<1>2. (week * DaysPerWeek + 0) \div DaysPerWeek = week /\ week * DaysPerWeek + 0 \in Nat
  BY <1>1, StampsTellTheDay
<1>3. week * DaysPerWeek + 0 = week * DaysPerWeek
  BY <1>1
<1>4. QED BY <1>2, <1>3 DEF WeekOf, FirstDay

\* A job's day is not ahead of the clock.
LEMMA JobsAreNotAhead ==
    ASSUME ClockInv, NEW stamp \in Nat, stamp < Stamp
    PROVE  DayOf(stamp) \in Nat /\ DayOf(stamp) <= today
<1>1. PICK m \in Nat \ {0} : m = MaxJobs + 1
  BY PipelineAssumption
<1>2. today \in Nat /\ started \in Nat /\ started < m
  BY <1>1, PipelineAssumption DEF ClockInv
<1>3. PICK q \in Nat : q = stamp \div m
  BY <1>1
<1>4. q * m <= stamp
  BY <1>1, <1>3, SMTT(20)
<1>5. stamp < today * m + m
  BY <1>1, <1>2 DEF Stamp
<1>6. q <= today
  <2> SUFFICES ASSUME q > today PROVE FALSE
    BY <1>2, <1>3
  <2>1. PICK k \in Nat : q = today + 1 + k
    <3>1. q - today - 1 \in Nat /\ q = today + 1 + (q - today - 1)
      BY <1>2
    <3>2. QED BY <3>1
  <2>2. q * m = today * m + m + k * m /\ k * m \in Nat /\ today * m \in Nat
    BY <1>1, <1>2, <2>1, SMTT(20)
  <2>3. QED BY <1>1, <1>4, <1>5, <2>2
<1>7. QED BY <1>1, <1>3, <1>6 DEF DayOf

-------------------------------------------------------------------------------
(* Rows on their way to the file *)

\* A job that a row is of, by its stamp: it has pulled, and if it reports "ok" the
\* row is complete.
IsOk(job) == ReportedStatus(job) = "ok"
Vouches(job, d) ==
    job.kind = "nightly" /\ job.pc # "idle" /\ d.synced = job.stamp =>
        job.pc \notin {"teams", "adapters", "sync"} /\ (IsOk(job) => d.complete = 100)

\* A document as some pull made it, on a day, before the next stamp and among the jobs given.
Columns == {"project", "repo", "gitea", "week", "until", "synced", "metric", "complete"}
Sound(d, day, stamp, work) ==
    /\ Columns \subseteq DOMAIN d /\ d.synced \in Nat /\ d.synced < stamp
    /\ d.complete \in {75, 100} /\ (d.complete = 100 => TrueBy(d, day))
    /\ \A w \in Workers : Vouches(work[w], d)

\* A document of what a pull made of one repository, its numbers true by the day given.
FromPull(d, owners, repo, week, stamp, checks, day) ==
    /\ Columns \subseteq DOMAIN d /\ "id" \notin DOMAIN d /\ d.synced = stamp
    /\ d.project \in owners /\ d.repo = repo.slug /\ d.week = week
    /\ d.complete = checks /\ d.complete \in {75, 100}
    /\ d.complete = 100 => TrueBy(d, day)

LEMMA PulledIsTrue ==
    ASSUME NEW adapter, NEW repo \in Repos, NEW week \in Nat, NEW window, window.since = FirstDay(week),
           NEW stamp \in Nat, DayOf(stamp) \in Nat, today \in Nat, DayOf(stamp) <= today, NEW outcome,
           NEW d \in DocumentsForRow(SyncRepo(adapter, repo, window, today, stamp, outcome))
    PROVE  FromPull(d, ProjectIds(adapter.boundary, repo), repo, week, stamp, Completeness(repo, today, outcome), today)
<1> DEFINE row == SyncRepo(adapter, repo, window, today, stamp, outcome)
           Made(p) == [project |-> p, repo |-> row.repo, gitea |-> row.gitea, week |-> WeekOf(row.since), until |-> row.until,
                       synced |-> row.synced, metric |-> row.metric, team_size |-> row.team_size, complete |-> row.complete]
<1>1. PICK p \in row.projects : d = Made(p)
  BY Zenon DEF DocumentsForRow
<1>2. /\ row.repo = repo.slug /\ row.gitea = repo.id /\ row.since = window.since /\ row.until = window.until
      /\ row.synced = stamp /\ row.projects = ProjectIds(adapter.boundary, repo)
      /\ row.complete = Completeness(repo, today, outcome) /\ row.metric = RepoMetrics(repo, window, today, outcome)
  BY Zenon DEF SyncRepo
<1> HIDE DEF row
<1>3. /\ DOMAIN d = {"project", "repo", "gitea", "week", "until", "synced", "metric", "team_size", "complete"}
      /\ d.project = p /\ d.repo = row.repo /\ d.gitea = row.gitea /\ d.week = WeekOf(row.since) /\ d.until = row.until
      /\ d.synced = row.synced /\ d.metric = row.metric /\ d.complete = row.complete
  BY <1>1
<1>4. d.week = week
  BY <1>2, <1>3, WeekOfItsFirstDay
<1>5. d.complete \in {75, 100}
  BY <1>2, <1>3 DEF Completeness
<1>6. ASSUME d.complete = 100 PROVE TrueBy(d, today)
  <2>1. (CHOOSE r \in Repos : r.id = d.gitea) = repo
    BY <1>2, <1>3, PipelineAssumption
  <2>2. d.metric = RepoMetrics(repo, window, today, "fine")
    <3>1. Completeness(repo, today, outcome) = 100 /\ d.metric = RepoMetrics(repo, window, today, outcome)
      BY <1>2, <1>3, <1>6
    <3>2. RepoMetrics(repo, window, today, outcome) = RepoMetrics(repo, window, today, "fine")
      BY <3>1, CompleteIsWhole
    <3>3. QED BY <3>1, <3>2
  <2>3. RepoMetrics(repo, window, today, "fine") = RepoMetrics(repo, [since |-> FirstDay(d.week), until |-> d.until], today, "fine")
    <3> DEFINE same == [since |-> FirstDay(d.week), until |-> d.until]
    <3>1. same.since = window.since /\ same.until = window.until
      BY <1>2, <1>3, <1>4
    <3> HIDE DEF same
    <3>2. \A day : InWindow(day, same) = InWindow(day, window)
      BY <3>1, Zenon DEF InWindow
    <3>3. RepoMetrics(repo, window, today, "fine") = RepoMetrics(repo, same, today, "fine")
      BY <3>1, <3>2 DEF RepoMetrics, IncludeHistory
    <3>4. QED BY <3>3 DEF same
  <2>4. today \in DayOf(d.synced)..today
    BY <1>2, <1>3
  <2>5. QED BY <2>1, <2>2, <2>3, <2>4, Zenon DEF TrueBy
<1>7. QED BY <1>2, <1>3, <1>4, <1>5, <1>6 DEF Columns, FromPull

LEMMA PulledRowsAreFinite ==
    ASSUME NEW adapter, NEW week, NEW window, NEW stamp, NEW fault
    PROVE  IsFiniteSet(Pull(adapter, week, window, stamp, fault).rows)
<1> DEFINE fetch == Fetch(adapter.org, week, fault)
           listed == {x \in {r \in Repos : r.org = adapter.org /\ r \in DOMAIN fetch} : fetch[x] # "record"}
           staging == [r \in listed |-> SyncRepo(adapter, r, window, today, stamp, fetch[r])]
           rows == Pull(adapter, week, window, stamp, fault).rows
<1>1. rows = {SyncRepo(adapter, r, window, today, stamp, fetch[r]) : r \in listed}
  BY Zenon DEF Pull, Sync
<1>2. rows = {staging[r] : r \in listed}
  BY <1>1, Zenon
<1>3. IsFiniteSet(listed)
  BY PipelineAssumption, FS_Subset
<1> HIDE DEF rows, listed, staging
<1>4. QED BY <1>2, <1>3, FiniteImage DEF rows

\* What one organisation's pull of a week stages, row by row.
LEMMA PullStages ==
    ASSUME NEW adapter, NEW week, NEW window, NEW stamp, NEW fault
    PROVE  LET result == Pull(adapter, week, window, stamp, fault)
           IN  /\ IsFiniteSet(result.rows)
               /\ \A row \in result.rows : \E repo \in Repos : \E outcome :
                     row = SyncRepo(adapter, repo, window, today, stamp, outcome)
               /\ result.status = "ok" =>
                    /\ \A repo \in {r \in Repos : r.org = adapter.org} : \E outcome :
                          /\ SyncRepo(adapter, repo, window, today, stamp, outcome) \in result.rows
                          /\ Completeness(repo, today, outcome) = 100
                    /\ \A row \in result.rows : row.complete = 100
<1> DEFINE fetch == Fetch(adapter.org, week, fault)
           own == {r \in Repos : r.org = adapter.org}
           listed == {r \in own : r \in DOMAIN fetch}
           flags == IF DOMAIN fetch = {} THEN {"gitea_repo_fetch_failed"}
                    ELSE UNION {RepoFlags(adapter, r, today, fetch[r]) : r \in listed}
           whole == {x \in listed : fetch[x] # "record"}
           RowOf(r) == SyncRepo(adapter, r, window, today, stamp, fetch[r])
           result == Pull(adapter, week, window, stamp, fault)
<1>1. result.rows = {RowOf(r) : r \in whole} /\ result.status = IF flags = {} THEN "ok" ELSE "partial"
  <2>1. listed = {r \in Repos : r.org = adapter.org /\ r \in DOMAIN fetch}
    OBVIOUS
  <2>2. result = [rows |-> {RowOf(r) : r \in whole}, flags |-> flags, status |-> IF flags = {} THEN "ok" ELSE "partial"]
    BY <2>1, Zenon DEF Pull, Sync
  <2> HIDE DEF result, flags, whole, RowOf
  <2>3. QED BY <2>2
<1>2. IsFiniteSet(result.rows)
  BY PulledRowsAreFinite
<1>3. DOMAIN fetch = {} \/ DOMAIN fetch = own
  <2>1. CASE fault = <<week, adapter.org, "all", "list">>
    BY <2>1 DEF Fetch
  <2>2. CASE fault # <<week, adapter.org, "all", "list">>
    BY <2>2, Zenon DEF Fetch
  <2>3. QED BY <2>1, <2>2
<1> HIDE DEF fetch, result, RowOf
<1>4. \A row \in result.rows : \E repo \in Repos : \E outcome : row = SyncRepo(adapter, repo, window, today, stamp, outcome)
  BY <1>1 DEF RowOf
<1>5. ASSUME result.status = "ok"
      PROVE  /\ \A repo \in own : \E outcome :
                   /\ SyncRepo(adapter, repo, window, today, stamp, outcome) \in result.rows
                   /\ Completeness(repo, today, outcome) = 100
             /\ \A row \in result.rows : row.complete = 100
  <2>1. flags = {} /\ DOMAIN fetch = own /\ listed = own
    BY <1>1, <1>3, <1>5
  <2>2. ASSUME NEW repo \in own PROVE fetch[repo] # "record" /\ Completeness(repo, today, fetch[repo]) = 100
    <3>1. RepoFlags(adapter, repo, today, fetch[repo]) = {}
      BY <2>1
    <3>2. fetch[repo] # "record" /\ ~(Completeness(repo, today, fetch[repo]) < 100)
      BY <3>1, Zenon DEF RepoFlags
    <3>3. Completeness(repo, today, fetch[repo]) \in {75, 100}
      BY DEF Completeness
    <3>4. QED BY <3>2, <3>3
  <2>3. \A repo \in own : repo \in whole /\ RowOf(repo) \in result.rows
    BY <1>1, <2>1, <2>2
  <2>4. \A row \in result.rows : \E repo \in own : row = RowOf(repo)
    BY <1>1
  <2>5. \A repo \in own : RowOf(repo).complete = Completeness(repo, today, fetch[repo])
    BY DEF RowOf, SyncRepo
  <2>6. QED BY <2>2, <2>3, <2>4, <2>5 DEF RowOf
<1>6. QED BY <1>2, <1>4, <1>5 DEF result

\* A list of results adds its rows to the buffer of the job's process, and nothing else.
LEMMA StageAdds ==
    ASSUME Buffers, NEW w \in Workers, NEW results, Stage(w, results), SomeSeq(results),
           \A r \in Range(results) : IsFiniteSet(r.rows)
    PROVE  /\ ProcessOf[w] \in Processes
           /\ \A p \in Processes \ {ProcessOf[w]} : staged'[p] = staged[p]
           /\ Range(staged'[ProcessOf[w]].rows)
                = Range(staged[ProcessOf[w]].rows) \cup UNION {r.rows : r \in Range(results)}
<1> DEFINE p == ProcessOf[w]
           lists == [i \in DOMAIN results |-> SetToSeq(results[i].rows)]
           new == staged[p].rows \o FlattenSeq(lists)
<1>1. p \in Processes
  BY PipelineAssumption DEF Processes, Range
<1>2. staged' = [staged EXCEPT ![p] = [staged[p] EXCEPT !.rows = new]]
  BY Zenon DEF Stage
<1>3. SomeSeq(lists) /\ DOMAIN lists = DOMAIN results
  BY SameDomainIsASeq
<1>4. \A i \in DOMAIN lists : SomeSeq(lists[i]) /\ Range(lists[i]) = results[i].rows
  <2>1. \A i \in DOMAIN results : IsFiniteSet(results[i].rows)
    BY DEF Range
  <2>2. QED BY <1>3, <2>1, SetToSeqLists DEF SomeSeq
<1> HIDE DEF lists
<1>5. SomeSeq(FlattenSeq(lists)) /\ Range(FlattenSeq(lists)) = UNION {r.rows : r \in Range(results)}
  <2>1. /\ SomeSeq(FlattenSeq(lists))
        /\ \A x \in Range(FlattenSeq(lists)) : \E i \in DOMAIN lists : x \in Range(lists[i])
        /\ \A i \in DOMAIN lists : Range(lists[i]) \subseteq Range(FlattenSeq(lists))
    BY <1>3, <1>4, FlattenIsASeq
  <2>2. \A i \in DOMAIN lists : results[i] \in Range(results)
    BY <1>3 DEF Range
  <2>3. \A r \in Range(results) : \E i \in DOMAIN lists : r = results[i]
    BY <1>3 DEF Range
  <2>4. QED BY <1>4, <2>1, <2>2, <2>3
<1>6. Range(new) = Range(staged[p].rows) \cup UNION {r.rows : r \in Range(results)}
  BY <1>1, <1>5, ConcatIsASeq DEF Buffers, GoodRows
<1> HIDE DEF new, p
<1>7. staged'[p].rows = new
  <2>1. staged'[p] = [staged[p] EXCEPT !.rows = new]
    BY <1>1, <1>2 DEF Buffers
  <2>2. staged[p] = [rows |-> staged[p].rows, sizes |-> staged[p].sizes]
    BY <1>1 DEF Buffers
  <2>3. QED BY <2>1, <2>2
<1>8. \A q \in Processes \ {p} : staged'[q] = staged[q]
  BY <1>2 DEF Buffers
<1>9. QED BY <1>1, <1>6, <1>7, <1>8 DEF p

TonightsPull(job, a, i, fault) ==
    Pull(job.adapters[a], job.weeks[i], NightlyWindow(job.weeks[i], DayOf(job.stamp)), job.stamp, fault)

LEMMA TonightAdds ==
    ASSUME JobsAreJobs, Buffers, PullsInv, NEW w \in Workers, NEW fault, SyncTonight(w, fault)
    PROVE  /\ ProcessOf[w] \in Processes
           /\ \A p \in Processes \ {ProcessOf[w]} : staged'[p] = staged[p]
           /\ Range(staged[ProcessOf[w]].rows) \subseteq Range(staged'[ProcessOf[w]].rows)
           /\ \A row \in Range(staged'[ProcessOf[w]].rows) :
                 \/ row \in Range(staged[ProcessOf[w]].rows)
                 \/ \E a \in DOMAIN jobs[w].adapters, i \in DOMAIN jobs[w].weeks : row \in TonightsPull(jobs[w], a, i, fault).rows
           /\ \A a \in DOMAIN jobs[w].adapters, i \in DOMAIN jobs[w].weeks :
                 /\ TonightsPull(jobs[w], a, i, fault).rows \subseteq Range(staged'[ProcessOf[w]].rows)
                 /\ TonightsPull(jobs[w], a, i, fault).status \in Range(jobs'[w].statuses)
<1> DEFINE job == jobs[w]
           pull(a, i) == TonightsPull(job, a, i, fault)
           nested == [a \in DOMAIN job.adapters |-> [i \in DOMAIN job.weeks |-> pull(a, i)]]
           results == FlattenSeq(nested)
           statuses == Statuses(results)
<1>1. /\ job.pc = "sync" /\ Stage(w, results)
      /\ jobs' = [jobs EXCEPT ![w] = [job EXCEPT !.pc = "fold", !.adapters = <<>>, !.statuses = statuses]]
  BY Zenon DEF SyncTonight, TonightsPull
<1>2. SomeSeq(job.weeks) /\ GoodAdapters(job.adapters)
  BY <1>1 DEF PullsInv
<1>3. ASSUME NEW a, NEW i PROVE IsFiniteSet(pull(a, i).rows)
  BY PulledRowsAreFinite DEF TonightsPull
<1> HIDE DEF pull
<1>4. SomeSeq(nested) /\ DOMAIN nested = DOMAIN job.adapters
  BY <1>2, SameDomainIsASeq DEF GoodAdapters
<1>5. ASSUME NEW a \in DOMAIN job.adapters
      PROVE  SomeSeq(nested[a]) /\ DOMAIN nested[a] = DOMAIN job.weeks /\ \A i \in DOMAIN job.weeks : nested[a][i] = pull(a, i)
  <2>1. nested[a] = [i \in DOMAIN job.weeks |-> pull(a, i)]
    OBVIOUS
  <2>2. SomeSeq([i \in DOMAIN job.weeks |-> pull(a, i)]) /\ DOMAIN [i \in DOMAIN job.weeks |-> pull(a, i)] = DOMAIN job.weeks
    BY <1>2, SameDomainIsASeq
  <2>3. QED BY <2>1, <2>2
<1> HIDE DEF nested
<1>6. /\ SomeSeq(results)
      /\ \A r \in Range(results) : \E a \in DOMAIN job.adapters, i \in DOMAIN job.weeks : r = pull(a, i)
      /\ \A a \in DOMAIN job.adapters, i \in DOMAIN job.weeks : pull(a, i) \in Range(results)
  <2>1. /\ SomeSeq(results)
        /\ \A x \in Range(results) : \E a \in DOMAIN nested : x \in Range(nested[a])
        /\ \A a \in DOMAIN nested : Range(nested[a]) \subseteq Range(results)
    BY <1>4, <1>5, FlattenIsASeq
  <2> HIDE DEF results
  <2>2. \A a \in DOMAIN job.adapters, i \in DOMAIN job.weeks : pull(a, i) \in Range(nested[a])
    BY <1>5 DEF Range
  <2>3. ASSUME NEW a \in DOMAIN job.adapters, NEW x \in Range(nested[a]) PROVE \E i \in DOMAIN job.weeks : x = pull(a, i)
    BY <1>5, <2>3, Zenon DEF Range
  <2>4. QED BY <1>4, <2>1, <2>2, <2>3
<1> HIDE DEF results
<1>7. \A r \in Range(results) : IsFiniteSet(r.rows)
  BY <1>3, <1>6
<1>8. /\ ProcessOf[w] \in Processes
      /\ \A p \in Processes \ {ProcessOf[w]} : staged'[p] = staged[p]
      /\ Range(staged'[ProcessOf[w]].rows)
           = Range(staged[ProcessOf[w]].rows) \cup UNION {r.rows : r \in Range(results)}
  BY <1>1, <1>6, <1>7, StageAdds
<1>9. jobs'[w].statuses = statuses
  <2> DEFINE next == [job EXCEPT !.pc = "fold", !.adapters = <<>>, !.statuses = statuses]
  <2>1. jobs' = [jobs EXCEPT ![w] = next]
    BY <1>1
  <2> HIDE DEF statuses
  <2>2. next.statuses = statuses
    BY Fields DEF JobsAreJobs, IsJob
  <2> HIDE DEF next
  <2>3. QED BY <2>1, <2>2 DEF JobsAreJobs
<1>10. \A r \in Range(results) : r.status \in Range(statuses)
  BY DEF Statuses, Range
<1> HIDE DEF statuses
<1>11. QED BY <1>6, <1>8, <1>9, <1>10 DEF pull

PastPull(w, a, fault) ==
    LET week == Head(jobs[w].weeks)
    IN  Pull(BuildAdapters(staged[ProcessOf[w]].sizes, FirstDay(week))[a], week, BackfillWindow(week), jobs[w].stamp, fault)

LEMMA PastWeekAdds ==
    ASSUME JobsAreJobs, Buffers, NEW w \in Workers, NEW fault, SyncPastWeek(w, fault)
    PROVE  /\ ProcessOf[w] \in Processes
           /\ \A p \in Processes \ {ProcessOf[w]} : staged'[p] = staged[p]
           /\ Range(staged[ProcessOf[w]].rows) \subseteq Range(staged'[ProcessOf[w]].rows)
           /\ \A row \in Range(staged'[ProcessOf[w]].rows) :
                 \/ row \in Range(staged[ProcessOf[w]].rows)
                 \/ \E a \in DOMAIN Orgs : row \in PastPull(w, a, fault).rows
<1> DEFINE week == Head(jobs[w].weeks)
           adapters == BuildAdapters(staged[ProcessOf[w]].sizes, FirstDay(week))
           results == [a \in DOMAIN adapters |-> Pull(adapters[a], week, BackfillWindow(week), jobs[w].stamp, fault)]
<1>1. Stage(w, results)
  BY Zenon DEF SyncPastWeek
<1>2. SomeSeq(adapters)
  BY BuiltAdaptersAreGood DEF GoodAdapters
<1>3. DOMAIN adapters = DOMAIN Orgs
  BY Zenon DEF BuildAdapters
<1>4. \A a \in DOMAIN adapters : results[a] = PastPull(w, a, fault)
  BY Zenon DEF PastPull
<1> HIDE DEF adapters, week
<1>5. SomeSeq(results) /\ DOMAIN results = DOMAIN Orgs
  BY <1>2, <1>3, SameDomainIsASeq
<1> HIDE DEF results
<1>6. \A r \in Range(results) : \E a \in DOMAIN Orgs : r = PastPull(w, a, fault)
  BY <1>3, <1>4, <1>5, Zenon DEF Range
<1>7. \A a : IsFiniteSet(PastPull(w, a, fault).rows)
  BY PulledRowsAreFinite DEF PastPull
<1>8. \A r \in Range(results) : IsFiniteSet(r.rows)
  BY <1>6, <1>7
<1>9. /\ ProcessOf[w] \in Processes
      /\ \A p \in Processes \ {ProcessOf[w]} : staged'[p] = staged[p]
      /\ Range(staged'[ProcessOf[w]].rows)
           = Range(staged[ProcessOf[w]].rows) \cup UNION {r.rows : r \in Range(results)}
  BY <1>1, <1>5, <1>8, StageAdds
<1>10. QED BY <1>6, <1>9

-------------------------------------------------------------------------------
(* What a job is about to pull, and what it reports *)

ToPull == {"teams", "adapters", "sync"}
ComingInv ==
    \A w \in Workers :
        /\ jobs[w].pc \in ToPull \cup {"pull"} => jobs[w].weeks \in Seq(Nat)
        /\ jobs[w].pc = "pull" => jobs[w].weeks # <<>> /\ jobs[w].kind # "nightly"
        /\ jobs[w].pc = "sync" => \E sizes : jobs[w].adapters = BuildAdapters(sizes, DayOf(jobs[w].stamp))

LEMMA StartsAt ==
    ASSUME JobsAreJobs, NEW w \in Workers, NEW kind, NEW version, Start(w, kind, version)
    PROVE  jobs'[w].pc = CASE kind = "nightly" -> "teams" [] kind = "backfill" -> "pull" [] OTHER -> "read"
<1> DEFINE at == CASE kind = "nightly" -> "teams" [] kind = "backfill" -> "pull" [] OTHER -> "read"
<1>1. PICK pulled, judged : jobs' = [jobs EXCEPT ![w] = [NoJob EXCEPT !.kind = kind, !.version = version, !.stamp = Stamp,
                                        !.pc = at, !.weeks = pulled, !.judging = judged]]
  BY Zenon DEF Start
<1> DEFINE next == [NoJob EXCEPT !.kind = kind, !.version = version, !.stamp = Stamp, !.pc = at, !.weeks = pulled, !.judging = judged]
<1>2. jobs' = [jobs EXCEPT ![w] = next]
  BY <1>1
<1> HIDE DEF at
<1>3. next.pc = at
  BY DEF NoJob
<1> HIDE DEF next
<1>4. QED BY <1>2, <1>3 DEF at, JobsAreJobs

LEMMA PastWeekGoesOn ==
    ASSUME JobsAreJobs, NEW w \in Workers, NEW fault, SyncPastWeek(w, fault)
    PROVE  jobs'[w].pc = IF Len(jobs[w].weeks) = 1 THEN "fold" ELSE "pull"
<1> DEFINE at == IF Len(jobs[w].weeks) = 1 THEN "fold" ELSE "pull"
           rest == Tail(jobs[w].weeks)
<1>1. PICK found : jobs' = [jobs EXCEPT ![w] = [jobs[w] EXCEPT !.weeks = rest, !.statuses = found, !.pc = at]]
  BY Zenon DEF SyncPastWeek
<1> DEFINE next == [jobs[w] EXCEPT !.weeks = rest, !.statuses = found, !.pc = at]
<1>2. jobs' = [jobs EXCEPT ![w] = next]
  BY <1>1
<1> HIDE DEF at, rest
<1>3. next.pc = at
  BY Fields DEF JobsAreJobs, IsJob
<1> HIDE DEF next
<1>4. QED BY <1>2, <1>3 DEF at, JobsAreJobs

LEMMA ComingHolds == PipelineSpec => []ComingInv
<1>1. PipelineInit => ComingInv
  BY NoJobIsJob DEF PipelineInit, ComingInv, ToPull
<1>2. JobsAreJobs /\ ClockInv /\ ComingInv /\ [PipelineNext]_pipelineVars => ComingInv'
  <2> SUFFICES ASSUME JobsAreJobs, ClockInv, ComingInv, [PipelineNext]_pipelineVars PROVE ComingInv'
    OBVIOUS
  <2>1. ASSUME \A w \in Workers : jobs'[w].pc \notin ToPull \cup {"pull"}
                   \/ (\A f \in {"pc", "weeks", "adapters", "kind", "stamp"} : jobs'[w][f] = jobs[w][f])
        PROVE  ComingInv'
    BY <2>1 DEF ComingInv, ToPull
  <2>2. ASSUME NEW w \in Workers, NEW kind, NEW version, Start(w, kind, version) PROVE ComingInv'
    <3>1. \A o \in Workers \ {w} : jobs'[o] = jobs[o]
      BY <2>2, StartMoves DEF Moves
    <3>2. /\ WeekWindows(LookbackWeeks, today) \in Seq(Nat) /\ WeekWindows(BackfillWeeks, today) \in Seq(Nat)
          /\ WeekWindows(BackfillWeeks, today) # <<>>
      <4>1. today \in Nat /\ LookbackWeeks \in Nat \ {0} /\ BackfillWeeks \in Nat \ {0}
        BY PipelineAssumption DEF ClockInv
      <4>2. QED BY <4>1, WindowsAreWeeks
    <3>3. jobs'[w].pc = CASE kind = "nightly" -> "teams" [] kind = "backfill" -> "pull" [] OTHER -> "read"
      BY <2>2, StartsAt
    <3>4. /\ jobs'[w].kind = kind
          /\ jobs'[w].weeks = CASE kind = "nightly" -> WeekWindows(LookbackWeeks, today)
                                [] kind = "backfill" -> WeekWindows(BackfillWeeks, today) [] OTHER -> <<>>
      BY <2>2, StartMoves
    <3>5. CASE kind = "nightly"
      BY <3>1, <3>2, <3>3, <3>4, <3>5 DEF ComingInv, ToPull
    <3>6. CASE kind = "backfill"
      BY <3>1, <3>2, <3>3, <3>4, <3>6 DEF ComingInv, ToPull
    <3>7. CASE kind \notin {"nightly", "backfill"}
      BY <3>1, <3>3, <3>7 DEF ComingInv, ToPull
    <3>8. QED BY <3>5, <3>6, <3>7
  <2>3. ASSUME NEW w \in Workers, NEW pull, PullTeams(w, pull) PROVE ComingInv'
    <3>1. /\ \A o \in Workers \ {w} : jobs'[o] = jobs[o]
          /\ jobs'[w].weeks = jobs[w].weeks /\ jobs'[w].pc = "adapters" /\ jobs[w].pc = "teams"
      BY <2>3, PullTeamsMoves, Fields DEF Moves, SameBut, PullTeams
    <3>2. QED BY <3>1 DEF ComingInv, ToPull
  <2>4. ASSUME NEW w \in Workers, ResolveForTonight(w) PROVE ComingInv'
    <3>1. /\ \A o \in Workers \ {w} : jobs'[o] = jobs[o]
          /\ jobs'[w].weeks = jobs[w].weeks /\ jobs'[w].pc = "sync" /\ jobs[w].pc = "adapters"
      BY <2>4, ResolveMoves, Fields DEF Moves, SameBut, ResolveForTonight
    <3>2. jobs'[w].stamp = jobs[w].stamp /\ \E sizes : jobs'[w].adapters = BuildAdapters(sizes, DayOf(jobs[w].stamp))
      BY <2>4, ResolveMoves, Fields DEF Moves, SameBut
    <3>3. QED BY <3>1, <3>2 DEF ComingInv, ToPull
  <2>5. ASSUME NEW w \in Workers, NEW fault, SyncPastWeek(w, fault) PROVE ComingInv'
    <3>1. /\ \A o \in Workers \ {w} : jobs'[o] = jobs[o]
          /\ jobs[w].pc = "pull" /\ jobs'[w].kind = jobs[w].kind /\ jobs'[w].weeks = Tail(jobs[w].weeks)
      BY <2>5, SyncPastWeekMoves, Fields DEF Moves, SameBut, SyncPastWeek
    <3>2. jobs'[w].pc = IF Len(jobs[w].weeks) = 1 THEN "fold" ELSE "pull"
      BY <2>5, PastWeekGoesOn
    <3>3. /\ Tail(jobs[w].weeks) \in Seq(Nat) /\ (Tail(jobs[w].weeks) = <<>>) = (Len(jobs[w].weeks) = 1)
          /\ jobs[w].kind # "nightly"
      BY <3>1, HeadAndTail DEF ComingInv
    <3>4. QED BY <3>1, <3>2, <3>3 DEF ComingInv, ToPull
  <2>6. ASSUME NEW w \in Workers, FoldReads(w) PROVE ComingInv'
    <3>1. jobs'[w].pc = "write" /\ \A o \in Workers \ {w} : \A f \in {"pc", "weeks", "adapters", "kind", "stamp"} : jobs'[o][f] = jobs[o][f]
      BY <2>6, FoldReadsMoves, Fields DEF SameBut
    <3>2. QED BY <2>1, <3>1 DEF ToPull
  <2>7. ASSUME NEW w \in Workers, (\E fault \in Faults : SyncTonight(w, fault)) \/ FoldWrites(w) \/ FoldEnds(w)
                  \/ ReadActivity(w) \/ ReadSnapshots(w) \/ JudgeProject(w) \/ SaveWarning(w) \/ SaveSnapshot(w) \/ WeekEnds(w)
        PROVE  ComingInv'
    <3>1. jobs'[w].pc \notin ToPull \cup {"pull"} /\ \A o \in Workers \ {w} : jobs'[o] = jobs[o]
      BY <2>7, SyncTonightMoves, FoldWritesMoves, FoldEndsMoves, ReadActivityMoves, ReadSnapshotsMoves, JudgeMoves,
         SaveWarningMoves, SaveSnapshotMoves, WeekEndsMoves DEF Moves, ToPull
    <3>2. QED BY <2>1, <3>1
  <2>8. ASSUME NEW p, Crash(p) PROVE ComingInv'
    BY <2>1, <2>8, CrashMoves, NoJobIsJob DEF ToPull
  <2>9. CASE Tomorrow \/ UNCHANGED pipelineVars
    BY <2>1, <2>9, QuietMoves
  <2>10. QED BY <2>2, <2>3, <2>4, <2>5, <2>6, <2>7, <2>8, <2>9, StepCases
<1>3. QED BY <1>1, <1>2, JobsHold, ClockHolds, PTL DEF PipelineSpec

\* What a job under way reports is settled once it has pulled.
LEMMA StepsKeepReports ==
    ASSUME JobsAreJobs, ComingInv, NEW w \in Workers, JobStep(w)
    PROVE  /\ jobs[w].pc # "idle"
           /\ \A o \in Workers : jobs'[o].kind = jobs[o].kind /\ jobs'[o].stamp = jobs[o].stamp
           /\ \A o \in Workers \ {w} : \A f \in {"pc", "team", "statuses", "weeks"} : jobs'[o][f] = jobs[o][f]
           /\ jobs[w].pc \notin ToPull /\ jobs[w].kind = "nightly" =>
                /\ jobs'[w].pc \notin ToPull
                /\ \A f \in {"team", "statuses", "weeks"} : jobs'[w][f] = jobs[w][f]
<1> DEFINE Report == {"kind", "stamp", "team", "statuses", "weeks"}
           Kept(job, next) ==
                job.pc \notin ToPull /\ job.kind = "nightly" =>
                    next.pc \notin ToPull /\ \A f \in {"team", "statuses", "weeks"} : next[f] = job[f]
<1>1. ASSUME NEW F, NEW at, Moves(w, F, at), {"kind", "stamp"} \cap F = {},
             \/ jobs[w].pc \in ToPull \/ jobs[w].kind # "nightly"
             \/ at \notin ToPull /\ Report \cap F = {}
      PROVE  /\ \A o \in Workers : jobs'[o].kind = jobs[o].kind /\ jobs'[o].stamp = jobs[o].stamp
             /\ \A o \in Workers \ {w} : \A f \in {"pc", "team", "statuses", "weeks"} : jobs'[o][f] = jobs[o][f]
             /\ Kept(jobs[w], jobs'[w])
  <2>1. \A o \in Workers \ {w} : jobs'[o] = jobs[o]
    BY <1>1 DEF Moves
  <2>2. jobs'[w].pc = at /\ \A f \in DOMAIN NoJob \ F : jobs'[w][f] = jobs[w][f]
    BY <1>1 DEF Moves, SameBut
  <2>3. jobs'[w].kind = jobs[w].kind /\ jobs'[w].stamp = jobs[w].stamp
    BY <1>1, <2>2, Fields
  <2>4. Kept(jobs[w], jobs'[w])
    BY <1>1, <2>2, Fields
  <2>5. QED BY <2>1, <2>3, <2>4
<1>2. jobs[w].pc # "idle"
  BY StepsKeepStamps
<1>3. ASSUME NEW x, PullTeams(w, x) \/ SyncTonight(w, x) \/ SyncPastWeek(w, x) \/ ResolveForTonight(w)
      PROVE  \E F, at : /\ Moves(w, F, at) /\ {"kind", "stamp"} \cap F = {}
                        /\ jobs[w].pc \in ToPull \/ jobs[w].kind # "nightly"
  <2>1. CASE PullTeams(w, x)
    BY <2>1, PullTeamsMoves, Zenon DEF PullTeams, ToPull
  <2>2. CASE SyncTonight(w, x)
    BY <2>2, SyncTonightMoves, Zenon DEF SyncTonight, ToPull
  <2>3. CASE SyncPastWeek(w, x)
    <3>1. jobs[w].pc = "pull"
      BY <2>3, Zenon DEF SyncPastWeek
    <3>2. jobs[w].kind # "nightly"
      BY <3>1 DEF ComingInv
    <3>3. QED BY <2>3, <3>2, SyncPastWeekMoves
  <2>4. CASE ResolveForTonight(w)
    BY <2>4, ResolveMoves, Zenon DEF ResolveForTonight, ToPull
  <2>5. QED BY <1>3, <2>1, <2>2, <2>3, <2>4
<1>4. ASSUME FoldWrites(w) \/ FoldEnds(w) \/ ReadActivity(w) \/ ReadSnapshots(w)
               \/ JudgeProject(w) \/ SaveWarning(w) \/ SaveSnapshot(w) \/ WeekEnds(w)
      PROVE  \E F, at : Moves(w, F, at) /\ at \notin ToPull /\ Report \cap F = {}
  BY <1>4, FoldWritesMoves, FoldEndsMoves, ReadActivityMoves, ReadSnapshotsMoves, JudgeMoves,
     SaveWarningMoves, SaveSnapshotMoves, WeekEndsMoves DEF ToPull
<1>5. CASE FoldReads(w)
  <2>1. /\ \A o \in Workers : \A f \in Report : jobs'[o][f] = jobs[o][f]
        /\ \A o \in Workers \ {w} : jobs'[o].pc = jobs[o].pc
        /\ jobs'[w].pc \notin ToPull
    BY <1>5, FoldReadsMoves, Fields DEF SameBut, ToPull
  <2>2. QED BY <1>2, <2>1
<1>6. CASE \E x : PullTeams(w, x) \/ SyncTonight(w, x) \/ SyncPastWeek(w, x) \/ ResolveForTonight(w)
  BY <1>1, <1>2, <1>3, <1>6
<1>7. CASE FoldWrites(w) \/ FoldEnds(w) \/ ReadActivity(w) \/ ReadSnapshots(w)
             \/ JudgeProject(w) \/ SaveWarning(w) \/ SaveSnapshot(w) \/ WeekEnds(w)
  <2>1. PICK F, at : Moves(w, F, at) /\ at \notin ToPull /\ Report \cap F = {}
    BY <1>4, <1>7
  <2>2. {"kind", "stamp"} \cap F = {}
    BY <2>1
  <2>3. QED BY <1>1, <1>2, <2>1, <2>2
<1>8. QED BY <1>5, <1>6, <1>7, Zenon DEF JobStep

\* Time and the counter of starts go on.
LEMMA StampGrows ==
    ASSUME ClockInv, ClockInv', [PipelineNext]_pipelineVars
    PROVE  Stamp \in Nat /\ Stamp' \in Nat /\ Stamp <= Stamp' /\ today \in Nat /\ today' \in Nat /\ today <= today'
<1> DEFINE m == MaxJobs + 1
<1>1. m \in Nat \ {0} /\ started \in 0..(m - 1) /\ started' \in 0..(m - 1) /\ today \in Nat /\ today' \in Nat
  BY PipelineAssumption DEF ClockInv
<1>2. Stamp = today * m + started /\ Stamp' = today' * m + started'
  BY DEF Stamp
<1> HIDE DEF m
<1>3. Stamp \in Nat /\ Stamp' \in Nat
  BY <1>1, <1>2, StampsTellTheDay
<1>4. ASSUME UNCHANGED <<today, started>> PROVE Stamp <= Stamp' /\ today <= today'
  BY <1>1, <1>2, <1>3, <1>4
<1>5. ASSUME NEW w \in Workers, JobStep(w) PROVE UNCHANGED <<today, started>>
  <2>1. \A x : PullTeams(w, x) \/ SyncTonight(w, x) \/ SyncPastWeek(w, x) => UNCHANGED <<today, started>>
    BY Zenon DEF PullTeams, SyncTonight, SyncPastWeek
  <2>2. ResolveForTonight(w) \/ FoldReads(w) \/ FoldWrites(w) \/ FoldEnds(w) \/ ReadActivity(w) \/ ReadSnapshots(w)
          \/ JudgeProject(w) \/ SaveWarning(w) \/ SaveSnapshot(w) \/ WeekEnds(w) => UNCHANGED <<today, started>>
    BY Zenon DEF ResolveForTonight, FoldReads, FoldWrites, FoldEnds, ReadActivity, ReadSnapshots, JudgeProject,
                 SaveWarning, SaveSnapshot, WeekEnds
  <2>3. QED BY <1>5, <2>1, <2>2 DEF JobStep
<1>6. ASSUME NEW w, NEW kind, NEW version, Start(w, kind, version) PROVE Stamp <= Stamp' /\ today <= today'
  <2>1. today' = today /\ started' = started + 1
    BY <1>6, Zenon DEF Start
  <2>2. Stamp' = Stamp + 1
    BY <1>1, <1>2, <2>1
  <2>3. QED BY <1>1, <1>3, <2>1, <2>2
<1>7. ASSUME NEW p, Crash(p) PROVE UNCHANGED <<today, started>>
  BY <1>7, Zenon DEF Crash
<1>8. CASE Tomorrow
  <2>1. today' = today + 1 /\ started' = started
    BY <1>8, Zenon DEF Tomorrow
  <2>2. Stamp' = Stamp + m
    BY <1>1, <1>2, <2>1
  <2>3. QED BY <1>1, <1>3, <2>1, <2>2
<1>9. CASE UNCHANGED pipelineVars
  <2>1. UNCHANGED <<today, started>>
    BY <1>9 DEF pipelineVars
  <2>2. QED BY <1>1, <1>3, <1>4, <2>1
<1>10. QED BY <1>1, <1>3, <1>4, <1>5, <1>6, <1>7, <1>8, <1>9, StepKinds

\* Whatever the next step is, a document made before it stays sound.
LEMMA SoundLasts ==
    ASSUME JobsAreJobs, ClockInv, ClockInv', StampsInv, ComingInv, [PipelineNext]_pipelineVars
    PROVE  \A d : Sound(d, today, Stamp, jobs) => Sound(d, today', Stamp', jobs')
<1> SUFFICES ASSUME NEW d, Sound(d, today, Stamp, jobs) PROVE Sound(d, today', Stamp', jobs')
  OBVIOUS
<1>1. /\ Stamp \in Nat /\ Stamp' \in Nat /\ Stamp <= Stamp' /\ today \in Nat /\ today' \in Nat /\ today <= today'
  BY StampGrows
<1>2. /\ Columns \subseteq DOMAIN d /\ d.synced \in Nat /\ d.synced < Stamp
      /\ d.complete \in {75, 100} /\ (d.complete = 100 => TrueBy(d, today))
      /\ \A w \in Workers : Vouches(jobs[w], d)
  BY DEF Sound
<1>3. d.complete = 100 => TrueBy(d, today')
  BY <1>1, <1>2, TruthLasts
<1>4. \A w \in Workers : Vouches(jobs'[w], d)
  <2>1. ASSUME NEW w \in Workers, JobStep(w), NEW o \in Workers PROVE Vouches(jobs'[o], d)
    <3>1. CASE o # w
      <4>1. /\ jobs'[o].kind = jobs[o].kind /\ jobs'[o].stamp = jobs[o].stamp /\ jobs'[o].pc = jobs[o].pc
            /\ jobs'[o].team = jobs[o].team /\ jobs'[o].statuses = jobs[o].statuses
        BY <2>1, <3>1, StepsKeepReports
      <4>2. IsOk(jobs'[o]) = IsOk(jobs[o])
        BY <4>1 DEF IsOk, ReportedStatus
      <4>3. Vouches(jobs[o], d)
        BY <1>2
      <4>4. QED BY <4>1, <4>2, <4>3 DEF Vouches
    <3>2. CASE o = w
      <4>1. /\ jobs[w].pc # "idle" /\ jobs'[w].kind = jobs[w].kind /\ jobs'[w].stamp = jobs[w].stamp
            /\ jobs[w].pc \notin ToPull /\ jobs[w].kind = "nightly" =>
                 jobs'[w].pc \notin ToPull /\ jobs'[w].team = jobs[w].team /\ jobs'[w].statuses = jobs[w].statuses
        BY <2>1, StepsKeepReports
      <4>2. Vouches(jobs[w], d)
        BY <1>2
      <4>3. SUFFICES ASSUME jobs[w].kind = "nightly", d.synced = jobs[w].stamp PROVE Vouches(jobs'[w], d)
        BY <3>2, <4>1 DEF Vouches
      <4>4. jobs[w].pc \notin ToPull /\ (IsOk(jobs[w]) => d.complete = 100)
        BY <4>1, <4>2, <4>3 DEF Vouches, ToPull
      <4>5. IsOk(jobs'[w]) = IsOk(jobs[w])
        BY <4>1, <4>3, <4>4 DEF IsOk, ReportedStatus
      <4>6. QED BY <4>1, <4>3, <4>4, <4>5 DEF Vouches, ToPull
    <3>3. QED BY <3>1, <3>2
  <2>2. ASSUME NEW w \in Workers, NEW kind, NEW version, Start(w, kind, version), NEW o \in Workers PROVE Vouches(jobs'[o], d)
    <3>1. jobs'[w].stamp = Stamp /\ (o # w => jobs'[o] = jobs[o])
      BY <2>2, StartMoves DEF Moves
    <3>2. d.synced # Stamp
      BY <1>1, <1>2
    <3>3. Vouches(jobs[o], d)
      BY <1>2
    <3>4. QED BY <3>1, <3>2, <3>3 DEF Vouches
  <2>3. ASSUME NEW p, Crash(p), NEW o \in Workers PROVE Vouches(jobs'[o], d)
    <3>1. jobs'[o] = NoJob \/ jobs'[o] = jobs[o]
      BY <2>3, CrashMoves
    <3>2. Vouches(jobs[o], d) /\ Vouches(NoJob, d)
      BY <1>2, NoJobIsJob DEF Vouches
    <3>3. QED BY <3>1, <3>2
  <2>4. CASE Tomorrow \/ UNCHANGED pipelineVars
    <3>1. jobs' = jobs
      BY <2>4, QuietMoves
    <3>2. QED BY <1>2, <3>1
  <2>5. QED BY <2>1, <2>2, <2>3, <2>4, StepKinds
<1>5. QED BY <1>1, <1>2, <1>3, <1>4 DEF Sound

-------------------------------------------------------------------------------
(* Everything on its way is sound *)

SoundRow(row, day, stamp, work) == \A d \in DocumentsForRow(row) : Sound(d, day, stamp, work)
SoundInv ==
    /\ \A p \in Processes : \A row \in Range(staged[p].rows) : SoundRow(row, today, Stamp, jobs)
    /\ \A w \in Workers : Folding(w) => \A i \in DOMAIN jobs[w].documents : Sound(jobs[w].documents[i], today, Stamp, jobs)
    /\ \A i \in DOMAIN activity : Sound(activity[i], today, Stamp, jobs)

LEMMA SoundRowsLast ==
    ASSUME JobsAreJobs, ClockInv, ClockInv', StampsInv, ComingInv, [PipelineNext]_pipelineVars
    PROVE  \A row : SoundRow(row, today, Stamp, jobs) => SoundRow(row, today', Stamp', jobs')
BY SoundLasts DEF SoundRow

\* What a pull of one week by one job makes is sound once the job has gone on.
LEMMA PulledIsSound ==
    ASSUME JobsAreJobs, ClockInv, StampsInv, NEW w \in Workers, jobs[w].pc # "idle",
           UNCHANGED <<today, started>>,
           \A o \in Workers \ {w} : jobs'[o] = jobs[o],
           NEW adapter, NEW week \in Nat, NEW window, window.since = FirstDay(week), NEW fault,
           NEW row \in Pull(adapter, week, window, jobs[w].stamp, fault).rows,
           \/ jobs'[w].kind # "nightly"
           \/ jobs'[w].pc \notin ToPull /\ (IsOk(jobs'[w]) => Pull(adapter, week, window, jobs[w].stamp, fault).status = "ok")
    PROVE  SoundRow(row, today', Stamp', jobs')
<1>1. PICK stamp \in Nat : stamp = jobs[w].stamp /\ stamp < Stamp
  BY DEF StampsInv
<1>2. /\ DayOf(stamp) \in Nat /\ DayOf(stamp) <= today /\ today \in Nat
  BY <1>1, JobsAreNotAhead DEF ClockInv
<1>3. PICK result : result = Pull(adapter, week, window, stamp, fault)
  OBVIOUS
<1>4. /\ \E repo \in Repos : \E outcome : row = SyncRepo(adapter, repo, window, today, stamp, outcome)
      /\ result.status = "ok" => row.complete = 100
  BY <1>1, <1>3, PullStages
<1>5. PICK repo \in Repos : \E outcome : row = SyncRepo(adapter, repo, window, today, stamp, outcome)
  BY <1>4
<1>6. PICK outcome : row = SyncRepo(adapter, repo, window, today, stamp, outcome)
  BY <1>5
<1>7. ASSUME NEW d \in DocumentsForRow(row) PROVE Sound(d, today, Stamp, jobs')
  <2>1. /\ Columns \subseteq DOMAIN d /\ d.synced = stamp /\ d.complete = Completeness(repo, today, outcome)
        /\ d.complete \in {75, 100} /\ (d.complete = 100 => TrueBy(d, today))
    <3>1. d \in DocumentsForRow(SyncRepo(adapter, repo, window, today, stamp, outcome))
      BY <1>6, <1>7
    <3>2. FromPull(d, ProjectIds(adapter.boundary, repo), repo, week, stamp, Completeness(repo, today, outcome), today)
      BY <1>2, <3>1, PulledIsTrue
    <3>3. QED BY <3>2 DEF FromPull
  <2>2. row.complete = Completeness(repo, today, outcome)
    BY <1>6 DEF SyncRepo
  <2>3. Vouches(jobs'[w], d)
    BY <1>1, <1>3, <1>4, <2>1, <2>2 DEF Vouches, ToPull
  <2>4. ASSUME NEW o \in Workers \ {w} PROVE Vouches(jobs'[o], d)
    <3>1. jobs'[o] = jobs[o] /\ (jobs[o].pc # "idle" => jobs[o].stamp # stamp)
      BY <1>1 DEF StampsInv
    <3>2. QED BY <2>1, <3>1 DEF Vouches
  <2>5. \A o \in Workers : Vouches(jobs'[o], d)
    BY <2>3, <2>4
  <2>6. QED BY <1>1, <2>1, <2>5 DEF Sound
<1>8. today' = today /\ Stamp' = Stamp
  BY DEF Stamp
<1>9. QED BY <1>7, <1>8 DEF SoundRow

\* A fold's documents are of the rows staged.
LEMMA DocumentsAreOfRows ==
    ASSUME NEW rows, GoodRows(rows)
    PROVE  /\ \A i \in DOMAIN Documents(rows) : \E row \in Range(rows) : Documents(rows)[i] \in DocumentsForRow(row)
           /\ \A row \in Range(rows) : \A d \in DocumentsForRow(row) : \E i \in DOMAIN Documents(rows) : Documents(rows)[i] = d
<1> DEFINE lists == [n \in DOMAIN rows |-> SetToSeq(DocumentsForRow(rows[n]))]
<1>1. SomeSeq(lists) /\ DOMAIN lists = DOMAIN rows
  BY SameDomainIsASeq DEF GoodRows
<1>2. ASSUME NEW n \in DOMAIN rows PROVE SomeSeq(lists[n]) /\ Range(lists[n]) = DocumentsForRow(rows[n])
  <2>1. IsFiniteSet(DocumentsForRow(rows[n]))
    <3> DEFINE row == rows[n]
               made == [p \in row.projects |->
                  [project |-> p, repo |-> row.repo, gitea |-> row.gitea, week |-> WeekOf(row.since), until |-> row.until,
                   synced |-> row.synced, metric |-> row.metric, team_size |-> row.team_size, complete |-> row.complete]]
    <3>1. DocumentsForRow(row) = {made[p] : p \in row.projects}
      BY DEF DocumentsForRow
    <3>2. IsFiniteSet(row.projects)
      BY DEF GoodRows, GoodRow, Range
    <3> HIDE DEF made
    <3>3. QED BY <3>1, <3>2, FiniteImage
  <2>2. QED BY <2>1, SetToSeqLists DEF SomeSeq
<1>3. Documents(rows) = FlattenSeq(lists)
  BY DEF Documents
<1> HIDE DEF lists
<1>4. /\ \A x \in Range(FlattenSeq(lists)) : \E n \in DOMAIN lists : x \in Range(lists[n])
      /\ \A n \in DOMAIN lists : Range(lists[n]) \subseteq Range(FlattenSeq(lists))
  BY <1>1, <1>2, FlattenIsASeq
<1>5. \A n \in DOMAIN rows : rows[n] \in Range(rows)
  BY DEF Range
<1>6. ASSUME NEW i \in DOMAIN Documents(rows) PROVE \E row \in Range(rows) : Documents(rows)[i] \in DocumentsForRow(row)
  <2>1. Documents(rows)[i] \in Range(FlattenSeq(lists))
    BY <1>3 DEF Range
  <2>2. QED BY <1>1, <1>2, <1>4, <1>5, <2>1
<1>7. ASSUME NEW row \in Range(rows), NEW d \in DocumentsForRow(row)
      PROVE  \E i \in DOMAIN Documents(rows) : Documents(rows)[i] = d
  <2>1. PICK n \in DOMAIN rows : row = rows[n]
    BY DEF Range
  <2>2. d \in Range(FlattenSeq(lists))
    BY <1>1, <1>2, <1>4, <2>1
  <2>3. QED BY <1>3, <2>2 DEF Range
<1>8. QED BY <1>6, <1>7

\* The row written for a document has all that is asked of it.
LEMMA WrittenIsSound ==
    ASSUME NEW job, NEW document, "id" \notin DOMAIN document, NEW day, NEW stamp, NEW work, Sound(document, day, stamp, work)
    PROVE  Sound(RowFor(job, document), day, stamp, work)
<1> DEFINE id == IF ActivityKey(document) \in DOMAIN job.known THEN job.known[ActivityKey(document)].id ELSE job.stamp
           row == RowFor(job, document)
<1>1. row = [f \in DOMAIN document \cup {"id"} |-> IF f = "id" THEN id ELSE document[f]]
  BY Zenon DEF RowFor
<1> HIDE DEF id, row
<1>2. Columns \subseteq DOMAIN document
  BY DEF Sound
<1>3. /\ Columns \subseteq DOMAIN row /\ row.synced = document.synced /\ row.complete = document.complete
      /\ row.gitea = document.gitea /\ row.week = document.week /\ row.until = document.until /\ row.metric = document.metric
  BY <1>1, <1>2 DEF Columns
<1>4. TrueBy(row, day) = TrueBy(document, day)
  BY <1>3, Zenon DEF TrueBy
<1>5. \A w \in Workers : Vouches(work[w], document) => Vouches(work[w], row)
  BY <1>3, Zenon DEF Vouches
<1>6. QED BY <1>3, <1>4, <1>5 DEF Sound, row

\* A job that reports "ok" had nothing but "ok" to report.
LEMMA OkIsAllOk ==
    ASSUME NEW job, IsOk(job)
    PROVE  job.team = "ok" /\ \A status \in Range(job.statuses) : status = "ok"
<1>1. ASSUME NEW statuses, MergeStatus(statuses) = "ok" PROVE \A status \in Range(statuses) : status = "ok"
  BY <1>1 DEF MergeStatus
<1> DEFINE both == <<job.team, MergeStatus(job.statuses)>>
<1>2. MergeStatus(both) = "ok"
  BY DEF IsOk, ReportedStatus
<1>3. \A status \in Range(both) : status = "ok"
  BY <1>1, <1>2
<1>4. job.team \in Range(both) /\ MergeStatus(job.statuses) \in Range(both)
  <2>1. 1 \in DOMAIN both /\ 2 \in DOMAIN both /\ both[1] = job.team /\ both[2] = MergeStatus(job.statuses)
    OBVIOUS
  <2> HIDE DEF both
  <2>2. QED BY <2>1, Zenon DEF Range
<1>5. QED BY <1>1, <1>3, <1>4

LEMMA PullTeamsKeepsRows ==
    ASSUME Buffers, NEW w \in Workers, NEW pull, PullTeams(w, pull)
    PROVE  \A p \in Processes : staged'[p].rows = staged[p].rows
<1> DEFINE p == ProcessOf[w]
           sizes == SizesAfter(staged[p].sizes, SyncTeams(Directory, pull).rows)
<1>1. staged' = [staged EXCEPT ![p] = [staged[p] EXCEPT !.sizes = sizes]]
  BY Zenon DEF PullTeams
<1> HIDE DEF sizes, p
<1>2. \A q \in Processes : staged[q] = [rows |-> staged[q].rows, sizes |-> staged[q].sizes]
  BY DEF Buffers
<1>3. \A q \in Processes : staged'[q] = staged[q] \/ staged'[q] = [staged[q] EXCEPT !.sizes = sizes]
  BY <1>1 DEF Buffers
<1>4. ASSUME NEW q \in Processes PROVE [staged[q] EXCEPT !.sizes = sizes].rows = staged[q].rows
  BY <1>2
<1>5. QED BY <1>3, <1>4

LEMMA SoundHolds == PipelineSpec => []SoundInv
<1>1. PipelineInit => SoundInv
  <2>1. Range(<<>>) = {} /\ DOMAIN <<>> = {}
    BY DEF Range
  <2>2. QED BY <2>1, NoJobIsJob DEF PipelineInit, SoundInv, Folding
<1>2. /\ JobsAreJobs /\ ClockInv /\ ClockInv' /\ StampsInv /\ Buffers /\ PullsInv /\ FoldsInv /\ ComingInv /\ SoundInv
      /\ [PipelineNext]_pipelineVars
      => SoundInv'
  <2> SUFFICES ASSUME JobsAreJobs, ClockInv, ClockInv', StampsInv, Buffers, PullsInv, FoldsInv, ComingInv, SoundInv,
                      [PipelineNext]_pipelineVars
               PROVE  SoundInv'
    OBVIOUS
  <2> DEFINE On(d) == Sound(d, today', Stamp', jobs')
             OnRow(row) == SoundRow(row, today', Stamp', jobs')
  <2>1. /\ \A p \in Processes : \A row \in Range(staged[p].rows) : OnRow(row)
        /\ \A w \in Workers : Folding(w) => \A i \in DOMAIN jobs[w].documents : On(jobs[w].documents[i])
        /\ \A i \in DOMAIN activity : On(activity[i])
    BY SoundLasts, SoundRowsLast DEF SoundInv
  <2> HIDE DEF On, OnRow
  <2>2. ASSUME \A p \in Processes : \A row \in Range(staged'[p].rows) : OnRow(row),
               \A w \in Workers : jobs'[w].pc = "write" => \A i \in DOMAIN jobs'[w].documents : On(jobs'[w].documents[i]),
               \A i \in DOMAIN activity' : On(activity'[i])
        PROVE  SoundInv'
    BY <2>2 DEF SoundInv, Folding, On, OnRow
  <2>3. ASSUME UNCHANGED staged PROVE \A p \in Processes : \A row \in Range(staged'[p].rows) : OnRow(row)
    BY <2>1, <2>3
  <2>4. ASSUME \A w \in Workers : jobs'[w].pc # "write" \/ (Folding(w) /\ jobs'[w].documents = jobs[w].documents)
        PROVE  \A w \in Workers : jobs'[w].pc = "write" => \A i \in DOMAIN jobs'[w].documents : On(jobs'[w].documents[i])
    BY <2>1, <2>4
  <2>5. ASSUME UNCHANGED activity PROVE \A i \in DOMAIN activity' : On(activity'[i])
    BY <2>1, <2>5
  <2>6. ASSUME NEW w \in Workers, NEW fault \in Faults, SyncTonight(w, fault) PROVE SoundInv'
    <3>1. UNCHANGED <<today, started, activity>> /\ jobs[w].pc = "sync"
      BY <2>6, Zenon DEF SyncTonight, stores
    <3>2. jobs'[w].pc = "fold" /\ \A o \in Workers \ {w} : jobs'[o] = jobs[o]
      BY <2>6, SyncTonightMoves DEF Moves
    <3>3. /\ ProcessOf[w] \in Processes
          /\ \A p \in Processes \ {ProcessOf[w]} : staged'[p] = staged[p]
          /\ \A row \in Range(staged'[ProcessOf[w]].rows) :
                \/ row \in Range(staged[ProcessOf[w]].rows)
                \/ \E a \in DOMAIN jobs[w].adapters, i \in DOMAIN jobs[w].weeks : row \in TonightsPull(jobs[w], a, i, fault).rows
          /\ \A a \in DOMAIN jobs[w].adapters, i \in DOMAIN jobs[w].weeks :
                TonightsPull(jobs[w], a, i, fault).status \in Range(jobs'[w].statuses)
      BY <2>6, TonightAdds
    <3>4. ASSUME NEW a \in DOMAIN jobs[w].adapters, NEW i \in DOMAIN jobs[w].weeks,
                 NEW row \in TonightsPull(jobs[w], a, i, fault).rows
          PROVE  OnRow(row)
      <4> DEFINE week == jobs[w].weeks[i]
                 window == NightlyWindow(week, DayOf(jobs[w].stamp))
                 adapter == jobs[w].adapters[a]
      <4>1. week \in Nat
        <5>1. jobs[w].weeks \in Seq(Nat)
          BY <3>1 DEF ComingInv, ToPull
        <5>2. jobs[w].weeks[i] \in Nat
          BY <5>1
        <5>3. QED BY <5>2
      <4>2. window.since = FirstDay(week)
        BY DEF NightlyWindow
      <4>3. TonightsPull(jobs[w], a, i, fault) = Pull(adapter, week, window, jobs[w].stamp, fault)
        BY Zenon DEF TonightsPull
      <4> HIDE DEF week, window, adapter
      <4>4. jobs'[w].pc \notin ToPull
        BY <3>2 DEF ToPull
      <4>5. IsOk(jobs'[w]) => Pull(adapter, week, window, jobs[w].stamp, fault).status = "ok"
        BY <3>3, <4>3, OkIsAllOk
      <4>6. row \in Pull(adapter, week, window, jobs[w].stamp, fault).rows
        BY <4>3
      <4>7. QED BY <3>1, <3>2, <4>1, <4>2, <4>4, <4>5, <4>6, PulledIsSound DEF OnRow
    <3>5. \A p \in Processes : \A row \in Range(staged'[p].rows) : OnRow(row)
      BY <2>1, <3>3, <3>4
    <3>6. \A o \in Workers : jobs'[o].pc # "write" \/ (Folding(o) /\ jobs'[o].documents = jobs[o].documents)
      BY <3>2 DEF Folding
    <3>7. QED BY <2>2, <2>4, <2>5, <3>1, <3>5, <3>6
  <2>7. ASSUME NEW w \in Workers, NEW fault \in Faults, SyncPastWeek(w, fault) PROVE SoundInv'
    <3>1. UNCHANGED <<today, started, activity>> /\ jobs[w].pc = "pull"
      BY <2>7, Zenon DEF SyncPastWeek, stores
    <3>2. jobs'[w].pc # "write" /\ jobs'[w].kind = jobs[w].kind /\ \A o \in Workers \ {w} : jobs'[o] = jobs[o]
      BY <2>7, SyncPastWeekMoves, Fields DEF Moves, SameBut
    <3>3. /\ ProcessOf[w] \in Processes
          /\ \A p \in Processes \ {ProcessOf[w]} : staged'[p] = staged[p]
          /\ \A row \in Range(staged'[ProcessOf[w]].rows) :
                row \in Range(staged[ProcessOf[w]].rows) \/ \E a \in DOMAIN Orgs : row \in PastPull(w, a, fault).rows
      BY <2>7, PastWeekAdds
    <3>4. jobs'[w].kind # "nightly" /\ Head(jobs[w].weeks) \in Nat
      BY <3>1, <3>2, HeadAndTail DEF ComingInv
    <3>5. ASSUME NEW a \in DOMAIN Orgs, NEW row \in PastPull(w, a, fault).rows PROVE OnRow(row)
      <4> DEFINE week == Head(jobs[w].weeks)
                 window == BackfillWindow(week)
                 adapter == BuildAdapters(staged[ProcessOf[w]].sizes, FirstDay(week))[a]
      <4>1. week \in Nat
        BY <3>4
      <4>2. window.since = FirstDay(week)
        BY DEF BackfillWindow
      <4>3. row \in Pull(adapter, week, window, jobs[w].stamp, fault).rows
        BY <3>5, Zenon DEF PastPull
      <4> HIDE DEF week, window, adapter
      <4>4. QED BY <3>1, <3>2, <3>4, <4>1, <4>2, <4>3, PulledIsSound DEF OnRow
    <3>6. \A p \in Processes : \A row \in Range(staged'[p].rows) : OnRow(row)
      BY <2>1, <3>3, <3>5
    <3>7. \A o \in Workers : jobs'[o].pc # "write" \/ (Folding(o) /\ jobs'[o].documents = jobs[o].documents)
      BY <3>2 DEF Folding
    <3>8. QED BY <2>2, <2>4, <2>5, <3>1, <3>6, <3>7
  <2>8. ASSUME NEW w \in Workers, FoldReads(w) PROVE SoundInv'
    <3>1. UNCHANGED <<staged, activity>>
      BY <2>8, Zenon DEF FoldReads, stores
    <3>2. /\ jobs'[w].documents = Documents(staged[ProcessOf[w]].rows)
          /\ \A o \in Workers \ {w} : jobs'[o].pc = jobs[o].pc /\ jobs'[o].documents = jobs[o].documents
      BY <2>8, FoldReadsMoves
    <3>3. ProcessOf[w] \in Processes
      BY PipelineAssumption DEF Processes, Range
    <3>4. \A row \in Range(staged[ProcessOf[w]].rows) : \A d \in DocumentsForRow(row) : On(d)
      BY <2>1, <3>3 DEF OnRow, On, SoundRow
    <3>5. \A i \in DOMAIN jobs'[w].documents : On(jobs'[w].documents[i])
      BY <3>2, <3>3, <3>4, DocumentsAreOfRows DEF Buffers
    <3>6. \A o \in Workers : jobs'[o].pc = "write" => \A i \in DOMAIN jobs'[o].documents : On(jobs'[o].documents[i])
      BY <2>1, <3>2, <3>5 DEF Folding
    <3>7. QED BY <2>2, <2>3, <2>5, <3>1, <3>6
  <2>9. ASSUME NEW w \in Workers, FoldWrites(w) PROVE SoundInv'
    <3>1. UNCHANGED staged
      BY <2>9, Zenon DEF FoldWrites
    <3>2. /\ Folding(w) /\ \A o \in Workers \ {w} : jobs'[o] = jobs[o]
          /\ \A i \in DOMAIN jobs'[w].documents :
                i \in DOMAIN jobs[w].documents /\ jobs'[w].documents[i] = jobs[w].documents[i]
      BY <2>9, WriteFacts DEF FoldsInv
    <3>3. PICK row : Takes(w, row) /\ (Appends(w, row) \/ Refreshes(w, row))
      BY <2>9, WriteFacts DEF FoldsInv
    <3>4. PICK i \in DOMAIN jobs[w].documents : row = RowFor(jobs[w], jobs[w].documents[i]) /\ IsDocument(jobs[w].documents[i])
      BY <3>3 DEF Takes
    <3>5. On(row)
      BY <2>1, <3>2, <3>4, WrittenIsSound DEF IsDocument, On
    <3>6. \A k \in DOMAIN activity' : activity'[k] = row \/ (k \in DOMAIN activity /\ activity'[k] = activity[k])
      <4>1. CASE Appends(w, row)
        BY <4>1, <3>2, AppendFacts DEF FoldsInv
      <4>2. CASE Refreshes(w, row)
        BY <4>2, <3>2, RefreshFacts DEF FoldsInv
      <4>3. QED BY <3>3, <4>1, <4>2
    <3>7. \A k \in DOMAIN activity' : On(activity'[k])
      BY <2>1, <3>5, <3>6
    <3>8. \A o \in Workers : jobs'[o].pc = "write" => \A k \in DOMAIN jobs'[o].documents : On(jobs'[o].documents[k])
      BY <2>1, <3>2 DEF Folding
    <3>9. QED BY <2>2, <2>3, <3>1, <3>7, <3>8
  <2>10. ASSUME NEW w \in Workers, NEW kind, NEW version, Start(w, kind, version) PROVE SoundInv'
    <3>1. UNCHANGED <<staged, activity>>
      BY <2>10, Zenon DEF Start, stores
    <3>2. jobs'[w].pc # "write" /\ \A o \in Workers \ {w} : jobs'[o] = jobs[o]
      BY <2>10, StartMoves DEF Moves
    <3>3. \A o \in Workers : jobs'[o].pc # "write" \/ (Folding(o) /\ jobs'[o].documents = jobs[o].documents)
      BY <3>2 DEF Folding
    <3>4. QED BY <2>2, <2>3, <2>4, <2>5, <3>1, <3>3
  <2>11. ASSUME NEW w \in Workers, NEW pull, PullTeams(w, pull) PROVE SoundInv'
    <3>0. UNCHANGED activity
      BY <2>11, Zenon DEF PullTeams, stores
    <3>1. UNCHANGED activity /\ \A p \in Processes : staged'[p].rows = staged[p].rows
      BY <2>11, <3>0, PullTeamsKeepsRows
    <3>2. jobs'[w].pc # "write" /\ \A o \in Workers \ {w} : jobs'[o] = jobs[o]
      BY <2>11, PullTeamsMoves DEF Moves
    <3>3. \A o \in Workers : jobs'[o].pc # "write" \/ (Folding(o) /\ jobs'[o].documents = jobs[o].documents)
      BY <3>2 DEF Folding
    <3>4. \A p \in Processes : \A row \in Range(staged'[p].rows) : OnRow(row)
      BY <2>1, <3>1
    <3>5. QED BY <2>2, <2>4, <2>5, <3>1, <3>3, <3>4
  <2>12. ASSUME NEW w \in Workers, ResolveForTonight(w) \/ FoldEnds(w) \/ ReadActivity(w) \/ ReadSnapshots(w)
                 \/ JudgeProject(w) \/ SaveWarning(w) \/ SaveSnapshot(w) \/ WeekEnds(w)
         PROVE  SoundInv'
    <3>1. UNCHANGED <<staged, activity>>
      BY <2>12, Zenon DEF ResolveForTonight, FoldEnds, ReadActivity, ReadSnapshots, JudgeProject, SaveWarning,
                         SaveSnapshot, WeekEnds, stores
    <3>2. jobs'[w].pc # "write" /\ \A o \in Workers \ {w} : jobs'[o] = jobs[o]
      BY <2>12, ResolveMoves, FoldEndsMoves, ReadActivityMoves, ReadSnapshotsMoves, JudgeMoves, SaveWarningMoves,
         SaveSnapshotMoves, WeekEndsMoves DEF Moves
    <3>3. \A o \in Workers : jobs'[o].pc # "write" \/ (Folding(o) /\ jobs'[o].documents = jobs[o].documents)
      BY <3>2 DEF Folding
    <3>4. QED BY <2>2, <2>3, <2>4, <2>5, <3>1, <3>3
  <2>13. ASSUME NEW p, Crash(p) PROVE SoundInv'
    <3>1. UNCHANGED activity /\ staged' = [staged EXCEPT ![p] = [rows |-> <<>>, sizes |-> <<>>]]
      BY <2>13, Zenon DEF Crash, stores
    <3>2. \A q \in Processes : staged'[q] = staged[q] \/ staged'[q].rows = <<>>
      BY <3>1 DEF Buffers
    <3>3. Range(<<>>) = {}
      BY DEF Range
    <3>4. \A q \in Processes : \A row \in Range(staged'[q].rows) : OnRow(row)
      BY <2>1, <3>2, <3>3
    <3>5. \A o \in Workers : jobs'[o].pc # "write" \/ (Folding(o) /\ jobs'[o].documents = jobs[o].documents)
      BY <2>13, CrashMoves, NoJobIsJob DEF Folding
    <3>6. QED BY <2>2, <2>4, <2>5, <3>1, <3>4, <3>5
  <2>14. CASE Tomorrow \/ UNCHANGED pipelineVars
    <3>1. UNCHANGED <<jobs, activity, staged>>
      BY <2>14, QuietMoves DEF stores
    <3>2. \A o \in Workers : jobs'[o].pc # "write" \/ (Folding(o) /\ jobs'[o].documents = jobs[o].documents)
      BY <3>1 DEF Folding
    <3>3. QED BY <2>2, <2>3, <2>4, <2>5, <3>1, <3>2
  <2>15. QED BY <2>6, <2>7, <2>8, <2>9, <2>10, <2>11, <2>12, <2>13, <2>14, StepCases
<1>3. QED BY <1>1, <1>2, JobsHold, ClockHolds, StampsHold, BuffersHold, FoldsHold, ComingHolds, PTL DEF PipelineSpec

-------------------------------------------------------------------------------
(* Scored weeks rest on complete rows *)

\* A row as a judgement may find it, and a snapshot, scored or not.
Reads(r, day) == r.complete \in {75, 100} /\ (r.complete = 100 => TrueBy(r, day))
SawAll(s, day) == s.status \in {"clear", "watch", "at_risk"} => \A r \in s.seen : TrueBy(r, day)

SightInv ==
    /\ \A w \in Workers : jobs[w].pc \in {"keys", "judge", "save"} => \A r \in jobs[w].rows : Reads(r, today)
    /\ \A w \in Workers : jobs[w].pc = "save" => SawAll(Head(jobs[w].draft), today)
    /\ \A s \in snapshots : SawAll(s, today)

\* A verdict other than a suppressed one says that the current week is complete enough.
LEMMA ScoresAreComplete ==
    ASSUME NEW rows, NEW project, NEW week,
           JudgeWeek(rows, project, week).status \in {"clear", "watch", "at_risk"}
    PROVE  CompleteEnough(RuleInput(rows, project.id, project.lifecycle, week).current)
<1> DEFINE input == RuleInput(rows, project.id, project.lifecycle, week)
           current == input.current
           results == EvaluateMvpRules(input)
           decision == ScoringDecision(project, week)
<1>1. JudgeWeek(rows, project, week) = Decided(input, results, decision)
  BY Zenon DEF JudgeWeek
<1>2. decision \in {"insufficient_data", "planned_pause", "score"}
  BY Zenon DEF ScoringDecision
<1> HIDE DEF results, decision
<1>3. Decided(input, results, decision).status = IF decision = "score" THEN StatusForResults(results, current) ELSE decision
  BY Zenon DEF Decided, Verdict
<1>4. StatusForResults(results, current) \in {"clear", "watch", "at_risk"}
  BY <1>1, <1>2, <1>3
<1>5. CompleteEnough(current)
  <2> SUFFICES ASSUME ~CompleteEnough(current) PROVE FALSE
    OBVIOUS
  <2>1. StatusForResults(results, current) = "insufficient_data"
    BY DEF StatusForResults
  <2>2. QED BY <1>4, <2>1
<1>6. QED BY <1>5 DEF current

\* The current week is as complete as the least complete of the rows behind it.
LEMMA CurrentIsOfItsRows ==
    ASSUME NEW rows, NEW project, NEW lifecycle, NEW week,
           NEW seen, seen = {r \in rows : r.project = project /\ r.week = week}, seen # {}
    PROVE  CompleteEnough(RuleInput(rows, project, lifecycle, week).current)
              => Min({r.complete : r \in seen}) >= 80
<1> DEFINE own == {r \in rows : r.project = project}
           history == HistoryByProject(rows, project)
           current == RuleInput(rows, project, lifecycle, week).current
<1>1. week \in {r.week : r \in own} /\ seen = {r \in own : r.week = week}
  OBVIOUS
<1>2. /\ DOMAIN history = {r.week : r \in own}
      /\ \A v \in {r.week : r \in own} : history[v] = Combine(project, v, {r \in own : r.week = v})
  BY Zenon DEF HistoryByProject
<1>3. week \in DOMAIN history /\ history[week] = Combine(project, week, seen)
  BY <1>1, <1>2
<1> HIDE DEF own
<1>4. current = IF week \in DOMAIN UpTo(history, week) THEN UpTo(history, week)[week] ELSE Placeholder(project, week)
  BY Zenon DEF RuleInput, InputFrom
<1> HIDE DEF history, current
<1>5. week \in DOMAIN UpTo(history, week) => UpTo(history, week)[week] = history[week]
  BY Zenon DEF UpTo, Restrict
<1>6. Placeholder(project, week).complete = 0
  BY DEF Placeholder
<1>7. Combine(project, week, seen).complete = Min({r.complete : r \in seen})
  BY Zenon DEF Combine
<1>8. current.complete = Min({r.complete : r \in seen}) \/ current.complete = 0
  BY <1>3, <1>4, <1>5, <1>6, <1>7
<1>9. QED BY <1>8 DEF CompleteEnough, current

LEMMA DraftSawAll ==
    ASSUME NEW job, NEW project, NEW week, NEW day, \A r \in job.rows : Reads(r, day)
    PROVE  SawAll(DraftOf(job, project, week), day)
<1> DEFINE seen == {r \in job.rows : r.project = project.id /\ r.week = week}
<1>1. /\ DraftOf(job, project, week).status = JudgeWeek(job.rows, project, week).status
      /\ DraftOf(job, project, week).seen = seen
  BY Zenon DEF DraftOf
<1>2. SUFFICES ASSUME JudgeWeek(job.rows, project, week).status \in {"clear", "watch", "at_risk"}, NEW r \in seen
               PROVE  TrueBy(r, day)
  BY <1>1 DEF SawAll
<1>3. Min({x.complete : x \in seen}) >= 80
  <2>1. CompleteEnough(RuleInput(job.rows, project.id, project.lifecycle, week).current)
    BY <1>2, ScoresAreComplete
  <2>2. PICK those : those = seen
    OBVIOUS
  <2>3. those # {}
    BY <1>2, <2>2
  <2>4. Min({x.complete : x \in those}) >= 80
    BY <2>1, <2>2, <2>3, CurrentIsOfItsRows
  <2>5. QED BY <2>2, <2>4
<1>4. {x.complete : x \in seen} \subseteq {75, 100} /\ r.complete \in {x.complete : x \in seen}
  BY DEF Reads
<1>5. Min({x.complete : x \in seen}) <= r.complete /\ Min({x.complete : x \in seen}) \in {75, 100}
  <2> DEFINE all == {x.complete : x \in seen}
  <2>1. all \subseteq Nat /\ all # {} /\ all \subseteq {75, 100} /\ r.complete \in all
    BY <1>4
  <2> HIDE DEF all
  <2>2. Min(all) <= r.complete /\ Min(all) \in all
    BY <2>1, LeastIsOfThem
  <2>3. Min(all) <= r.complete /\ Min(all) \in {75, 100}
    BY <2>1, <2>2
  <2>4. QED BY <2>3 DEF all
<1>6. r.complete = 100
  BY <1>3, <1>4, <1>5
<1>7. QED BY <1>6 DEF Reads

LEMMA SightLasts ==
    ASSUME NEW day \in Nat, NEW later \in Nat, day <= later
    PROVE  /\ \A r : Reads(r, day) => Reads(r, later)
           /\ \A s : SawAll(s, day) => SawAll(s, later)
BY TruthLasts DEF Reads, SawAll

LEMMA SightHolds == PipelineSpec => []SightInv
<1>1. PipelineInit => SightInv
  BY NoJobIsJob DEF PipelineInit, SightInv
<1>2. JobsAreJobs /\ ClockInv /\ ClockInv' /\ SoundInv /\ SightInv /\ [PipelineNext]_pipelineVars => SightInv'
  <2> SUFFICES ASSUME JobsAreJobs, ClockInv, ClockInv', SoundInv, SightInv, [PipelineNext]_pipelineVars
               PROVE  SightInv'
    OBVIOUS
  <2> DEFINE OnRow(r) == Reads(r, today')
             On(s) == SawAll(s, today')
  <2>1. /\ \A w \in Workers : jobs[w].pc \in {"keys", "judge", "save"} => \A r \in jobs[w].rows : OnRow(r)
        /\ \A w \in Workers : jobs[w].pc = "save" => On(Head(jobs[w].draft))
        /\ \A s \in snapshots : On(s)
        /\ \A r \in RowsOnFile : OnRow(r)
    <3>1. today \in Nat /\ today' \in Nat /\ today <= today'
      BY StampGrows
    <3>2. (\A r : Reads(r, today) => OnRow(r)) /\ (\A s : SawAll(s, today) => On(s))
      BY <3>1, SightLasts
    <3>3. \A r \in RowsOnFile : Reads(r, today)
      BY DEF RowsOnFile, Range, SoundInv, Sound, Reads
    <3> HIDE DEF OnRow, On
    <3>4. QED BY <3>2, <3>3 DEF SightInv
  <2> HIDE DEF OnRow, On
  <2>2. ASSUME \A w \in Workers : jobs'[w].pc \in {"keys", "judge", "save"} => \A r \in jobs'[w].rows : OnRow(r),
               \A w \in Workers : jobs'[w].pc = "save" => On(Head(jobs'[w].draft)),
               \A s \in snapshots' : On(s)
        PROVE  SightInv'
    BY <2>2 DEF SightInv, On, OnRow
  <2>3. ASSUME UNCHANGED snapshots,
               \A w \in Workers :
                  \/ jobs'[w].pc \notin {"keys", "judge", "save"}
                  \/ jobs'[w].pc = jobs[w].pc /\ jobs'[w].rows = jobs[w].rows /\ jobs'[w].draft = jobs[w].draft
        PROVE  SightInv'
    BY <2>1, <2>2, <2>3
  <2>4. ASSUME NEW w \in Workers, NEW kind, NEW version, Start(w, kind, version) PROVE SightInv'
    BY <2>3, <2>4, StartMoves DEF Moves, Start, stores
  <2>5. ASSUME NEW w \in Workers, NEW x, PullTeams(w, x) \/ SyncTonight(w, x) \/ SyncPastWeek(w, x) PROVE SightInv'
    <3>1. UNCHANGED snapshots
      BY <2>5, Zenon DEF PullTeams, SyncTonight, SyncPastWeek, stores
    <3>2. QED BY <2>3, <2>5, <3>1, PullTeamsMoves, SyncTonightMoves, SyncPastWeekMoves DEF Moves
  <2>6. ASSUME NEW w \in Workers, FoldReads(w) PROVE SightInv'
    <3>1. UNCHANGED snapshots
      BY <2>6, Zenon DEF FoldReads, stores
    <3>2. /\ jobs'[w].pc = "write"
          /\ \A o \in Workers \ {w} : jobs'[o].pc = jobs[o].pc /\ jobs'[o].rows = jobs[o].rows /\ jobs'[o].draft = jobs[o].draft
      BY <2>6, FoldReadsMoves, Fields DEF SameBut
    <3>3. QED BY <2>3, <3>1, <3>2
  <2>7. ASSUME NEW w \in Workers, ResolveForTonight(w) \/ FoldWrites(w) \/ FoldEnds(w) \/ WeekEnds(w) PROVE SightInv'
    <3>1. UNCHANGED snapshots
      BY <2>7, Zenon DEF ResolveForTonight, FoldWrites, FoldEnds, WeekEnds, stores
    <3>2. jobs'[w].pc \notin {"keys", "judge", "save"} /\ \A o \in Workers \ {w} : jobs'[o] = jobs[o]
      BY <2>7, ResolveMoves, FoldWritesMoves, FoldEndsMoves, WeekEndsMoves DEF Moves
    <3>3. QED BY <2>3, <3>1, <3>2
  <2>8. ASSUME NEW w \in Workers, ReadActivity(w) PROVE SightInv'
    <3>1. UNCHANGED snapshots
      BY <2>8, Zenon DEF ReadActivity, stores
    <3>2. jobs'[w].pc = "keys" /\ jobs'[w].rows = RowsOnFile /\ \A o \in Workers \ {w} : jobs'[o] = jobs[o]
      BY <2>8, ReadActivityMoves DEF Moves
    <3>3. QED BY <2>1, <2>2, <3>1, <3>2
  <2>9. ASSUME NEW w \in Workers, ReadSnapshots(w) PROVE SightInv'
    <3>1. UNCHANGED snapshots /\ jobs[w].pc = "keys"
      BY <2>9, Zenon DEF ReadSnapshots, stores
    <3>2. jobs'[w].pc = "judge" /\ jobs'[w].rows = jobs[w].rows /\ \A o \in Workers \ {w} : jobs'[o] = jobs[o]
      BY <2>9, ReadSnapshotsMoves, Fields DEF Moves, SameBut
    <3>3. QED BY <2>1, <2>2, <3>1, <3>2
  <2>10. ASSUME NEW w \in Workers, JudgeProject(w) PROVE SightInv'
    <3>1. UNCHANGED snapshots /\ jobs[w].pc = "judge"
      BY <2>10, Zenon DEF JudgeProject, stores
    <3>2. jobs'[w].pc = "save" /\ jobs'[w].rows = jobs[w].rows /\ \A o \in Workers \ {w} : jobs'[o] = jobs[o]
      BY <2>10, JudgeMoves, Fields DEF Moves, SameBut
    <3>3. PICK i \in jobs[w].left : jobs'[w].draft = <<DraftOf(jobs[w], Projects[i], Week(w))>>
      BY <2>10, JudgeMoves
    <3>4. On(Head(jobs'[w].draft))
      <4>1. \A r \in jobs[w].rows : Reads(r, today')
        BY <2>1, <3>1 DEF OnRow
      <4>2. PICK draft : draft = DraftOf(jobs[w], Projects[i], Week(w)) /\ SawAll(draft, today')
        BY <4>1, DraftSawAll
      <4>3. Head(jobs'[w].draft) = draft
        BY <3>3, <4>2
      <4>4. QED BY <4>2, <4>3 DEF On
    <3>5. QED BY <2>1, <2>2, <3>1, <3>2, <3>4
  <2>11. ASSUME NEW w \in Workers, SaveWarning(w) PROVE SightInv'
    <3>1. UNCHANGED snapshots
      BY <2>11, Zenon DEF SaveWarning
    <3>2. /\ jobs'[w].pc = jobs[w].pc /\ jobs'[w].rows = jobs[w].rows /\ jobs'[w].draft = jobs[w].draft
          /\ \A o \in Workers \ {w} : jobs'[o] = jobs[o]
      BY <2>11, SaveWarningMoves, Fields DEF Moves, SameBut
    <3>3. QED BY <2>3, <3>1, <3>2
  <2>12. ASSUME NEW w \in Workers, SaveSnapshot(w) PROVE SightInv'
    <3>1. jobs[w].pc = "save" /\ snapshots' \subseteq snapshots \cup {Head(jobs[w].draft)}
      BY <2>12, SaveSnapshotMoves
    <3>2. /\ jobs'[w].pc \in {"failed", "judge"} /\ jobs'[w].rows = jobs[w].rows
          /\ \A o \in Workers \ {w} : jobs'[o] = jobs[o]
      BY <2>12, SaveSnapshotMoves, Fields DEF Moves, SameBut
    <3>3. QED BY <2>1, <2>2, <3>1, <3>2
  <2>13. ASSUME NEW p, Crash(p) PROVE SightInv'
    <3>1. UNCHANGED snapshots
      BY <2>13, Zenon DEF Crash, stores
    <3>2. QED BY <2>3, <2>13, <3>1, CrashMoves, NoJobIsJob
  <2>14. CASE Tomorrow \/ UNCHANGED pipelineVars
    BY <2>3, <2>14, QuietMoves DEF stores
  <2>15. QED BY <2>4, <2>5, <2>6, <2>7, <2>8, <2>9, <2>10, <2>11, <2>12, <2>13, <2>14, StepCases
<1>3. QED BY <1>1, <1>2, JobsHold, ClockHolds, SoundHolds, PTL DEF PipelineSpec

\* A week that is scored rests on rows whose every number is what Gitea held when
\* it was asked: rows whose pull lost a fetch are there, and suppress the verdict.
THEOREM ScoresSawEverything == PipelineSpec => []ScoredWeeksSawEverything
<1>1. SightInv => ScoredWeeksSawEverything
  <2>1. \A r : TrueBy(r, today) => TrueNumbers(r)
    BY Zenon DEF TrueBy, TrueNumbers
  <2>2. QED BY <2>1 DEF SightInv, SawAll, ScoredWeeksSawEverything
<1>2. QED BY <1>1, SightHolds, PTL

-------------------------------------------------------------------------------
(* What a nightly that reports "ok" owes *)

\* A key of a row it is to leave on file.
IsOwed(job, key) ==
    \E repo \in {r \in Repos : r.org \in Range(Orgs)}, i \in DOMAIN job.weeks :
        \E p \in ProjectIds(BuildBoundaryResolver(Boundaries, DayOf(job.stamp)), repo) :
            key = <<p, repo.slug, job.weeks[i]>>
Promises(job) == job.kind = "nightly" /\ IsOk(job)

\* It is staged, then in hand or known to be on file, and what is known is there.
Answers(d, stamp, key) == ActivityKey(d) = key /\ d.synced = stamp
Offers(row, stamp, key) == \E d \in DocumentsForRow(row) : Answers(d, stamp, key)
StagedFor(job, rows) == \A key : IsOwed(job, key) => \E row \in Range(rows) : Offers(row, job.stamp, key)
Knowing(job, key) == key \in DOMAIN job.known /\ job.known[key].synced >= job.stamp
InHand(job, key) == \E i \in DOMAIN job.documents : Answers(job.documents[i], job.stamp, key)
HandsFull(job) == \A key : IsOwed(job, key) => InHand(job, key) \/ Knowing(job, key)
KnownRows(job, rows) ==
    \A key \in DOMAIN job.known : \E i \in DOMAIN rows : rows[i] = job.known[key] /\ ActivityKey(rows[i]) = key

OwedInv ==
    \A w \in Workers :
        /\ jobs[w].pc = "fold" /\ Promises(jobs[w]) => StagedFor(jobs[w], staged[ProcessOf[w]].rows)
        /\ Folding(w) /\ Promises(jobs[w]) => HandsFull(jobs[w])
        /\ Folding(w) /\ jobs[w].alone => KnownRows(jobs[w], activity)

LEMMA SamePromise ==
    ASSUME NEW job, NEW next, next.kind = job.kind, next.stamp = job.stamp, next.weeks = job.weeks,
           next.team = job.team, next.statuses = job.statuses
    PROVE  Promises(next) = Promises(job) /\ \A key : IsOwed(next, key) = IsOwed(job, key)
<1>1. Promises(next) = Promises(job)
  BY Zenon DEF Promises, IsOk, ReportedStatus
<1>2. ASSUME NEW key PROVE IsOwed(next, key) = IsOwed(job, key)
  BY Zenon DEF IsOwed
<1>3. QED BY <1>1, <1>2

\* The row of a repository has a document for each of its projects.
LEMMA PulledIsOwed ==
    ASSUME NEW adapter, NEW repo, NEW week \in Nat, NEW window, window.since = FirstDay(week), NEW stamp, NEW outcome,
           NEW p \in ProjectIds(adapter.boundary, repo)
    PROVE  Offers(SyncRepo(adapter, repo, window, today, stamp, outcome), stamp, <<p, repo.slug, week>>)
<1> DEFINE row == SyncRepo(adapter, repo, window, today, stamp, outcome)
           Made(o) == [project |-> o, repo |-> row.repo, gitea |-> row.gitea, week |-> WeekOf(row.since), until |-> row.until,
                       synced |-> row.synced, metric |-> row.metric, team_size |-> row.team_size, complete |-> row.complete]
<1>1. DocumentsForRow(row) = {Made(o) : o \in row.projects}
  BY Zenon DEF DocumentsForRow
<1>2. row.projects = ProjectIds(adapter.boundary, repo) /\ row.repo = repo.slug /\ row.since = window.since /\ row.synced = stamp
  BY Zenon DEF SyncRepo
<1> HIDE DEF row
<1>3. Made(p).project = p /\ Made(p).repo = repo.slug /\ Made(p).week = week /\ Made(p).synced = stamp
  BY <1>2, WeekOfItsFirstDay
<1>4. Made(p) \in DocumentsForRow(row)
  BY <1>1, <1>2
<1> HIDE DEF Made
<1>5. ActivityKey(Made(p)) = <<p, repo.slug, week>>
  BY <1>3 DEF ActivityKey
<1>6. QED BY <1>3, <1>4, <1>5 DEF row, Offers, Answers

\* A nightly whose pulls all went well has staged all it owes.
LEMMA TonightOwesNothing ==
    ASSUME JobsAreJobs, Buffers, PullsInv, ComingInv, NEW w \in Workers, NEW fault, SyncTonight(w, fault),
           IsOk(jobs'[w]), NEW key, IsOwed(jobs[w], key)
    PROVE  \E row \in Range(staged'[ProcessOf[w]].rows) : Offers(row, jobs[w].stamp, key)
<1> DEFINE job == jobs[w]
           resolver == BuildBoundaryResolver(Boundaries, DayOf(job.stamp))
<1>1. PICK repo \in {r \in Repos : r.org \in Range(Orgs)} : \E i \in DOMAIN job.weeks : \E p \in ProjectIds(resolver, repo) :
                key = <<p, repo.slug, job.weeks[i]>>
  BY Zenon DEF IsOwed
<1>2. PICK i \in DOMAIN job.weeks : \E p \in ProjectIds(resolver, repo) : key = <<p, repo.slug, job.weeks[i]>>
  BY <1>1
<1>3. PICK p \in ProjectIds(resolver, repo) : key = <<p, repo.slug, job.weeks[i]>>
  BY <1>2
<1> HIDE DEF resolver
<1>4. PICK a \in DOMAIN Orgs : repo.org = Orgs[a]
  BY <1>1 DEF Range
<1>5. job.pc = "sync"
  BY Zenon DEF SyncTonight
<1>6. PICK sizes : job.adapters = BuildAdapters(sizes, DayOf(job.stamp))
  BY <1>5 DEF ComingInv
<1>7. PICK adapter : /\ a \in DOMAIN job.adapters /\ adapter = job.adapters[a]
                     /\ adapter.org = Orgs[a] /\ adapter.boundary = resolver
  <2> DEFINE teams == BuildTeamSizeResolver(Boundaries, sizes, DayOf(job.stamp))
  <2>1. job.adapters = [n \in DOMAIN Orgs |-> [org |-> Orgs[n], boundary |-> resolver, sizes |-> teams]]
    BY <1>6, Zenon DEF BuildAdapters, resolver
  <2> HIDE DEF teams, job
  <2>2. a \in DOMAIN job.adapters /\ job.adapters[a] = [org |-> Orgs[a], boundary |-> resolver, sizes |-> teams]
    BY <2>1
  <2>3. QED BY <2>2
<1>8. PICK week \in Nat : week = job.weeks[i]
  <2>1. job.weeks \in Seq(Nat)
    BY <1>5 DEF ComingInv, ToPull
  <2>2. QED BY <2>1
<1>9. PICK window : window = NightlyWindow(week, DayOf(job.stamp))
  OBVIOUS
<1>10. window.since = FirstDay(week)
  BY <1>9 DEF NightlyWindow
<1>11. TonightsPull(job, a, i, fault) = Pull(adapter, week, window, job.stamp, fault)
  BY <1>7, <1>8, <1>9, Zenon DEF TonightsPull
<1>12. PICK result : result = Pull(adapter, week, window, job.stamp, fault)
  OBVIOUS
<1>13. result.status = "ok" /\ result.rows \subseteq Range(staged'[ProcessOf[w]].rows)
  <2>1. /\ TonightsPull(job, a, i, fault).rows \subseteq Range(staged'[ProcessOf[w]].rows)
        /\ TonightsPull(job, a, i, fault).status \in Range(jobs'[w].statuses)
    BY <1>7, TonightAdds
  <2>2. QED BY <1>11, <1>12, <2>1, OkIsAllOk
<1>14. PICK outcome : SyncRepo(adapter, repo, window, today, job.stamp, outcome) \in result.rows
  <2>1. repo \in {r \in Repos : r.org = adapter.org}
    BY <1>1, <1>4, <1>7
  <2>2. \A r \in {x \in Repos : x.org = adapter.org} : \E outcome :
           SyncRepo(adapter, r, window, today, job.stamp, outcome) \in result.rows
    BY <1>12, <1>13, PullStages
  <2>3. QED BY <2>1, <2>2
<1>15. Offers(SyncRepo(adapter, repo, window, today, job.stamp, outcome), job.stamp, key)
  <2>1. p \in ProjectIds(adapter.boundary, repo) /\ key = <<p, repo.slug, week>>
    BY <1>3, <1>7, <1>8
  <2>2. QED BY <1>10, <2>1, PulledIsOwed
<1>16. QED BY <1>13, <1>14, <1>15

\* A fold begins with all that was staged, and knows all that is on file.
LEMMA ReadsWhatIsOwed ==
    ASSUME NEW job, NEW next, NEW rows, GoodRows(rows), StagedFor(job, rows), next.documents = Documents(rows),
           next.stamp = job.stamp, \A key : IsOwed(next, key) = IsOwed(job, key)
    PROVE  HandsFull(next)
<1> SUFFICES ASSUME NEW key, IsOwed(next, key) PROVE InHand(next, key)
  BY DEF HandsFull
<1>1. PICK row \in Range(rows) : Offers(row, job.stamp, key)
  BY DEF StagedFor
<1>2. PICK d \in DocumentsForRow(row) : Answers(d, job.stamp, key)
  BY <1>1 DEF Offers
<1>3. PICK i \in DOMAIN Documents(rows) : Documents(rows)[i] = d
  BY DocumentsAreOfRows
<1>4. QED BY <1>2, <1>3 DEF InHand

\* What a write takes out of the hand it knows, and it forgets nothing.
LEMMA WriteKeepsPromise ==
    ASSUME JobsAreJobs, StampsInv, FoldsInv, NEW w \in Workers, FoldWrites(w), HandsFull(jobs[w])
    PROVE  HandsFull(jobs'[w])
<1> DEFINE job == jobs[w]
           next == jobs'[w]
<1>1. PICK row :
        /\ row.synced \in Nat /\ Takes(w, row)
        /\ Appends(w, row) \/ Refreshes(w, row)
        /\ DOMAIN next.known = DOMAIN job.known \cup {ActivityKey(row)}
        /\ next.known[ActivityKey(row)] = row
        /\ \A key \in DOMAIN job.known \ {ActivityKey(row)} : next.known[key] = job.known[key]
  BY WriteFacts DEF FoldsInv
<1>2. /\ Folding(w) /\ next.stamp = job.stamp
      /\ \A i \in DOMAIN next.documents : i \in DOMAIN job.documents /\ next.documents[i] = job.documents[i]
  BY WriteFacts DEF FoldsInv
<1>3. \A key : IsOwed(next, key) = IsOwed(job, key)
  <2>1. next.weeks = job.weeks /\ next.stamp = job.stamp
    BY FoldWritesMoves, Fields DEF Moves, SameBut
  <2>2. QED BY <2>1, Zenon DEF IsOwed
<1>4. job.stamp \in Nat /\ \A key \in DOMAIN job.known : job.known[key].synced \in Nat
  BY <1>2 DEF StampsInv, FoldsInv, HandInv, Folding
<1>5. ASSUME NEW key, Knowing(job, key) PROVE Knowing(next, key)
  <2>1. CASE key = ActivityKey(row)
    <3>1. row.synced > job.known[key].synced
      BY <1>1, <1>5, <2>1 DEF Appends, Refreshes, Knowing
    <3>2. QED BY <1>1, <1>2, <1>4, <1>5, <2>1, <3>1 DEF Knowing
  <2>2. CASE key # ActivityKey(row)
    BY <1>1, <1>2, <1>5, <2>2 DEF Knowing
  <2>3. QED BY <2>1, <2>2
<1>6. ASSUME NEW key, InHand(job, key) PROVE InHand(next, key) \/ Knowing(next, key)
  <2>1. PICK i \in DOMAIN job.documents : Answers(job.documents[i], job.stamp, key)
    BY <1>6 DEF InHand
  <2>2. CASE i \notin Worthwhile(job)
    <3>1. Knowing(job, key)
      <4>1. /\ ActivityKey(job.documents[i]) \in DOMAIN job.known
            /\ ~(job.documents[i].synced > job.known[ActivityKey(job.documents[i])].synced)
        BY <2>1, <2>2 DEF Worthwhile, Worth
      <4>2. QED BY <1>4, <2>1, <4>1 DEF Answers, Knowing
    <3>2. QED BY <1>5, <3>1
  <2>3. CASE i \in DOMAIN next.documents
    BY <1>2, <2>1, <2>3 DEF InHand
  <2>4. CASE i \in Worthwhile(job) /\ i \notin DOMAIN next.documents
    <3>1. row = RowFor(job, job.documents[i]) /\ IsDocument(job.documents[i])
      BY <1>1, <2>4 DEF Takes
    <3>2. ActivityKey(row) = key /\ row.synced = job.stamp
      BY <2>1, <3>1, RowKeepsKey DEF Answers
    <3>3. QED BY <1>1, <1>2, <1>4, <3>2 DEF Knowing
  <2>5. QED BY <2>2, <2>3, <2>4
<1>7. QED BY <1>3, <1>5, <1>6 DEF HandsFull

\* What a fold that runs alone knows is what it has left on file.
LEMMA WriteKnowsItsRows ==
    ASSUME JobsAreJobs, FoldsInv, NEW w \in Workers, FoldWrites(w), KnownRows(jobs[w], activity)
    PROVE  KnownRows(jobs'[w], activity')
<1> DEFINE job == jobs[w]
           next == jobs'[w]
<1>1. PICK row :
        /\ Appends(w, row) \/ Refreshes(w, row)
        /\ DOMAIN next.known = DOMAIN job.known \cup {ActivityKey(row)}
        /\ next.known[ActivityKey(row)] = row
        /\ \A key \in DOMAIN job.known \ {ActivityKey(row)} : next.known[key] = job.known[key]
  BY WriteFacts DEF FoldsInv
<1>2. \E i \in DOMAIN activity' : activity'[i] = row
  <2>1. CASE Appends(w, row)
    BY <2>1, AppendFacts DEF FoldsInv
  <2>2. CASE Refreshes(w, row)
    <3>1. ActivityKey(row) \in DOMAIN job.known /\ row.id = job.known[ActivityKey(row)].id
      BY <2>2 DEF Refreshes
    <3>2. PICK i \in DOMAIN activity : activity[i] = job.known[ActivityKey(row)] /\ ActivityKey(activity[i]) = ActivityKey(row)
      BY <3>1 DEF KnownRows
    <3>3. i \in DOMAIN activity' /\ activity'[i] = row
      BY <2>2, <3>1, <3>2, RefreshFacts DEF FoldsInv
    <3>4. QED BY <3>3
  <2>3. QED BY <1>1, <2>1, <2>2
<1>3. ASSUME NEW i \in DOMAIN activity, ActivityKey(activity[i]) # ActivityKey(row)
      PROVE  i \in DOMAIN activity' /\ activity'[i] = activity[i]
  <2>1. CASE Appends(w, row)
    BY <2>1, AppendFacts DEF FoldsInv
  <2>2. CASE Refreshes(w, row)
    BY <1>3, <2>2, RefreshFacts DEF FoldsInv
  <2>3. QED BY <1>1, <2>1, <2>2
<1>4. ASSUME NEW key \in DOMAIN next.known
      PROVE  \E i \in DOMAIN activity' : activity'[i] = next.known[key] /\ ActivityKey(activity'[i]) = key
  <2>1. CASE key = ActivityKey(row)
    BY <1>1, <1>2, <2>1
  <2>2. CASE key # ActivityKey(row)
    <3>1. key \in DOMAIN job.known /\ next.known[key] = job.known[key]
      BY <1>1, <1>4, <2>2
    <3>2. PICK i \in DOMAIN activity : activity[i] = job.known[key] /\ ActivityKey(activity[i]) = key
      BY <3>1 DEF KnownRows
    <3>3. QED BY <1>3, <2>2, <3>1, <3>2
  <2>3. QED BY <2>1, <2>2
<1>5. QED BY <1>4 DEF KnownRows

\* Pulls add rows, and take none away.
LEMMA SyncTonightGrows ==
    ASSUME JobsAreJobs, Buffers, PullsInv, NEW w \in Workers, NEW fault, SyncTonight(w, fault)
    PROVE  \A p \in Processes : Range(staged[p].rows) \subseteq Range(staged'[p].rows)
BY TonightAdds

LEMMA SyncPastWeekGrows ==
    ASSUME JobsAreJobs, Buffers, NEW w \in Workers, NEW fault, SyncPastWeek(w, fault)
    PROVE  \A p \in Processes : Range(staged[p].rows) \subseteq Range(staged'[p].rows)
BY PastWeekAdds

\* A job is as it was as far as it owes anything, and no row it has staged is gone.
StillOwes(w) ==
    /\ \A f \in {"kind", "pc", "stamp", "weeks", "team", "statuses", "documents", "known"} : jobs'[w][f] = jobs[w][f]
    /\ jobs'[w].alone => jobs[w].alone
    /\ Range(staged[ProcessOf[w]].rows) \subseteq Range(staged'[ProcessOf[w]].rows)

LEMMA OwesAsBefore ==
    ASSUME OwedInv, UNCHANGED activity, NEW w \in Workers, StillOwes(w)
    PROVE  /\ jobs'[w].pc = "fold" /\ Promises(jobs'[w]) => StagedFor(jobs'[w], staged'[ProcessOf[w]].rows)
           /\ jobs'[w].pc = "write" /\ Promises(jobs'[w]) => HandsFull(jobs'[w])
           /\ jobs'[w].pc = "write" /\ jobs'[w].alone => KnownRows(jobs'[w], activity')
<1> DEFINE job == jobs[w]
           next == jobs'[w]
<1>1. /\ next.kind = job.kind /\ next.pc = job.pc /\ next.stamp = job.stamp /\ next.weeks = job.weeks
      /\ next.team = job.team /\ next.statuses = job.statuses /\ next.documents = job.documents /\ next.known = job.known
  BY DEF StillOwes
<1>2. Promises(next) = Promises(job) /\ \A key : IsOwed(next, key) = IsOwed(job, key)
  BY <1>1, SamePromise
<1>3. StagedFor(job, staged[ProcessOf[w]].rows) => StagedFor(next, staged'[ProcessOf[w]].rows)
  BY <1>1, <1>2 DEF StagedFor, StillOwes
<1>4. HandsFull(job) => HandsFull(next)
  BY <1>1, <1>2 DEF HandsFull, InHand, Knowing
<1>5. KnownRows(job, activity) => KnownRows(next, activity')
  BY <1>1 DEF KnownRows
<1>6. QED BY <1>1, <1>2, <1>3, <1>4, <1>5 DEF OwedInv, Folding, StillOwes

\* Jobs that owe what they owed, or are neither about to fold nor folding.
LEMMA ElsewhereOwes ==
    ASSUME OwedInv, UNCHANGED activity, \A w \in Workers : jobs'[w].pc \notin {"fold", "write"} \/ StillOwes(w)
    PROVE  OwedInv'
BY OwesAsBefore DEF OwedInv, Folding

LEMMA OwedHolds == PipelineSpec => []OwedInv
<1>1. PipelineInit => OwedInv
  BY NoJobIsJob DEF PipelineInit, OwedInv, Folding
<1>2. JobsAreJobs /\ StampsInv /\ Buffers /\ PullsInv /\ FoldsInv /\ ComingInv /\ OwedInv /\ [PipelineNext]_pipelineVars => OwedInv'
  <2> SUFFICES ASSUME JobsAreJobs, StampsInv, Buffers, PullsInv, FoldsInv, ComingInv, OwedInv, [PipelineNext]_pipelineVars
               PROVE  OwedInv'
    OBVIOUS
  <2>1. ASSUME NEW w \in Workers, UNCHANGED activity,
               jobs'[w].pc \notin {"fold", "write"}, \A o \in Workers \ {w} : jobs'[o] = jobs[o],
               \A p \in Processes : Range(staged[p].rows) \subseteq Range(staged'[p].rows)
        PROVE  OwedInv'
    <3>1. \A o \in Workers : ProcessOf[o] \in Processes
      BY PipelineAssumption DEF Processes, Range
    <3>2. QED BY <2>1, <3>1, ElsewhereOwes DEF StillOwes
  <2>2. ASSUME NEW w \in Workers, NEW kind, NEW version, Start(w, kind, version) PROVE OwedInv'
    <3>1. UNCHANGED <<staged, activity>>
      BY <2>2, Zenon DEF Start, stores
    <3>2. jobs'[w].pc \notin {"fold", "write"} /\ \A o \in Workers \ {w} : jobs'[o] = jobs[o]
      BY <2>2, StartMoves DEF Moves
    <3>3. QED BY <2>1, <3>1, <3>2
  <2>3. ASSUME NEW w \in Workers, NEW pull, PullTeams(w, pull) PROVE OwedInv'
    <3>1. UNCHANGED activity
      BY <2>3, Zenon DEF PullTeams, stores
    <3>2. jobs'[w].pc \notin {"fold", "write"} /\ \A o \in Workers \ {w} : jobs'[o] = jobs[o]
      BY <2>3, PullTeamsMoves DEF Moves
    <3>3. \A p \in Processes : staged'[p].rows = staged[p].rows
      BY <2>3, PullTeamsKeepsRows
    <3>4. QED BY <2>1, <3>1, <3>2, <3>3
  <2>4. ASSUME NEW w \in Workers, NEW fault, SyncTonight(w, fault) PROVE OwedInv'
    <3>1. UNCHANGED activity
      BY <2>4, Zenon DEF SyncTonight, stores
    <3>2. /\ jobs'[w].pc = "fold" /\ jobs'[w].stamp = jobs[w].stamp /\ jobs'[w].weeks = jobs[w].weeks
          /\ \A o \in Workers \ {w} : jobs'[o] = jobs[o]
      BY <2>4, SyncTonightMoves, Fields DEF Moves, SameBut
    <3>3. \A p \in Processes : Range(staged[p].rows) \subseteq Range(staged'[p].rows)
      BY <2>4, SyncTonightGrows
    <3>4. ASSUME IsOk(jobs'[w]) PROVE StagedFor(jobs'[w], staged'[ProcessOf[w]].rows)
      <4>1. \A key : IsOwed(jobs'[w], key) = IsOwed(jobs[w], key)
        BY <3>2, Zenon DEF IsOwed
      <4>2. QED BY <2>4, <3>2, <3>4, <4>1, TonightOwesNothing DEF StagedFor
    <3>5. \A o \in Workers \ {w} : StillOwes(o)
      <4>1. \A o \in Workers : ProcessOf[o] \in Processes
        BY PipelineAssumption DEF Processes, Range
      <4>2. QED BY <3>2, <3>3, <4>1 DEF StillOwes
    <3>6. QED BY <3>1, <3>2, <3>4, <3>5, OwesAsBefore DEF OwedInv, Folding, Promises
  <2>5. ASSUME NEW w \in Workers, NEW fault, SyncPastWeek(w, fault) PROVE OwedInv'
    <3>1. UNCHANGED activity /\ jobs[w].pc = "pull"
      BY <2>5, Zenon DEF SyncPastWeek, stores
    <3>2. /\ jobs'[w].pc # "write" /\ jobs'[w].kind = jobs[w].kind /\ \A o \in Workers \ {w} : jobs'[o] = jobs[o]
      BY <2>5, SyncPastWeekMoves, Fields DEF Moves, SameBut
    <3>3. ~Promises(jobs'[w])
      BY <3>1, <3>2 DEF ComingInv, Promises
    <3>4. \A p \in Processes : Range(staged[p].rows) \subseteq Range(staged'[p].rows)
      BY <2>5, SyncPastWeekGrows
    <3>5. \A o \in Workers \ {w} : StillOwes(o)
      <4>1. \A o \in Workers : ProcessOf[o] \in Processes
        BY PipelineAssumption DEF Processes, Range
      <4>2. QED BY <3>2, <3>4, <4>1 DEF StillOwes
    <3>6. QED BY <3>1, <3>2, <3>3, <3>5, OwesAsBefore DEF OwedInv, Folding
  <2>6. ASSUME NEW w \in Workers, FoldReads(w) PROVE OwedInv'
    <3>1. UNCHANGED <<staged, activity>> /\ jobs[w].pc = "fold"
      BY <2>6, Zenon DEF FoldReads, stores
    <3>2. /\ jobs'[w].pc = "write" /\ jobs'[w].known = ExistingByKey
          /\ jobs'[w].documents = Documents(staged[ProcessOf[w]].rows)
          /\ \A f \in {"kind", "stamp", "weeks", "team", "statuses"} : jobs'[w][f] = jobs[w][f]
      BY <2>6, FoldReadsMoves, Fields DEF SameBut
    <3>3. \A o \in Workers \ {w} : StillOwes(o)
      BY <2>6, <3>1, FoldReadsMoves, Fields DEF SameBut, StillOwes
    <3>4. Promises(jobs'[w]) = Promises(jobs[w]) /\ \A key : IsOwed(jobs'[w], key) = IsOwed(jobs[w], key)
      BY <3>2, SamePromise
    <3>5. ASSUME Promises(jobs'[w]) PROVE HandsFull(jobs'[w])
      <4>1. StagedFor(jobs[w], staged[ProcessOf[w]].rows)
        BY <3>1, <3>4, <3>5 DEF OwedInv
      <4>2. GoodRows(staged[ProcessOf[w]].rows)
        BY PipelineAssumption DEF Buffers, Processes, Range
      <4>3. QED BY <3>2, <3>4, <4>1, <4>2, ReadsWhatIsOwed
    <3>6. KnownRows(jobs'[w], activity')
      <4>1. \A key \in DOMAIN ExistingByKey :
               \E i \in DOMAIN activity : ActivityKey(activity[i]) = key /\ ExistingByKey[key] = activity[i]
        BY ExistingByKeyFacts DEF FoldsInv
      <4>2. QED BY <3>1, <3>2, <4>1 DEF KnownRows
    <3>7. QED BY <3>1, <3>2, <3>3, <3>5, <3>6, OwesAsBefore DEF OwedInv, Folding
  <2>7. ASSUME NEW w \in Workers, FoldWrites(w) PROVE OwedInv'
    <3>1. UNCHANGED staged
      BY <2>7, Zenon DEF FoldWrites
    <3>2. /\ Folding(w) /\ jobs'[w].pc = "write" /\ jobs'[w].alone = jobs[w].alone
          /\ \A o \in Workers \ {w} : jobs'[o] = jobs[o]
      BY <2>7, WriteFacts DEF FoldsInv
    <3>3. Promises(jobs'[w]) = Promises(jobs[w])
      <4>1. /\ jobs'[w].kind = jobs[w].kind /\ jobs'[w].stamp = jobs[w].stamp /\ jobs'[w].weeks = jobs[w].weeks
            /\ jobs'[w].team = jobs[w].team /\ jobs'[w].statuses = jobs[w].statuses
        BY <2>7, FoldWritesMoves, Fields DEF Moves, SameBut
      <4>2. QED BY <4>1, SamePromise
    <3>4. Promises(jobs'[w]) => HandsFull(jobs'[w])
      BY <2>7, <3>2, <3>3, WriteKeepsPromise DEF OwedInv
    <3>5. jobs'[w].alone => KnownRows(jobs'[w], activity')
      BY <2>7, <3>2, WriteKnowsItsRows DEF OwedInv
    <3>6. \A o \in Workers \ {w} : ~(Folding(o) /\ jobs[o].alone)
      BY <3>2 DEF FoldsInv, AloneInv
    <3>7. QED BY <3>1, <3>2, <3>4, <3>5, <3>6 DEF OwedInv, Folding
  <2>8. ASSUME NEW w \in Workers, ResolveForTonight(w) \/ FoldEnds(w) \/ ReadActivity(w) \/ ReadSnapshots(w)
                 \/ JudgeProject(w) \/ SaveWarning(w) \/ SaveSnapshot(w) \/ WeekEnds(w)
        PROVE  OwedInv'
    <3>1. UNCHANGED <<staged, activity>>
      BY <2>8, Zenon DEF ResolveForTonight, FoldEnds, ReadActivity, ReadSnapshots, JudgeProject, SaveWarning,
                         SaveSnapshot, WeekEnds, stores
    <3>2. jobs'[w].pc \notin {"fold", "write"} /\ \A o \in Workers \ {w} : jobs'[o] = jobs[o]
      BY <2>8, ResolveMoves, FoldEndsMoves, ReadActivityMoves, ReadSnapshotsMoves, JudgeMoves, SaveWarningMoves,
         SaveSnapshotMoves, WeekEndsMoves DEF Moves
    <3>3. QED BY <2>1, <3>1, <3>2
  <2>9. ASSUME NEW p, Crash(p) PROVE OwedInv'
    <3>1. UNCHANGED activity /\ staged' = [staged EXCEPT ![p] = [rows |-> <<>>, sizes |-> <<>>]]
      BY <2>9, Zenon DEF Crash, stores
    <3>2. jobs' = [w \in Workers |-> IF ProcessOf[w] = p THEN NoJob ELSE jobs[w]]
      BY <2>9, Zenon DEF Crash
    <3>3. \A w \in Workers : jobs'[w] = NoJob \/ (jobs'[w] = jobs[w] /\ staged'[ProcessOf[w]] = staged[ProcessOf[w]])
      <4>1. \A w \in Workers : ProcessOf[w] \in Processes
        BY PipelineAssumption DEF Processes, Range
      <4>2. QED BY <3>1, <3>2, <4>1 DEF Buffers
    <3>4. QED BY <3>1, <3>3, NoJobIsJob, ElsewhereOwes DEF StillOwes
  <2>10. CASE Tomorrow \/ UNCHANGED pipelineVars
    <3>1. UNCHANGED <<jobs, activity, staged>>
      BY <2>10, QuietMoves DEF stores
    <3>2. \A w \in Workers : StillOwes(w)
      BY <3>1 DEF StillOwes
    <3>3. QED BY <3>1, <3>2, ElsewhereOwes
  <2>11. QED BY <2>2, <2>3, <2>4, <2>5, <2>6, <2>7, <2>8, <2>9, <2>10, StepCases
<1>3. QED BY <1>1, <1>2, JobsHold, StampsHold, BuffersHold, FoldsHold, ComingHolds, PTL DEF PipelineSpec

\* A nightly that reports "ok", its fold undisturbed, leaves a complete row on
\* file for every owned repository it asked for, in every week it looked back at,
\* unless a later pull is already there.
THEOREM OkNightliesAreComplete == PipelineSpec => OkMeansComplete
<1> DEFINE Complete(w) ==
        LET job == jobs[w]
            day == DayOf(job.stamp)
        IN  FoldEnds(w) /\ job.kind = "nightly" /\ job.alone /\ ReportedStatus(job) = "ok" =>
                \A repo \in {r \in Repos : r.org \in Range(Orgs)}, i \in DOMAIN job.weeks :
                    \A p \in ProjectIds(BuildBoundaryResolver(Boundaries, day), repo) :
                        \E r \in RowsOnFile :
                            /\ ActivityKey(r) = <<p, repo.slug, job.weeks[i]>>
                            /\ r.synced > job.stamp \/ (r.synced = job.stamp /\ r.complete = 100)
<1>1. StampsInv /\ FoldsInv /\ SoundInv /\ OwedInv => \A w \in Workers : Complete(w)
  <2> SUFFICES ASSUME StampsInv, FoldsInv, SoundInv, OwedInv, NEW w \in Workers, FoldEnds(w), jobs[w].kind = "nightly",
                      jobs[w].alone, ReportedStatus(jobs[w]) = "ok"
               PROVE  Complete(w)
    OBVIOUS
  <2> SUFFICES ASSUME NEW key, IsOwed(jobs[w], key)
               PROVE  \E r \in RowsOnFile :
                         /\ ActivityKey(r) = key
                         /\ r.synced > jobs[w].stamp \/ (r.synced = jobs[w].stamp /\ r.complete = 100)
    <3> SUFFICES ASSUME \A key : IsOwed(jobs[w], key) =>
                            \E r \in RowsOnFile :
                                /\ ActivityKey(r) = key
                                /\ r.synced > jobs[w].stamp \/ (r.synced = jobs[w].stamp /\ r.complete = 100),
                        NEW repo \in {r \in Repos : r.org \in Range(Orgs)}, NEW i \in DOMAIN jobs[w].weeks,
                        NEW p \in ProjectIds(BuildBoundaryResolver(Boundaries, DayOf(jobs[w].stamp)), repo)
                 PROVE  \E r \in RowsOnFile :
                            /\ ActivityKey(r) = <<p, repo.slug, jobs[w].weeks[i]>>
                            /\ r.synced > jobs[w].stamp \/ (r.synced = jobs[w].stamp /\ r.complete = 100)
      OBVIOUS
    <3>1. IsOwed(jobs[w], <<p, repo.slug, jobs[w].weeks[i]>>)
      BY Zenon DEF IsOwed
    <3>2. QED BY <3>1
  <2>0. IsOk(jobs[w])
    BY DEF IsOk
  <2>1. Folding(w) /\ Worthwhile(jobs[w]) = {}
    BY Zenon DEF FoldEnds
  <2>2. jobs[w].stamp \in Nat /\ \A k \in DOMAIN jobs[w].known : jobs[w].known[k].synced \in Nat
    BY <2>1 DEF StampsInv, FoldsInv, HandInv, Folding
  <2>3. Knowing(jobs[w], key)
    <3>1. InHand(jobs[w], key) \/ Knowing(jobs[w], key)
      BY <2>0, <2>1 DEF OwedInv, Promises, HandsFull
    <3>2. ASSUME InHand(jobs[w], key) PROVE Knowing(jobs[w], key)
      <4>1. PICK i \in DOMAIN jobs[w].documents : Answers(jobs[w].documents[i], jobs[w].stamp, key)
        BY <3>2 DEF InHand
      <4>2. ~Worth(jobs[w].documents[i], jobs[w].known)
        BY <2>1 DEF Worthwhile
      <4>3. QED BY <2>2, <4>1, <4>2 DEF Worth, Answers, Knowing
    <3>3. QED BY <3>1, <3>2
  <2>4. PICK i \in DOMAIN activity : activity[i] = jobs[w].known[key] /\ ActivityKey(activity[i]) = key
    BY <2>1, <2>3 DEF OwedInv, KnownRows, Knowing
  <2>5. activity[i].synced >= jobs[w].stamp /\ activity[i].synced \in Nat
    BY <2>2, <2>3, <2>4 DEF Knowing
  <2>6. activity[i].synced = jobs[w].stamp => activity[i].complete = 100
    <3>1. Vouches(jobs[w], activity[i])
      BY DEF SoundInv, Sound
    <3>2. QED BY <2>0, <2>1, <3>1 DEF Vouches, Folding
  <2>7. activity[i] \in RowsOnFile
    BY DEF RowsOnFile, Range
  <2>8. QED BY <2>2, <2>4, <2>5, <2>6, <2>7
<1>2. StampsInv /\ FoldsInv /\ SoundInv /\ OwedInv /\ [PipelineNext]_pipelineVars => [\A w \in Workers : Complete(w)]_pipelineVars
  BY <1>1
<1>3. QED BY <1>2, StampsHold, FoldsHold, SoundHolds, OwedHolds, PTL DEF PipelineSpec, OkMeansComplete

-------------------------------------------------------------------------------
(* Team sizes reach the rows of the night they are pulled in *)

\* What a directory without troubles tells: the members of each team at the floor
\* or above.
ShownTeams == {t \in DOMAIN Directory : Directory[t] >= AggregationFloor}
AllSizes == [t \in ShownTeams |-> Directory[t]]
Told(sizes) == DOMAIN sizes \subseteq ShownTeams /\ \A t \in DOMAIN sizes : sizes[t] = Directory[t]

\* What SizesReachTheRows says of one row and day.
Gated(row, day) ==
    LET shown == ShownSizes(OwnersAt(row, day))
        versions == {b \in Boundaries : EffectiveAt(b, day) /\ b.project \in row.projects}
    IN  NamesApart(row) =>
            /\ shown # {} => row.team_size = Max(shown)
            /\ row.team_size \in ShownSizes(versions) \cup {Absent}

\* A pull of the directory keeps what is known true, and completes it if nothing is
\* amiss.
LEMMA TeamsAreTold ==
    ASSUME NEW sizes, Told(sizes), NEW pull
    PROVE  LET new == SizesAfter(sizes, SyncTeams(Directory, pull).rows)
           IN  Told(new) /\ (pull = {} \/ sizes = AllSizes => new = AllSizes)
<1> DEFINE rows == SyncTeams(Directory, pull).rows
           pulled == IF "teams" \in pull THEN {} ELSE DOMAIN Directory \ pull
           Newest(t) == {r \in rows : r.team = t /\ r.size # Absent}
           new == SizesAfter(sizes, rows)
           named == DOMAIN sizes \cup {r.team : r \in {x \in rows : x.size # Absent}}
           size(t) == IF Newest(t) = {} THEN sizes[t] ELSE (CHOOSE r \in Newest(t) : TRUE).size
<1>1. rows = {TeamDocument(t, Directory[t]) : t \in pulled}
  BY DEF SyncTeams
<1>2. ASSUME NEW t \in DOMAIN Directory
      PROVE  /\ TeamDocument(t, Directory[t]).team = t
             /\ TeamDocument(t, Directory[t]).size = IF t \in ShownTeams THEN Directory[t] ELSE Absent
             /\ Directory[t] # Absent
  BY PipelineAssumption DEF TeamDocument, ShownTeams, Absent
<1>3. pulled \subseteq DOMAIN Directory
  OBVIOUS
<1> HIDE DEF rows, pulled
<1>4. ASSUME NEW r \in rows, r.size # Absent
      PROVE  r.team \in ShownTeams \cap pulled /\ r.size = Directory[r.team]
  BY <1>1, <1>2, <1>3, <1>4
<1>5. ASSUME NEW t \in ShownTeams \cap pulled PROVE \E r \in rows : r.team = t /\ r.size # Absent
  <2>1. t \in DOMAIN Directory
    BY <1>3
  <2>2. TeamDocument(t, Directory[t]) \in rows
    BY <1>1
  <2>3. QED BY <1>2, <2>1, <2>2
<1>6. new = [t \in named |-> size(t)]
  BY DEF SizesAfter
<1>7. named = DOMAIN sizes \cup (ShownTeams \cap pulled)
  BY <1>4, <1>5
<1>8. ASSUME NEW t \in named PROVE size(t) = Directory[t]
  <2>1. CASE Newest(t) = {}
    <3>1. t \in DOMAIN sizes
      BY <1>5, <1>7, <2>1
    <3>2. QED BY <2>1, <3>1 DEF Told
  <2>2. CASE Newest(t) # {}
    <3>1. PICK r \in Newest(t) : size(t) = r.size
      BY <2>2, Zenon
    <3>2. QED BY <1>4, <3>1
  <2>3. QED BY <2>1, <2>2
<1>9. named \subseteq ShownTeams
  BY <1>7 DEF Told
<1>10. pull = {} \/ sizes = AllSizes => named = ShownTeams
  BY <1>7, <1>9 DEF pulled, AllSizes, ShownTeams
<1> HIDE DEF named, size
<1>11. Told(new)
  BY <1>6, <1>8, <1>9 DEF Told
<1>12. ASSUME named = ShownTeams PROVE new = AllSizes
  BY <1>6, <1>8, <1>12 DEF AllSizes
<1>13. QED BY <1>10, <1>11, <1>12 DEF new, rows

\* With all sizes known, an entry of the map that no project's name covers up is
\* the largest of the teams that list the name, and a project's that no list
\* mentions is of one of its own versions.
LEMMA EntriesAreShown ==
    ASSUME NEW day, NEW name
    PROVE  LET map == BuildTeamSizeResolver(Boundaries, AllSizes, day)
               listing == {b \in Boundaries : EffectiveAt(b, day) /\ name \in BoundaryKeys(b)}
               owned == {b \in Boundaries : EffectiveAt(b, day) /\ b.project = name}
           IN  /\ (\A b \in Boundaries : b.project # name) =>
                    /\ (name \in DOMAIN map) = (ShownSizes(listing) # {})
                    /\ name \in DOMAIN map => map[name] = Max(ShownSizes(listing)) /\ map[name] \in ShownSizes(listing)
               /\ (\A b \in Boundaries : name \notin BoundaryKeys(b)) /\ name \in DOMAIN map => map[name] \in ShownSizes(owned)
<1> DEFINE map == BuildTeamSizeResolver(Boundaries, AllSizes, day)
           listing == {b \in Boundaries : EffectiveAt(b, day) /\ name \in BoundaryKeys(b)}
           owned == {b \in Boundaries : EffectiveAt(b, day) /\ b.project = name}
           sized == {b \in Boundaries : EffectiveAt(b, day) /\ b.team \in DOMAIN AllSizes}
           Entries(b) == {b.project} \cup BoundaryKeys(b)
           Overwritten(x, b) == \E o \in sized : o.project = x /\ b.n < o.n
           taken == {AllSizes[b.team] : b \in {x \in sized : name \in Entries(x) /\ ~Overwritten(name, x)}}
<1>1. /\ DOMAIN map = UNION {Entries(b) : b \in sized}
      /\ name \in DOMAIN map => map[name] = Max(taken)
  <2>1. map = [x \in UNION {Entries(b) : b \in sized} |->
                  Max({AllSizes[b.team] : b \in {y \in sized : x \in Entries(y) /\ ~Overwritten(x, y)}})]
    BY Zenon DEF BuildTeamSizeResolver
  <2> HIDE DEF map, Entries, Overwritten, sized
  <2>2. QED BY <2>1
<1>2. DOMAIN AllSizes = ShownTeams /\ \A t \in ShownTeams : AllSizes[t] = Directory[t]
  BY DEF AllSizes
<1>3. ASSUME NEW owners
      PROVE  ShownSizes(owners) = {Directory[b.team] : b \in {x \in owners : x.team \in ShownTeams}}
  BY DEF ShownSizes, ShownTeams
<1>4. ASSUME NEW T, T \subseteq taken, T # {} PROVE Max(T) \in T
  <2>1. IsFiniteSet(sized)
    BY PipelineAssumption, FS_Subset
  <2> DEFINE size == [b \in sized |-> AllSizes[b.team]]
  <2>2. IsFiniteSet({size[b] : b \in sized})
    <3> HIDE DEF size, sized
    <3>1. QED BY <2>1, FiniteImage
  <2>3. T \subseteq {size[b] : b \in sized}
    BY <1>4
  <2>4. \A b \in sized : size[b] \in Nat
    BY <1>2, PipelineAssumption DEF ShownTeams
  <2> HIDE DEF size, sized
  <2>5. IsFiniteSet(T) /\ T \subseteq Nat
    BY <2>2, <2>3, <2>4, FS_Subset
  <2>6. QED BY <1>4, <2>5, GreatestIsOfThem
<1> HIDE DEF map
<1>5. ASSUME \A b \in Boundaries : b.project # name
      PROVE  /\ (name \in DOMAIN map) = (ShownSizes(listing) # {})
             /\ name \in DOMAIN map => map[name] = Max(ShownSizes(listing)) /\ map[name] \in ShownSizes(listing)
  <2>1. taken = ShownSizes(listing)
    BY <1>2, <1>3, <1>5
  <2>2. (name \in DOMAIN map) = (ShownSizes(listing) # {})
    <3>1. name \in DOMAIN map => taken # {}
      BY <1>1, <1>5
    <3>2. taken # {} => name \in DOMAIN map
      BY <1>1
    <3> HIDE DEF taken, listing
    <3>3. QED BY <2>1, <3>1, <3>2
  <2>3. QED BY <1>1, <1>4, <2>1, <2>2
<1>6. ASSUME \A b \in Boundaries : name \notin BoundaryKeys(b), name \in DOMAIN map
      PROVE  map[name] \in ShownSizes(owned)
  <2>1. taken \subseteq ShownSizes(owned)
    BY <1>2, <1>3, <1>6
  <2>2. taken # {}
    <3> DEFINE mine == {b \in sized : b.project = name}
               place == [b \in mine |-> b.n]
               places == {place[b] : b \in mine}
    <3>1. mine # {}
      BY <1>1, <1>6
    <3>2. IsFiniteSet(mine)
      BY PipelineAssumption, FS_Subset
    <3>3. \A b \in mine : place[b] \in Nat /\ place[b] = b.n
      BY PipelineAssumption
    <3> HIDE DEF mine, place
    <3>4. IsFiniteSet(places) /\ places \subseteq Nat /\ places # {}
      BY <3>1, <3>2, <3>3, FiniteImage
    <3>5. PICK last \in mine : \A b \in mine : place[b] <= place[last]
      <4>1. Max(places) \in places /\ \A y \in places : y <= Max(places)
        BY <3>4, GreatestIsOfThem
      <4>2. QED BY <4>1
    <3>6. \A b \in mine : b.n <= last.n /\ b.n \in Nat
      BY <3>3, <3>5
    <3>7. ~Overwritten(name, last) /\ last \in sized /\ name \in Entries(last)
      BY <3>6 DEF mine
    <3>8. QED BY <3>7
  <2>3. QED BY <1>1, <1>4, <1>6, <2>1, <2>2
<1>7. QED BY <1>5, <1>6 DEF map

\* So a row pulled with the adapters of such a map is gated as it should.
LEMMA PulledIsGated ==
    ASSUME NEW day, NEW a \in DOMAIN Orgs, NEW repo, NEW window, NEW stamp, NEW outcome
    PROVE  Gated(SyncRepo(BuildAdapters(AllSizes, day)[a], repo, window, today, stamp, outcome), day)
<1> DEFINE adapter == BuildAdapters(AllSizes, day)[a]
           row == SyncRepo(adapter, repo, window, today, stamp, outcome)
           map == BuildTeamSizeResolver(Boundaries, AllSizes, day)
           resolver == BuildBoundaryResolver(Boundaries, day)
           shown == ShownSizes(OwnersAt(row, day))
           versions == {b \in Boundaries : EffectiveAt(b, day) /\ b.project \in row.projects}
           Listing(name) == {b \in Boundaries : EffectiveAt(b, day) /\ name \in BoundaryKeys(b)}
           Owned(p) == {b \in Boundaries : EffectiveAt(b, day) /\ b.project = p}
<1>1. adapter.boundary = resolver /\ adapter.sizes = map
  BY DEF BuildAdapters
<1> HIDE DEF adapter, map
<1>2. row.repo = repo.slug /\ row.projects = ProjectIds(resolver, repo) /\ row.team_size = TeamSize(map, row.projects, repo)
  BY <1>1 DEF SyncRepo
<1> HIDE DEF row
<1>3. row.projects = {b.project : b \in OwnersAt(row, day)}
  <2>1. resolver = [key \in UNION {BoundaryKeys(b) \ b.excluded : b \in {x \in Boundaries : EffectiveAt(x, day)}} |->
                      {b.project : b \in {x \in {y \in Boundaries : EffectiveAt(y, day)} : key \in BoundaryKeys(x) \ x.excluded}}]
    BY Zenon DEF BuildBoundaryResolver
  <2> HIDE DEF resolver
  <2>2. QED BY <1>2, <2>1 DEF ProjectIds, OwnersAt
<1> HIDE DEF resolver
<1> SUFFICES ASSUME NamesApart(row)
             PROVE  (shown # {} => row.team_size = Max(shown)) /\ row.team_size \in ShownSizes(versions) \cup {Absent}
  BY DEF Gated, row, adapter
<1>4. OwnersAt(row, day) = Listing(row.repo)
  BY DEF OwnersAt, NamesApart
<1>5. \A b \in Boundaries : b.project # row.repo
  BY DEF NamesApart
<1>6. (row.repo \in DOMAIN map) = (shown # {}) /\ (row.repo \in DOMAIN map => map[row.repo] = Max(shown) /\ map[row.repo] \in shown)
  <2>1. shown = ShownSizes(Listing(row.repo))
    BY <1>4
  <2> HIDE DEF shown
  <2>2. /\ (row.repo \in DOMAIN map) = (ShownSizes(Listing(row.repo)) # {})
        /\ row.repo \in DOMAIN map =>
              map[row.repo] = Max(ShownSizes(Listing(row.repo))) /\ map[row.repo] \in ShownSizes(Listing(row.repo))
    BY <1>5, EntriesAreShown DEF map
  <2>3. QED BY <2>1, <2>2
<1>7. shown \subseteq ShownSizes(versions)
  BY <1>3 DEF ShownSizes, OwnersAt
<1>8. CASE row.repo \in DOMAIN map
  BY <1>2, <1>6, <1>7, <1>8 DEF TeamSize
<1>9. CASE row.repo \notin DOMAIN map
  <2>1. shown = {}
    BY <1>6, <1>9
  <2>2. ASSUME Cardinality(row.projects) = 1, row.projects \subseteq DOMAIN map
        PROVE  row.team_size \in ShownSizes(versions)
    <3>1. PICK p : row.projects = {p}
      <4>1. IsFiniteSet(row.projects)
        <5> DEFINE name == [b \in OwnersAt(row, day) |-> b.project]
        <5>1. IsFiniteSet(OwnersAt(row, day))
          BY PipelineAssumption, FS_Subset DEF OwnersAt
        <5> HIDE DEF name
        <5>2. IsFiniteSet({name[b] : b \in OwnersAt(row, day)})
          BY <5>1, FiniteImage
        <5>3. QED BY <1>3, <5>2 DEF name
      <4>2. QED BY <2>2, <4>1, FS_Singleton
    <3>2. row.team_size = map[p] /\ p \in DOMAIN map
      BY <1>2, <1>9, <2>2, <3>1 DEF TeamSize
    <3>3. \A b \in Boundaries : p \notin BoundaryKeys(b)
      BY <3>1 DEF NamesApart
    <3>4. map[p] \in ShownSizes(Owned(p))
      BY <3>2, <3>3, EntriesAreShown, Zenon DEF map
    <3>5. Owned(p) = versions
      BY <3>1
    <3>6. QED BY <3>2, <3>4, <3>5
  <2>3. ~(Cardinality(row.projects) = 1 /\ row.projects \subseteq DOMAIN map) => row.team_size = Absent
    BY <1>2, <1>9 DEF TeamSize
  <2>4. QED BY <2>1, <2>2, <2>3
<1>10. QED BY <1>8, <1>9

\* What a night's job knows of sizes on its way, and what the rows it has staged,
\* told by its stamp, were gated with.
Tonight(w) ==
    LET own == {row \in Range(staged[ProcessOf[w]].rows) : row.synced = jobs[w].stamp}
    IN  /\ jobs[w].pc # "idle"
        /\ jobs[w].pc \in ToPull => own = {}
        /\ jobs[w].team = "ok" =>
             /\ jobs[w].pc = "adapters" => staged[ProcessOf[w]].sizes = AllSizes
             /\ jobs[w].pc = "sync" => jobs[w].adapters = BuildAdapters(AllSizes, DayOf(jobs[w].stamp))
             /\ \A row \in own : Gated(row, DayOf(jobs[w].stamp))
SizesInv ==
    /\ \A p \in Processes : Told(staged[p].sizes) /\ \A row \in Range(staged[p].rows) : row.synced < Stamp
    /\ \A w \in Workers : jobs[w].kind = "nightly" => Tonight(w)

\* A job stays as it is or goes on to fold and judge, and no row of its stamp comes
\* to its buffer.
Undisturbed(w) ==
    /\ \A f \in {"kind", "stamp", "team"} : jobs'[w][f] = jobs[w][f]
    /\ jobs'[w].pc # "idle"
    /\ \/ jobs'[w].pc \notin ToPull
       \/ jobs'[w].pc = jobs[w].pc /\ jobs'[w].adapters = jobs[w].adapters
BufferKept(p, stamp) ==
    /\ \A row \in Range(staged'[p].rows) : row.synced = stamp => row \in Range(staged[p].rows)
    /\ staged[p].sizes = AllSizes => staged'[p].sizes = AllSizes

LEMMA TonightStands ==
    ASSUME NEW w \in Workers, Tonight(w), Undisturbed(w), BufferKept(ProcessOf[w], jobs[w].stamp)
    PROVE  Tonight(w)'
<1> DEFINE Own(buffer, stamp) == {row \in Range(buffer) : row.synced = stamp}
<1>1. Own(staged'[ProcessOf[w]].rows, jobs'[w].stamp) \subseteq Own(staged[ProcessOf[w]].rows, jobs[w].stamp)
  BY DEF BufferKept, Undisturbed
<1>2. \A row, day : Gated(row, day)' = Gated(row, day)
  BY DEF Gated, NamesApart, ShownSizes, OwnersAt, EffectiveAt, BoundaryKeys, RepoKeys
<1>3. jobs'[w].stamp = jobs[w].stamp /\ jobs'[w].team = jobs[w].team
  BY DEF Undisturbed
<1>4. CASE jobs'[w].pc \notin ToPull
  BY <1>1, <1>2, <1>3, <1>4 DEF Tonight, Undisturbed, ToPull
<1>5. CASE jobs'[w].pc = jobs[w].pc /\ jobs'[w].adapters = jobs[w].adapters
  BY <1>1, <1>2, <1>3, <1>5 DEF Tonight, Undisturbed, BufferKept
<1>6. QED BY <1>4, <1>5 DEF Undisturbed

\* What a pull of the directory leaves in the buffers.
LEMMA PullTeamsTells ==
    ASSUME Buffers, NEW w \in Workers, NEW pull, PullTeams(w, pull)
    PROVE  LET p == ProcessOf[w]
           IN  /\ p \in Processes
               /\ \A q \in Processes : staged'[q].rows = staged[q].rows /\ (q # p => staged'[q].sizes = staged[q].sizes)
               /\ staged'[p].sizes = SizesAfter(staged[p].sizes, SyncTeams(Directory, pull).rows)
<1> DEFINE p == ProcessOf[w]
           sizes == SizesAfter(staged[p].sizes, SyncTeams(Directory, pull).rows)
<1>1. staged' = [staged EXCEPT ![p] = [staged[p] EXCEPT !.sizes = sizes]] /\ p \in Processes
  BY Zenon, PipelineAssumption DEF PullTeams, Processes, Range
<1> HIDE DEF sizes, p
<1>2. staged'[p] = [rows |-> staged[p].rows, sizes |-> sizes]
  <2>1. staged'[p] = [staged[p] EXCEPT !.sizes = sizes]
    BY <1>1 DEF Buffers
  <2>2. staged[p] = [rows |-> staged[p].rows, sizes |-> staged[p].sizes]
    BY <1>1 DEF Buffers
  <2>3. QED BY <2>1, <2>2
<1>3. \A q \in Processes \ {p} : staged'[q] = staged[q]
  BY <1>1 DEF Buffers
<1>4. QED BY <1>1, <1>2, <1>3 DEF p, sizes

\* A job that steps is not idle afterwards.
LEMMA StepsStayUp ==
    ASSUME JobsAreJobs, NEW w \in Workers, JobStep(w)
    PROVE  jobs'[w].pc # "idle"
<1>1. ASSUME NEW x, PullTeams(w, x) \/ SyncTonight(w, x) \/ SyncPastWeek(w, x) PROVE jobs'[w].pc # "idle"
  BY <1>1, PullTeamsMoves, SyncTonightMoves, SyncPastWeekMoves DEF Moves
<1>2. ASSUME ResolveForTonight(w) \/ FoldWrites(w) \/ FoldEnds(w) \/ ReadActivity(w) \/ ReadSnapshots(w)
               \/ JudgeProject(w) \/ SaveWarning(w) \/ SaveSnapshot(w) \/ WeekEnds(w)
      PROVE  jobs'[w].pc # "idle"
  BY <1>2, ResolveMoves, FoldWritesMoves, FoldEndsMoves, ReadActivityMoves, ReadSnapshotsMoves, JudgeMoves,
     SaveWarningMoves, SaveSnapshotMoves, WeekEndsMoves DEF Moves
<1>3. CASE FoldReads(w)
  BY <1>3, FoldReadsMoves
<1>4. QED BY <1>1, <1>2, <1>3 DEF JobStep

\* Staging rows leaves the sizes alone.
LEMMA StageKeepsSizes ==
    ASSUME Buffers, NEW w \in Workers, NEW results, Stage(w, results)
    PROVE  \A p \in Processes : staged'[p].sizes = staged[p].sizes
<1> DEFINE added == FlattenSeq([i \in DOMAIN results |-> SetToSeq(results[i].rows)])
           q == ProcessOf[w]
           new == [staged[q] EXCEPT !.rows = @ \o added]
<1>1. staged' = [staged EXCEPT ![q] = new]
  BY Zenon DEF Stage
<1> HIDE DEF added
<1>2. ASSUME q \in Processes PROVE new.sizes = staged[q].sizes
  BY <1>2 DEF Buffers
<1> HIDE DEF new, q
<1>3. QED BY <1>1, <1>2 DEF Buffers

\* Rows one job stages are of its stamp, so they disturb no other.
LEMMA StagingDisturbsNone ==
    ASSUME StampsInv, SizesInv, Stamp \in Nat, Stamp' \in Nat, Stamp <= Stamp',
           NEW w \in Workers, jobs[w].pc # "idle", ProcessOf[w] \in Processes,
           \A p \in Processes : staged'[p].sizes = staged[p].sizes,
           \A p \in Processes \ {ProcessOf[w]} : staged'[p] = staged[p],
           \A p \in Processes : \A row \in Range(staged[p].rows) : row.synced \in Nat,
           \A row \in Range(staged'[ProcessOf[w]].rows) :
               row \in Range(staged[ProcessOf[w]].rows) \/ row.synced = jobs[w].stamp,
           \A o \in Workers \ {w} : jobs'[o] = jobs[o]
    PROVE  /\ \A p \in Processes : Told(staged'[p].sizes) /\ \A row \in Range(staged'[p].rows) : row.synced < Stamp'
           /\ \A o \in Workers \ {w} : jobs'[o].kind = "nightly" => Tonight(o)'
<1>1. jobs[w].stamp \in Nat /\ jobs[w].stamp < Stamp'
  BY DEF StampsInv
<1>2. ASSUME NEW p \in Processes, NEW row \in Range(staged'[p].rows) PROVE row.synced < Stamp'
  <2>1. CASE row \in Range(staged[p].rows)
    BY <2>1 DEF SizesInv
  <2>2. CASE row.synced = jobs[w].stamp
    BY <1>1, <2>2
  <2>3. QED BY <1>2, <2>1, <2>2
<1>3. ASSUME NEW o \in Workers \ {w}, jobs'[o].kind = "nightly" PROVE Tonight(o)'
  <2>1. Tonight(o) /\ jobs[o].pc # "idle"
    BY <1>3 DEF SizesInv, Tonight
  <2>2. Undisturbed(o)
    BY <2>1 DEF Undisturbed
  <2>3. jobs[o].stamp # jobs[w].stamp /\ ProcessOf[o] \in Processes
    BY <2>1, PipelineAssumption DEF StampsInv, Processes, Range
  <2>4. BufferKept(ProcessOf[o], jobs[o].stamp)
    BY <2>3 DEF BufferKept
  <2>5. QED BY <2>1, <2>2, <2>4, TonightStands
<1>4. \A p \in Processes : Told(staged'[p].sizes)
  BY DEF SizesInv, Told
<1>5. QED BY <1>2, <1>3, <1>4

LEMMA SizesHold == PipelineSpec => []SizesInv
<1>1. PipelineInit => SizesInv
  <2> SUFFICES ASSUME PipelineInit PROVE SizesInv
    OBVIOUS
  <2>1. \A p \in Processes : staged[p].rows = <<>> /\ staged[p].sizes = <<>>
    BY DEF PipelineInit
  <2>2. Range(<<>>) = {} /\ Told(<<>>)
    BY DEF Range, Told
  <2>3. \A w \in Workers : jobs[w].kind = "none"
    BY DEF PipelineInit, NoJob
  <2>4. QED BY <2>1, <2>2, <2>3 DEF SizesInv
<1>2. /\ JobsAreJobs /\ ClockInv /\ ClockInv' /\ StampsInv /\ Buffers /\ PullsInv /\ ComingInv /\ SizesInv
      /\ [PipelineNext]_pipelineVars
      => SizesInv'
  <2> SUFFICES ASSUME JobsAreJobs, ClockInv, ClockInv', StampsInv, Buffers, PullsInv, ComingInv, SizesInv,
                      [PipelineNext]_pipelineVars
               PROVE  SizesInv'
    OBVIOUS
  <2>1. Stamp \in Nat /\ Stamp' \in Nat /\ Stamp <= Stamp'
    BY StampGrows
  <2>2. \A p \in Processes : \A row \in Range(staged[p].rows) : row.synced \in Nat /\ row.synced < Stamp'
    BY <2>1 DEF SizesInv, Buffers, GoodRows, GoodRow
  <2>3. \A w \in Workers : ProcessOf[w] \in Processes
    BY PipelineAssumption DEF Processes, Range
  <2>4. ASSUME \A p \in Processes : Told(staged'[p].sizes) /\ \A row \in Range(staged'[p].rows) : row.synced < Stamp',
               \A o \in Workers : jobs'[o].kind = "nightly" => Tonight(o)'
        PROVE  SizesInv'
    BY <2>4 DEF SizesInv, Told
  <2>5. ASSUME UNCHANGED staged,
               \A o \in Workers : jobs'[o].kind = "nightly" => (jobs[o].kind = "nightly" /\ Undisturbed(o)) \/ Tonight(o)'
        PROVE  SizesInv'
    <3>1. \A p \in Processes : Told(staged'[p].sizes) /\ \A row \in Range(staged'[p].rows) : row.synced < Stamp'
      BY <2>2, <2>5 DEF SizesInv, Told
    <3>2. ASSUME NEW o \in Workers, jobs[o].kind = "nightly", Undisturbed(o) PROVE Tonight(o)'
      BY <2>5, <3>2, TonightStands DEF SizesInv, BufferKept
    <3>3. QED BY <2>4, <2>5, <3>1, <3>2
  <2>6. ASSUME NEW w \in Workers, NEW kind, NEW version, Start(w, kind, version) PROVE SizesInv'
    <3>1. UNCHANGED staged
      BY <2>6, Zenon DEF Start
    <3>2. /\ \A o \in Workers \ {w} : jobs'[o] = jobs[o]
          /\ jobs'[w].kind = kind /\ jobs'[w].stamp = Stamp
      BY <2>6, StartMoves DEF Moves
    <3>3. jobs'[w].pc = CASE kind = "nightly" -> "teams" [] kind = "backfill" -> "pull" [] OTHER -> "read"
      BY <2>6, StartsAt
    <3>4. ASSUME kind = "nightly" PROVE Tonight(w)'
      <4>1. jobs'[w].pc = "teams"
        BY <3>3, <3>4
      <4>2. \A row \in Range(staged'[ProcessOf[w]].rows) : row.synced # jobs'[w].stamp
        BY <2>1, <2>2, <2>3, <3>1, <3>2 DEF SizesInv
      <4>3. QED BY <4>1, <4>2 DEF Tonight
    <3>5. \A o \in Workers \ {w} : jobs'[o].kind = "nightly" => jobs[o].kind = "nightly" /\ Undisturbed(o)
      BY <3>2 DEF SizesInv, Tonight, Undisturbed
    <3>6. QED BY <2>5, <3>1, <3>2, <3>4, <3>5
  <2>7. ASSUME NEW w \in Workers, NEW pull, PullTeams(w, pull) PROVE SizesInv'
    <3>1. /\ jobs[w].pc = "teams"
          /\ \A o \in Workers \ {w} : jobs'[o] = jobs[o]
          /\ jobs'[w].pc = "adapters" /\ jobs'[w].kind = jobs[w].kind /\ jobs'[w].stamp = jobs[w].stamp
          /\ jobs'[w].team = SyncTeams(Directory, pull).status
      <4>1. jobs[w].pc = "teams"
        BY <2>7, Zenon DEF PullTeams
      <4>2. QED BY <2>7, <4>1, PullTeamsMoves, Fields DEF Moves, SameBut
    <3>2. /\ \A q \in Processes : staged'[q].rows = staged[q].rows
          /\ \A q \in Processes : q # ProcessOf[w] => staged'[q].sizes = staged[q].sizes
          /\ staged'[ProcessOf[w]].sizes = SizesAfter(staged[ProcessOf[w]].sizes, SyncTeams(Directory, pull).rows)
      BY <2>7, PullTeamsTells
    <3>3. /\ Told(staged'[ProcessOf[w]].sizes)
          /\ pull = {} \/ staged[ProcessOf[w]].sizes = AllSizes => staged'[ProcessOf[w]].sizes = AllSizes
      <4>1. Told(staged[ProcessOf[w]].sizes)
        BY <2>3 DEF SizesInv
      <4>2. QED BY <3>2, <4>1, TeamsAreTold
    <3>4. \A p \in Processes : Told(staged'[p].sizes) /\ \A row \in Range(staged'[p].rows) : row.synced < Stamp'
      BY <2>2, <3>2, <3>3 DEF SizesInv
    <3>5. ASSUME NEW o \in Workers \ {w}, jobs'[o].kind = "nightly" PROVE Tonight(o)'
      <4>1. Tonight(o) /\ Undisturbed(o)
        BY <3>1, <3>5 DEF SizesInv, Tonight, Undisturbed
      <4>2. BufferKept(ProcessOf[o], jobs[o].stamp)
        BY <2>3, <3>2, <3>3 DEF BufferKept
      <4>3. QED BY <4>1, <4>2, TonightStands
    <3>6. ASSUME jobs'[w].kind = "nightly" PROVE Tonight(w)'
      <4>1. \A row \in Range(staged'[ProcessOf[w]].rows) : row.synced # jobs'[w].stamp
        BY <2>3, <3>1, <3>2, <3>6 DEF SizesInv, Tonight, ToPull
      <4>2. jobs'[w].team = "ok" => pull = {}
        BY <3>1 DEF SyncTeams
      <4>3. QED BY <3>1, <3>3, <4>1, <4>2 DEF Tonight, AllSizes, ShownTeams
    <3>7. QED BY <2>4, <3>4, <3>5, <3>6
  <2>8. ASSUME NEW w \in Workers, ResolveForTonight(w) PROVE SizesInv'
    <3>1. UNCHANGED staged /\ jobs[w].pc = "adapters"
      BY <2>8, Zenon DEF ResolveForTonight
    <3>2. /\ \A o \in Workers \ {w} : jobs'[o] = jobs[o]
          /\ jobs'[w].pc = "sync"
          /\ \A f \in {"kind", "stamp", "team"} : jobs'[w][f] = jobs[w][f]
          /\ jobs'[w].adapters = BuildAdapters(staged[ProcessOf[w]].sizes, DayOf(jobs[w].stamp))
      BY <2>8, ResolveMoves, Fields DEF Moves, SameBut
    <3>3. ASSUME jobs[w].kind = "nightly" PROVE Tonight(w)'
      <4>1. \A row \in Range(staged'[ProcessOf[w]].rows) : row.synced # jobs'[w].stamp
        BY <3>1, <3>2, <3>3 DEF SizesInv, Tonight, ToPull
      <4>2. jobs'[w].team = "ok" => jobs'[w].adapters = BuildAdapters(AllSizes, DayOf(jobs'[w].stamp))
        BY <3>1, <3>2, <3>3 DEF SizesInv, Tonight
      <4>3. BuildAdapters(AllSizes, DayOf(jobs'[w].stamp)) = BuildAdapters(AllSizes, DayOf(jobs[w].stamp))'
        BY DEF BuildAdapters, AllSizes, ShownTeams, DayOf
      <4>4. QED BY <3>2, <4>1, <4>2 DEF Tonight
    <3>4. \A o \in Workers \ {w} : jobs'[o].kind = "nightly" => jobs[o].kind = "nightly" /\ Undisturbed(o)
      BY <3>2 DEF SizesInv, Tonight, Undisturbed
    <3>5. QED BY <2>5, <3>1, <3>2, <3>3, <3>4
  <2>9. ASSUME NEW w \in Workers, NEW fault \in Faults, SyncTonight(w, fault) PROVE SizesInv'
    <3>1. jobs[w].pc = "sync" /\ \E results : Stage(w, results)
      BY <2>9, Zenon DEF SyncTonight
    <3>2. /\ \A o \in Workers \ {w} : jobs'[o] = jobs[o]
          /\ jobs'[w].pc = "fold" /\ \A f \in {"kind", "stamp", "team"} : jobs'[w][f] = jobs[w][f]
      BY <2>9, SyncTonightMoves, Fields DEF Moves, SameBut
    <3>3. /\ ProcessOf[w] \in Processes
          /\ \A p \in Processes \ {ProcessOf[w]} : staged'[p] = staged[p]
          /\ \A row \in Range(staged'[ProcessOf[w]].rows) :
                \/ row \in Range(staged[ProcessOf[w]].rows)
                \/ \E a \in DOMAIN jobs[w].adapters, i \in DOMAIN jobs[w].weeks : row \in TonightsPull(jobs[w], a, i, fault).rows
      BY <2>9, TonightAdds
    <3>4. ASSUME NEW a, NEW i, NEW row \in TonightsPull(jobs[w], a, i, fault).rows
          PROVE  \E repo, window, outcome : row = SyncRepo(jobs[w].adapters[a], repo, window, today, jobs[w].stamp, outcome)
      <4> DEFINE week == jobs[w].weeks[i]
                 window == NightlyWindow(week, DayOf(jobs[w].stamp))
      <4>1. row \in Pull(jobs[w].adapters[a], week, window, jobs[w].stamp, fault).rows
        BY <3>4, Zenon DEF TonightsPull
      <4> HIDE DEF week, window
      <4>2. QED BY <4>1, PullStages
    <3>5. \A row \in Range(staged'[ProcessOf[w]].rows) :
             row \in Range(staged[ProcessOf[w]].rows) \/ row.synced = jobs[w].stamp
      BY <3>3, <3>4 DEF SyncRepo
    <3>6. \A p \in Processes : staged'[p].sizes = staged[p].sizes
      BY <3>1, StageKeepsSizes
    <3>7. /\ \A p \in Processes : Told(staged'[p].sizes) /\ \A row \in Range(staged'[p].rows) : row.synced < Stamp'
          /\ \A o \in Workers \ {w} : jobs'[o].kind = "nightly" => Tonight(o)'
      BY <2>1, <2>2, <3>1, <3>2, <3>3, <3>5, <3>6, StagingDisturbsNone
    <3>8. ASSUME jobs'[w].kind = "nightly" PROVE Tonight(w)'
      <4>1. jobs[w].kind = "nightly" /\ Tonight(w)
        BY <3>2, <3>8 DEF SizesInv
      <4>2. ASSUME jobs[w].team = "ok", NEW row \in Range(staged'[ProcessOf[w]].rows), row.synced = jobs[w].stamp
            PROVE  Gated(row, DayOf(jobs[w].stamp))
        <5>1. row \notin Range(staged[ProcessOf[w]].rows)
          BY <3>1, <4>1, <4>2 DEF Tonight, ToPull
        <5>2. jobs[w].adapters = BuildAdapters(AllSizes, DayOf(jobs[w].stamp))
          BY <3>1, <4>1, <4>2 DEF Tonight
        <5>3. PICK a, repo, window, outcome :
                /\ a \in DOMAIN jobs[w].adapters
                /\ row = SyncRepo(jobs[w].adapters[a], repo, window, today, jobs[w].stamp, outcome)
          BY <3>3, <3>4, <4>2, <5>1
        <5>4. a \in DOMAIN Orgs
          BY <5>2, <5>3 DEF BuildAdapters
        <5>5. QED BY <5>2, <5>3, <5>4, PulledIsGated
      <4>3. \A row, day : Gated(row, day)' = Gated(row, day)
        BY DEF Gated, NamesApart, ShownSizes, OwnersAt, EffectiveAt, BoundaryKeys, RepoKeys
      <4>4. QED BY <3>2, <4>2, <4>3 DEF Tonight, ToPull
    <3>9. QED BY <2>4, <3>7, <3>8
  <2>10. ASSUME NEW w \in Workers, NEW fault \in Faults, SyncPastWeek(w, fault) PROVE SizesInv'
    <3>1. jobs[w].pc = "pull" /\ \E results : Stage(w, results)
      BY <2>10, Zenon DEF SyncPastWeek
    <3>2. jobs'[w].kind = jobs[w].kind /\ \A o \in Workers \ {w} : jobs'[o] = jobs[o]
      BY <2>10, SyncPastWeekMoves, Fields DEF Moves, SameBut
    <3>3. /\ ProcessOf[w] \in Processes
          /\ \A p \in Processes \ {ProcessOf[w]} : staged'[p] = staged[p]
          /\ \A row \in Range(staged'[ProcessOf[w]].rows) :
                row \in Range(staged[ProcessOf[w]].rows) \/ \E a \in DOMAIN Orgs : row \in PastPull(w, a, fault).rows
      BY <2>10, PastWeekAdds
    <3>4. ASSUME NEW a, NEW row \in PastPull(w, a, fault).rows PROVE row.synced = jobs[w].stamp
      <4> DEFINE week == Head(jobs[w].weeks)
                 window == BackfillWindow(week)
                 adapter == BuildAdapters(staged[ProcessOf[w]].sizes, FirstDay(week))[a]
      <4>1. row \in Pull(adapter, week, window, jobs[w].stamp, fault).rows
        BY <3>4, Zenon DEF PastPull
      <4> HIDE DEF week, window, adapter
      <4>2. PICK repo, outcome : row = SyncRepo(adapter, repo, window, today, jobs[w].stamp, outcome)
        BY <4>1, PullStages
      <4>3. QED BY <4>2 DEF SyncRepo
    <3>5. \A row \in Range(staged'[ProcessOf[w]].rows) :
             row \in Range(staged[ProcessOf[w]].rows) \/ row.synced = jobs[w].stamp
      BY <3>3, <3>4
    <3>6. \A p \in Processes : staged'[p].sizes = staged[p].sizes
      BY <3>1, StageKeepsSizes
    <3>7. /\ \A p \in Processes : Told(staged'[p].sizes) /\ \A row \in Range(staged'[p].rows) : row.synced < Stamp'
          /\ \A o \in Workers \ {w} : jobs'[o].kind = "nightly" => Tonight(o)'
      BY <2>1, <2>2, <3>1, <3>2, <3>3, <3>5, <3>6, StagingDisturbsNone
    <3>8. jobs'[w].kind # "nightly"
      BY <3>1, <3>2 DEF ComingInv
    <3>9. QED BY <2>4, <3>7, <3>8
  <2>11. ASSUME NEW w \in Workers, FoldReads(w) \/ FoldWrites(w) \/ FoldEnds(w) \/ ReadActivity(w) \/ ReadSnapshots(w)
                 \/ JudgeProject(w) \/ SaveWarning(w) \/ SaveSnapshot(w) \/ WeekEnds(w)
         PROVE  SizesInv'
    <3>1. UNCHANGED staged /\ jobs[w].pc \notin ToPull /\ JobStep(w)
      BY <2>11, Zenon DEF FoldReads, FoldWrites, FoldEnds, Folding, ReadActivity, ReadSnapshots, JudgeProject, SaveWarning,
                         SaveSnapshot, WeekEnds, stores, JobStep, ToPull
    <3>2. \A o \in Workers \ {w} : jobs'[o].adapters = jobs[o].adapters
      <4>1. CASE FoldReads(w)
        BY <4>1, FoldReadsMoves, Fields DEF SameBut
      <4>2. CASE ~FoldReads(w)
        BY <2>11, <4>2, FoldWritesMoves, FoldEndsMoves, ReadActivityMoves, ReadSnapshotsMoves, JudgeMoves, SaveWarningMoves,
           SaveSnapshotMoves, WeekEndsMoves DEF Moves
      <4>3. QED BY <4>1, <4>2
    <3>3. /\ \A o \in Workers : jobs'[o].kind = jobs[o].kind /\ jobs'[o].stamp = jobs[o].stamp
          /\ \A o \in Workers \ {w} : jobs'[o].pc = jobs[o].pc /\ jobs'[o].team = jobs[o].team
          /\ jobs[w].kind = "nightly" => jobs'[w].pc \notin ToPull /\ jobs'[w].team = jobs[w].team
      BY <3>1, StepsKeepReports
    <3>4. jobs'[w].pc # "idle"
      BY <3>1, StepsStayUp
    <3>5. \A o \in Workers : jobs'[o].kind = "nightly" => jobs[o].kind = "nightly" /\ Undisturbed(o)
      BY <3>2, <3>3, <3>4 DEF SizesInv, Tonight, Undisturbed
    <3>6. QED BY <2>5, <3>1, <3>5
  <2>12. ASSUME NEW p \in Processes, Crash(p) PROVE SizesInv'
    <3>1. /\ staged' = [staged EXCEPT ![p] = [rows |-> <<>>, sizes |-> <<>>]]
          /\ jobs' = [w \in Workers |-> IF ProcessOf[w] = p THEN NoJob ELSE jobs[w]]
      BY <2>12, Zenon DEF Crash
    <3>2. \A q \in Processes : staged'[q] = IF q = p THEN [rows |-> <<>>, sizes |-> <<>>] ELSE staged[q]
      BY <3>1 DEF Buffers
    <3>3. Range(<<>>) = {} /\ Told(<<>>)
      BY DEF Range, Told
    <3>4. \A q \in Processes : Told(staged'[q].sizes) /\ \A row \in Range(staged'[q].rows) : row.synced < Stamp'
      BY <2>2, <3>2, <3>3 DEF SizesInv
    <3>5. ASSUME NEW o \in Workers, jobs'[o].kind = "nightly" PROVE Tonight(o)'
      <4>1. ProcessOf[o] # p /\ jobs'[o] = jobs[o]
        BY <3>1, <3>5 DEF NoJob
      <4>2. Tonight(o) /\ Undisturbed(o)
        BY <3>5, <4>1 DEF SizesInv, Tonight, Undisturbed
      <4>3. BufferKept(ProcessOf[o], jobs[o].stamp)
        BY <2>3, <3>2, <4>1 DEF BufferKept
      <4>4. QED BY <4>2, <4>3, TonightStands
    <3>6. QED BY <2>4, <3>4, <3>5
  <2>13. CASE Tomorrow \/ UNCHANGED pipelineVars
    <3>1. UNCHANGED <<jobs, staged>>
      BY <2>13, QuietMoves
    <3>2. \A o \in Workers : jobs'[o].kind = "nightly" => jobs[o].kind = "nightly" /\ Undisturbed(o)
      BY <3>1 DEF SizesInv, Tonight, Undisturbed
    <3>3. QED BY <2>5, <3>1, <3>2
  <2>14. QED BY <2>6, <2>7, <2>8, <2>9, <2>10, <2>11, <2>12, <2>13, StepCases
<1>3. QED BY <1>1, <1>2, JobsHold, ClockHolds, StampsHold, BuffersHold, ComingHolds, PTL DEF PipelineSpec

\* The rows a nightly stages after a directory pulled whole carry the size of the
\* largest team that owns them, on its first run too and whatever overlaps it, where
\* names cannot be confused; and no size of a team that has no part in them.
THEOREM RowsKnowTheirTeams == PipelineSpec => []SizesReachTheRows
<1>1. SizesInv => SizesReachTheRows
  BY DEF SizesInv, Tonight, SizesReachTheRows, GatedTonight, Gated
<1>2. QED BY <1>1, SizesHold, PTL
===============================================================================
