---------------------------- MODULE DashboardProofs ----------------------------
(***************************************************************************)
(* The progress a reader sees is for the chosen date, and whatever says it *)
(* is loading has exactly one request behind it.  The argument is about    *)
(* the current run alone: an older run's requests may come back or take    *)
(* their next project at any time, and change nothing the reader sees.     *)
(***************************************************************************)
EXTENDS Dashboard, FiniteSetTheorems, TLAPS

Entries == [state : {"pending", "error", "done"}, of : Dates \cup {NoDate}]
Results == UNION {[S -> Entries] : S \in SUBSET Shown}

ProgressRecords ==
    [date : Dates \cup {NoDate}, run : Nat, scope : Shown \cup {"all", "none"}, loading : BOOLEAN,
     failed : BOOLEAN, loaded : Dates \cup {NoDate}, result : Results]

ProgressRequests ==
    [kind : {"list", "post"}, run : 1..MaxProgressRuns, date : Dates \cup {NoDate},
     project : Shown \cup {"all"}, worker : BOOLEAN]

DashTypes ==
    /\ snapshot \in {"loading", "ready", "error"} /\ boot \in {"going", "done", "failed"}
    /\ screen \in Routes
    /\ progress \in ProgressRecords /\ progress.run <= MaxProgressRuns
    /\ inFlight \subseteq ProgressRequests
    /\ \A r \in inFlight : r.kind = "post" => r.project \in Shown
    /\ fanOut \in [1..MaxProgressRuns -> SUBSET Shown]

-------------------------------------------------------------------------------
(* The current run: p stands for progress, flying for inFlight, out for fanOut. *)

Queued(p, out) == IF p.run \in 1..MaxProgressRuns THEN out[p.run] ELSE {}
Flies(p, flying, q) == \E r \in flying : r.run = p.run /\ r.project = q
Waits(p, q) == q \in DOMAIN p.result /\ p.result[q].state = "pending"

\* Nothing is newer than the current run, whose requests ask for its date and scope.
RunIsNewest(p, flying, out) ==
    /\ \A r \in flying : r.run <= p.run
    /\ \A r \in flying : r.run = p.run => r.date = p.date /\ (r.kind = "list" => r.project = p.scope)
    /\ \A n \in 1..MaxProgressRuns : n > p.run => out[n] = {}

\* What each scope of the current run has collected.
ScopeFits(p) ==
    /\ p.scope # "none" => p.run > 0
    /\ p.scope = "all" /\ p.loading => DOMAIN p.result = {}
    /\ p.scope = "all" /\ ~p.loading /\ ~p.failed => DOMAIN p.result = Shown
    /\ p.scope = "none" => /\ p.loaded = NoDate /\ ~p.failed /\ DOMAIN p.result = {}
                           /\ p.loading <=> p.date # NoDate
    /\ p.loading \/ p.failed => p.date # NoDate
    /\ p.loading => p.scope \in {"all", "none"}
    /\ \A q \in DOMAIN p.result : p.result[q].state = "done" => p.result[q].of = p.date

\* What waits has one request of the current run, in flight or queued.
OneBehindEach(p, flying, out) ==
    /\ \A r, s \in flying : r.run = p.run /\ s.run = p.run /\ r.project = s.project => r = s
    /\ \A q \in Queued(p, out) : ~Flies(p, flying, q)
    /\ \A q \in Shown : Flies(p, flying, q) \/ q \in Queued(p, out) <=> Waits(p, q)
    /\ Flies(p, flying, "all") <=> p.loading /\ p.scope = "all"

RunOK(p, flying, out) == RunIsNewest(p, flying, out) /\ ScopeFits(p) /\ OneBehindEach(p, flying, out)

\* Where the reader is, and what was loaded for it.
ViewInv ==
    /\ boot = "done" => snapshot = "ready"
    /\ boot = "going" => snapshot = "loading"
    /\ progress.scope # "none" => snapshot = "ready"
    /\ snapshot = "ready" /\ screen.view = "projects" /\ progress.date # NoDate
        => progress.scope = "all" \/ progress.loaded = progress.date \/ RouteLoadsWereLost

Rows == [open : Nat, sent : Nat, clicks : Nat]

LazyInv ==
    /\ lazyMissing \subseteq LazyRows /\ lazyComputing \subseteq LazyRows /\ lazyErrors \subseteq LazyRows
    /\ lazyPosts \in [LazyRows -> Rows]
    /\ \A p \in LazyRows :
        /\ lazyPosts[p].open = IF p \in lazyComputing THEN 1 ELSE 0
        /\ lazyPosts[p].sent <= 1 + lazyPosts[p].clicks
        /\ lazyPosts[p].sent # 0 => p \in lazyComputing \cup lazyErrors \/ p \notin lazyMissing
    /\ snapshot # "ready" => lazyComputing = {} /\ \A p \in LazyRows : lazyPosts[p].sent = 0

DashInv == DashTypes /\ RunOK(progress, inFlight, fanOut) /\ ViewInv /\ LazyInv

-------------------------------------------------------------------------------
(* What a run has collected *)

LEMMA ResultFacts ==
    ASSUME NEW f \in Results
    PROVE  DOMAIN f \subseteq Shown /\ \A q \in DOMAIN f : f[q] \in Entries
BY DEF Results

LEMMA NothingIsAResult == <<>> \in Results /\ DOMAIN <<>> = {}
<1>1. <<>> \in [{} -> Entries] /\ DOMAIN <<>> = {}
  OBVIOUS
<1>2. QED BY <1>1 DEF Results

LEMMA WithIsAResult ==
    ASSUME NEW f \in Results, NEW k \in Shown, NEW e \in Entries
    PROVE  /\ With(f, k, e) \in Results /\ DOMAIN With(f, k, e) = DOMAIN f \cup {k}
           /\ With(f, k, e)[k] = e
           /\ \A q \in DOMAIN f : q # k => With(f, k, e)[q] = f[q]
<1>1. DOMAIN f \cup {k} \in SUBSET Shown /\ \A q \in DOMAIN f : f[q] \in Entries
  BY ResultFacts
<1>2. With(f, k, e) \in [DOMAIN f \cup {k} -> Entries]
  BY <1>1 DEF With
<1>3. With(f, k, e) \in Results
  BY <1>1, <1>2 DEF Results
<1>4. QED BY <1>3 DEF With

LEMMA EntriesFacts ==
    /\ Pending \in Entries /\ Failed \in Entries
    /\ \A d \in Dates \cup {NoDate} : Done(d) \in Entries
    /\ Pending.state = "pending" /\ Failed.state = "error"
    /\ \A d : Done(d).state = "done" /\ Done(d).of = d
BY DEF Entries, Pending, Failed, Done

-------------------------------------------------------------------------------
(* A new run has nothing under way *)

LEMMA NewRun ==
    ASSUME NEW p \in ProgressRecords, NEW o \in ProgressRecords, NEW flying \in SUBSET ProgressRequests,
           NEW out \in [1..MaxProgressRuns -> SUBSET Shown],
           RunIsNewest(p, flying, out), o.run = p.run + 1
    PROVE  /\ \A r \in flying : r.run < o.run
           /\ Queued(o, out) = {}
           /\ \A n \in 1..MaxProgressRuns : n > o.run => out[n] = {}
<1>1. \A r \in flying : r.run \in Nat /\ r.run <= p.run
  BY DEF ProgressRequests, RunIsNewest
<1>2. p.run \in Nat /\ MaxProgressRuns \in Nat
  BY DashboardAssumption DEF ProgressRecords
<1>3. QED BY <1>1, <1>2 DEF RunIsNewest, Queued

LEMMA SetDateFacts ==
    ASSUME NEW p \in ProgressRecords, NEW date \in Dates \cup {NoDate}, p.date # date
    PROVE  LET o == SetProgressDate(p, date)
           IN  /\ o \in ProgressRecords /\ o.run = p.run + 1 /\ o.date = date /\ o.scope = "none"
               /\ o.result = <<>> /\ o.loaded = NoDate /\ ~o.failed /\ (o.loading <=> date # NoDate)
<1> DEFINE run == p.run + 1
           loading == date # NoDate
           o == [p EXCEPT !.run = run, !.date = date, !.scope = "none", !.result = <<>>, !.loaded = NoDate,
                          !.failed = FALSE, !.loading = loading]
<1>1. SetProgressDate(p, date) = o
  BY DEF SetProgressDate
<1>2. run \in Nat /\ loading \in BOOLEAN /\ NoDate \in Dates \cup {NoDate} /\ run = p.run + 1
  BY DEF ProgressRecords
<1>3. loading <=> date # NoDate
  OBVIOUS
<1> HIDE DEF run, loading
<1>4. /\ o.run = run /\ o.date = date /\ o.scope = "none" /\ o.result = <<>> /\ o.loaded = NoDate
      /\ ~o.failed /\ (o.loading <=> loading)
  BY Zenon DEF ProgressRecords
<1>5. o \in ProgressRecords
  BY <1>2, NothingIsAResult, Zenon DEF ProgressRecords
<1> HIDE DEF o
<1>6. QED BY <1>1, <1>2, <1>3, <1>4, <1>5

LEMMA LoadAllFacts ==
    ASSUME NEW p \in ProgressRecords
    PROVE  LET o == LoadProgressAt(p)
           IN  /\ o \in ProgressRecords /\ o.run = p.run + 1 /\ o.date = p.date /\ o.scope = "all"
               /\ o.result = <<>> /\ o.loaded = p.loaded /\ ~o.failed /\ o.loading
<1> DEFINE run == p.run + 1
           o == [p EXCEPT !.run = run, !.scope = "all", !.result = <<>>, !.loading = TRUE, !.failed = FALSE]
<1>1. LoadProgressAt(p) = o
  BY DEF LoadProgressAt
<1>2. run \in Nat /\ run = p.run + 1
  BY DEF ProgressRecords
<1> HIDE DEF run
<1>4. /\ o.run = run /\ o.date = p.date /\ o.scope = "all" /\ o.result = <<>> /\ o.loaded = p.loaded
      /\ ~o.failed /\ o.loading
  BY Zenon DEF ProgressRecords
<1>5. o \in ProgressRecords
  BY <1>2, NothingIsAResult, Zenon DEF ProgressRecords
<1> HIDE DEF o
<1>6. QED BY <1>1, <1>2, <1>4, <1>5

LEMMA LoadOneFacts ==
    ASSUME NEW p \in ProgressRecords, NEW project \in Shown
    PROVE  LET o == LoadProgressForProject(p, project)
           IN  /\ o \in ProgressRecords /\ o.run = p.run + 1 /\ o.date = p.date /\ o.scope = project
               /\ DOMAIN o.result = {project} /\ o.result[project] = Pending
               /\ o.loaded = p.loaded /\ ~o.failed /\ ~o.loading
<1> DEFINE run == p.run + 1
           f == [q \in {project} |-> Pending]
           o == [p EXCEPT !.run = run, !.scope = project, !.result = f, !.loading = FALSE, !.failed = FALSE]
<1>1. f \in [{project} -> Entries] /\ {project} \in SUBSET Shown
  BY EntriesFacts
<1>2. f \in Results
  BY <1>1 DEF Results
<1>3. DOMAIN f = {project} /\ f[project] = Pending
  OBVIOUS
<1>4. LoadProgressForProject(p, project) = o
  BY DEF LoadProgressForProject
<1>5. run \in Nat /\ run = p.run + 1
  BY DEF ProgressRecords
<1> HIDE DEF f, run
<1>6. /\ o.run = run /\ o.date = p.date /\ o.scope = project /\ o.result = f /\ o.loaded = p.loaded
      /\ ~o.failed /\ ~o.loading
  BY Zenon DEF ProgressRecords
<1>7. o \in ProgressRecords
  BY <1>2, <1>5, Zenon DEF ProgressRecords
<1> HIDE DEF o
<1>8. QED BY <1>3, <1>4, <1>5, <1>6, <1>7

\* The list the current run asks for is its only request.
LEMMA FreshList ==
    ASSUME NEW p \in ProgressRecords, NEW o \in ProgressRecords, NEW flying \in SUBSET ProgressRequests,
           NEW out \in [1..MaxProgressRuns -> SUBSET Shown],
           RunIsNewest(p, flying, out), o.run = p.run + 1, ScopeFits(o), o.scope # "none",
           \A q \in Shown : Waits(o, q) <=> q = o.scope,
           o.loading <=> o.scope = "all"
    PROVE  RunOK(o, flying \cup {ListRequest(o)}, out)
<1> DEFINE l == ListRequest(o)
<1>1. l.run = o.run /\ l.date = o.date /\ l.project = o.scope
  BY DEF ListRequest
<1> HIDE DEF l
<1>2. /\ \A r \in flying : r.run < o.run
      /\ Queued(o, out) = {}
      /\ \A n \in 1..MaxProgressRuns : n > o.run => out[n] = {}
  BY NewRun
<1>3. \A q : Flies(o, flying \cup {l}, q) <=> q = o.scope
  BY <1>1, <1>2 DEF Flies, ProgressRecords, ProgressRequests
<1>4. RunIsNewest(o, flying \cup {l}, out)
  BY <1>1, <1>2 DEF RunIsNewest, ProgressRecords, ProgressRequests
<1>5. OneBehindEach(o, flying \cup {l}, out)
  <2>1. ASSUME NEW r \in flying \cup {l}, r.run = o.run PROVE r = l
    BY <1>2, <2>1 DEF ProgressRecords, ProgressRequests
  <2>2. QED BY <1>2, <1>3, <2>1 DEF OneBehindEach
<1>6. QED BY <1>4, <1>5 DEF RunOK, l

LEMMA LoadAllKeeps ==
    ASSUME NEW p \in ProgressRecords, NEW flying \in SUBSET ProgressRequests,
           NEW out \in [1..MaxProgressRuns -> SUBSET Shown],
           RunIsNewest(p, flying, out), p.date # NoDate
    PROVE  RunOK(LoadProgressAt(p), flying \cup {ListRequest(LoadProgressAt(p))}, out)
<1> DEFINE o == LoadProgressAt(p)
<1>1. /\ o \in ProgressRecords /\ o.run = p.run + 1 /\ o.date = p.date /\ o.scope = "all"
      /\ o.result = <<>> /\ ~o.failed /\ o.loading
  BY LoadAllFacts
<1> HIDE DEF o
<1>2. DOMAIN o.result = {}
  BY <1>1, NothingIsAResult
<1>3. ScopeFits(o)
  BY <1>1, <1>2 DEF ScopeFits, ProgressRecords
<1>4. \A q \in Shown : Waits(o, q) <=> q = o.scope
  BY <1>1, <1>2, DashboardAssumption DEF Waits
<1>5. RunOK(o, flying \cup {ListRequest(o)}, out)
  BY <1>1, <1>3, <1>4, FreshList
<1>6. QED BY <1>5 DEF o

LEMMA LoadOneKeeps ==
    ASSUME NEW p \in ProgressRecords, NEW project \in Shown, NEW flying \in SUBSET ProgressRequests,
           NEW out \in [1..MaxProgressRuns -> SUBSET Shown],
           RunIsNewest(p, flying, out)
    PROVE  LET o == LoadProgressForProject(p, project) IN RunOK(o, flying \cup {ListRequest(o)}, out)
<1> DEFINE o == LoadProgressForProject(p, project)
<1>1. /\ o \in ProgressRecords /\ o.run = p.run + 1 /\ o.date = p.date /\ o.scope = project
      /\ DOMAIN o.result = {project} /\ o.result[project] = Pending /\ ~o.failed /\ ~o.loading
  BY LoadOneFacts
<1> HIDE DEF o
<1>2. project # "all" /\ project # "none"
  BY DashboardAssumption
<1>3. ScopeFits(o)
  BY <1>1, <1>2, EntriesFacts DEF ScopeFits, ProgressRecords
<1>4. \A q \in Shown : Waits(o, q) <=> q = o.scope
  BY <1>1, EntriesFacts DEF Waits
<1>5. RunOK(o, flying \cup {ListRequest(o)}, out)
  BY <1>1, <1>2, <1>3, <1>4, FreshList
<1>6. QED BY <1>5 DEF o

\* A new date orphans what is in flight; the same date changes nothing.
LEMMA SetDateKeeps ==
    ASSUME NEW p \in ProgressRecords, NEW date \in Dates \cup {NoDate}, NEW flying \in SUBSET ProgressRequests,
           NEW out \in [1..MaxProgressRuns -> SUBSET Shown],
           RunOK(p, flying, out)
    PROVE  RunOK(SetProgressDate(p, date), flying, out)
<1>1. CASE p.date = date
  BY <1>1 DEF SetProgressDate
<1>2. CASE p.date # date
  <2> DEFINE o == SetProgressDate(p, date)
  <2>1. /\ o \in ProgressRecords /\ o.run = p.run + 1 /\ o.date = date /\ o.scope = "none"
        /\ o.result = <<>> /\ o.loaded = NoDate /\ ~o.failed /\ (o.loading <=> date # NoDate)
    BY <1>2, SetDateFacts
  <2> HIDE DEF o
  <2>2. DOMAIN o.result = {}
    BY <2>1, NothingIsAResult
  <2>3. ScopeFits(o)
    BY <2>1, <2>2 DEF ScopeFits
  <2>4. /\ \A r \in flying : r.run < o.run
        /\ Queued(o, out) = {}
        /\ \A n \in 1..MaxProgressRuns : n > o.run => out[n] = {}
    BY <2>1, NewRun DEF RunOK
  <2>5. \A r \in flying : r.run # o.run /\ r.run <= o.run
    BY <2>1, <2>4 DEF ProgressRecords, ProgressRequests
  <2>6. RunIsNewest(o, flying, out)
    BY <2>4, <2>5 DEF RunIsNewest
  <2>7. OneBehindEach(o, flying, out)
    <3>1. \A q : ~Flies(o, flying, q) /\ ~Waits(o, q)
      BY <2>2, <2>5 DEF Flies, Waits
    <3>2. \A r \in flying : r.run # o.run
      BY <2>5
    <3>3. QED BY <2>1, <2>4, <3>1, <3>2 DEF OneBehindEach
  <2>8. QED BY <2>3, <2>6, <2>7 DEF RunOK, o
<1>3. QED BY <1>1, <1>2

-------------------------------------------------------------------------------
(* Requests of an older run *)

LEMMA OldRunsAreHarmless ==
    ASSUME NEW p \in ProgressRecords, NEW flying \in SUBSET ProgressRequests,
           NEW out \in [1..MaxProgressRuns -> SUBSET Shown], RunOK(p, flying, out),
           NEW then \in SUBSET ProgressRequests, NEW out2 \in [1..MaxProgressRuns -> SUBSET Shown],
           \A r \in flying \cup then : r.run = p.run => r \in flying /\ r \in then,
           \A r \in then : r.run <= p.run,
           \A n \in 1..MaxProgressRuns : out2[n] = out[n] \/ (n # p.run /\ out2[n] \subseteq out[n])
    PROVE  RunOK(p, then, out2)
<1>1. Queued(p, out2) = Queued(p, out)
  BY DEF Queued
<1>2. \A q : Flies(p, then, q) <=> Flies(p, flying, q)
  BY DEF Flies
<1>3. RunIsNewest(p, then, out2)
  <2>1. \A r \in then : r.run = p.run => r \in flying
    OBVIOUS
  <2>2. \A n \in 1..MaxProgressRuns : out2[n] \subseteq out[n]
    OBVIOUS
  <2>3. QED BY <2>1, <2>2 DEF RunOK, RunIsNewest
<1>4. OneBehindEach(p, then, out2)
  <2>1. \A r \in then : r.run = p.run => r \in flying
    OBVIOUS
  <2>2. QED BY <1>1, <1>2, <2>1 DEF RunOK, OneBehindEach
<1>5. QED BY <1>3, <1>4 DEF RunOK

-------------------------------------------------------------------------------
(* Answers of the current run *)

\* The list of a date arrives: what the server has is shown, and each of the
\* others is in flight or queued.
LEMMA WholeListKeeps ==
    ASSUME NEW p \in ProgressRecords, NEW o \in ProgressRecords, NEW flying \in SUBSET ProgressRequests,
           NEW out \in [1..MaxProgressRuns -> SUBSET Shown], RunOK(p, flying, out),
           NEW r \in flying, r.run = p.run, r.kind = "list", r.project = "all",
           NEW missing \in SUBSET Shown, NEW first \in SUBSET missing,
           o.run = p.run, o.date = p.date, o.scope = p.scope, o.failed = p.failed, ~o.loading,
           DOMAIN o.result = Shown,
           \A q \in Shown : o.result[q] = IF q \in missing THEN Pending ELSE Done(r.date)
    PROVE  RunOK(o, (flying \ {r}) \cup {PostRequest(r.run, r.date, q, TRUE) : q \in first},
                 [out EXCEPT ![r.run] = missing \ first])
<1> DEFINE posts == {PostRequest(r.run, r.date, q, TRUE) : q \in first}
           then == (flying \ {r}) \cup posts
           out2 == [out EXCEPT ![r.run] = missing \ first]
<1>1. \A x \in posts : \E q \in first : x.run = r.run /\ x.date = r.date /\ x.project = q /\ x.kind = "post"
  BY DEF PostRequest
<1>2. \A q \in first : \E x \in posts : x.run = r.run /\ x.project = q
  <2> TAKE q \in first
  <2>1. PostRequest(r.run, r.date, q, TRUE) \in posts
    OBVIOUS
  <2>2. PostRequest(r.run, r.date, q, TRUE).run = r.run /\ PostRequest(r.run, r.date, q, TRUE).project = q
    BY DEF PostRequest
  <2>3. QED BY <2>1, <2>2
<1>3. \A x, y \in posts : x.project = y.project => x = y
  <2> SUFFICES ASSUME NEW x \in posts, NEW y \in posts, x.project = y.project PROVE x = y
    OBVIOUS
  <2>1. PICK a \in first : x = PostRequest(r.run, r.date, a, TRUE)
    OBVIOUS
  <2>2. PICK b \in first : y = PostRequest(r.run, r.date, b, TRUE)
    OBVIOUS
  <2>3. x.project = a /\ y.project = b
    BY <2>1, <2>2 DEF PostRequest
  <2>4. QED BY <2>1, <2>2, <2>3
<1>4. r.run \in 1..MaxProgressRuns /\ r.date = p.date /\ p.scope = "all" /\ p.loading
  <2>1. Flies(p, flying, "all")
    BY DEF Flies
  <2>2. QED BY <2>1 DEF RunOK, RunIsNewest, OneBehindEach, ProgressRequests
<1>5. out2[p.run] = missing \ first /\ \A n \in 1..MaxProgressRuns : n # p.run => out2[n] = out[n]
  BY <1>4
<1>6. Queued(o, out2) = missing \ first
  BY <1>4, <1>5 DEF Queued
<1> HIDE DEF posts, out2
<1>7. \A x \in flying : x.run = p.run => x = r
  <2> SUFFICES ASSUME NEW x \in flying, x.run = p.run PROVE x = r
    OBVIOUS
  <2>1. DOMAIN p.result = {}
    BY <1>4 DEF RunOK, ScopeFits
  <2>2. \A q \in Shown : ~Flies(p, flying, q)
    BY <2>1 DEF RunOK, OneBehindEach, Waits
  <2>3. x.project \in Shown \cup {"all"}
    BY DEF ProgressRequests
  <2>4. x.project = "all"
    BY <2>2, <2>3 DEF Flies
  <2>5. QED BY <2>4 DEF RunOK, OneBehindEach
<1>8. \A q : Flies(o, then, q) <=> q \in first
  BY <1>1, <1>2, <1>7 DEF Flies
<1>9. RunIsNewest(o, then, out2)
  <2>1. \A x \in then : x.run <= o.run
    BY <1>1, <1>4 DEF RunOK, RunIsNewest, ProgressRecords, ProgressRequests
  <2>2. \A x \in then : x.run = o.run => x.date = o.date /\ (x.kind = "list" => x.project = o.scope)
    BY <1>1, <1>4, <1>7
  <2>3. \A n \in 1..MaxProgressRuns : n > o.run => out2[n] = {}
    BY <1>5 DEF RunOK, RunIsNewest, ProgressRecords
  <2>4. QED BY <2>1, <2>2, <2>3 DEF RunIsNewest
<1>10. ScopeFits(o)
  BY <1>4, EntriesFacts DEF RunOK, ScopeFits
<1>11. OneBehindEach(o, then, out2)
  <2>1. \A q \in Shown : Waits(o, q) <=> q \in missing
    BY EntriesFacts DEF Waits
  <2>2. "all" \notin Shown
    BY DashboardAssumption
  <2>3. \A x, y \in then : x.run = o.run /\ y.run = o.run /\ x.project = y.project => x = y
    BY <1>3, <1>7
  <2>4. QED BY <1>6, <1>8, <2>1, <2>2, <2>3 DEF OneBehindEach
<1>12. RunOK(o, then, out2)
  BY <1>9, <1>10, <1>11 DEF RunOK
<1>13. QED BY <1>12 DEF posts, out2

\* The list of a date fails: it is no longer loading.
LEMMA WholeListFails ==
    ASSUME NEW p \in ProgressRecords, NEW o \in ProgressRecords, NEW flying \in SUBSET ProgressRequests,
           NEW out \in [1..MaxProgressRuns -> SUBSET Shown], RunOK(p, flying, out),
           NEW r \in flying, r.run = p.run, r.project = "all",
           o.run = p.run, o.date = p.date, o.scope = p.scope, o.result = p.result, o.failed, ~o.loading
    PROVE  RunOK(o, flying \ {r}, out)
<1>1. p.scope = "all" /\ p.loading
  BY DEF RunOK, OneBehindEach, Flies
<1>2. \A q : Flies(o, flying \ {r}, q) <=> Flies(p, flying, q) /\ q # "all"
  BY DEF RunOK, OneBehindEach, Flies
<1>3. RunIsNewest(o, flying \ {r}, out)
  BY DEF RunOK, RunIsNewest
<1>4. ScopeFits(o)
  BY <1>1 DEF RunOK, ScopeFits
<1>5. OneBehindEach(o, flying \ {r}, out)
  <2>1. "all" \notin Shown
    BY DashboardAssumption
  <2>2. Queued(o, out) = Queued(p, out) /\ \A q : Waits(o, q) <=> Waits(p, q)
    BY DEF Queued, Waits
  <2>3. QED BY <1>2, <2>1, <2>2 DEF RunOK, OneBehindEach
<1>6. QED BY <1>3, <1>4, <1>5 DEF RunOK

\* The answer about one project comes.  Either its list request makes room for a
\* post about it, or nothing, or the worker takes its run's next project.
NextAfter(p, r, e, out, next, out2) ==
    /\ \A x \in next : /\ x.run = p.run /\ x.date = p.date /\ x.kind = "post" /\ x.project \in Shown
                       /\ \A y \in next : x = y
    /\ \A n \in 1..MaxProgressRuns : n # p.run => out2[n] = out[n]
    /\ \/ /\ out2 = out
          /\ e.state = "pending" <=> next # {}
          /\ \A x \in next : x.project = r.project
       \/ /\ e.state # "pending" /\ next # {}
          /\ \A x \in next : x.project \in out[p.run] /\ out2[p.run] = out[p.run] \ {x.project}

SameRun(p, o) ==
    /\ o.run = p.run /\ o.date = p.date /\ o.scope = p.scope /\ o.loaded = p.loaded
    /\ o.failed = p.failed /\ (o.loading <=> p.loading)

LEMMA EntryKeeps ==
    ASSUME NEW p \in ProgressRecords, NEW o \in ProgressRecords, NEW flying \in SUBSET ProgressRequests,
           NEW out \in [1..MaxProgressRuns -> SUBSET Shown], RunOK(p, flying, out),
           NEW r \in flying, r.run = p.run, r.project \in Shown,
           NEW e \in Entries, e.state = "done" => e.of = p.date,
           NEW out2 \in [1..MaxProgressRuns -> SUBSET Shown], NEW next \in SUBSET ProgressRequests,
           SameRun(p, o), o.result = With(p.result, r.project, e),
           NextAfter(p, r, e, out, next, out2)
    PROVE  RunOK(o, (flying \ {r}) \cup next, out2)
<1> DEFINE then == (flying \ {r}) \cup next
<1>1. r.run \in 1..MaxProgressRuns /\ p.run \in 1..MaxProgressRuns
  BY DEF ProgressRequests
<1>2. Queued(p, out) = out[p.run] /\ Queued(o, out2) = out2[p.run] /\ out2[p.run] \subseteq out[p.run]
  BY <1>1 DEF Queued, SameRun, NextAfter
<1>3. Flies(p, flying, r.project) /\ Waits(p, r.project) /\ r.project \notin out[p.run]
  <2>1. Flies(p, flying, r.project)
    BY DEF Flies
  <2>2. QED BY <1>2, <2>1 DEF RunOK, OneBehindEach
<1>4. /\ p.result \in Results /\ DOMAIN p.result \subseteq Shown
      /\ DOMAIN o.result = DOMAIN p.result /\ o.result[r.project] = e
      /\ \A q \in DOMAIN p.result : q # r.project => o.result[q] = p.result[q]
  <2>1. p.result \in Results
    BY DEF ProgressRecords
  <2>2. r.project \in DOMAIN p.result
    BY <1>3 DEF Waits
  <2>3. DOMAIN p.result \subseteq Shown
    BY <2>1, ResultFacts
  <2>4. /\ DOMAIN With(p.result, r.project, e) = DOMAIN p.result \cup {r.project}
        /\ With(p.result, r.project, e)[r.project] = e
        /\ \A q \in DOMAIN p.result : q # r.project => With(p.result, r.project, e)[q] = p.result[q]
    <3>1. PICK f \in Results : f = p.result
      BY <2>1
    <3>2. PICK k \in Shown : k = r.project
      OBVIOUS
    <3>3. /\ DOMAIN With(f, k, e) = DOMAIN f \cup {k}
          /\ With(f, k, e)[k] = e
          /\ \A q \in DOMAIN f : q # k => With(f, k, e)[q] = f[q]
      BY WithIsAResult
    <3>4. QED BY <3>1, <3>2, <3>3
  <2>5. QED BY <2>1, <2>2, <2>3, <2>4
<1>5. \A q : Flies(o, then, q) <=> (Flies(p, flying, q) /\ q # r.project) \/ \E x \in next : x.project = q
  <2>1. \A x \in flying : x.run = p.run /\ x.project = r.project => x = r
    BY DEF RunOK, OneBehindEach
  <2>2. QED BY <2>1 DEF Flies, SameRun, NextAfter
<1>6. RunIsNewest(o, then, out2)
  <2>1. \A x \in then : x.run <= o.run
    BY DEF RunOK, RunIsNewest, ProgressRecords, SameRun, NextAfter
  <2>2. \A x \in then : x.run = o.run => x.date = o.date /\ (x.kind = "list" => x.project = o.scope)
    BY DEF RunOK, RunIsNewest, SameRun, NextAfter
  <2>3. \A n \in 1..MaxProgressRuns : n > o.run => out2[n] = {}
    BY DEF RunOK, RunIsNewest, ProgressRecords, SameRun, NextAfter
  <2>4. QED BY <2>1, <2>2, <2>3 DEF RunIsNewest, SameRun, NextAfter
<1>7. ScopeFits(o)
  BY <1>3, <1>4 DEF RunOK, ScopeFits, Waits, SameRun, NextAfter
<1>8. OneBehindEach(o, then, out2)
  <2>1. \A x \in next : ~Flies(p, flying, x.project) \/ x.project = r.project
    BY <1>2 DEF RunOK, OneBehindEach, NextAfter
  <2>2. \A x, y \in then : x.run = o.run /\ y.run = o.run /\ x.project = y.project => x = y
    <3>1. \A x, y \in flying : x.run = p.run /\ y.run = p.run /\ x.project = y.project => x = y
      BY DEF RunOK, OneBehindEach
    <3>2. \A x \in flying \ {r}, y \in next : x.run = p.run => x.project # y.project
      BY <2>1, <3>1 DEF Flies
    <3>3. QED BY <3>1, <3>2 DEF SameRun, NextAfter
  <2>3. \A q \in Queued(o, out2) : ~Flies(o, then, q)
    <3>1. \A q \in out[p.run] : ~Flies(p, flying, q)
      BY <1>2 DEF RunOK, OneBehindEach
    <3>2. \A x \in next : x.project \notin out2[p.run]
      BY <1>3 DEF NextAfter
    <3>3. QED BY <1>2, <1>5, <3>1, <3>2
  <2>4. \A q \in Shown : q # r.project => (Waits(o, q) <=> Waits(p, q))
    BY <1>4 DEF Waits
  <2>5. Waits(o, r.project) <=> e.state = "pending"
    BY <1>3, <1>4 DEF Waits
  <2>6. \A q \in Shown : Flies(o, then, q) \/ q \in Queued(o, out2) <=> Waits(o, q)
    <3> SUFFICES ASSUME NEW q \in Shown PROVE Flies(o, then, q) \/ q \in Queued(o, out2) <=> Waits(o, q)
      OBVIOUS
    <3>1. Flies(p, flying, q) \/ q \in out[p.run] <=> Waits(p, q)
      BY <1>2 DEF RunOK, OneBehindEach
    <3>2. CASE q = r.project
      BY <1>2, <1>3, <1>5, <2>5, <3>2 DEF NextAfter
    <3>3. CASE q # r.project
      <4>1. CASE out2 = out /\ \A x \in next : x.project = r.project
        BY <1>2, <1>5, <2>4, <3>1, <3>3, <4>1
      <4>2. CASE next # {} /\ \A x \in next : x.project \in out[p.run] /\ out2[p.run] = out[p.run] \ {x.project}
        <5>1. PICK x \in next : \A y \in next : x = y
          BY <4>2 DEF NextAfter
        <5>2. x.project \in out[p.run] /\ out2[p.run] = out[p.run] \ {x.project}
          BY <4>2
        <5>3. (\E y \in next : y.project = q) <=> x.project = q
          BY <5>1
        <5>4. QED BY <1>2, <1>5, <2>4, <3>1, <3>3, <5>2, <5>3
      <4>3. QED BY <4>1, <4>2 DEF NextAfter
    <3>4. QED BY <3>2, <3>3
  <2>7. Flies(o, then, "all") <=> Flies(p, flying, "all")
    <3>1. "all" \notin Shown
      BY DashboardAssumption
    <3>2. r.project # "all" /\ \A x \in next : x.project # "all"
      BY <3>1 DEF NextAfter
    <3>3. QED BY <1>5, <3>2
  <2>8. QED BY <2>2, <2>3, <2>6, <2>7 DEF RunOK, OneBehindEach, SameRun
<1>9. QED BY <1>6, <1>7, <1>8 DEF RunOK

\* A failed entry is asked for again: it waits, and has its one request.
LEMMA RetryKeeps ==
    ASSUME NEW p \in ProgressRecords, NEW o \in ProgressRecords, NEW flying \in SUBSET ProgressRequests,
           NEW out \in [1..MaxProgressRuns -> SUBSET Shown], RunOK(p, flying, out),
           NEW q \in DOMAIN p.result, p.result[q].state = "error",
           o.run = p.run, o.date = p.date, o.scope = p.scope, o.loaded = p.loaded,
           o.failed = p.failed, o.loading <=> p.loading,
           DOMAIN o.result = DOMAIN p.result, o.result[q] = Pending,
           \A x \in DOMAIN p.result : x # q => o.result[x] = p.result[x]
    PROVE  RunOK(o, flying \cup {PostRequest(p.run, p.date, q, FALSE)}, out)
<1> DEFINE r == PostRequest(p.run, p.date, q, FALSE)
           then == flying \cup {r}
<1>1. r.run = p.run /\ r.date = p.date /\ r.kind = "post" /\ r.project = q
  BY DEF PostRequest
<1> HIDE DEF r
<1>2. q \in Shown /\ DOMAIN p.result \subseteq Shown
  BY ResultFacts DEF ProgressRecords
<1>3. ~Waits(p, q) /\ ~Flies(p, flying, q) /\ q \notin Queued(p, out)
  <2>1. ~Waits(p, q)
    BY DEF Waits
  <2>2. QED BY <1>2, <2>1 DEF RunOK, OneBehindEach
<1>4. \A x : Flies(o, then, x) <=> Flies(p, flying, x) \/ x = q
  BY <1>1 DEF Flies
<1>5. RunIsNewest(o, then, out)
  BY <1>1 DEF RunOK, RunIsNewest, ProgressRecords
<1>6. ScopeFits(o)
  BY EntriesFacts DEF RunOK, ScopeFits
<1>7. OneBehindEach(o, then, out)
  <2>1. \A x : Waits(o, x) <=> Waits(p, x) \/ x = q
    BY EntriesFacts DEF Waits
  <2>2. Queued(o, out) = Queued(p, out) /\ q # "all"
    BY <1>2, DashboardAssumption DEF Queued
  <2>3. \A x, y \in then : x.run = o.run /\ y.run = o.run /\ x.project = y.project => x = y
    <3>1. \A x \in flying : x.run = p.run => x.project # q
      BY <1>3 DEF Flies
    <3>2. QED BY <1>1, <3>1 DEF RunOK, OneBehindEach
  <2>4. QED BY <1>2, <1>3, <1>4, <2>1, <2>2, <2>3 DEF RunOK, OneBehindEach
<1>8. RunOK(o, then, out)
  BY <1>5, <1>6, <1>7 DEF RunOK
<1>9. QED BY <1>8 DEF r

-------------------------------------------------------------------------------
(* The requests a route makes *)

\* Begin(runs, p), of values: o is what progress becomes, then what inFlight does.
Begins(runs, p, flying, o, then) ==
    /\ o = IF runs = {} THEN p ELSE CHOOSE q \in runs : TRUE
    /\ o.run <= MaxProgressRuns
    /\ then = flying \cup {ListRequest(q) : q \in runs}

FlyingTypes(flying) ==
    /\ flying \in SUBSET ProgressRequests
    /\ \A r \in flying : r.kind = "post" => r.project \in Shown

LEMMA ListRequestIsTyped ==
    ASSUME NEW o \in ProgressRecords, o.run \in 1..MaxProgressRuns, o.scope # "none",
           NEW flying, FlyingTypes(flying)
    PROVE  FlyingTypes(flying \cup {ListRequest(o)})
<1>1. ListRequest(o) \in ProgressRequests /\ ListRequest(o).kind = "list"
  BY DEF ListRequest, ProgressRequests, ProgressRecords
<1>2. QED BY <1>1 DEF FlyingTypes

LEMMA BeginAll ==
    ASSUME NEW p \in ProgressRecords, NEW flying, NEW out \in [1..MaxProgressRuns -> SUBSET Shown],
           FlyingTypes(flying), RunOK(p, flying, out), p.date # NoDate, NEW o, NEW then,
           Begins({LoadProgressAt(p)}, p, flying, o, then)
    PROVE  /\ o \in ProgressRecords /\ o.run <= MaxProgressRuns /\ FlyingTypes(then) /\ RunOK(o, then, out)
           /\ o.date = p.date /\ o.loaded = p.loaded /\ o.scope = "all"
<1>1. o = LoadProgressAt(p) /\ o.run <= MaxProgressRuns /\ then = flying \cup {ListRequest(o)}
  <2> DEFINE q == LoadProgressAt(p)
  <2>1. Begins({q}, p, flying, o, then)
    OBVIOUS
  <2> HIDE DEF q
  <2>2. o = q /\ q.run <= MaxProgressRuns /\ then = flying \cup {ListRequest(q)}
    BY <2>1 DEF Begins
  <2>3. QED BY <2>2 DEF q
<1>2. o \in ProgressRecords /\ o.run = p.run + 1 /\ o.date = p.date /\ o.scope = "all" /\ o.loaded = p.loaded
  BY <1>1, LoadAllFacts
<1>3. o.run \in 1..MaxProgressRuns
  BY <1>1, <1>2, DashboardAssumption DEF ProgressRecords
<1>4. FlyingTypes(then)
  BY <1>1, <1>2, <1>3, ListRequestIsTyped
<1>5. RunOK(o, then, out)
  BY <1>1, LoadAllKeeps DEF FlyingTypes, RunOK
<1>6. QED BY <1>1, <1>2, <1>4, <1>5

LEMMA BeginOne ==
    ASSUME NEW p \in ProgressRecords, NEW flying, NEW out \in [1..MaxProgressRuns -> SUBSET Shown],
           FlyingTypes(flying), RunOK(p, flying, out), NEW project \in Shown, NEW o, NEW then,
           Begins({LoadProgressForProject(p, project)}, p, flying, o, then)
    PROVE  /\ o \in ProgressRecords /\ o.run <= MaxProgressRuns /\ FlyingTypes(then) /\ RunOK(o, then, out)
           /\ o.date = p.date /\ o.loaded = p.loaded /\ o.scope = project
<1>1. o = LoadProgressForProject(p, project) /\ o.run <= MaxProgressRuns /\ then = flying \cup {ListRequest(o)}
  <2> DEFINE q == LoadProgressForProject(p, project)
  <2>1. Begins({q}, p, flying, o, then)
    OBVIOUS
  <2> HIDE DEF q
  <2>2. o = q /\ q.run <= MaxProgressRuns /\ then = flying \cup {ListRequest(q)}
    BY <2>1 DEF Begins
  <2>3. QED BY <2>2 DEF q
<1>2. o \in ProgressRecords /\ o.run = p.run + 1 /\ o.date = p.date /\ o.scope = project /\ o.loaded = p.loaded
  BY <1>1, LoadOneFacts
<1>3. o.run \in 1..MaxProgressRuns /\ o.scope # "none"
  BY <1>1, <1>2, DashboardAssumption DEF ProgressRecords
<1>4. FlyingTypes(then)
  BY <1>1, <1>2, <1>3, ListRequestIsTyped
<1>5. RunOK(o, then, out)
  BY <1>1, LoadOneKeeps DEF FlyingTypes, RunOK
<1>6. QED BY <1>1, <1>2, <1>4, <1>5

LEMMA RoutesFacts ==
    ASSUME NEW route \in Routes
    PROVE  /\ route.view \in {"overview", "projects", "progress"}
           /\ route.asOf \in Dates \cup {NoDate}
           /\ route.view = "progress" => route.project \in Shown
BY DEF Routes

LEMMA RouteLoadsFacts ==
    ASSUME NEW p, NEW route \in Routes
    PROVE  \/ RouteLoads(p, route) = {} /\ ~(route.view = "projects" /\ p.date # NoDate /\ p.loaded # p.date)
           \/ RouteLoads(p, route) = {LoadProgressAt(p)} /\ p.date # NoDate
           \/ RouteLoads(p, route) = {LoadProgressForProject(p, route.project)} /\ route.view = "progress"
<1>1. CASE route.view = "projects"
  BY <1>1 DEF RouteLoads
<1>2. CASE route.view = "progress"
  BY <1>2 DEF RouteLoads
<1>3. CASE route.view = "overview"
  BY <1>3 DEF RouteLoads
<1>4. QED BY <1>1, <1>2, <1>3, RoutesFacts

LEMMA RouteKeeps ==
    ASSUME NEW p \in ProgressRecords, NEW flying, NEW out \in [1..MaxProgressRuns -> SUBSET Shown],
           FlyingTypes(flying), RunOK(p, flying, out), NEW o, NEW then,
           NEW route \in Routes, Begins(RouteLoads(p, route), p, flying, o, then)
    PROVE  /\ o \in ProgressRecords /\ o.run <= MaxProgressRuns /\ FlyingTypes(then) /\ RunOK(o, then, out)
           /\ route.view = "projects" /\ o.date # NoDate => o.scope = "all" \/ o.loaded = o.date
<1>1. CASE RouteLoads(p, route) = {} /\ ~(route.view = "projects" /\ p.date # NoDate /\ p.loaded # p.date)
  <2>1. o = p /\ o.run <= MaxProgressRuns /\ then = flying
    BY <1>1 DEF Begins
  <2>2. QED BY <1>1, <2>1
<1>2. CASE RouteLoads(p, route) = {LoadProgressAt(p)} /\ p.date # NoDate
  <2>1. Begins({LoadProgressAt(p)}, p, flying, o, then)
    BY <1>2
  <2>2. QED BY <1>2, <2>1, BeginAll
<1>3. CASE RouteLoads(p, route) = {LoadProgressForProject(p, route.project)} /\ route.view = "progress"
  <2>1. Begins({LoadProgressForProject(p, route.project)}, p, flying, o, then) /\ route.project \in Shown
    BY <1>3, RoutesFacts
  <2>2. QED BY <1>3, <2>1, BeginOne
<1>4. QED BY <1>1, <1>2, <1>3, RouteLoadsFacts

-------------------------------------------------------------------------------
(* The machine *)

LEMMA DashStarts == DashboardInit => DashInv
<1> SUFFICES ASSUME DashboardInit PROVE DashInv
  OBVIOUS
<1> DEFINE blank == [date |-> NoDate, run |-> 0, scope |-> "none", loading |-> FALSE, failed |-> FALSE,
                     loaded |-> NoDate, result |-> <<>>]
           empty == [r \in 1..MaxProgressRuns |-> {}]
<1>1. progress = SetProgressDate(blank, screen.asOf) /\ fanOut = empty /\ inFlight = {} /\ screen \in Routes
  BY DEF DashboardInit
<1>2. blank \in ProgressRecords
  BY NothingIsAResult DEF ProgressRecords
<1>3. /\ blank.run = 0 /\ blank.date = NoDate /\ blank.scope = "none" /\ ~blank.loading /\ ~blank.failed
      /\ blank.loaded = NoDate /\ DOMAIN blank.result = {}
  BY NothingIsAResult
<1>4. empty \in [1..MaxProgressRuns -> SUBSET Shown] /\ \A n \in 1..MaxProgressRuns : empty[n] = {}
  OBVIOUS
<1>5. Queued(blank, empty) = {} /\ \A q : ~Flies(blank, {}, q) /\ ~Waits(blank, q)
  BY <1>3, <1>4 DEF Queued, Flies, Waits
<1> HIDE DEF blank, empty
<1>6. RunOK(blank, {}, empty)
  <2>1. RunIsNewest(blank, {}, empty)
    BY <1>4 DEF RunIsNewest
  <2>2. ScopeFits(blank)
    BY <1>3 DEF ScopeFits
  <2>3. OneBehindEach(blank, {}, empty)
    BY <1>3, <1>5 DEF OneBehindEach
  <2>4. QED BY <2>1, <2>2, <2>3 DEF RunOK
<1>7. screen.asOf \in Dates \cup {NoDate}
  BY <1>1, RoutesFacts
<1>8. RunOK(progress, inFlight, fanOut)
  BY <1>1, <1>2, <1>4, <1>6, <1>7, SetDateKeeps
<1>9. progress \in ProgressRecords /\ progress.run <= MaxProgressRuns /\ progress.scope = "none"
  <2>1. CASE screen.asOf = NoDate
    <3>1. progress = blank
      BY <1>1, <1>3, <2>1 DEF SetProgressDate
    <3>2. QED BY <1>2, <1>3, <3>1, DashboardAssumption
  <2>2. CASE screen.asOf # NoDate
    <3>1. progress \in ProgressRecords /\ progress.run = blank.run + 1 /\ progress.scope = "none"
      BY <1>1, <1>2, <1>3, <1>7, <2>2, SetDateFacts
    <3>2. QED BY <1>3, <3>1, DashboardAssumption
  <2>3. QED BY <2>1, <2>2
<1>10. snapshot = "loading" /\ boot = "going"
  BY DEF DashboardInit
<1>11. DashTypes
  BY <1>1, <1>4, <1>9, <1>10 DEF DashTypes
<1>12. ViewInv
  BY <1>9, <1>10 DEF ViewInv
<1>13. LazyInv
  BY <1>10 DEF DashboardInit, LazyInv, Rows
<1>14. QED BY <1>8, <1>11, <1>12, <1>13 DEF DashInv

\* What the steps that leave the live rows alone have to show.
LEMMA LazyStays == LazyInv /\ UNCHANGED <<snapshot, lazyVars>> => LazyInv'
BY DEF LazyInv, lazyVars, Rows

LEMMA RunStaysTyped ==
    ASSUME DashTypes, snapshot' \in {"loading", "ready", "error"}, boot' \in {"going", "done", "failed"},
           screen' \in Routes,
           progress' \in ProgressRecords, progress'.run <= MaxProgressRuns, FlyingTypes(inFlight'),
           fanOut' \in [1..MaxProgressRuns -> SUBSET Shown]
    PROVE  DashTypes'
BY DEF DashTypes, FlyingTypes

LEMMA DashGoto ==
    ASSUME DashInv, NEW route \in Routes, Goto(route)
    PROVE  DashInv'
<1>1. /\ DashTypes /\ RunOK(progress, inFlight, fanOut) /\ ViewInv /\ LazyInv
      /\ FlyingTypes(inFlight) /\ progress \in ProgressRecords
      /\ fanOut \in [1..MaxProgressRuns -> SUBSET Shown] /\ route.asOf \in Dates \cup {NoDate}
  BY RoutesFacts DEF DashInv, DashTypes, FlyingTypes
<1>2. screen' = route /\ UNCHANGED <<snapshot, boot, fanOut, lazyVars>>
  BY DEF Goto
<1>3. PICK p : /\ p = IF route.view = "overview" THEN progress ELSE SetProgressDate(progress, route.asOf)
               /\ Begins(IF snapshot = "ready" THEN RouteLoads(p, route) ELSE {}, p, inFlight, progress', inFlight')
  BY Zenon DEF Goto, Begin, Begins
<1>4. /\ p \in ProgressRecords /\ RunOK(p, inFlight, fanOut)
      /\ p.scope = progress.scope \/ p.scope = "none"
  <2>1. CASE p = progress
    BY <1>1, <2>1
  <2>2. CASE p = SetProgressDate(progress, route.asOf)
    <3>1. RunOK(p, inFlight, fanOut)
      BY <1>1, <2>2, SetDateKeeps DEF FlyingTypes
    <3>2. p \in ProgressRecords /\ (p = progress \/ p.scope = "none")
      <4>1. CASE progress.date = route.asOf
        BY <1>1, <2>2, <4>1 DEF SetProgressDate
      <4>2. CASE progress.date # route.asOf
        BY <1>1, <2>2, <4>2, SetDateFacts
      <4>3. QED BY <4>1, <4>2
    <3>3. QED BY <3>1, <3>2
  <2>3. QED BY <1>3, <2>1, <2>2
<1>5. /\ progress' \in ProgressRecords /\ progress'.run <= MaxProgressRuns /\ FlyingTypes(inFlight')
      /\ RunOK(progress', inFlight', fanOut)
      /\ snapshot = "ready" /\ route.view = "projects" /\ progress'.date # NoDate
           => progress'.scope = "all" \/ progress'.loaded = progress'.date
      /\ snapshot # "ready" => progress' = p
  <2>1. CASE snapshot = "ready"
    <3>1. Begins(RouteLoads(p, route), p, inFlight, progress', inFlight')
      BY <1>3, <2>1
    <3>2. QED BY <1>1, <1>4, <2>1, <3>1, RouteKeeps
  <2>2. CASE snapshot # "ready"
    <3>1. progress' = p /\ inFlight' = inFlight /\ progress'.run <= MaxProgressRuns
      BY <1>3, <2>2 DEF Begins
    <3>2. QED BY <1>1, <1>4, <2>2, <3>1
  <2>3. QED BY <2>1, <2>2
<1>6. DashTypes'
  BY <1>1, <1>2, <1>5, RunStaysTyped DEF DashTypes
<1>7. ViewInv'
  BY <1>1, <1>2, <1>4, <1>5 DEF ViewInv
<1>8. LazyInv'
  BY <1>1, <1>2, LazyStays
<1>9. RunOK(progress, inFlight, fanOut)'
  BY <1>2, <1>5
<1>10. QED BY <1>6, <1>7, <1>8, <1>9 DEF DashInv

LEMMA DashSnapshotArrives == DashInv /\ SnapshotArrives => DashInv'
<1> SUFFICES ASSUME DashInv, SnapshotArrives PROVE DashInv'
  OBVIOUS
<1>1. /\ DashTypes /\ RunOK(progress, inFlight, fanOut) /\ ViewInv /\ LazyInv
      /\ FlyingTypes(inFlight) /\ progress \in ProgressRecords /\ screen \in Routes
      /\ fanOut \in [1..MaxProgressRuns -> SUBSET Shown]
  BY DEF DashInv, DashTypes, FlyingTypes
<1>2. /\ snapshot = "loading" /\ snapshot' = "ready" /\ UNCHANGED <<screen, fanOut, lazyPosts>>
      /\ lazyMissing' \in SUBSET LazyRows /\ lazyComputing' = {} /\ lazyErrors' = {}
      /\ boot' = IF boot = "going" THEN "done" ELSE boot
  BY DEF SnapshotArrives
<1>3. Begins(IF boot = "going" THEN RouteLoads(progress, screen) ELSE {}, progress, inFlight, progress', inFlight')
  BY Zenon DEF SnapshotArrives, Begin, Begins
<1>4. progress.scope = "none" /\ (boot = "going" \/ boot = "failed")
  BY <1>1, <1>2 DEF ViewInv, DashTypes
<1>5. /\ progress' \in ProgressRecords /\ progress'.run <= MaxProgressRuns /\ FlyingTypes(inFlight')
      /\ RunOK(progress', inFlight', fanOut)
      /\ screen.view = "projects" /\ progress'.date # NoDate
           => progress'.scope = "all" \/ progress'.loaded = progress'.date
                \/ (boot = "failed" /\ progress'.scope = "none")
  <2>1. CASE boot = "going"
    <3>1. Begins(RouteLoads(progress, screen), progress, inFlight, progress', inFlight')
      BY <1>3, <2>1
    <3>2. QED BY <1>1, <3>1, RouteKeeps
  <2>2. CASE boot # "going"
    <3>1. progress' = progress /\ inFlight' = inFlight /\ progress'.run <= MaxProgressRuns
      BY <1>3, <2>2 DEF Begins
    <3>2. QED BY <1>1, <1>4, <2>2, <3>1
  <2>3. QED BY <2>1, <2>2
<1>6. DashTypes'
  BY <1>1, <1>2, <1>5, RunStaysTyped DEF DashTypes
<1>7. ViewInv'
  BY <1>1, <1>2, <1>4, <1>5 DEF ViewInv, RouteLoadsWereLost
<1>8. LazyInv'
  BY <1>1, <1>2 DEF LazyInv, Rows
<1>9. RunOK(progress, inFlight, fanOut)'
  BY <1>2, <1>5
<1>10. QED BY <1>6, <1>7, <1>8, <1>9 DEF DashInv

LEMMA DashSnapshotRests ==
    ASSUME DashInv, SnapshotFails \/ RetryLatest
    PROVE  DashInv'
<1>1. DashTypes /\ RunOK(progress, inFlight, fanOut) /\ ViewInv /\ LazyInv
  BY DEF DashInv
<1>2. /\ UNCHANGED <<screen, progress, inFlight, fanOut, lazyMissing, lazyComputing, lazyErrors, lazyPosts>>
      /\ \/ snapshot = "loading" /\ snapshot' = "error" /\ boot' = IF boot = "going" THEN "failed" ELSE boot
         \/ snapshot = "error" /\ snapshot' = "loading" /\ boot' = boot
  BY DEF SnapshotFails, RetryLatest, lazyVars
<1>3. DashTypes'
  BY <1>1, <1>2 DEF DashTypes
<1>4. ViewInv'
  BY <1>1, <1>2 DEF ViewInv, DashTypes
<1>5. LazyInv'
  BY <1>1, <1>2 DEF LazyInv, Rows
<1>6. RunOK(progress, inFlight, fanOut)'
  BY <1>1, <1>2
<1>7. QED BY <1>3, <1>4, <1>5, <1>6 DEF DashInv

\* The steps that change only what the current run has collected.
LEMMA AnswersKeep ==
    ASSUME DashInv, UNCHANGED <<snapshot, boot, screen, lazyVars>>,
           progress' \in ProgressRecords, progress'.run = progress.run, progress'.date = progress.date,
           progress'.scope = progress.scope, progress'.loaded = progress.loaded \/ progress.scope = "all",
           FlyingTypes(inFlight'), fanOut' \in [1..MaxProgressRuns -> SUBSET Shown],
           RunOK(progress', inFlight', fanOut')
    PROVE  DashInv'
<1>1. DashTypes /\ ViewInv /\ LazyInv
  BY DEF DashInv
<1>2. DashTypes'
  BY <1>1, RunStaysTyped DEF DashTypes
<1>3. ViewInv'
  BY <1>1 DEF ViewInv, RouteLoadsWereLost
<1>4. LazyInv'
  BY <1>1, LazyStays
<1>5. QED BY <1>2, <1>3, <1>4 DEF DashInv

LEMMA DashRetryProgress == DashInv /\ RetryProgress => DashInv'
<1> SUFFICES ASSUME DashInv, RetryProgress PROVE DashInv'
  OBVIOUS
<1>1. /\ DashTypes /\ RunOK(progress, inFlight, fanOut) /\ ViewInv /\ LazyInv
      /\ FlyingTypes(inFlight) /\ progress \in ProgressRecords
      /\ fanOut \in [1..MaxProgressRuns -> SUBSET Shown]
  BY DEF DashInv, DashTypes, FlyingTypes
<1>2. snapshot = "ready" /\ UNCHANGED <<snapshot, boot, screen, fanOut, lazyVars>>
  BY DEF RetryProgress
<1>3. /\ progress' \in ProgressRecords /\ progress'.run <= MaxProgressRuns /\ FlyingTypes(inFlight')
      /\ RunOK(progress', inFlight', fanOut)
      /\ screen.view = "projects" => progress'.scope = "all"
  <2>1. CASE screen.view = "projects" /\ progress.failed /\ Begin({LoadProgressAt(progress)}, progress)
    <3>1. Begins({LoadProgressAt(progress)}, progress, inFlight, progress', inFlight')
      BY <2>1, Zenon DEF Begin, Begins
    <3>2. progress.date # NoDate
      BY <1>1, <2>1 DEF RunOK, ScopeFits
    <3>3. QED BY <1>1, <3>1, <3>2, BeginAll
  <2>2. CASE /\ screen.view = "progress" /\ InError(screen.project)
             /\ Begin({LoadProgressForProject(progress, screen.project)}, progress)
    <3>1. Begins({LoadProgressForProject(progress, screen.project)}, progress, inFlight, progress', inFlight')
      BY <2>2, Zenon DEF Begin, Begins
    <3>2. screen.project \in Shown
      BY <1>1, <2>2, RoutesFacts DEF DashTypes
    <3>3. QED BY <1>1, <2>2, <3>1, <3>2, BeginOne
  <2>3. QED BY <2>1, <2>2 DEF RetryProgress
<1>4. DashTypes'
  BY <1>1, <1>2, <1>3, RunStaysTyped DEF DashTypes
<1>5. ViewInv'
  BY <1>1, <1>2, <1>3 DEF ViewInv
<1>6. LazyInv'
  BY <1>1, <1>2, LazyStays
<1>7. RunOK(progress, inFlight, fanOut)'
  BY <1>2, <1>3
<1>8. QED BY <1>4, <1>5, <1>6, <1>7 DEF DashInv

LEMMA EntryUpdate ==
    ASSUME NEW p \in ProgressRecords, NEW k \in Shown, NEW e \in Entries
    PROVE  LET o == [p EXCEPT !.result = With(@, k, e)]
           IN  o \in ProgressRecords /\ SameRun(p, o) /\ o.result = With(p.result, k, e)
<1> DEFINE f == With(p.result, k, e)
           o == [p EXCEPT !.result = f]
<1>1. p.result \in Results
  BY DEF ProgressRecords
<1>2. f \in Results
  BY <1>1, WithIsAResult
<1> HIDE DEF f
<1>3. /\ o.run = p.run /\ o.date = p.date /\ o.scope = p.scope /\ o.loaded = p.loaded
      /\ o.failed = p.failed /\ o.loading = p.loading /\ o.result = f
  BY Zenon DEF ProgressRecords
<1>4. o \in ProgressRecords
  BY <1>2, Zenon DEF ProgressRecords
<1> HIDE DEF o
<1>5. SameRun(p, o)
  BY <1>3 DEF SameRun
<1>6. QED BY <1>3, <1>4, <1>5 DEF f, o

LEMMA RequestFacts ==
    ASSUME DashInv, NEW r \in inFlight
    PROVE  /\ DashTypes /\ RunOK(progress, inFlight, fanOut)
           /\ FlyingTypes(inFlight) /\ inFlight \in SUBSET ProgressRequests /\ progress \in ProgressRecords
           /\ fanOut \in [1..MaxProgressRuns -> SUBSET Shown]
           /\ r \in ProgressRequests /\ r.run \in 1..MaxProgressRuns /\ r.run <= progress.run
           /\ r.date \in Dates \cup {NoDate} /\ r.project \in Shown \cup {"all"}
           /\ r.run = progress.run => r.date = progress.date
           /\ r.kind = "post" => r.project \in Shown
BY DEF DashInv, DashTypes, FlyingTypes, RunOK, RunIsNewest, ProgressRequests

LEMMA StaleAnswer ==
    ASSUME DashInv, NEW r \in inFlight, r.run # progress.run,
           UNCHANGED <<progress, snapshot, boot, screen, lazyVars>>,
           NEW next \in SUBSET ProgressRequests,
           \A x \in next : x.kind = "post" /\ x.run = r.run /\ x.project \in Shown,
           inFlight' = (inFlight \ {r}) \cup next,
           fanOut' \in [1..MaxProgressRuns -> SUBSET Shown],
           \A n \in 1..MaxProgressRuns : fanOut'[n] = fanOut[n] \/ (n = r.run /\ fanOut'[n] \subseteq fanOut[n])
    PROVE  DashInv'
<1>1. /\ RunOK(progress, inFlight, fanOut) /\ FlyingTypes(inFlight) /\ progress \in ProgressRecords
      /\ inFlight \in SUBSET ProgressRequests /\ fanOut \in [1..MaxProgressRuns -> SUBSET Shown]
      /\ r.run <= progress.run
  BY RequestFacts
<1>2. FlyingTypes(inFlight')
  BY <1>1 DEF FlyingTypes
<1>3. RunOK(progress, inFlight', fanOut')
  <2>1. \A x \in inFlight \cup inFlight' : x.run = progress.run => x \in inFlight /\ x \in inFlight'
    OBVIOUS
  <2>2. \A x \in inFlight' : x.run <= progress.run
    BY <1>1 DEF RunOK, RunIsNewest
  <2>3. inFlight' \in SUBSET ProgressRequests
    BY <1>2 DEF FlyingTypes
  <2>4. \A n \in 1..MaxProgressRuns :
          fanOut'[n] = fanOut[n] \/ (n # progress.run /\ fanOut'[n] \subseteq fanOut[n])
    OBVIOUS
  <2>5. QED BY <1>1, <2>1, <2>2, <2>3, <2>4, OldRunsAreHarmless
<1>4. QED BY <1>1, <1>2, <1>3, AnswersKeep

\* The list of one project, or a post about one, is answered with entry e.
LEMMA CurrentAnswer ==
    ASSUME DashInv, NEW r \in inFlight, r.run = progress.run, r.project \in Shown,
           UNCHANGED <<snapshot, boot, screen, lazyVars>>,
           NEW e \in Entries, e.state = "done" => e.of = r.date,
           progress' = [progress EXCEPT !.result = With(@, r.project, e)],
           NEW next \in SUBSET ProgressRequests,
           inFlight' = (inFlight \ {r}) \cup next,
           fanOut' \in [1..MaxProgressRuns -> SUBSET Shown],
           NextAfter(progress, r, e, fanOut, next, fanOut')
    PROVE  DashInv'
<1>1. /\ RunOK(progress, inFlight, fanOut) /\ FlyingTypes(inFlight) /\ progress \in ProgressRecords
      /\ inFlight \in SUBSET ProgressRequests /\ fanOut \in [1..MaxProgressRuns -> SUBSET Shown]
      /\ r.date = progress.date
  BY RequestFacts
<1>2. progress' \in ProgressRecords /\ SameRun(progress, progress') /\ progress'.result = With(progress.result, r.project, e)
  BY <1>1, EntryUpdate
<1>3. FlyingTypes(inFlight')
  BY <1>1 DEF FlyingTypes, NextAfter
<1>4. RunOK(progress', inFlight', fanOut')
  BY <1>1, <1>2, EntryKeeps
<1>5. QED BY <1>2, <1>3, <1>4, AnswersKeep DEF SameRun

LEMMA DashListArrives ==
    ASSUME DashInv, NEW r \in inFlight, NEW missing \in SUBSET Shown, ListArrives(r, missing)
    PROVE  DashInv'
<1> DEFINE entry(q) == IF q \in missing THEN Pending ELSE Done(r.date)
<1>1. /\ RunOK(progress, inFlight, fanOut) /\ FlyingTypes(inFlight) /\ progress \in ProgressRecords
      /\ inFlight \in SUBSET ProgressRequests /\ fanOut \in [1..MaxProgressRuns -> SUBSET Shown]
      /\ r.run \in 1..MaxProgressRuns /\ r.date \in Dates \cup {NoDate} /\ r.project \in Shown \cup {"all"}
  BY RequestFacts
<1>2. r.kind = "list" /\ UNCHANGED <<snapshot, boot, screen, lazyVars>>
  BY DEF ListArrives
<1>3. CASE Stale(r) /\ inFlight' = inFlight \ {r} /\ UNCHANGED <<progress, fanOut>>
  <2>1. r.run # progress.run /\ inFlight' = (inFlight \ {r}) \cup {}
    BY <1>3 DEF Stale
  <2>2. QED BY <1>1, <1>2, <1>3, <2>1, StaleAnswer
<1>4. ASSUME ~Stale(r), r.project = "all",
             progress' = [progress EXCEPT !.result = [q \in Shown |-> entry(q)], !.loading = FALSE, !.loaded = r.date],
             NEW first \in SUBSET missing,
             inFlight' = (inFlight \ {r}) \cup {PostRequest(r.run, r.date, q, TRUE) : q \in first},
             fanOut' = [fanOut EXCEPT ![r.run] = missing \ first]
      PROVE  DashInv'
  <2> DEFINE f == [q \in Shown |-> entry(q)]
             o == [progress EXCEPT !.result = f, !.loading = FALSE, !.loaded = r.date]
  <2>1. \A q \in Shown : f[q] = entry(q)
    OBVIOUS
  <2>2. \A q \in Shown : entry(q) \in Entries
    BY <1>1, EntriesFacts
  <2>3. f \in Results /\ DOMAIN f = Shown
    <3>1. f \in [Shown -> Entries]
      BY <2>2
    <3>2. QED BY <3>1 DEF Results
  <2> HIDE DEF f
  <2>4. progress' = o
    BY <1>4 DEF f
  <2>5. /\ o.run = progress.run /\ o.date = progress.date /\ o.scope = progress.scope /\ o.loaded = r.date
        /\ o.failed = progress.failed /\ ~o.loading /\ o.result = f
    BY <1>1, Zenon DEF ProgressRecords
  <2>6. o \in ProgressRecords
    BY <1>1, <2>3, Zenon DEF ProgressRecords
  <2> HIDE DEF o
  <2>7. r.run = progress.run
    BY <1>4 DEF Stale
  <2>8. RunOK(o, inFlight', fanOut')
    <3>1. \A q \in Shown : o.result[q] = IF q \in missing THEN Pending ELSE Done(r.date)
      BY <2>1, <2>5
    <3>2. DOMAIN o.result = Shown
      BY <2>3, <2>5
    <3>3. QED BY <1>1, <1>2, <1>4, <2>5, <2>6, <2>7, <3>1, <3>2, WholeListKeeps
  <2>9. FlyingTypes(inFlight')
    <3>1. \A q \in first : /\ PostRequest(r.run, r.date, q, TRUE) \in ProgressRequests
                           /\ PostRequest(r.run, r.date, q, TRUE).project \in Shown
      <4>1. first \subseteq Shown
        OBVIOUS
      <4>2. TAKE q \in first
      <4>3. q \in Shown
        BY <4>1
      <4>4. QED BY <1>1, <4>3 DEF PostRequest, ProgressRequests
    <3>2. QED BY <1>1, <1>4, <3>1 DEF FlyingTypes
  <2>10. fanOut' \in [1..MaxProgressRuns -> SUBSET Shown]
    BY <1>1, <1>4
  <2>11. progress.scope = "all"
    BY <1>1, <1>2, <1>4, <2>7 DEF RunOK, RunIsNewest
  <2>12. QED BY <1>2, <2>4, <2>5, <2>6, <2>8, <2>9, <2>10, <2>11, AnswersKeep
<1>5. CASE /\ ~Stale(r) /\ r.project # "all"
           /\ progress' = [progress EXCEPT !.result = With(@, r.project, entry(r.project))]
           /\ inFlight' = (inFlight \ {r}) \cup {PostRequest(r.run, r.date, q, FALSE) : q \in {r.project} \cap missing}
           /\ UNCHANGED fanOut
  <2> DEFINE e == entry(r.project)
             next == {PostRequest(r.run, r.date, q, FALSE) : q \in {r.project} \cap missing}
  <2>1. r.project \in Shown /\ r.run = progress.run /\ r.date = progress.date
    BY <1>1, <1>5, RequestFacts DEF Stale
  <2>2. e \in Entries /\ (e.state = "done" => e.of = r.date) /\ (e.state = "pending" <=> r.project \in missing)
    BY <1>1, EntriesFacts
  <2>3. \A x \in next : x = PostRequest(r.run, r.date, r.project, FALSE)
    OBVIOUS
  <2>4. next # {} <=> r.project \in missing
    OBVIOUS
  <2> HIDE DEF e, next
  <2>5. next \in SUBSET ProgressRequests
        /\ \A x \in next : /\ x.run = progress.run /\ x.date = progress.date /\ x.kind = "post"
                           /\ x.project = r.project /\ \A y \in next : x = y
    <3>2. PICK x : x = PostRequest(r.run, r.date, r.project, FALSE)
      OBVIOUS
    <3>3. x \in ProgressRequests /\ x.kind = "post" /\ x.run = r.run /\ x.date = r.date /\ x.project = r.project
      BY <1>1, <2>1, <3>2 DEF PostRequest, ProgressRequests
    <3>4. \A y \in next : y = x
      BY <2>3, <3>2
    <3>5. QED BY <2>1, <3>3, <3>4
  <2>6. NextAfter(progress, r, e, fanOut, next, fanOut')
    BY <1>5, <2>1, <2>2, <2>4, <2>5 DEF NextAfter
  <2>7. /\ progress' = [progress EXCEPT !.result = With(@, r.project, e)]
        /\ inFlight' = (inFlight \ {r}) \cup next
        /\ fanOut' \in [1..MaxProgressRuns -> SUBSET Shown]
    BY <1>1, <1>5 DEF e, next
  <2>8. QED BY <1>2, <2>1, <2>2, <2>5, <2>6, <2>7, CurrentAnswer
<1>6. QED BY <1>3, <1>4, <1>5, Zenon DEF ListArrives

LEMMA DashListFails ==
    ASSUME DashInv, NEW r \in inFlight, ListFails(r)
    PROVE  DashInv'
<1>1. /\ RunOK(progress, inFlight, fanOut) /\ FlyingTypes(inFlight) /\ progress \in ProgressRecords
      /\ inFlight \in SUBSET ProgressRequests /\ fanOut \in [1..MaxProgressRuns -> SUBSET Shown]
      /\ r.run \in 1..MaxProgressRuns /\ r.date \in Dates \cup {NoDate} /\ r.project \in Shown \cup {"all"}
  BY RequestFacts
<1>2. r.kind = "list" /\ inFlight' = inFlight \ {r} /\ UNCHANGED <<snapshot, boot, screen, fanOut, lazyVars>>
  BY DEF ListFails
<1>3. CASE r.run # progress.run
  <2>1. progress' = progress
    BY <1>3 DEF ListFails, Stale
  <2>2. inFlight' = (inFlight \ {r}) \cup {}
    BY <1>2
  <2>3. QED BY <1>1, <1>2, <1>3, <2>1, <2>2, StaleAnswer
<1>4. CASE r.run = progress.run /\ r.project = "all"
  <2> DEFINE o == [progress EXCEPT !.loading = FALSE, !.loaded = NoDate, !.failed = TRUE]
  <2>1. progress' = o
    BY <1>4 DEF ListFails, Stale
  <2>2. /\ o.run = progress.run /\ o.date = progress.date /\ o.scope = progress.scope
        /\ o.failed /\ ~o.loading /\ o.result = progress.result
    BY <1>1, Zenon DEF ProgressRecords
  <2>3. NoDate \in Dates \cup {NoDate}
    OBVIOUS
  <2>4. o \in ProgressRecords
    BY <1>1, <2>3, Zenon DEF ProgressRecords
  <2> HIDE DEF o
  <2>5. RunOK(o, inFlight', fanOut')
    BY <1>1, <1>2, <1>4, <2>2, <2>4, WholeListFails
  <2>6. FlyingTypes(inFlight')
    BY <1>1, <1>2 DEF FlyingTypes
  <2>7. progress.scope = "all"
    BY <1>1, <1>2, <1>4 DEF RunOK, RunIsNewest
  <2>8. QED BY <1>1, <1>2, <2>1, <2>2, <2>4, <2>5, <2>6, <2>7, AnswersKeep
<1>5. CASE r.run = progress.run /\ r.project # "all"
  <2>1. progress' = [progress EXCEPT !.result = With(@, r.project, Failed)]
    BY <1>5 DEF ListFails, Stale
  <2>2. inFlight' = (inFlight \ {r}) \cup {} /\ r.project \in Shown
    BY <1>1, <1>2, <1>5
  <2>3. Failed \in Entries /\ Failed.state = "error"
    BY EntriesFacts
  <2>4. NextAfter(progress, r, Failed, fanOut, {}, fanOut')
    BY <1>2, <2>3 DEF NextAfter
  <2>5. QED BY <1>1, <1>2, <1>5, <2>1, <2>2, <2>3, <2>4, CurrentAnswer
<1>6. QED BY <1>3, <1>4, <1>5

\* What a worker does once its request is answered, in an old run or the current one.
LEMMA WorkerGoesOn ==
    ASSUME DashInv, NEW r \in inFlight, NEW e, PostAnswered(r, e)
    PROVE  \E next \in SUBSET ProgressRequests :
              /\ inFlight' = (inFlight \ {r}) \cup next
              /\ fanOut' \in [1..MaxProgressRuns -> SUBSET Shown]
              /\ \A x \in next : /\ x.kind = "post" /\ x.run = r.run /\ x.date = r.date
                                 /\ x.project \in Shown /\ \A y \in next : x = y
              /\ \A n \in 1..MaxProgressRuns : n # r.run => fanOut'[n] = fanOut[n]
              /\ \/ next = {} /\ fanOut' = fanOut
                 \/ /\ next # {}
                    /\ \A x \in next : x.project \in fanOut[r.run] /\ fanOut'[r.run] = fanOut[r.run] \ {x.project}
<1>1. /\ fanOut \in [1..MaxProgressRuns -> SUBSET Shown] /\ r.run \in 1..MaxProgressRuns
      /\ r.date \in Dates \cup {NoDate}
  BY RequestFacts
<1>2. CASE inFlight' = inFlight \ {r} /\ UNCHANGED fanOut
  <2>1. inFlight' = (inFlight \ {r}) \cup {} /\ fanOut' = fanOut
    BY <1>2
  <2>2. {} \in SUBSET ProgressRequests
    OBVIOUS
  <2>3. QED BY <1>1, <2>1, <2>2
<1>3. ASSUME NEW q \in fanOut[r.run], fanOut' = [fanOut EXCEPT ![r.run] = @ \ {q}],
             inFlight' = (inFlight \ {r}) \cup {PostRequest(r.run, r.date, q, TRUE)}
      PROVE  \E next \in SUBSET ProgressRequests :
                /\ inFlight' = (inFlight \ {r}) \cup next
                /\ \A x \in next : /\ x.kind = "post" /\ x.run = r.run /\ x.date = r.date
                                   /\ x.project \in Shown /\ x.project = q /\ \A y \in next : x = y
                /\ next # {}
  <2>1. q \in Shown
    BY <1>1
  <2>2. PICK x : x = PostRequest(r.run, r.date, q, TRUE)
    OBVIOUS
  <2>3. x \in ProgressRequests /\ x.kind = "post" /\ x.run = r.run /\ x.date = r.date /\ x.project = q
    BY <1>1, <2>1, <2>2 DEF PostRequest, ProgressRequests
  <2>4. inFlight' = (inFlight \ {r}) \cup {x}
    BY <1>3, <2>2
  <2>5. {x} \in SUBSET ProgressRequests /\ {x} # {}
        /\ \A z \in {x} : /\ z.kind = "post" /\ z.run = r.run /\ z.date = r.date
                          /\ z.project \in Shown /\ z.project = q /\ \A y \in {x} : z = y
    BY <2>1, <2>3
  <2>6. QED BY <2>4, <2>5
<1>4. ASSUME NEW q \in fanOut[r.run], fanOut' = [fanOut EXCEPT ![r.run] = @ \ {q}]
      PROVE  /\ fanOut' \in [1..MaxProgressRuns -> SUBSET Shown] /\ fanOut'[r.run] = fanOut[r.run] \ {q}
             /\ \A n \in 1..MaxProgressRuns : n # r.run => fanOut'[n] = fanOut[n]
  BY <1>1, <1>4
<1>5. CASE \E q \in fanOut[r.run] :
              /\ fanOut' = [fanOut EXCEPT ![r.run] = @ \ {q}]
              /\ inFlight' = (inFlight \ {r}) \cup {PostRequest(r.run, r.date, q, TRUE)}
  <2>1. PICK q \in fanOut[r.run] :
              /\ fanOut' = [fanOut EXCEPT ![r.run] = @ \ {q}]
              /\ inFlight' = (inFlight \ {r}) \cup {PostRequest(r.run, r.date, q, TRUE)}
    BY <1>5
  <2>2. PICK next \in SUBSET ProgressRequests :
                /\ inFlight' = (inFlight \ {r}) \cup next
                /\ \A x \in next : /\ x.kind = "post" /\ x.run = r.run /\ x.date = r.date
                                   /\ x.project \in Shown /\ x.project = q /\ \A y \in next : x = y
                /\ next # {}
    BY <1>3, <2>1
  <2>3. /\ fanOut' \in [1..MaxProgressRuns -> SUBSET Shown] /\ fanOut'[r.run] = fanOut[r.run] \ {q}
        /\ \A n \in 1..MaxProgressRuns : n # r.run => fanOut'[n] = fanOut[n]
    BY <1>4, <2>1
  <2>4. \A x \in next : x.project \in fanOut[r.run] /\ fanOut'[r.run] = fanOut[r.run] \ {x.project}
    BY <2>2, <2>3
  <2>5. QED BY <2>2, <2>3, <2>4
<1>6. QED BY <1>2, <1>5 DEF PostAnswered

LEMMA DashPostAnswered ==
    ASSUME DashInv, NEW r \in inFlight, NEW e \in Entries, e.state # "pending", e.state = "done" => e.of = r.date,
           PostAnswered(r, e)
    PROVE  DashInv'
<1>1. /\ RunOK(progress, inFlight, fanOut) /\ FlyingTypes(inFlight) /\ progress \in ProgressRecords
      /\ inFlight \in SUBSET ProgressRequests /\ fanOut \in [1..MaxProgressRuns -> SUBSET Shown]
      /\ r.run \in 1..MaxProgressRuns
  BY RequestFacts
<1>2. r.kind = "post" /\ UNCHANGED <<snapshot, boot, screen, lazyVars>>
  BY DEF PostAnswered
<1>3. PICK next \in SUBSET ProgressRequests :
              /\ inFlight' = (inFlight \ {r}) \cup next
              /\ fanOut' \in [1..MaxProgressRuns -> SUBSET Shown]
              /\ \A x \in next : /\ x.kind = "post" /\ x.run = r.run /\ x.date = r.date
                                 /\ x.project \in Shown /\ \A y \in next : x = y
              /\ \A n \in 1..MaxProgressRuns : n # r.run => fanOut'[n] = fanOut[n]
              /\ \/ next = {} /\ fanOut' = fanOut
                 \/ /\ next # {}
                    /\ \A x \in next : x.project \in fanOut[r.run] /\ fanOut'[r.run] = fanOut[r.run] \ {x.project}
  BY WorkerGoesOn
<1>4. CASE r.run # progress.run
  <2>1. progress' = progress
    BY <1>4 DEF PostAnswered, Stale
  <2>2. \A n \in 1..MaxProgressRuns : fanOut'[n] = fanOut[n] \/ (n = r.run /\ fanOut'[n] \subseteq fanOut[n])
    BY <1>3
  <2>3. QED BY <1>2, <1>3, <1>4, <2>1, <2>2, StaleAnswer
<1>5. CASE r.run = progress.run
  <2>1. progress' = [progress EXCEPT !.result = With(@, r.project, e)]
    BY <1>5 DEF PostAnswered, Stale
  <2>2. r.project \in Shown /\ r.date = progress.date
    BY <1>2, <1>5, RequestFacts
  <2>3. NextAfter(progress, r, e, fanOut, next, fanOut')
    BY <1>3, <1>5, <2>2 DEF NextAfter
  <2>4. QED BY <1>2, <1>3, <1>5, <2>1, <2>2, <2>3, CurrentAnswer
<1>6. QED BY <1>4, <1>5

LEMMA DashPosts ==
    ASSUME DashInv, NEW r \in inFlight, PostArrives(r) \/ PostFails(r)
    PROVE  DashInv'
<1>1. r.date \in Dates \cup {NoDate}
  BY RequestFacts
<1>2. CASE PostArrives(r)
  <2>1. Done(r.date) \in Entries /\ Done(r.date).state = "done" /\ Done(r.date).of = r.date
    BY <1>1, EntriesFacts
  <2>2. PostAnswered(r, Done(r.date))
    BY <1>2 DEF PostArrives
  <2>3. QED BY <2>1, <2>2, DashPostAnswered
<1>3. CASE PostFails(r)
  <2>1. Failed \in Entries /\ Failed.state = "error"
    BY EntriesFacts
  <2>2. PostAnswered(r, Failed)
    BY <1>3 DEF PostFails
  <2>3. QED BY <2>1, <2>2, DashPostAnswered
<1>4. QED BY <1>2, <1>3

LEMMA DashRetryProject ==
    ASSUME DashInv, NEW q \in Shown, RetryProjectProgress(q)
    PROVE  DashInv'
<1>1. /\ RunOK(progress, inFlight, fanOut) /\ FlyingTypes(inFlight) /\ progress \in ProgressRecords
      /\ inFlight \in SUBSET ProgressRequests /\ fanOut \in [1..MaxProgressRuns -> SUBSET Shown]
      /\ progress.run <= MaxProgressRuns
  BY DEF DashInv, DashTypes, FlyingTypes
<1>2. /\ q \in DOMAIN progress.result /\ progress.result[q].state = "error"
      /\ UNCHANGED <<snapshot, boot, screen, fanOut, lazyVars>>
  BY DEF RetryProjectProgress, InError
<1> DEFINE f == [progress.result EXCEPT ![q] = Pending]
           o == [progress EXCEPT !.result = f]
           x == PostRequest(progress.run, progress.date, q, FALSE)
<1>3. progress' = o /\ inFlight' = inFlight \cup {x}
  BY DEF RetryProjectProgress
<1>4. /\ f \in Results /\ DOMAIN f = DOMAIN progress.result /\ f[q] = Pending
      /\ \A k \in DOMAIN progress.result : k # q => f[k] = progress.result[k]
  <2>1. progress.result \in Results
    BY <1>1 DEF ProgressRecords
  <2>2. PICK S \in SUBSET Shown : progress.result \in [S -> Entries]
    BY <2>1 DEF Results
  <2>3. f \in [S -> Entries]
    BY <2>2, EntriesFacts
  <2>4. f \in Results
    BY <2>3 DEF Results
  <2>5. QED BY <1>2, <2>2, <2>4
<1> HIDE DEF f
<1>5. /\ o.run = progress.run /\ o.date = progress.date /\ o.scope = progress.scope /\ o.loaded = progress.loaded
      /\ o.failed = progress.failed /\ (o.loading <=> progress.loading) /\ o.result = f
  BY <1>1, Zenon DEF ProgressRecords
<1>6. o \in ProgressRecords
  BY <1>1, <1>4, Zenon DEF ProgressRecords
<1> HIDE DEF o
<1>7. RunOK(o, inFlight', fanOut')
  <2>1. /\ DOMAIN o.result = DOMAIN progress.result /\ o.result[q] = Pending
        /\ \A k \in DOMAIN progress.result : k # q => o.result[k] = progress.result[k]
    BY <1>4, <1>5
  <2>2. RunOK(o, inFlight \cup {x}, fanOut)
    BY <1>1, <1>2, <1>5, <1>6, <2>1, RetryKeeps
  <2>3. QED BY <1>2, <1>3, <2>2
<1>8. FlyingTypes(inFlight')
  <2>1. progress.run \in 1..MaxProgressRuns
    <3>1. progress.scope # "none"
      BY <1>1, <1>2 DEF RunOK, ScopeFits
    <3>2. QED BY <1>1, <3>1 DEF RunOK, ScopeFits, ProgressRecords
  <2>2. x \in ProgressRequests /\ x.project \in Shown
    BY <1>1, <2>1 DEF PostRequest, ProgressRequests, ProgressRecords
  <2> HIDE DEF x
  <2>3. QED BY <1>1, <1>3, <2>2 DEF FlyingTypes
<1>9. QED BY <1>1, <1>2, <1>3, <1>5, <1>6, <1>7, <1>8, AnswersKeep

-------------------------------------------------------------------------------
(* The live rows *)

\* A live row's step leaves the rest alone.
LEMMA LazySteps ==
    ASSUME DashInv, UNCHANGED <<snapshot, boot, screen, progress, fanOut, inFlight>>, LazyInv'
    PROVE  DashInv'
<1>1. DashTypes' /\ ViewInv'
  BY DEF DashInv, DashTypes, ViewInv, RouteLoadsWereLost
<1>2. RunOK(progress, inFlight, fanOut)'
  BY DEF DashInv
<1>3. QED BY <1>1, <1>2 DEF DashInv

LEMMA DashCompute ==
    ASSUME DashInv, NEW p \in LazyRows, NEW clicked \in {0, 1}, Compute(p, clicked),
           lazyPosts[p].sent + 1 <= 1 + lazyPosts[p].clicks + clicked
    PROVE  DashInv'
<1>1. LazyInv
  BY DEF DashInv
<1> DEFINE row == [open |-> lazyPosts[p].open + 1, sent |-> lazyPosts[p].sent + 1, clicks |-> lazyPosts[p].clicks + clicked]
<1>2. /\ snapshot = "ready" /\ p \in lazyMissing \ lazyComputing
      /\ lazyComputing' = lazyComputing \cup {p} /\ lazyErrors' = lazyErrors \ {p}
      /\ lazyPosts' = [lazyPosts EXCEPT ![p] = row]
      /\ UNCHANGED <<snapshot, boot, screen, progress, fanOut, inFlight, lazyMissing>>
  BY DEF Compute
<1>3. lazyPosts[p] \in Rows /\ lazyPosts[p].open = 0
  BY <1>1, <1>2 DEF LazyInv
<1>4. row \in Rows /\ row.open = 1 /\ row.sent <= 1 + row.clicks
  BY <1>3 DEF Rows
<1> HIDE DEF row
<1>5. lazyPosts' \in [LazyRows -> Rows] /\ lazyPosts'[p] = row /\ \A q \in LazyRows : q # p => lazyPosts'[q] = lazyPosts[q]
  BY <1>1, <1>2, <1>4 DEF LazyInv
<1>6. LazyInv'
  <2>1. /\ lazyMissing' \subseteq LazyRows /\ lazyComputing' \subseteq LazyRows /\ lazyErrors' \subseteq LazyRows
        /\ snapshot' = "ready"
    BY <1>1, <1>2 DEF LazyInv
  <2>2. ASSUME NEW q \in LazyRows
        PROVE  /\ lazyPosts'[q].open = IF q \in lazyComputing' THEN 1 ELSE 0
               /\ lazyPosts'[q].sent <= 1 + lazyPosts'[q].clicks
               /\ lazyPosts'[q].sent # 0 => q \in lazyComputing' \cup lazyErrors' \/ q \notin lazyMissing'
    <3>1. CASE q = p
      BY <1>2, <1>4, <1>5, <3>1
    <3>2. CASE q # p
      BY <1>1, <1>2, <1>5, <3>2 DEF LazyInv
    <3>3. QED BY <3>1, <3>2
  <2>3. QED BY <1>5, <2>1, <2>2 DEF LazyInv
<1>7. QED BY <1>2, <1>6, LazySteps

LEMMA DashAnswered ==
    ASSUME DashInv, NEW p \in LazyRows, NEW filled \in BOOLEAN, RowAnswered(p, filled)
    PROVE  DashInv'
<1>1. LazyInv
  BY DEF DashInv
<1> DEFINE row == [lazyPosts[p] EXCEPT !.open = @ - 1]
<1>2. /\ lazyPosts[p].open > 0 /\ lazyComputing' = lazyComputing \ {p}
      /\ \/ lazyMissing' = lazyMissing \ {p} /\ lazyErrors' = lazyErrors
         \/ lazyMissing' = lazyMissing /\ lazyErrors' = lazyErrors \cup {p}
      /\ lazyPosts' = [lazyPosts EXCEPT ![p] = row]
      /\ UNCHANGED <<snapshot, boot, screen, progress, fanOut, inFlight>>
  BY DEF RowAnswered
<1>3. lazyPosts[p] \in Rows /\ lazyPosts[p].open = 1 /\ p \in lazyComputing /\ snapshot = "ready"
  BY <1>1, <1>2 DEF LazyInv
<1>4. row \in Rows /\ row.open = 0 /\ row.sent = lazyPosts[p].sent /\ row.clicks = lazyPosts[p].clicks
  BY <1>3 DEF Rows
<1> HIDE DEF row
<1>5. lazyPosts' \in [LazyRows -> Rows] /\ lazyPosts'[p] = row /\ \A q \in LazyRows : q # p => lazyPosts'[q] = lazyPosts[q]
  BY <1>1, <1>2, <1>4 DEF LazyInv
<1>6. LazyInv'
  <2>1. /\ lazyMissing' \subseteq LazyRows /\ lazyComputing' \subseteq LazyRows /\ lazyErrors' \subseteq LazyRows
        /\ snapshot' = "ready"
    BY <1>1, <1>2, <1>3 DEF LazyInv
  <2>2. ASSUME NEW q \in LazyRows
        PROVE  /\ lazyPosts'[q].open = IF q \in lazyComputing' THEN 1 ELSE 0
               /\ lazyPosts'[q].sent <= 1 + lazyPosts'[q].clicks
               /\ lazyPosts'[q].sent # 0 => q \in lazyComputing' \cup lazyErrors' \/ q \notin lazyMissing'
    <3>1. CASE q = p
      BY <1>1, <1>2, <1>4, <1>5, <3>1 DEF LazyInv
    <3>2. CASE q # p
      BY <1>1, <1>2, <1>5, <3>2 DEF LazyInv
    <3>3. QED BY <3>1, <3>2
  <2>3. QED BY <1>5, <2>1, <2>2 DEF LazyInv
<1>7. QED BY <1>2, <1>6, LazySteps

LEMMA DashRows ==
    ASSUME DashInv, NEW p \in LazyRows, RowIsSeen(p) \/ RetryRow(p) \/ RowArrives(p) \/ RowFails(p)
    PROVE  DashInv'
<1>1. LazyInv /\ lazyPosts[p] \in Rows
  BY DEF DashInv, LazyInv
<1>2. CASE RowIsSeen(p)
  <2>1. Compute(p, 0) /\ p \notin lazyComputing \cup lazyErrors /\ p \in lazyMissing
    BY <1>2, Zenon DEF RowIsSeen, LazyRowState, Compute
  <2>2. lazyPosts[p].sent = 0
    BY <1>1, <2>1 DEF LazyInv
  <2>3. QED BY <1>1, <2>1, <2>2, DashCompute DEF Rows
<1>3. CASE RetryRow(p)
  <2>1. Compute(p, 1)
    BY <1>3 DEF RetryRow
  <2>2. lazyPosts[p].sent + 1 <= 1 + lazyPosts[p].clicks + 1
    BY <1>1 DEF LazyInv, Rows
  <2>3. QED BY <2>1, <2>2, DashCompute
<1>4. CASE RowArrives(p)
  BY <1>4, DashAnswered DEF RowArrives
<1>5. CASE RowFails(p)
  BY <1>5, DashAnswered DEF RowFails
<1>6. QED BY <1>2, <1>3, <1>4, <1>5

-------------------------------------------------------------------------------
(* The theorems *)

LEMMA DashSteps == DashInv /\ [DashboardNext]_dashboardVars => DashInv'
<1> SUFFICES ASSUME DashInv, [DashboardNext]_dashboardVars PROVE DashInv'
  OBVIOUS
<1>1. CASE UNCHANGED dashboardVars
  BY <1>1 DEF dashboardVars, DashInv, DashTypes, ViewInv, RouteLoadsWereLost, LazyInv
<1>2. ASSUME NEW route \in Routes, Goto(route) PROVE DashInv'
  BY <1>2, DashGoto
<1>3. CASE SnapshotArrives \/ SnapshotFails \/ RetryLatest \/ RetryProgress
  BY <1>3, DashSnapshotArrives, DashSnapshotRests, DashRetryProgress
<1>4. ASSUME NEW r \in inFlight, (\E missing \in SUBSET Shown : ListArrives(r, missing)) \/ ListFails(r) PROVE DashInv'
  BY <1>4, DashListArrives, DashListFails
<1>5. ASSUME NEW r \in inFlight, PostArrives(r) \/ PostFails(r) PROVE DashInv'
  BY <1>5, DashPosts
<1>6. ASSUME NEW p \in Shown, RetryProjectProgress(p) PROVE DashInv'
  BY <1>6, DashRetryProject
<1>7. ASSUME NEW p \in LazyRows, RowIsSeen(p) \/ RetryRow(p) \/ RowArrives(p) \/ RowFails(p) PROVE DashInv'
  BY <1>7, DashRows
<1>8. QED BY <1>1, <1>2, <1>3, <1>4, <1>5, <1>6, <1>7 DEF DashboardNext

LEMMA DashAlways == DashboardSpec => []DashInv
<1>1. QED BY DashStarts, DashSteps, PTL DEF DashboardSpec

\* However the reader moves and whenever answers come, what app.js shows as progress
\* was computed for the date on the screen, and the list of that date has every project.
THEOREM ProgressFollowsTheDate == DashboardSpec => []ProgressIsForTheChosenDate
<1>1. DashInv => ProgressIsForTheChosenDate
  <2> SUFFICES ASSUME DashInv PROVE ProgressIsForTheChosenDate
    OBVIOUS
  <2>1. ScopeFits(progress) /\ ViewInv /\ progress \in ProgressRecords
    BY DEF DashInv, DashTypes, RunOK
  <2>2. ASSUME ListIsUp, ~ListWasNarrowed PROVE DOMAIN progress.result = Shown
    <3>1. progress.scope = "all" \/ RouteLoadsWereLost
      BY <2>1, <2>2 DEF ListIsUp, ListWasNarrowed, ViewInv
    <3>2. progress.scope # "none"
      BY <2>1, <2>2 DEF ListIsUp, ScopeFits
    <3>3. QED BY <2>1, <2>2, <3>1, <3>2 DEF ScopeFits, ListIsUp, RouteLoadsWereLost
  <2>3. QED BY <2>1, <2>2 DEF ProgressIsForTheChosenDate, ScopeFits
<1>2. QED BY <1>1, DashAlways, PTL

LEMMA OneBehind ==
    ASSUME DashInv, NEW q, Flies(progress, inFlight, q) \/ q \in Queued(progress, fanOut)
    PROVE  Cardinality(Behind(q)) = 1
<1>1. /\ OneBehindEach(progress, inFlight, fanOut) /\ progress.run \in Nat /\ progress.run <= MaxProgressRuns
      /\ MaxProgressRuns \in Nat
  BY DashboardAssumption DEF DashInv, DashTypes, RunOK, ProgressRecords
<1>2. {x \in {q} : progress.run > 0 /\ x \in fanOut[progress.run]} = {q} \cap Queued(progress, fanOut)
  BY <1>1 DEF Queued
<1>3. Behind(q) = {r \in inFlight : r.run = progress.run /\ r.project = q} \cup ({q} \cap Queued(progress, fanOut))
  BY <1>2, Zenon DEF Behind
<1>4. \E x : Behind(q) = {x}
  <2>1. CASE Flies(progress, inFlight, q)
    <3>1. PICK r \in inFlight : r.run = progress.run /\ r.project = q
      BY <2>1 DEF Flies
    <3>2. q \notin Queued(progress, fanOut)
      BY <1>1, <2>1 DEF OneBehindEach
    <3>3. \A s \in inFlight : s.run = progress.run /\ s.project = q => s = r
      BY <1>1, <3>1 DEF OneBehindEach
    <3>4. Behind(q) = {r}
      BY <1>3, <3>1, <3>2, <3>3
    <3>5. QED BY <3>4
  <2>2. CASE q \in Queued(progress, fanOut)
    <3>1. \A s \in inFlight : ~(s.run = progress.run /\ s.project = q)
      BY <1>1, <2>2 DEF OneBehindEach, Flies
    <3>2. Behind(q) = {q}
      BY <1>3, <2>2, <3>1
    <3>3. QED BY <3>2
  <2>3. QED BY <2>1, <2>2
<1>5. QED BY <1>4, FS_Singleton

\* Whatever app.js shows as loading has exactly one request behind it, in flight or
\* queued, and a live row that failed is not asked for again but by a click.
THEOREM WaitsAreAnsweredFor == DashboardSpec => []EveryWaitHasOneRequest
<1>1. DashInv => EveryWaitHasOneRequest
  <2> SUFFICES ASSUME DashInv PROVE EveryWaitHasOneRequest
    OBVIOUS
  <2>1. /\ OneBehindEach(progress, inFlight, fanOut) /\ ScopeFits(progress) /\ ViewInv /\ LazyInv
        /\ DOMAIN progress.result \subseteq Shown
    BY ResultFacts DEF DashInv, DashTypes, RunOK, ProgressRecords
  <2>2. ASSUME NEW p \in DOMAIN progress.result, progress.result[p].state = "pending"
        PROVE  Cardinality(Behind(p)) = 1
    <3>1. p \in Shown /\ Waits(progress, p)
      BY <2>1, <2>2 DEF Waits
    <3>2. Flies(progress, inFlight, p) \/ p \in Queued(progress, fanOut)
      BY <2>1, <3>1 DEF OneBehindEach
    <3>3. QED BY <3>2, OneBehind
  <2>3. ASSUME snapshot = "ready", screen.view = "projects", progress.loading, ~RouteLoadsWereLost
        PROVE  Cardinality(Behind("all")) = 1
    <3>1. progress.scope = "all"
      BY <2>1, <2>3 DEF ViewInv, ScopeFits
    <3>2. Flies(progress, inFlight, "all")
      BY <2>1, <2>3, <3>1 DEF OneBehindEach
    <3>3. QED BY <3>2, OneBehind
  <2>4. ASSUME NEW p \in LazyRows
        PROVE  /\ lazyPosts[p].open = Cardinality({p} \cap lazyComputing)
               /\ lazyPosts[p].sent <= 1 + lazyPosts[p].clicks
    <3>1. CASE p \in lazyComputing
      <4>1. {p} \cap lazyComputing = {p}
        BY <3>1
      <4>2. QED BY <2>1, <3>1, <4>1, FS_Singleton DEF LazyInv
    <3>2. CASE p \notin lazyComputing
      <4>1. {p} \cap lazyComputing = {}
        BY <3>2
      <4>2. QED BY <2>1, <3>2, <4>1, FS_EmptySet DEF LazyInv
    <3>3. QED BY <3>1, <3>2
  <2>5. QED BY <2>2, <2>3, <2>4 DEF EveryWaitHasOneRequest
<1>2. QED BY <1>1, DashAlways, PTL

===============================================================================
