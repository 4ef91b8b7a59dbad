------------------------------ MODULE MCComponents ------------------------------
(***************************************************************************)
(* Five machines that share no state, checked in one run: the first state  *)
(* picks one, and the others rest.                                         *)
(***************************************************************************)
EXTENDS RuleReplay, CiAssessment, SignalJudge, PageWalk, Dashboard

VARIABLE machine

MCFoci == {{m} : m \in Metrics} \cup {Metrics}

-------------------------------------------------------------------------------
PlanWeek(from, to) ==
    [from |-> from, to |-> to, title |-> "week", milestone |-> {"m"}, tasks |-> {"t1", "t2"},
     criteria |-> {"ac"}, artifacts |-> {"doc"}]

Plans ==
    [yaml |-> [format |-> "yaml",
               weeks |-> {[PlanWeek(1, 2) EXCEPT !.title = "title"], [PlanWeek(3, 3) EXCEPT !.criteria = {}, !.artifacts = {}]}],
     split |-> [format |-> "yaml", weeks |-> {PlanWeek(1, 3), [PlanWeek(3, 3) EXCEPT !.title = "title", !.tasks = {"t3"}, !.milestone = {}]}],
     text |-> [format |-> "markdown",
               lines |-> <<[kind |-> "task", content |-> "t1"], [kind |-> "heading", content |-> "api", week |-> 3],
                           [kind |-> "acceptance", content |-> "ac"], [kind |-> "task", content |-> "t2"]>>],
     bad |-> [format |-> "yaml", weeks |-> {PlanWeek(0, 3)}]]

AllGood ==
    [week |-> 3, age |-> Absent, due |-> Absent, tests_total |-> 5, tests_passed |-> 4, tests_failed |-> 0, coverage |-> Absent,
     deploy |-> "none", checks |-> {}, milestones |-> {"m"}, criteria |-> {}, artifacts |-> {}, changed |-> {},
     docs |-> "unknown", scope |-> 0, pause |-> FALSE]
Late == [AllGood EXCEPT !.week = 2, !.changed = {"doc"}, !.milestones = {}, !.due = 2, !.docs = "unchanged", !.age = 7]
Idling == [AllGood EXCEPT !.age = 14, !.coverage = 40, !.scope = 4]
Broken == [AllGood EXCEPT !.tests_failed = 1, !.deploy = "failed", !.checks = {"failed"}, !.milestones = {}, !.due = 1]
Bare == [AllGood EXCEPT !.tests_total = Absent, !.milestones = {}]
Unnamed == [AllGood EXCEPT !.milestones = {}, !.tests_failed = 1]
Paused == [AllGood EXCEPT !.pause = TRUE]
Early == [AllGood EXCEPT !.week = 1]

Commit(project, sha, plan, e) == [project |-> project, sha |-> sha, plan |-> Plans[plan], evidence |-> e]

MCBatches ==
    {{Commit("p", "one", "yaml", e), Commit("p", "two", "bad", e)} : e \in {AllGood, Late, Idling, Broken, Bare, Early}}
      \cup {{Commit("p", "one", "yaml", Paused), Commit("p", "two", "text", AllGood),
             Commit("q", "one", "text", [AllGood EXCEPT !.criteria = {"ac"}])}}
      \cup {{Commit("p", "one", "split", Unnamed)}}

Proposal(status, score, blockers, tasks) == [status |-> status, score |-> score, blockers |-> blockers, tasks |-> tasks]
Blocker(cited) == [text |-> "blocker", facts |-> cited]

MCProposals ==
    {Proposal("clear", 100, {}, {"t3", "t4"}),
     Proposal("watch", 60, {Blocker({})}, {}),
     Proposal("at_risk", 30, {Blocker({<<"ci", "coverage_pct">>}), Blocker({})}, {"t1"}),
     Proposal("watch", 0, {Blocker({<<"ci", "tests_failed">>, <<"ci", "tests_passed">>})}, {}),
     Proposal("insufficient_data", 0, {}, {})}

-------------------------------------------------------------------------------
File(path, noise, lines, hunks) == [path |-> path, noise |-> noise, lines |-> lines, hunks |-> hunks]
Src == File("src", FALSE, 30, 3)
Big == File("big", FALSE, 500, 9)
Lock == File("lock", TRUE, 90, 1)
Tiny == File("tiny", FALSE, 2, 1)

Push(n, size, files) ==
    [sha |-> n, here |-> TRUE, size |-> size, merge |-> FALSE, chore |-> FALSE, files |-> files]

MCHistories ==
    {<<<<>>>>,
     <<<<Push(2, 30, {Src, Lock}), Push(4, 500, {Big, Src}), Push(3, 2, {Tiny})>>,
       <<Push(1, 30, {Src}), [Push(5, 500, {Big}) EXCEPT !.merge = TRUE]>>>>,
     <<<<Push(1, 90, {Lock}), [Push(2, 2, {Tiny}) EXCEPT !.here = FALSE]>>, <<Push(3, 2, {Tiny})>>, <<Push(4, 30, {Src})>>>>,
     <<<<[Push(1, 2, {Tiny}) EXCEPT !.chore = TRUE], Push(2, 30, {Src}), Push(3, 60, {Src, Tiny}), Push(4, 90, {Src})>>>>}

MCAnswers ==
    {[status |-> "clear",
      claims |-> {[text |-> "a", evidence |-> {PlaceholderRef}], [text |-> "b", evidence |-> {PlaceholderRef, "ref"}]}],
     [status |-> "paused", claims |-> {}]}

-------------------------------------------------------------------------------
MCServers ==
    {[style |-> s, cap |-> c] : s \in {"link", "flag", "header"}, c \in {1, 2, 4}} \cup {[style |-> "none", cap |-> 4]}

-------------------------------------------------------------------------------
RulesRest ==
    /\ subject = [project |-> [id |-> "p", lifecycle |-> "active", pauses |-> {}], focus |-> {}]
    /\ rows = {} /\ judged = <<>>
CiRest == offered = {} /\ filed = <<>> /\ request = [r \in Requests |-> Idle]
SignalRest ==
    /\ week = <<>> /\ repo = 1 /\ pending = {} /\ facts = {} /\ errors = {} /\ queue = {} /\ diffs = <<>>
    /\ phase = "listing" /\ signal = Unavailable
PagesRest ==
    /\ server = [style |-> "none", cap |-> 4] /\ listing = <<>> /\ atStart = {} /\ collected = <<>>
    /\ page = 1 /\ next = 0 /\ requests = 0 /\ walk = "going"
DashboardRest ==
    /\ snapshot = "loading" /\ boot = "going" /\ screen = [view |-> "overview", project |-> "", asOf |-> NoDate]
    /\ progress = [date |-> NoDate, run |-> 0, scope |-> "none", loading |-> FALSE, failed |-> FALSE,
                   loaded |-> NoDate, result |-> <<>>]
    /\ fanOut = [r \in 1..MaxProgressRuns |-> {}] /\ inFlight = {}
    /\ lazyMissing = {} /\ lazyComputing = {} /\ lazyErrors = {}
    /\ lazyPosts = [p \in LazyRows |-> [open |-> 0, sent |-> 0, clicks |-> 0]]

Init ==
    \/ machine = "rules" /\ RuleInit /\ CiRest /\ SignalRest /\ PagesRest /\ DashboardRest
    \/ machine = "ci" /\ RulesRest /\ CiInit /\ SignalRest /\ PagesRest /\ DashboardRest
    \/ machine = "signal" /\ RulesRest /\ CiRest /\ SignalInit /\ PagesRest /\ DashboardRest
    \/ machine = "pages" /\ RulesRest /\ CiRest /\ SignalRest /\ PageInit /\ DashboardRest
    \/ machine = "dashboard" /\ RulesRest /\ CiRest /\ SignalRest /\ PagesRest /\ DashboardInit

Next ==
    /\ \/ machine = "rules" /\ RuleNext /\ UNCHANGED <<ciVars, signalVars, pageVars, dashboardVars>>
       \/ machine = "ci" /\ CiNext /\ UNCHANGED <<ruleVars, signalVars, pageVars, dashboardVars>>
       \/ machine = "signal" /\ SignalNext /\ UNCHANGED <<ruleVars, ciVars, pageVars, dashboardVars>>
       \/ machine = "pages" /\ PageNext /\ UNCHANGED <<ruleVars, ciVars, signalVars, dashboardVars>>
       \/ machine = "dashboard" /\ DashboardNext /\ UNCHANGED <<ruleVars, ciVars, signalVars, pageVars>>
    /\ UNCHANGED machine

Spec == Init /\ [][Next]_<<machine, ruleVars, ciVars, signalVars, pageVars, dashboardVars>>
===============================================================================
