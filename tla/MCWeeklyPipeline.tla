---------------------------- MODULE MCWeeklyPipeline ----------------------------
(***************************************************************************)
(* Three small worlds for the pipeline.                                    *)
(***************************************************************************)
EXTENDS WeeklyPipeline

MCNames == [ann |-> {"ann", "Ann A."}, bob |-> {"bob"}]

\* Two projects, one repository of each and one they share; the second team is
\* too small to be counted.  Weeks have two days, and week 1 is quieter.
MCPr(opened, ended, merged, review) ==
    [opened |-> opened, ended |-> ended, merged |-> merged, review |-> review, by |-> "bob"]
MCRepos ==
    {[org |-> "o1", id |-> "1", slug |-> "app",
      commits |-> {[day |-> 0, by |-> "ann"], [day |-> 1, by |-> "bob"], [day |-> 2, by |-> "ann"]},
      prs |-> {MCPr(0, 1, TRUE, 1), MCPr(1, Absent, FALSE, Absent)}],
     [org |-> "o2", id |-> "2", slug |-> "lib",
      commits |-> {[day |-> 1, by |-> "ann"]}, prs |-> {}]}
MCBoundary(n, project, team, repos) ==
    [n |-> n, project |-> project, team |-> team, repos |-> repos, excluded |-> {}, from |-> 0, to |-> Absent]
MCBoundaries ==
    {MCBoundary(1, "p", "o1", {[slug |-> "app", id |-> "1"], [slug |-> "lib", id |-> "2"]}),
     MCBoundary(2, "q", "o2", {[slug |-> "lib", id |-> "2"]})}
MCProject(id) == [id |-> id, lifecycle |-> "active", pauses |-> {}]
MCProjects == <<MCProject("p"), MCProject("q")>>
MCOrgs == <<"o1", "o2">>
MCDirectory == [o1 |-> 3, o2 |-> 1]
MCProcessOf == [cron |-> "service", operator |-> "script"]
MCKinds == [cron |-> {"nightly", "weekly"}, operator |-> {"backfill"}]
MCVersionsOf == [nightly |-> {1}, backfill |-> {1}, weekly |-> {1, 2}]
MCFaults ==
    {NoFault, <<1, "o1", "app", "prs">>, <<0, "o1", "app", "reviews">>, <<0, "o1", "app", "record">>,
     <<1, "o2", "all", "list">>}

\* One project that commits in weeks 0 and 1 and is silent from then on.
SilentCommits == {[day |-> 5, by |-> "ann"], [day |-> 11, by |-> "bob"], [day |-> 12, by |-> "ann"]}
SilentRepos == {[org |-> "o1", id |-> "1", slug |-> "app", commits |-> SilentCommits, prs |-> {}]}
SilentBoundaries == {MCBoundary(1, "p", "o1", {[slug |-> "app", id |-> "1"]})}
SilentProjects == <<MCProject("p")>>
SilentOrgs == <<"o1">>
BackfillOnly == [cron |-> {}, operator |-> {"backfill"}]

\* Two organisations, each with a repository called web.
WebRepo(org, id) ==
    [org |-> org, id |-> id, slug |-> "web", commits |-> {[day |-> 0, by |-> "ann"]}, prs |-> {}]
WebRepos == {WebRepo("o1", "1"), WebRepo("o2", "2")}
WebBoundaries ==
    {MCBoundary(1, "p", "o1", {[slug |-> "web", id |-> "1"]}),
     MCBoundary(2, "q", "o2", {[slug |-> "web", id |-> "2"]})}
===============================================================================
