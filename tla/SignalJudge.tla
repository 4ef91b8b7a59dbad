------------------------------- MODULE SignalJudge -------------------------------
(***************************************************************************)
(* One project-week's code evidence, pulled call by call from Gitea, any   *)
(* of which may fail, and the signal made of it: a quiet week, a failure   *)
(* that is never cached, or what the model says.                           *)
(*                                                                         *)
(* A commit is [sha, here, size, merge, chore, files]: its number, whether *)
(* it falls into the week, its changed lines, and its files, each          *)
(* [path, noise, lines, hunks].  A hunk is a byte, and so is a header.     *)
(***************************************************************************)
EXTENDS Aggregates

CONSTANTS
    Histories,            \* what the repositories hold: repo -> commits, newest first
    Answers,              \* what the model may emit
    MaxRepos, MaxCommitsPerRepo, MaxCommitsTotal, MaxBytesPerCommit, MaxTotalDiffBytes,
    MaxHunksPerFile, Tier1Commits, Tier1Files, Tier1Lines     \* DiffLimits

SmallFile == 5            \* changed lines below which a file is shown whole
LargeFile == 400          \* and above which only its declarations are
SmallChore == 20
PlaceholderRef == "repo@shortsha"
Unavailable == [status |-> "insufficient_data", failure |-> TRUE, basis |-> "none", claims |-> {}]

-------------------------------------------------------------------------------
(* Commits and diffs *)

NoiseFiles(commit) == {f \in commit.files : f.noise}
RealFiles(commit) == commit.files \ NoiseFiles(commit)
NoiseOnly(commit) == commit.merge \/ (commit.files # {} /\ RealFiles(commit) = {})

ShownBytes(file) ==
    CASE file.noise -> 2
      [] ~file.noise /\ file.lines < SmallFile -> 1 + file.hunks
      [] ~file.noise /\ file.lines > LargeFile -> 3
      [] OTHER -> IF file.hunks <= MaxHunksPerFile THEN 1 + file.hunks ELSE 2 + MaxHunksPerFile

SelectedBytes(commit) == Least(SumFunction([f \in commit.files |-> ShownBytes(f)]), MaxBytesPerCommit)

LargerFirst(c, d) == c.size > d.size \/ (c.size = d.size /\ c.sha < d.sha)

CommitsOf(history) == UNION {Range(history[n]) : n \in DOMAIN history}

\* Limits, sizes and counts are numbers, and a commit is in one repository of
\* the week, under a hash of its own.
ASSUME SignalAssumption ==
    /\ {MaxRepos, MaxCommitsTotal, MaxBytesPerCommit, MaxTotalDiffBytes, MaxHunksPerFile} \subseteq Nat
    /\ \A history \in Histories :
        /\ Len(history) \in Nat /\ DOMAIN history = 1..Len(history)
        /\ \A c, d \in CommitsOf(history) :
            /\ {c.size, c.sha} \subseteq Nat /\ IsFiniteSet(c.files) /\ \A f \in c.files : f.hunks \in Nat
            /\ c.sha = d.sha => c = d

-------------------------------------------------------------------------------
(* The pull *)

VARIABLES
    week,                 \* the repositories, in the order of the boundary
    repo,                 \* the one being read
    pending,              \* those of its commits still to be looked at
    facts,                \* the commits found, and whether their metadata came
    errors,               \* fetches that failed
    queue,                \* the commits whose diff is still to be fetched
    diffs,                \* commit -> bytes of its diff that are shown
    phase,
    signal

signalVars == <<week, repo, pending, facts, errors, queue, diffs, phase, signal>>

SignalInit ==
    /\ week \in Histories
    /\ repo = 1 /\ pending = {} /\ facts = {} /\ errors = {} /\ queue = {} /\ diffs = <<>>
    /\ phase = "listing" /\ signal = Unavailable

\* The first commits of a listing that fall into the week.
InWeek(commits) == {i \in DOMAIN commits : commits[i].here}
CommitsRead(commits) ==
    {commits[i] : i \in {j \in InWeek(commits) : Cardinality({k \in InWeek(commits) : k < j}) < MaxCommitsPerRepo}}

ReposRead == Least(MaxRepos, Len(week))

CommitsListed ==
    /\ phase = "listing" /\ repo <= ReposRead
    /\ pending' = CommitsRead(week[repo])
    /\ phase' = "reading"
    /\ UNCHANGED <<week, repo, facts, errors, queue, diffs, signal>>

ListingFails ==
    /\ phase = "listing" /\ repo <= ReposRead
    /\ errors' = errors \cup {<<"list", repo>>}
    /\ repo' = repo + 1
    /\ UNCHANGED <<week, pending, facts, queue, diffs, phase, signal>>

\* A commit whose metadata does not come is kept, as one of which nothing is
\* known.  In any order, which nothing remembers.
CommitRead_Swallowed(known) ==  \* mutant: a fetch that failed is not on the list of errors
    /\ phase = "reading"
    /\ \E c \in pending : facts' = facts \cup {[commit |-> c, known |-> known]} /\ pending' = pending \ {c}
    /\ UNCHANGED <<week, repo, errors, queue, diffs, phase, signal>>
CommitRead(known) ==
    /\ phase = "reading"
    /\ \E c \in pending :
        /\ facts' = facts \cup {[commit |-> c, known |-> known]}
        /\ errors' = IF known THEN errors ELSE errors \cup {<<"stat", c>>}
        /\ pending' = pending \ {c}
    /\ UNCHANGED <<week, repo, queue, diffs, phase, signal>>

StatArrives == CommitRead(TRUE)
StatFails == CommitRead(FALSE)

RepoRead ==
    /\ phase = "reading" /\ pending = {}
    /\ repo' = repo + 1
    /\ phase' = "listing"
    /\ UNCHANGED <<week, pending, facts, errors, queue, diffs, signal>>

Substantive == {f.commit : f \in {x \in facts : x.known /\ ~NoiseOnly(x.commit)}}

\* tier0 or tier1: no diff is fetched.
SmallWeek ==
    /\ Cardinality(Substantive) <= Tier1Commits
    /\ Cardinality(UNION {{f.path : f \in RealFiles(c)} : c \in Substantive}) <= Tier1Files
    /\ SumFunction([c \in Substantive |-> c.size]) <= Tier1Lines

LargerThan(c) == {d \in Substantive : LargerFirst(d, c)}

Settle ==
    /\ phase = "listing" /\ repo > ReposRead
    /\ queue' = IF SmallWeek THEN {} ELSE {c \in Substantive : Cardinality(LargerThan(c)) < MaxCommitsTotal}
    /\ phase' = "diffs"
    /\ UNCHANGED <<week, repo, pending, facts, errors, diffs, signal>>

\* The commit whose turn it is.
Turn_Oldest ==  \* mutant: no sort by size
    CHOOSE c \in queue : \A d \in queue \ {c} : c.sha < d.sha
Turn == CHOOSE c \in queue : \A d \in queue \ {c} : LargerFirst(c, d)

ShownSoFar == SumFunction(diffs)
Budget == MaxTotalDiffBytes - ShownSoFar
Skipped(commit) == commit.chore /\ commit.size <= SmallChore

BudgetGone ==
    /\ phase = "diffs" /\ queue # {} /\ Budget <= 0
    /\ queue' = {}
    /\ UNCHANGED <<week, repo, pending, facts, errors, diffs, phase, signal>>

SkipChore ==
    /\ phase = "diffs" /\ queue # {} /\ Budget > 0 /\ Skipped(Turn)
    /\ queue' = queue \ {Turn}
    /\ UNCHANGED <<week, repo, pending, facts, errors, diffs, phase, signal>>

Asked == phase = "diffs" /\ queue # {} /\ Budget > 0 /\ ~Skipped(Turn)

DiffArrives ==
    /\ Asked
    /\ diffs' = [c \in DOMAIN diffs \cup {Turn} |->
                    IF c \in DOMAIN diffs THEN diffs[c] ELSE Least(SelectedBytes(c), Budget)]
    /\ queue' = queue \ {Turn}
    /\ UNCHANGED <<week, repo, pending, facts, errors, phase, signal>>

DiffFails ==
    /\ Asked
    /\ errors' = errors \cup {<<"diff", Turn>>}
    /\ queue' = queue \ {Turn}
    /\ UNCHANGED <<week, repo, pending, facts, diffs, phase, signal>>

-------------------------------------------------------------------------------
(* The signal *)

Quiet(isNew) ==
    [status |-> IF isNew THEN "insufficient_data" ELSE "watch", failure |-> FALSE, basis |-> "quiet", claims |-> {}]

\* What is kept of an answer: the claims with a reference that is not the
\* prompt's own placeholder; an unknown status fails the whole answer.
ParseSignal(answer) ==
    LET refs(claim) == claim.evidence \ {PlaceholderRef}
    IN  IF answer.status \notin {"clear", "watch", "at_risk", "insufficient_data"} THEN Unavailable
        ELSE [status |-> answer.status, failure |-> FALSE, basis |-> "model",
              claims |-> {[text |-> c.text, evidence |-> refs(c)] : c \in {x \in answer.claims : refs(x) # {}}}]

AllUnknown == facts # {} /\ \A f \in facts : ~f.known

\* judge_project_week: every answer it may give.
Signals(configured, isNew) ==
    CASE AllUnknown -> {Unavailable}
      [] ~AllUnknown /\ Substantive = {} -> {Quiet(isNew)}
      [] Substantive # {} /\ (~configured \/ 2 * Cardinality(errors) > Cardinality(Substantive)) -> {Unavailable}
      [] OTHER -> {Unavailable} \cup {ParseSignal(a) : a \in Answers}

JudgeWeekEvidence ==
    /\ phase = "diffs" /\ queue = {}
    /\ \E configured, isNew \in BOOLEAN : \E s \in Signals(configured, isNew) : signal' = s
    /\ phase' = "judged"
    /\ UNCHANGED <<week, repo, pending, facts, errors, queue, diffs>>

SignalNext ==
    \/ CommitsListed \/ ListingFails \/ StatArrives \/ StatFails \/ RepoRead \/ Settle
    \/ BudgetGone \/ SkipChore \/ DiffArrives \/ DiffFails \/ JudgeWeekEvidence

SignalSpec == SignalInit /\ [][SignalNext]_signalVars

-------------------------------------------------------------------------------

\* The diffs shown fit the week's budget, and a substantive commit goes unread
\* only for a reason: the week is small, its chore is, its fetch failed, or
\* larger commits filled the budget or the list.
BudgetIsSpentOnTheLargest ==
    phase = "judged" =>
        /\ ShownSoFar <= MaxTotalDiffBytes
        /\ \A c \in Substantive \ DOMAIN diffs :
            \/ SmallWeek \/ Skipped(c) \/ <<"diff", c>> \in errors
            \/ Cardinality(LargerThan(c)) >= MaxCommitsTotal
            \/ ShownSoFar = MaxTotalDiffBytes /\ DOMAIN diffs \subseteq LargerThan(c)

\* A signal that may be kept leaves nothing out unawares: each commit of the week
\* that is not noise was weighed, or the fetch that hid it is on the list of errors.
\* A quiet one found nothing to weigh, and not every commit's metadata failed; the
\* model's rests on a majority of fetches that succeeded, its claims on references.
\* It may still be of an outage: a week of which no repository could be listed is
\* kept as quiet, though signal_llm.py says that callers must not cache one for which
\* too much evidence failed to fetch.
KeptSignalsAreEarned ==
    phase = "judged" /\ ~signal.failure =>
        /\ \A r \in 1..ReposRead : \A c \in CommitsRead(week[r]) :
              NoiseOnly(c) \/ c \in Substantive \/ {<<"list", r>>, <<"stat", c>>} \cap errors # {}
        /\ signal.basis = "quiet" => Substantive = {} /\ ~AllUnknown
        /\ signal.basis = "model" => 2 * Cardinality(errors) <= Cardinality(Substantive)
        /\ \A c \in signal.claims : c.evidence \ {PlaceholderRef} # {}
===============================================================================
