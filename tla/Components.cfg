SPECIFICATION Spec
CONSTANTS
    DaysPerWeek = 7
    AggregationFloor = 2
    BaselineWindow = 2
    DefaultMinimum = 1
    SeriesWeeks = 3
    RuleWeeks = 4
    Levels = {0, 4, 9}
    OtherLevel = 4
    TeamSizes = {1, 2}
    Foci <- MCFoci
    Batches <- MCBatches
    Proposals <- MCProposals
    Requests = {r1, r2}
    TaskLimit = 3
    MaxAssessments = 3
    Histories <- MCHistories
    Answers <- MCAnswers
    MaxRepos = 2
    MaxCommitsPerRepo = 3
    MaxCommitsTotal = 3
    MaxBytesPerCommit = 5
    MaxTotalDiffBytes = 8
    MaxHunksPerFile = 2
    Tier1Commits = 1
    Tier1Files = 1
    Tier1Lines = 100
    PageSize = 3
    MaxPages = 4
    MaxItems = 7
    Servers <- MCServers
    Shown = {"p", "q"}
    LazyRows = {"p"}
    Dates = {1, 2}
    FanOut = 1
    MaxProgressRuns = 4
    MaxClicks = 1
INVARIANTS
    ReplayAgrees
    WarningsAreExplained
    OldHistoryDoesNotMatter
    NoAlarmWithoutDecline
    HiddenCountsDecideNothing
    DuplicatesOnlyWhenOverlapping
    EnrichmentIsFailClosed
    BudgetIsSpentOnTheLargest
    
    PagesAreComplete
    ProgressIsForTheChosenDate
    EveryWaitHasOneRequest
CHECK_DEADLOCK FALSE
