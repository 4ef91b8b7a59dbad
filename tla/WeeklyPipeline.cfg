SPECIFICATION PipelineSpec
CONSTANTS
    DaysPerWeek = 2
    AggregationFloor = 2
    BaselineWindow = 1
    DefaultMinimum = 1
    SeriesWeeks = 2
    Names <- MCNames
    Repos <- MCRepos
    Boundaries <- MCBoundaries
    Projects <- MCProjects
    Orgs <- MCOrgs
    Directory <- MCDirectory
    Workers = {"cron", "operator"}
    ProcessOf <- MCProcessOf
    Kinds <- MCKinds
    VersionsOf <- MCVersionsOf
    LookbackWeeks = 1
    BackfillWeeks = 2
    StartDay = 2
    EndDay = 3
    Pulls = {{}, {"teams"}, {"o1"}}
    MaxJobs = 2
    MaxFailures = 1
    Faults <- MCFaults
INVARIANTS
    SnapshotsCiteStoredWarnings
    CompletedRunCovers
    ScoredWeeksSawEverything
    SizesReachTheRows
PROPERTIES
    UndisturbedFoldsMoveForward
    OkMeansComplete
CHECK_DEADLOCK FALSE
