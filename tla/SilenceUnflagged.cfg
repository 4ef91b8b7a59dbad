SPECIFICATION PipelineSpec
CONSTANTS
    DaysPerWeek = 7
    AggregationFloor = 2
    BaselineWindow = 2
    DefaultMinimum = 1
    SeriesWeeks = 2
    Names <- MCNames
    Repos <- SilentRepos
    Boundaries <- SilentBoundaries
    Projects <- SilentProjects
    Orgs <- SilentOrgs
    Directory <- MCDirectory
    Workers = {"cron", "operator"}
    ProcessOf <- MCProcessOf
    Kinds <- BackfillOnly
    VersionsOf <- MCVersionsOf
    LookbackWeeks = 1
    BackfillWeeks = 4
    StartDay = 27
    EndDay = 27
    Pulls = {{}, {"teams"}, {"o1"}}
    MaxJobs = 1
    MaxFailures = 0
    Faults <- MCFaults
INVARIANTS
    SilenceIsFlagged
CHECK_DEADLOCK FALSE
