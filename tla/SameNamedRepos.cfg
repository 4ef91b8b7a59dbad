SPECIFICATION PipelineSpec
CONSTANTS
    DaysPerWeek = 2
    AggregationFloor = 2
    BaselineWindow = 1
    DefaultMinimum = 1
    SeriesWeeks = 2
    Names <- MCNames
    Repos <- WebRepos
    Boundaries <- WebBoundaries
    Projects <- MCProjects
    Orgs <- MCOrgs
    Directory <- MCDirectory
    Workers = {"cron", "operator"}
    ProcessOf <- MCProcessOf
    Kinds <- MCKinds
    VersionsOf <- MCVersionsOf
    LookbackWeeks = 1
    BackfillWeeks = 2
    StartDay = 2
    EndDay = 2
    Pulls = {{}, {"teams"}, {"o1"}}
    MaxJobs = 1
    MaxFailures = 0
    Faults <- MCFaults
INVARIANTS
    ReposKeepTheirOwners
CHECK_DEADLOCK FALSE
