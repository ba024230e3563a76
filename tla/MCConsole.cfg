SPECIFICATION FairSpec
CONSTANTS
    MaxOutputs = 2
    MaxInputs = 1
    MaxCandidates = 3
    Garbage = 0
    MaxMappings = 3
    BadYaml = BadYaml
    Failed = Failed
    Fmus <- MCFmus
    Profiles <- MCProfiles
    StepSizes = {1}
    MaxSteps = 2
    MaxRuns = 2
    Capacity = 2
    HistoryMax = 2
    Window = 1
    NoLog = NoLog
INVARIANTS FmuLifecycle RunUsesLoadedFmu PlotIsFaithful CsvIsOfLastRun
PROPERTY EveryRunReturns
CHECK_DEADLOCK FALSE
