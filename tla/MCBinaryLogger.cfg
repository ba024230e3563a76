CONSTANTS
    Capacity = 3
    MaxSamples = 6
SPECIFICATION FairSpec
INVARIANTS
    TypeOK NoSlotRace ExitAccounting OkMeansComplete
PROPERTIES
    ImplementsLogStream LogGetsReported
