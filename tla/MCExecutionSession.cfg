SPECIFICATION FairSpec
CONSTANTS
    MaxPlays = 3
    MaxSteps = 2
INVARIANTS  EndedMeansQuiet 
PROPERTY EveryPlayEnds
CHECK_DEADLOCK FALSE
