CONSTANTS
    MaxSessions = 2
    MaxQueue = 1
SPECIFICATION FairSpec
INVARIANTS ConfirmedIsMine PublishedIsCurrent NoLostWakeup
PROPERTY RuntimeSettles
