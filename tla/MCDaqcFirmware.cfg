\* A slot on each wire, a read supervision of one tick.
CONSTANTS
    MaxWire = 1
    AckTimeout = 1
SPECIFICATION FairSpec
INVARIANTS TypeOK StreamingIsConfigured EnableEmptiesMailbox
PROPERTIES ImplementsDevice HostSilenceDisables
CHECK_DEADLOCK FALSE
