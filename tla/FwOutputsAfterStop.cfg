CONSTANTS
    MaxWire = 1
    AckTimeout = 1
SPECIFICATION Spec
INVARIANT OnlyStreamingDrives
CHECK_DEADLOCK FALSE
