SPECIFICATION LineSpec
CONSTANTS
    Base = 8
    SyncFirst = 5
    SyncSecond = 6
    Mtu = 2
    DataSize = 1
    HostFrames <- MCHostFrames
    DataPayloads <- MCDataPayloads
    FirstSequence = 63
    Datagrams <- MCDatagrams
    QueueDepth = 2
    DaqcFrameMax = 8
    MaxFrames = 3
    MaxDatagrams = 2
INVARIANTS LosslessInOrder  GapsAreCounted
PROPERTIES DatagramsArriveInOrder
CHECK_DEADLOCK FALSE
