SPECIFICATION FairSpec
CONSTANTS
    Capacity = 7
    Bytes <- MCBytes
    Blank <- MCBlank
    HeaderLen = 2
    RecvSize = 3
    PacketLens = {2, 5, 6}
    MaxPackets = 3
    MCCapacity = 7
INVARIANTS
    OnlyLargePacketsOverflow
    TypeOK
    BytesConserved
PROPERTIES
    IsChannel
    Arrives
CHECK_DEADLOCK FALSE
