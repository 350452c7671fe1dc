SPECIFICATION Spec
CONSTANTS
    Capacity = 7
    Bytes <- MCBytes
    Blank <- MCBlank
    HeaderLen = 2
    RecvSize = 3
    PacketLens = {2, 6}
    MaxPackets = 3
    MCCapacity = 7
INVARIANTS
    FramerKeepsUp
CHECK_DEADLOCK FALSE
