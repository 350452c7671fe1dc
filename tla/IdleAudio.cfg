SPECIFICATION ClientsSpec
CONSTANTS
    NSlots = 3
    u1 = u1
    u2 = u2
    u3 = u3
    Users <- MCUsers
    Seats <- MCSeats
    Casts <- WindowCasts
    NoUser = NoUser
    Registered = {}
    Requests = {"invite", "hangup", "offer"}
    FileSizes = {1, 3}
    MaxChunk = 2
    MaxSession = 3
    MaxCall = 1
    MaxTransfer = 2
    MaxMessage = 3
    MaxGroups = 0
    MaxDown = 1
    MaxPending = 1
    Data <- MCData
    Paths <- MCPaths
    NoPath = NoPath
    NoFile = NoFile
    Names <- MCNames
    Candidates <- MCCandidates
    Offers <- MCOffers
    Chunks <- MCChunks
INVARIANTS
    IdleIsSilent
CHECK_DEADLOCK FALSE
VIEW MCView
