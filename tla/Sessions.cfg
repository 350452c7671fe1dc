SPECIFICATION Spec
CONSTANTS
    NSlots = 3
    Users = {u1, u2, u3}
    NoUser = NoUser
    Registered = {u1, u2, u3}
    Requests = {"auth", "invite", "file-start"}
    FileSizes = {3}
    MaxChunk = 2
    MaxSession = 3
    MaxCall = 2
    MaxTransfer = 1
    MaxMessage = 1
    MaxGroups = 0
SYMMETRY Symmetry
INVARIANTS
    TypeOK
    OneSession
    OneCallPerUser
    PendingIsAddressed
    OnlineAtRest
PROPERTIES
    OnlyReauthStrands
    EndedCallIsTold
