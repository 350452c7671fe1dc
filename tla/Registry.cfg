SPECIFICATION FairSpec
CONSTANTS
    NSlots = 2
    Users = {u1, u2, u3, u4}
    NoUser = NoUser
    Registered = {u1, u2, u3, u4}
    Requests = {"auth", "invite"}
    FileSizes = {3}
    MaxChunk = 2
    MaxSession = 4
    MaxCall = 2
    MaxTransfer = 0
    MaxMessage = 0
    MaxGroups = 0
INVARIANTS
    CallTableHasRoom
PROPERTIES
    StrandedCallEnds
