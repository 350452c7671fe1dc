SPECIFICATION Spec
CONSTANTS
    NSlots = 3
    Users = {u1, u2, u3}
    NoUser = NoUser
    Registered = {u1, u2, u3}
    Requests = {"auth", "invite"}
    FileSizes = {3}
    MaxChunk = 2
    MaxSession = 3
    MaxCall = 1
    MaxTransfer = 0
    MaxMessage = 0
    MaxGroups = 0
SYMMETRY Symmetry
PROPERTIES
    PeerLearnsOfEnd
