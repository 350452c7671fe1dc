SPECIFICATION Spec
CONSTANTS
    NSlots = 2
    Users = {u1, u2}
    NoUser = NoUser
    Registered = {u1, u2}
    Requests = {"auth", "heartbeat", "chat"}
    FileSizes = {3}
    MaxChunk = 2
    MaxSession = 2
    MaxCall = 0
    MaxTransfer = 0
    MaxMessage = 1
    MaxGroups = 0
SYMMETRY Symmetry
PROPERTIES
    OnlineReceiverNotified
