SPECIFICATION Spec
CONSTANTS
    NSlots = 2
    Users = {u1, u2}
    NoUser = NoUser
    Registered = {}
    Requests = {"auth", "file-start", "file-chunk", "file-complete", "chat", "group-create", "group-send", "heartbeat", "user"}
    FileSizes = {2}
    MaxChunk = 2
    MaxSession = 3
    MaxCall = 0
    MaxTransfer = 1
    MaxMessage = 2
    MaxGroups = 1
SYMMETRY Symmetry
INVARIANTS
    TransferRowsOpen
    PendingChatIsStored
PROPERTIES
    OnlyLoginClosesOthers
    AckMeansRelayed
    NotifyNeedsAck
