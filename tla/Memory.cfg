SPECIFICATION Spec
CONSTANTS
    Users = {u1, u2, u3}
    NoUser = NoUser
    MaxAccounts = 3
    MaxConversations = 2
    MaxMessages = 3
    MaxDeliveries = 2
    MaxMembers = 3
    MaxFiles = 1
    MaxGroupMembers = 3
    MaxPage = 2
SYMMETRY Symmetry
INVARIANTS
    TypeOK
    TablesConsistent
    ListingsAgree
PROPERTIES
    IsStorage
    OldPagesStay
    InboxKeepsOrder
