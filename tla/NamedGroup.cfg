SPECIFICATION Spec
CONSTANTS
    Users = {u1, u2, u3}
    NoUser = NoUser
    Named = {0, 1}
    MaxList = 1
    MaxRows <- Rows
SYMMETRY Symmetry
INVARIANTS
    PrivateStaysPrivate
