\* Two clients and one invitation suffice.
CONSTANTS
    Clients = {c1, c2}
    Players = {p1, p2}
    Invs = {i1}
    InviteRoles = {1}
    NoClient = NoClient
    NoPlayer = NoPlayer
    NoInv = NoInv
SPECIFICATION Spec
INVARIANT NoDeadlock
CHECK_DEADLOCK FALSE
