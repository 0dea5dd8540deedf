\* No symmetry: Progress is a liveness property.
CONSTANTS
    Clients = {c1, c2, c3}
    Players = {p1, p2}
    Invs = {i1}
    InviteRoles = {1}
    NoClient = NoClient
    NoPlayer = NoPlayer
    NoInv = NoInv
SPECIFICATION FairSpec
PROPERTY Progress
CHECK_DEADLOCK FALSE
