\* Every kind of role byte: none, each player, and bytes that are no role.
CONSTANTS
    Clients = {c1, c2, c3}
    Players = {p1, p2}
    Invs = {i1}
    InviteRoles = {0, 1, 2, 3, 4}
    NoClient = NoClient
    NoPlayer = NoPlayer
    NoInv = NoInv
SPECIFICATION PSpec
SYMMETRY Symmetry
INVARIANTS LogoutLeaves OneStory NobodyLeftOut MoverIsShown
PROPERTIES ImplementsInvitations RefusedMoveCounts
CHECK_DEADLOCK FALSE
