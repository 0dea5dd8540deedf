\* Three clients that share two names, and two invitations: two games at a
\* time, one after the other, or crosswise between the same two clients.
CONSTANTS
    Clients = {c1, c2, c3}
    Players = {p1, p2}
    Invs = {i1, i2}
    InviteRoles = {1}
    NoClient = NoClient
    NoPlayer = NoPlayer
    NoInv = NoInv
SPECIFICATION Spec
SYMMETRY Symmetry
INVARIANTS TypeOK RefsExact SingleCloser DecidedIsClosed ListsAgree LoginUnique FaultNeedsDisconnect LogoutLeaves
PROPERTIES IdStable ImplementsInvitations
CHECK_DEADLOCK FALSE
