\* Three clients and three names; at most five LOGINs, USERS and ends of games.
CONSTANTS
    Names = {n1, n2, n3}
    Threads = {t1, t2, t3}
    Addresses = {1, 2, 3}
    NoName = NoName
    NoThread = NoThread
    NoCall = NoCall
    MaxCalls = 5
SPECIFICATION Spec
SYMMETRY Symmetry
INVARIANTS TypeOK RefsExact NoFreedPlayer OnePlayerPerName NoLockCycle
PROPERTIES ImplementsRatings FairPosting
CHECK_DEADLOCK FALSE
