\* Three connections for two slots, and two SIGHUPs on any threads.
CONSTANTS
    Conns = {c1, c2, c3}
    Main = Main
    NoThread = NoThread
    MAX_CLIENTS = 2
    MaxHups = 2
SPECIFICATION FairSpec
INVARIANTS TypeOK TokensExact SlotsExact ShutIsGone
PROPERTY Terminates
CHECK_DEADLOCK FALSE
