SPECIFICATION FairSpec
CONSTANTS
    Clients = {c1, c2}
    None = None
    ClientMayVanish = TRUE
CHECK_DEADLOCK FALSE
INVARIANTS
    AppTypeOK
    StuckOnlyIfHurried
    OrderlyExit
PROPERTIES
    LostClientFreesServer
