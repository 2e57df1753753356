SPECIFICATION FairSpec
CONSTANTS
    b1 = b1
    b2 = b2
    MaxOp = 3
    Bodies <- MCBodies
    Window = 2
    IdleRule = TRUE
    MaxCalls = 3
    None = None
INVARIANTS TypeOK NoOrphan StatusHonest
PROPERTIES NoReexecution CommandsAnswered DeathNoticed
CHECK_DEADLOCK FALSE
