CONSTANTS
    slow = slow
    quick = quick
    NoConfig = NoConfig
    Config <- MCConfig
    Interval <- MCInterval
    Shots <- MCShots
    ShotTime <- MCShotTime
    Tol = 2
    Horizon = 9
SPECIFICATION Spec
INVARIANTS
    TypeOK
    InstantsAccounted
    SleepLosesNothing
PROPERTIES
    BracketsOnGrid
    LostOnlyWhenMissed
    KeepsSession
