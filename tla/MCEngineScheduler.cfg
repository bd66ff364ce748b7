CONSTANTS
    partial = partial
    totality = totality
    NoConfig = NoConfig
    Config <- MCConfig
SPECIFICATION FairSpec
CHECK_DEADLOCK FALSE
INVARIANTS
    TypeOK
    NoLostWakeup
PROPERTIES
    BracketUninterrupted
    IsCommandPort
    MailboxDrained
    PressReturns
    SessionFires
    ShutdownEnds
