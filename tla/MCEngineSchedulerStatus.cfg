CONSTANTS
    partial = partial
    totality = totality
    NoConfig = NoConfig
    Config <- MCConfig
SPECIFICATION Spec
CHECK_DEADLOCK FALSE
INVARIANT
    StatusReadable
