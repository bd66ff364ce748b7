SPECIFICATION Spec
CONSTANTS
    Exposure <- MCExposure
    Adapter <- MCAdapter
PROPERTY SwapAtWorstFails
CHECK_DEADLOCK FALSE
