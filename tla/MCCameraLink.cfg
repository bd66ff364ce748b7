SPECIFICATION FairSpec
CONSTANTS
    Exposure <- MCExposure
    Adapter <- MCAdapter
INVARIANT TypeOK
PROPERTIES CaptureUndisturbed Settles Disconnects
CHECK_DEADLOCK FALSE
