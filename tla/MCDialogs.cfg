CONSTANTS
    Shutters <- MCShutters
    Isos <- MCIsos
    Apertures <- MCApertures
    Steps <- MCSteps
    Default <- MCDefault
    Originals <- MCOriginals
    Intervals <- MCIntervals
    Interval = 4
    MaxShots = 3
    Visible = 12
    MaxEdits = 1
    MaxLadders = 1
    MaxFields = 2
    Chars <- MCChars
    Layers <- MCLayers
    Columns = 6
    Shortest <- MCShortest
    Longest <- MCLongest
    Listed <- MCListed
    NewName <- MCNewName
    Today <- MCToday
    Moments <- MCMoments
    Clocks <- MCClocks
    MinYear = 2000
    MaxYear = 2099
    MaxTurns = 1
    Airs <- MCAirs
    Saved <- MCSaved
    MaxJoins = 1
SPECIFICATION Spec
INVARIANTS
    TypeOK
    CursorShown
    ShotsKept
    DigitsKept
    SecretStays
    ScanExact
PROPERTIES
    LadderDescends
    PickerExact
