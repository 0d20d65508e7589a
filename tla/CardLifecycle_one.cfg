SPECIFICATION OneSpec
CONSTANTS
    MaxId = 1
    Keys <- MCKeys
    SeedLanes <- MCLanes
    Layouts <- MCLayouts
    SeedGraph <- MCGraph
    Graphs <- MCGraphs
    Reasons = {parts, vendor}
    SeedReasons = {parts}
    CancelResolutions = {"cancelled"}
    MaxDay = 1
    MaxVersion = 6
    None = None
    ArchivalDays = 1
    MaxCrashes = 0
INVARIANTS
    BoardInv
    DisciplineInv
PROPERTIES
    ReopenRestores
    VersionsAndAlertsTell
    ImplementsStages
