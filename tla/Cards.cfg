SPECIFICATION PartsSpec
CONSTANTS
    MaxId = 1
    Keys <- SweepKeys
    SeedLanes <- SweepLanes
    Layouts <- SweepLayouts
    SeedGraph <- SweepMoves
    Graphs <- SweepGraphs
    Reasons = {}
    SeedReasons = {}
    CancelResolutions = {"cancelled"}
    MaxDay = 2
    MaxVersion = 6
    None = None
    ArchivalDays = 1
    MaxCrashes = 1
INVARIANTS
    CardsKeepTheRules
PROPERTIES
    FullStaysAreArchived
