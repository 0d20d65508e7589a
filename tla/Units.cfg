SPECIFICATION PartsSpec
CONSTANTS
    Edits = {e1, e2}
    Job = job
    Adapter = "sqlite"
    None = None
INVARIANTS
    NoLostUpdate
    TrailInv
    FilesInv
PROPERTIES
    EveryCallSettles
    ImplementsLock
    NumbersHold
CHECK_DEADLOCK FALSE
