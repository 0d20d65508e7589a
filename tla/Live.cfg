SPECIFICATION PartsSpec
CONSTANTS
    Conns = {s1, s2}
    Hints = {card, catalog}
    Catalog = {catalog}
    Limit = 1
    Stops = TRUE
    None = None
    Asked = Asked
INVARIANTS
    NoGhosts
    HintsNeedAccess
    ShownIsTheServers
PROPERTIES
    CatchesUpAndEnds
    ProcessIsSound
CHECK_DEADLOCK FALSE
