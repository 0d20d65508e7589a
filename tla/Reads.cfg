SPECIFICATION PartsSpec
CONSTANTS
    Clients = {p, q}
    Lanes = {l1, l2}
    Kinds = {"card"}
    Postgres = FALSE
    MaxChanges = 3
    MaxBoots = 2
    MayFail = TRUE
    None = none
    c1 = c1  c2 = c2  reader = reader  other = other  token = token
INVARIANTS
    ReadYourWrites
    MemoIsTheBoard
    ReadsAreWhole
CHECK_DEADLOCK FALSE
