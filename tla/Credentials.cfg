SPECIFICATION PartsSpec
CONSTANTS
    Users = {u}
    Apps = {x, y}
    Requests = {p, q}
    CodeTtl = 1
    AccessTtl = 1
    RefreshTtl = 1
    MaxTime = 1
    MaxMinted = 5
    MaxEpoch = 1
    None = None
    People = {u1, u2}
    Clients = {c1, c2}
    Tokens = {t1, t2}
    Sessions = {s1, s2}
    Attempts = {a1, a2, a3}
    Logins = {l1, l2, l3}
INVARIANTS
    GrantsInv
    SessionsFollowTheAccount
    EndedOrUsable
PROPERTIES
    RevocationsSpareNewerGrants
    AdministratorsRemain
    LimitsHold
CHECK_DEADLOCK FALSE
