SPECIFICATION PartsSafety
CONSTANTS
    NBoards = 2
    Groups = {g}
    Roles = {admin, crew, temp}
    Users = {ann, bob}
    RoleOf <- MCRoleOf
    Requests = {r1, r2}
    None = none
    ann = ann  bob = bob  admin = admin  crew = crew  temp = temp  g = g
    n1 = n1  n2 = n2  n3 = n3  n4 = n4  a = a  b = b  c1 = c1
    m1 = m1  m2 = m2  m3 = m3  s1 = s1  s2 = s2
    sys = sys  token = token  b1 = b1  b2 = b2
    a1 = a1  a2 = a2  a3 = a3  ada = ada
    Ops <- MCOps
    MayAbort = TRUE
    Parts = {"boards", "site", "site on postgres", "redelivered", "at the limit", "lossily", "fickly"}
INVARIANTS
    BoardsInv
PROPERTIES
    AuthorityIsCurrent
    SiteIsSound
    NothingTwice
CHECK_DEADLOCK FALSE
