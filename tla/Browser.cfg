SPECIFICATION PartsSpec
CONSTANTS
    Admins = {a1, a2}
    Plain = {"hours"}
    Reasons = {k1, k2}
    Seeded = {k1}
    Drops = FALSE
    MaxSaves = 2
    None = None
    cards = {x}
    fields = {reason, resume}
    values = {v1, v2, v3}
    c = c  c1 = c1  c2 = c2  c3 = c3  c4 = c4  todo = todo  done = done
    thread = thread  reply = reply
    header = header  cta = cta  relation = relation  file = file  photo = photo
INVARIANTS
    QuietEditorsAreCurrent
PROPERTIES
    ReasonsStay
    NothingTypedIsLost
    MovesAndUndoAgree
CHECK_DEADLOCK FALSE
