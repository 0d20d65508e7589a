SPECIFICATION PartsSpec
CONSTANTS
    Cards = {a, b, c}
    Movers = {m}
    Jobs = {job}
    Adapter = "postgres"
    Keys <- MCKeys
    Long <- MCLong
    Between <- MCBetween
    Fresh <- MCFresh
    None = None
    Pair = {p, q}
    Parts = {"night"}
SYMMETRY MCSymmetry
PROPERTY
    OnlyTheMovedCardMoves
