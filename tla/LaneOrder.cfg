SPECIFICATION PartsSpec
CONSTANTS
    Cards = {a, b, c}
    Movers = {m}
    Jobs = {job}
    Adapter = "sqlite"
    Keys <- MCKeys
    Long <- MCLong
    Between <- MCBetween
    Fresh <- MCFresh
    None = None
    Pair = {p, q}
    Parts = {"night", "pair"}
SYMMETRY MCSymmetry
INVARIANT
    KeysStayApart
PROPERTIES
    LandsWhereDropped
    OnlyTheMovedCardMoves
    PairIsSound
