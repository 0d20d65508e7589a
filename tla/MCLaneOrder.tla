----------------------------- MODULE MCLaneOrder -----------------------------
(***************************************************************************)
(* Two columns of LaneOrder for TLC: one mover and the rebalance, on the    *)
(* adapter the configuration names, or a pair of movers on Postgres; the    *)
(* other column rests.  Even numbers stand for the integer parts of         *)
(* fractional-indexing, the odd one between two of them for the only, long, *)
(* key with that integer part.                                              *)
(***************************************************************************)
EXTENDS LaneOrder, TLC

CONSTANTS
    Pair,       \* the movers on Postgres
    Parts       \* those of the two that are followed: "night", "pair"

VARIABLES
    part,
    pairRows, pairPc, pairRequest, pairImage, pairPlan, pairStaged, pairRetried

pairVars == <<pairRows, pairPc, pairRequest, pairImage, pairPlan, pairStaged, pairRetried>>
partVars == <<vars, part, pairVars>>

MCKeys == -2 .. 8
MCFewKeys == {0, 1, 2, 4}
LongIn(keys) == {k \in keys : k % 2 = 1}
MCLong == LongIn(Keys)

InRange(keys, k) == IF k \in keys THEN k ELSE None

\* generateKeyBetween: the next integer part if it fits, else a midpoint.
BetweenIn(keys, a, b) ==
    IF a = None THEN IF b = None THEN 0 ELSE InRange(keys, IF b % 2 = 1 THEN b - 1 ELSE b - 2)
    ELSE LET up == a + 2 - (a % 2)
         IN IF b = None THEN InRange(keys, up)
            ELSE IF b <= a + 1 THEN None
            ELSE InRange(keys, IF up < b THEN up ELSE a + 1)

\* generateNKeysBetween(a, null, n): one integer part after the other.
FreshIn(keys, a, n) ==
    LET key(i) == a - (a % 2) + 2 * i
    IN IF key(n) \in keys THEN [i \in 1 .. n |-> key(i)] ELSE << >>

MCBetween(a, b) == BetweenIn(Keys, a, b)
MCFresh(a, n)   == FreshIn(Keys, a, n)

FewBetween(a, b) == BetweenIn(MCFewKeys, a, b)
FewFresh(a, n)   == FreshIn(MCFewKeys, a, n)

TwoMovers == INSTANCE LaneOrder WITH
    Movers <- Pair, Jobs <- {}, Adapter <- "postgres", Keys <- MCFewKeys,
    Long <- LongIn(MCFewKeys), Between <- FewBetween, Fresh <- FewFresh,
    rows <- pairRows, pc <- pairPc, request <- pairRequest, image <- pairImage,
    plan <- pairPlan, staged <- pairStaged, retried <- pairRetried

MCSymmetry == Permutations(Cards) \cup Permutations(Pair)

-----------------------------------------------------------------------------
PartsInit == part \in Parts /\ Init /\ TwoMovers!Init

NightStep == part = "night" /\ Next /\ UNCHANGED <<part, pairVars>>
PairStep  == part = "pair" /\ TwoMovers!Next /\ UNCHANGED <<part, vars>>

PartsSpec == PartsInit /\ [][NightStep \/ PairStep]_partVars

-----------------------------------------------------------------------------
\* KeysStayApart, LandsWhereDropped and OnlyTheMovedCardMoves of LaneOrder are
\* checked of the night; of the pair, whose transactions interleave: no key is
\* ever twice in the column, and a card lands before the neighbour it was
\* dropped before, unless that one moved.
PairIsSound == []TwoMovers!KeysStayApart /\ TwoMovers!LandsWhereDropped
=============================================================================
