------------------------------- MODULE FollowUp -------------------------------
(***************************************************************************)
(* The follow-up feed (BoardQueryService.staleCards, the MCP tool           *)
(* list_stale_cards) over everything that happens to the cards: it derives  *)
(* from a card and its events for how long it has been where it is.         *)
(***************************************************************************)
EXTENDS CardLifecycle

CONSTANT ReviewDays     \* reviewDays of the call

Review == "review"

VARIABLES
    made,       \* cards.created_at
    moved,      \* id -> the newest card.status_changed among its events, or None
    entered     \* history: id -> the day its stay in its column began

feedVars == <<vars, made, moved, entered>>

FeedInit ==
    /\ Init
    /\ made = [c \in Ids |-> None]
    /\ moved = [c \in Ids |-> None]
    /\ entered = [c \in Ids |-> None]

NewestMove(c) ==
    LET ev == audit'[c].arrival
    IN  IF ev # None /\ ev.type = "card.status_changed" THEN ev
        ELSE IF Alive(c) THEN moved[c] ELSE None

\* A card created under the number of a discarded one starts anew.
FeedTracked ==
    LET gone(c)  == cards'[c] = None
        fresh(c) == ~gone(c) /\ ~Alive(c)
    IN  /\ made' = [c \in Ids |-> IF gone(c) THEN None
                                  ELSE IF fresh(c) THEN today ELSE made[c]]
        /\ moved' = [c \in Ids |-> IF gone(c) THEN None ELSE NewestMove(c)]
        /\ entered' = [c \in Ids |->
              IF gone(c) THEN None
              ELSE IF ~fresh(c) /\ cards[c].lane = cards'[c].lane THEN entered[c]
              ELSE today]

FeedNext == Next /\ FeedTracked

FeedSpec == FeedInit /\ [][FeedNext]_feedVars

-----------------------------------------------------------------------------
(* The feed.                                                                *)

Live(c) == Alive(c) /\ ~cards[c].archived

\* activeLaneCards of the waiting column, isOverdueResume.
OverdueResume(c) ==
    /\ Live(c) /\ cards[c].lane = Waiting
    /\ cards[c].resume # None /\ cards[c].resume < today

EnteredByUpdate(c) == cards[c].updated
ReviewEnteredAt(c) ==
    IF moved[c] # None /\ moved[c].to = Review THEN moved[c].at ELSE made[c]

StaleReview(c) ==
    /\ Live(c) /\ cards[c].lane = Review
    /\ today - ReviewEnteredAt(c) > ReviewDays

-----------------------------------------------------------------------------

\* A card that sat in review for more than reviewDays is reported, whatever
\* way it came there: nothing in need of follow-up is missed.
OldReviewsReported ==
    \A c \in Ids :
        Live(c) /\ cards[c].lane = Review /\ today - entered[c] > ReviewDays
        => StaleReview(c)

\* Only such a card is reported (staleCards: "in review longer than
\* `reviewDays`"; reviewEnteredAt: the newest status event IS the arrival).
ReportedReviewsAreOld ==
    \A c \in Ids : StaleReview(c) => today - entered[c] > ReviewDays

\* The hourly alert and the feed agree: a card an alert went out for is
\* overdue in the feed until it resumes or gets another date.
AlertedIsReported ==
    \A c \in Ids : Alive(c) /\ cards[c].alerted => OverdueResume(c)

\* Nothing in need of follow-up is missing from the feed.
FeedIsComplete == OldReviewsReported /\ AlertedIsReported
=============================================================================
