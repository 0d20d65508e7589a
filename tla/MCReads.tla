------------------------------ MODULE MCReads ------------------------------
(***************************************************************************)
(* What is read: the board, memoized between changes, and the pages of the  *)
(* activity feed and of a card's history.  They share no state: a behaviour *)
(* follows the one, and the adapter, that `part` names.                     *)
(***************************************************************************)
EXTENDS BoardMemo

CONSTANTS c1, c2, reader, other, token

VARIABLES part, now, log, stamped, stamps, walk, start

feedVars == <<now, log, stamped, stamps, walk, start>>
partVars == <<part, vars, feedVars>>

MemoOnPostgres == INSTANCE BoardMemo WITH Postgres <- TRUE, MaxChanges <- 2

Feed == INSTANCE ActivityFeed WITH
    Cards <- {c1, c2}, Reader <- reader, Others <- {other}, Tokens <- {token},
    Limit <- 1, Window <- 1, Late <- FALSE, MaxEvents <- 3, MaxNow <- 2,
    pending <- stamped, made <- stamps
\* Events are stamped in one order and committed in another.
FeedOnPostgres == INSTANCE ActivityFeed WITH
    Cards <- {c1, c2}, Reader <- reader, Others <- {}, Tokens <- {token},
    Limit <- 1, Window <- 1, Late <- TRUE, MaxEvents <- 3, MaxNow <- 2,
    pending <- stamped, made <- stamps

-----------------------------------------------------------------------------

PartsInit ==
    /\ part \in {"memo", "memo on postgres", "feed", "feed on postgres"}
    /\ IF part = "memo on postgres" THEN MemoOnPostgres!Init ELSE Init
    /\ Feed!Init

MemoStep ==
    /\ \/ part = "memo" /\ Next
       \/ part = "memo on postgres" /\ MemoOnPostgres!Next
    /\ UNCHANGED <<part, feedVars>>

FeedStep ==
    /\ \/ part = "feed" /\ Feed!Next
       \/ part = "feed on postgres" /\ FeedOnPostgres!Next
    /\ UNCHANGED <<part, vars>>

PartsSpec == PartsInit /\ [][MemoStep \/ FeedStep]_partVars

-----------------------------------------------------------------------------

\* No read is torn: on SQLite a board is one snapshot; pages come in order and
\* without gaps, whatever is written or discarded between two of them
\* (BoardMemo, ActivityFeed).
ReadsAreWhole ==
    /\ part = "memo" => MemoTypeOK /\ OneSnapshot
    /\ part \in {"feed", "feed on postgres"} => Feed!PagesInOrder /\ Feed!NothingSkipped
    /\ part = "feed" => Feed!HistoryHasNoGaps
=============================================================================
