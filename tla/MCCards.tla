------------------------------- MODULE MCCards -------------------------------
(***************************************************************************)
(* What happens to cards: one of them under everything the services, the    *)
(* jobs and an admin do (OneSpec); or the archival sweep, the follow-up     *)
(* feed, two cards on one board, and a board that enforces the seeded graph *)
(* (PartsSpec).  `part` says which of them a behaviour follows; they have   *)
(* the variables of CardLifecycle in common.                                *)
(***************************************************************************)
EXTENDS ArchiveSweep

VARIABLES part, made, moved, entered

feed == <<made, moved, entered>>
partVars == <<sweepVars, feed, part>>

-----------------------------------------------------------------------------
\* One card: the seeded board without its approval and review columns, which
\* are as plain as intake; the arrangements with a plain first column: all of
\* them, one behaviour-bearing column dropped (and possibly added again at the
\* end), one reordering.  Transitions are not enforced.
MCLanes == <<"intake", "ready", "in_progress", "waiting_parts_vendor", "done">>
MCKeys  == {MCLanes[i] : i \in DOMAIN MCLanes}
MCLayouts ==
    {MCLanes,
     <<"intake", "in_progress", "waiting_parts_vendor", "done">>,
     <<"intake", "in_progress", "waiting_parts_vendor", "done", "ready">>,
     <<"intake", "ready", "in_progress", "done">>,
     <<"intake", "ready", "in_progress", "done", "waiting_parts_vendor">>,
     <<"intake", "ready", "in_progress", "waiting_parts_vendor">>,
     <<"ready", "intake", "in_progress", "waiting_parts_vendor", "done">>}
MCGraph  == MCKeys \X MCKeys
MCGraphs == {MCGraph}

\* The sweep: three columns, of which done may be removed and added again.
SweepKeys    == {"ready", "in_progress", "done"}
SweepLanes   == <<"ready", "in_progress", "done">>
SweepLayouts == {SweepLanes, <<"ready", "in_progress">>}
SweepMoves   == SweepKeys \X SweepKeys
SweepGraphs  == {SweepMoves}

\* The feed: a board whose first or second column may be removed.
FeedKeys    == {"ready", "review", "waiting_parts_vendor", "done"}
FeedLanes   == <<"ready", "review", "waiting_parts_vendor", "done">>
FeedLayouts == {FeedLanes, <<"review", "waiting_parts_vendor", "done">>,
                <<"ready", "waiting_parts_vendor", "done">>}

\* Two cards: each behaviour-bearing column removed, moved or added again.
ShortKeys    == {"ready", "in_progress", "waiting_parts_vendor", "done"}
ShortLanes   == <<"ready", "in_progress", "waiting_parts_vendor", "done">>
ShortLayouts ==
    {ShortLanes,
     <<"ready", "in_progress", "waiting_parts_vendor">>,
     <<"ready", "in_progress", "done", "waiting_parts_vendor">>,
     <<"in_progress", "waiting_parts_vendor", "done">>}

\* The seeded board (waiting_approval behaves like intake and is left out) and
\* DEFAULT_POLICY_DOCUMENT.transitions, with intake -> ready for the two edges
\* through the column left out.
SeededLanes == <<"intake", "ready", "in_progress", "waiting_parts_vendor",
                 "review", "done">>
SeededKeys  == {SeededLanes[i] : i \in DOMAIN SeededLanes}
SeededGraph ==
    {<<"intake", "ready">>, <<"ready", "in_progress">>, <<"in_progress", "ready">>,
     <<"in_progress", "waiting_parts_vendor">>,
     <<"waiting_parts_vendor", "in_progress">>, <<"in_progress", "review">>,
     <<"review", "done">>, <<"review", "in_progress">>, <<"done", "ready">>}

Feed == INSTANCE FollowUp WITH
    MaxId <- 1, MaxDay <- 3, MaxVersion <- 4, ReviewDays <- 1,
    Keys <- FeedKeys, SeedLanes <- FeedLanes, Layouts <- FeedLayouts,
    SeedGraph <- FeedKeys \X FeedKeys, Graphs <- {FeedKeys \X FeedKeys},
    Reasons <- {"parts"}, SeedReasons <- {"parts"}

Two == INSTANCE CardLifecycle WITH
    MaxId <- 2, MaxDay <- 1, MaxVersion <- 3,
    Keys <- ShortKeys, SeedLanes <- ShortLanes, Layouts <- ShortLayouts,
    SeedGraph <- ShortKeys \X ShortKeys, Graphs <- {ShortKeys \X ShortKeys},
    Reasons <- {"parts"}, SeedReasons <- {"parts"}

Enforced == INSTANCE CardLifecycle WITH
    MaxId <- 1, MaxDay <- 0, MaxVersion <- 10,
    Keys <- SeededKeys, SeedLanes <- SeededLanes, Layouts <- {SeededLanes},
    SeedGraph <- SeededGraph, Graphs <- {SeededGraph},
    Reasons <- {"parts"}, SeedReasons <- {"parts"}

-----------------------------------------------------------------------------
NoSweep == sweep = None /\ arrived = [c \in Ids |-> None] /\ crashes = 0
NoFeed  == made = None /\ moved = None /\ entered = None

PartsInit ==
    \/ part = "sweep" /\ SweepInit /\ NoFeed
    \/ part = "feed" /\ Feed!FeedInit /\ NoSweep
    \/ part = "two" /\ Two!Init /\ NoSweep /\ NoFeed
    \/ part = "enforced" /\ Enforced!Init /\ NoSweep /\ NoFeed

SweepStep    == part = "sweep" /\ SweepNext /\ UNCHANGED <<feed, part>>
FeedStep     == part = "feed" /\ Feed!FeedNext /\ UNCHANGED <<sweep, arrived, crashes, part>>
TwoStep      == part = "two" /\ Two!Next /\ UNCHANGED <<sweep, arrived, crashes, feed, part>>
EnforcedStep ==
    part = "enforced" /\ Enforced!Next /\ UNCHANGED <<sweep, arrived, crashes, feed, part>>

OneStep      == part = "one" /\ Next /\ UNCHANGED <<sweep, arrived, crashes, feed, part>>

OneInit == part = "one" /\ Init /\ NoSweep /\ NoFeed

OneSpec == OneInit /\ [][OneStep]_partVars

PartsNext == SweepStep \/ FeedStep \/ TwoStep \/ EnforcedStep

PartsSpec ==
    /\ PartsInit /\ [][PartsNext]_partVars
    /\ part = "sweep" => SweepFairness

-----------------------------------------------------------------------------
\* The job takes a card only after a full stay in done, and every card whose
\* stay runs full before the clock stops, unless it leaves done: comments,
\* blocks and edits do not postpone it, and a night missed by a crash is caught
\* up (ArchiveSweep).
FullStaysAreArchived ==
    /\ [][part = "sweep" => AfterFullStay]_partVars
    /\ \A c \in Ids : (part = "sweep" /\ StayIsFull(c)) ~> StayIsOver(c)

\* The feed misses nothing in need of follow-up (FollowUp).  Two cards keep the
\* rules of one, on a board whose columns one of them may hold in place and with
\* a number that is given out again; no detour completes a card that was not
\* worked on (CardLifecycle).
CardsKeepTheRules ==
    /\ part = "feed" => Feed!FeedIsComplete
    /\ part = "two" => Two!BoardInv /\ Two!DisciplineInv
    /\ part = "enforced" => Enforced!CompletedWasWorked
=============================================================================
