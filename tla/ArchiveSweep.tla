----------------------------- MODULE ArchiveSweep -----------------------------
(***************************************************************************)
(* The nightly archival job (CardService.archiveExpired, scheduled by       *)
(* wiring/jobs.ts) against everything else that happens to the cards: the   *)
(* candidates are listed in one read, then archived one transaction each,   *)
(* and people, the clock and crashes come in between.                       *)
(***************************************************************************)
EXTENDS CardLifecycle

CONSTANTS
    ArchivalDays,   \* DONE_ARCHIVAL_DAYS
    MaxCrashes      \* bound: crashes of the process

ASSUME SweepAssumption == ArchivalDays \in Nat /\ MaxCrashes \in Nat

VARIABLES
    sweep,     \* the run in progress: its cutoff day and the candidates left, or None
    arrived,   \* history: id -> the day its stay in done began, or None
    crashes

sweepVars == <<vars, sweep, arrived, crashes>>

SweepInit == Init /\ sweep = None /\ arrived = [c \in Ids |-> None] /\ crashes = 0

\* The stays, read off the rows a step leaves: where a card is, not what its
\* events say.
Tracked ==
    arrived' = [c \in Ids |->
        IF cards'[c] = None \/ cards'[c].lane # Done THEN None
        ELSE IF Alive(c) /\ cards[c].lane = Done THEN arrived[c] ELSE today]

-----------------------------------------------------------------------------
\* The cards of the done column that are not archived, and the cutoff.  Croner
\* skips a tick while the previous run is going (protect).
SweepStart ==
    /\ sweep = None
    /\ sweep' = [cutoff |-> today - ArchivalDays,
                 left   |-> {c \in Ids : /\ Alive(c)
                                         /\ cards[c].lane = Done
                                         /\ ~cards[c].archived}]
    /\ UNCHANGED <<vars, arrived, crashes>>

\* enteredDoneAt: the newest of a card's moves and cancels, when it took the
\* card to done, else its last update.
EnteredDoneAt(c) ==
    LET ev == audit[c].arrival
    IN IF ev # None /\ (ev.type = "card.cancelled" \/ ev.to = Done)
       THEN ev.at ELSE cards[c].updated

\* What the transaction of one candidate re-reads before it archives the card.
ExpiredLate(c) ==                       \* mutant: one day too late
    /\ ~cards[c].archived
    /\ cards[c].lane = Done
    /\ EnteredDoneAt(c) < sweep.cutoff
Expired(c) ==
    /\ ~cards[c].archived
    /\ cards[c].lane = Done
    /\ EnteredDoneAt(c) <= sweep.cutoff

\* One candidate: archived like by a user, or skipped.
SweepCard(c) ==
    /\ sweep # None
    /\ c \in sweep.left
    /\ sweep' = [sweep EXCEPT !.left = @ \ {c}]
    /\ IF Alive(c) /\ Expired(c)
       THEN /\ Commit(c, [cards[c] EXCEPT !.archived = TRUE], Plain("card.archived"))
            /\ UNCHANGED prior
       ELSE UNCHANGED vars
    /\ Tracked
    /\ UNCHANGED crashes

SweepEnd ==
    /\ sweep # None
    /\ sweep.left = {}
    /\ sweep' = None
    /\ UNCHANGED <<vars, arrived, crashes>>

\* The process dies: the run is forgotten, what it archived stays archived.
Crash ==
    /\ crashes < MaxCrashes
    /\ crashes' = crashes + 1
    /\ sweep' = None
    /\ UNCHANGED <<vars, arrived>>

\* Midnight.
Night == Tick /\ Tracked /\ UNCHANGED <<sweep, crashes>>

\* Everyone else, and the clock.
Others == Next /\ Tracked /\ UNCHANGED <<sweep, crashes>>

SweepNext ==
    \/ Others
    \/ SweepStart
    \/ \E c \in Ids : SweepCard(c)
    \/ SweepEnd
    \/ Crash

\* The nights come, and the job of a running process runs to its end.
SweepFairness ==
    /\ WF_sweepVars(Night)
    /\ WF_sweepVars(SweepStart)
    /\ WF_sweepVars(\E c \in Ids : SweepCard(c))
    /\ WF_sweepVars(SweepEnd)

SweepSpec == SweepInit /\ [][SweepNext]_sweepVars /\ SweepFairness

-----------------------------------------------------------------------------
\* workflow.md, archival: the job takes a card only after a full stay in done,
\* without a break, whatever was cancelled, reopened, completed or discarded
\* since the candidates were listed or before.  A step that says so:
AfterFullStay ==
    \A c \in Ids :
        SweepCard(c) /\ Alive(c) /\ cards' # cards
        => arrived[c] # None /\ arrived[c] + ArchivalDays <= today

\* A stay that runs full before the clock stops, and what ends it.
StayIsFull(c) ==
    /\ Alive(c) /\ cards[c].lane = Done
    /\ arrived[c] + ArchivalDays <= MaxDay
StayIsOver(c) == ~Alive(c) \/ cards[c].lane # Done \/ cards[c].archived
=============================================================================
