------------------------------- MODULE MCLive -------------------------------
(***************************************************************************)
(* The server's streams, the board and the bell of one browser, the life of *)
(* the process and its snapshots.  They share nothing: a behaviour follows  *)
(* the one that `part` names, and the others are at rest, in a state in     *)
(* which none of their fair actions is enabled.                             *)
(***************************************************************************)
EXTENDS StreamAccess

CONSTANTS None, Asked

VARIABLES
    part,
    server, stream, wire, dropped, drops, pending, data, fetch, move,
    inbox, version, hint, filter, cache, bellFetch, stale, act, own,
    main, scheduler, running, stop, awaited, serving, inflight, connection, exited,
    day, dated, partial, whole, job, succeeded

boardVars == <<server, stream, wire, dropped, drops, pending, data, fetch, move>>
bellVars == <<inbox, version, hint, filter, cache, bellFetch, stale, act, own>>
processVars ==
    <<main, scheduler, running, stop, awaited, serving, inflight, connection, exited>>
snapshotVars == <<day, dated, partial, whole, job, succeeded>>
partVars == <<vars, boardVars, bellVars, processVars, snapshotVars, part>>

Moves   == {"m1", "m2"}
Notices == {"n1"}
Signals == {"sigint", "sigterm"}

Board == INSTANCE LiveBoard WITH
    CardChanges <- {"c1"}, FileChanges <- {"f1"}, Discards <- {},
    StartsConnected <- TRUE, MaxDrops <- 1

Bell == INSTANCE InboxView WITH
    MaxChanges <- 2, Hasty <- FALSE, fetch <- bellFetch

\* Signals reach a process that is up, or at any time and Slack may fail.
Calm == INSTANCE ServerProcess WITH
    Jobs <- {"snapshot", "archival"}, Requests <- {"r1", "r2"},
    SlackEnabled <- TRUE, SlackFails <- FALSE, EarlySignals <- FALSE
Early == INSTANCE ServerProcess WITH
    Jobs <- {"snapshot", "archival"}, Requests <- {"r1", "r2"},
    SlackEnabled <- TRUE, SlackFails <- TRUE, EarlySignals <- TRUE

Nights == INSTANCE SnapshotRotation WITH
    Retain <- 2, MaxDay <- 5, Operator <- FALSE
TidiedNights == INSTANCE SnapshotRotation WITH
    Retain <- 2, MaxDay <- 5, Operator <- TRUE

-----------------------------------------------------------------------------
Done == [state |-> "done", previous |-> {}]
OpenBoard == stream = "open" /\ wire = {} /\ dropped = FALSE /\ pending = {}
             /\ fetch = [k \in Board!Keys |-> None]

BoardRests ==
    /\ OpenBoard /\ drops = 0 /\ server = {}
    /\ data = [k \in Board!Keys |-> {}]
    /\ move = [m \in Moves |-> Done]
Unmoved == [m \in Moves |-> [Done EXCEPT !.state = "idle"]]
OneMove == [Unmoved EXCEPT !["m2"] = Done]
\* Two moves, or one and a drop, with a change of the card; or one move, with
\* the card and its file.
BoardInit ==
    /\ OpenBoard
    /\ \/ part = "board" /\ server = {"f1"} /\ drops = 1 /\ move = Unmoved
       \/ part = "board" /\ server = {"f1"} /\ drops = 0 /\ move = OneMove
       \/ part = "panel" /\ server = {} /\ drops = 1 /\ move = OneMove
    /\ data = [k \in Board!Keys |-> Board!View(k, server)]

BellRests ==
    /\ inbox = [n \in Notices |-> None]
    /\ version = 0 /\ hint = FALSE /\ filter = "all"
    /\ cache = [q \in Bell!Queries |-> [version |-> 0, rows |-> {}]]
    /\ bellFetch = [q \in Bell!Queries |-> None]
    /\ stale = {} /\ act = None /\ own = 0

StreamsRest ==
    /\ session = TRUE /\ access = TRUE
    /\ phase = [c \in Conns |-> "refused"] /\ socket = [c \in Conns |-> "up"]
    /\ streams = << >> /\ gauge = 0 /\ sends = {} /\ unsent = {} /\ wrote = {}
    /\ stopping = FALSE

ProcessRests ==
    /\ main = "listen" /\ scheduler = "none" /\ running = {}
    /\ stop = [s \in Signals |-> "none"] /\ awaited = [s \in Signals |-> {}]
    /\ serving = FALSE /\ inflight = {} /\ connection = "open" /\ exited = TRUE

PartsInit ==
    \/ part = "streams" /\ Init /\ BoardRests /\ BellRests /\ ProcessRests /\ Nights!Init
    \/ BoardInit /\ StreamsRest /\ BellRests /\ ProcessRests /\ Nights!Init
    \/ part = "bell" /\ Bell!Init /\ StreamsRest /\ BoardRests /\ ProcessRests /\ Nights!Init
    \/ part \in {"calm", "early"} /\ Calm!Init /\ StreamsRest /\ BoardRests /\ BellRests
       /\ Nights!Init
    \/ part \in {"nights", "tidied"} /\ Nights!Init /\ StreamsRest /\ BoardRests /\ BellRests
       /\ ProcessRests

StreamStep ==
    part = "streams" /\ Next /\ UNCHANGED <<boardVars, bellVars, processVars, snapshotVars, part>>
BoardStep ==
    part \in {"board", "panel"} /\ Board!Next
    /\ UNCHANGED <<vars, bellVars, processVars, snapshotVars, part>>
BellStep ==
    part = "bell" /\ Bell!Next /\ UNCHANGED <<vars, boardVars, processVars, snapshotVars, part>>
CalmStep ==
    part = "calm" /\ Calm!Next /\ UNCHANGED <<vars, boardVars, bellVars, snapshotVars, part>>
EarlyStep ==
    part = "early" /\ Early!Next /\ UNCHANGED <<vars, boardVars, bellVars, snapshotVars, part>>
NightStep ==
    part = "nights" /\ Nights!Next /\ UNCHANGED <<vars, boardVars, bellVars, processVars, part>>
TidiedStep ==
    part = "tidied" /\ TidiedNights!Next
    /\ UNCHANGED <<vars, boardVars, bellVars, processVars, part>>

PartsNext ==
    StreamStep \/ BoardStep \/ BellStep \/ CalmStep \/ EarlyStep \/ NightStep \/ TidiedStep

PartsSpec ==
    /\ PartsInit /\ [][PartsNext]_partVars
    /\ Fairness /\ Board!Fairness /\ Bell!Fairness /\ Calm!Fairness

-----------------------------------------------------------------------------
\* What is shown is what the server has: no order of moves that fail leaves a
\* ghost or hides a change, and no answer read before a user's own change is
\* taken for a newer one (LiveBoard, InboxView).
ShownIsTheServers == Board!BoardInv /\ Bell!ViewInv

\* Once changes and failures stop the browser catches up: the board after
\* drops, the panel without them, the badge although nothing hints at what
\* other tabs do (LiveBoard, InboxView).  A signal ends the process, a lost
\* session its streams (ServerProcess, StreamAccess).
CatchesUpAndEnds ==
    /\ Board!BoardCatchesUp
    /\ part = "panel" => Board!CardCatchesUp
    /\ Bell!BadgeCatchesUp
    /\ Calm!SignalsEnd
    /\ LostStreamsEnd

\* The registered streams are the open ones, no more than the limit, and the
\* gauge counts them (StreamAccess); the database is closed after the last
\* request and, when signals wait for the boot and Slack is there, after the
\* last run (ServerProcess); every dated snapshot is whole and no more are kept
\* than asked for (SnapshotRotation).
ProcessInv ==
    /\ StreamsAreCounted
    /\ Calm!ProcessTypeOK /\ Calm!RequestsEndFirst
    /\ part = "calm" => Calm!RunsEndFirst
    /\ Nights!SnapshotTypeOK /\ Nights!DatedIsWhole /\ Nights!WithinRetention

\* All of that, and interrupted and failed nights do not eat the backups.
ProcessIsSound == []ProcessInv /\ [][part = "nights" => Nights!RemovalHasSuccessors]_partVars
=============================================================================
