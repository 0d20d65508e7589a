---------------------------- MODULE ActivityFeed ----------------------------
(***************************************************************************)
(* Reading the events page by page while cards go on changing:              *)
(* BoardQueryService.eventsSince (the activity of the board, newest first)  *)
(* and cardHistory (one card, oldest first), with the cursor over           *)
(* (created_at, id) and the events a reader may see.                        *)
(***************************************************************************)
EXTENDS Naturals, SequencesExt

CONSTANTS
    Cards,
    Reader,     \* the user who reads
    Others,     \* other users
    Tokens,     \* service tokens, all of them minted by Reader
    Limit,      \* page size
    Window,     \* a day, the default of sinceIso
    Late,       \* Postgres: an event is stamped, and committed later
    MaxEvents, MaxNow,   \* bounds
    None

VARIABLES
    now,
    log,        \* card_events: [id, at, card, actor]
    pending,    \* events of units of work not committed yet
    made,       \* events so far; UUIDv7 ids grow with it
    walk,       \* the reader: [list, card, since, cursor, got, open], or None
    start       \* history: the events there were when the walk began

vars == <<now, log, pending, made, walk, start>>

Init ==
    /\ now = 0
    /\ log = {}
    /\ pending = {}
    /\ made = 0
    /\ walk = None
    /\ start = {}

-----------------------------------------------------------------------------
\* The writers.

\* makeEvent: id and time are taken inside the unit of work.
Stamp ==
    /\ made < MaxEvents
    /\ \E c \in Cards, a \in {Reader} \cup Others \cup Tokens :
          LET e == [id |-> made, at |-> now, card |-> c, actor |-> a]
          IN  IF Late THEN pending' = pending \cup {e} /\ UNCHANGED log
              ELSE log' = log \cup {e} /\ UNCHANGED pending
    /\ made' = made + 1
    /\ UNCHANGED <<now, walk, start>>

Commit ==
    \E e \in pending :
        /\ pending' = pending \ {e}
        /\ log' = log \cup {e}
        /\ UNCHANGED <<now, made, walk, start>>

\* A discarded draft takes its events along.
Discard ==
    \E c \in Cards :
        /\ \E e \in log : e.card = c
        /\ \A e \in pending : e.card # c
        /\ log' = {e \in log : e.card # c}
        /\ UNCHANGED <<now, pending, made, walk, start>>

Tick ==
    /\ now < MaxNow
    /\ now' = now + 1
    /\ UNCHANGED <<log, pending, made, walk, start>>

-----------------------------------------------------------------------------
\* The reader.

SelfActorIds == {Reader} \cup Tokens

\* since = None: no sinceIso was given, each page has its own window.
DefaultSince == IF now < Window THEN 0 ELSE now - Window

Matches(w, e) ==
    IF w.list = "history" THEN e.card = w.card
    ELSE /\ e.at >= (IF w.since = None THEN DefaultSince ELSE w.since)
         /\ w.list = "own" => e.actor \in SelfActorIds

Older(e, f) == e.at < f.at \/ (e.at = f.at /\ e.id < f.id)
Precedes(w, e, f) == IF w.list = "history" THEN Older(e, f) ELSE Older(f, e)

AfterByTime(w, e) ==
    w.cursor = None \/ IF w.list = "history" THEN e.at > w.cursor.at ELSE e.at < w.cursor.at
AfterCursor(w, e) == w.cursor = None \/ Precedes(w, w.cursor, e)

\* What a page is cut from: the rows beyond the cursor, in order.
Rows(w) ==
    LET rest == {e \in log : Matches(w, e) /\ AfterCursor(w, e)}
    IN  CHOOSE rows \in [1 .. Cardinality(rest) -> rest] :
           \A i, j \in DOMAIN rows : i < j => Precedes(w, rows[i], rows[j])

Begin ==
    /\ walk = None
    /\ \E list \in {"board", "own", "history"}, c \in Cards, since \in {None} \cup 0 .. now :
          /\ list = "history" => since = None /\ \E e \in log : e.card = c
          /\ walk' = [list |-> list, card |-> c, since |-> since, cursor |-> None,
                      got |-> << >>, open |-> TRUE]
    /\ start' = log
    /\ UNCHANGED <<now, log, pending, made>>

\* paginate: one row more than the page is fetched, to know if there is more.
NextCursor(rows) == IF Len(rows) > Limit THEN rows[Limit] ELSE None

Page ==
    /\ walk # None /\ walk.open
    /\ LET rows  == Rows(walk)
           items == IF Len(rows) > Limit THEN SubSeq(rows, 1, Limit) ELSE rows
       IN  walk' = [walk EXCEPT !.got = @ \o items,
                                !.cursor = NextCursor(rows),
                                !.open = NextCursor(rows) # None]
    /\ UNCHANGED <<now, log, pending, made, start>>

Next == Stamp \/ Commit \/ Discard \/ Tick \/ Begin \/ Page

Spec == Init /\ [][Next]_vars

-----------------------------------------------------------------------------

Ended == walk # None /\ ~walk.open
Got == ToSet(walk.got)

\* No event comes twice and the pages follow each other in order, whatever is
\* written or discarded between two of them (listBoardSince, listByCard: rows
\* strictly beyond the cursor).
PagesInOrder ==
    walk # None =>
        \A i, j \in DOMAIN walk.got : i < j => Precedes(walk, walk.got[i], walk.got[j])

\* When the last page is read, nothing was skipped that was there from the
\* beginning, is still there and still in the window.
NothingSkipped ==
    Ended => \A e \in start \cap log : Matches(walk, e) => e \in Got

\* The history of a card has no gaps: it has whatever is older than its last
\* event, also what was written while it was read.
HistoryHasNoGaps ==
    Ended /\ walk.list = "history" =>
        \A e \in log : Matches(walk, e) /\ (\E f \in Got : Older(e, f)) => e \in Got
=============================================================================
