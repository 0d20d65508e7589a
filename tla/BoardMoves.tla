----------------------------- MODULE BoardMoves -----------------------------
(***************************************************************************)
(* What a move means on both sides: the intent the web client derives from  *)
(* a drop, a menu choice or an undo (board/move-options.ts,                 *)
(* api/board-cache.ts), how it is shown at once, and where CardService.move *)
(* puts the card.  The client sees a filtered snapshot that may be old; the *)
(* server's columns also hold cards the filter hides and archived ones.     *)
(* The keys behind the order are in LaneOrder.tla, requests under way in    *)
(* LiveBoard.tla: here a request is answered before anything else happens.  *)
(***************************************************************************)
EXTENDS Integers, Sequences, SequencesExt

CONSTANTS
    Cards, Lanes,
    Filtered,       \* the cards that the client's filter leaves out
    Limit,          \* lane -> its soft WIP limit, or None
    InitialLanes,   \* lane -> sequence of cards
    MaxOthers,      \* bound on what others do
    None

VARIABLES
    lanes,      \* the server: lane -> all its cards in order
    archived,
    view,       \* the client: lane -> [cards, over]
    newer,      \* the cards whose version on the server is not the one on the board
    entry,      \* the move that can be undone or redone, or None
    others

vars == <<lanes, archived, view, newer, entry, others>>

Position(s, c) == IF Contains(s, c) THEN CHOOSE i \in DOMAIN s : s[i] = c ELSE 0
Without(s, c) == IF Contains(s, c) THEN RemoveAt(s, Position(s, c)) ELSE s
At(s, i) == IF i \in DOMAIN s THEN s[i] ELSE None
Holding(board, c) == {l \in Lanes : Contains(board[l], c)}
Over(l, count) == Limit[l] # None /\ count > Limit[l]

\* filteredBoard: the cards the filter keeps, the WIP state of all of them.
Snapshot ==
    [l \in Lanes |->
        LET active == SelectSeq(lanes[l], LAMBDA c : c \notin archived)
        IN  [cards |-> SelectSeq(active, LAMBDA c : c \notin Filtered),
             over |-> Over(l, Len(active))]]

Shown == [l \in Lanes |-> view[l].cards]
Served == [l \in Lanes |-> Snapshot[l].cards]
Current == Shown = Served /\ newer = {}

(***************************************************************************)
(* Intents: [to, prev, next]                                               *)
(***************************************************************************)

Intent(l, prev, next) == [to |-> l, prev |-> prev, next |-> next]

\* positionChoices
MenuIntents(l, c) ==
    LET rest == Without(view[l].cards, c)
    IN  {Intent(l, None, At(rest, 1)), Intent(l, At(rest, Len(rest)), None)}

\* moveIntentFromDrop, before it looks whether anything changes: on an edge of
\* another card, or on the lane below all of them.
DropIntent(c, l, target, edge) ==
    LET rest == Without(view[l].cards, c)
        at == Position(rest, target)
        before == IF at = 0 THEN Len(rest) ELSE IF edge = "top" THEN at - 1 ELSE at
    IN  Intent(l, At(rest, before), At(rest, before + 1))

DropIntents(l, c) ==
    {DropIntent(c, l, target, edge) :
        target \in (ToSet(view[l].cards) \ {c}) \cup {None}, edge \in {"top", "bottom"}}

IsSamePosition(c, q) ==
    LET s == view[q.to].cards
        at == Position(s, c)
    IN  at # 0 /\ q.prev = At(s, at - 1) /\ q.next = At(s, at + 1)

\* restoreIntentForCard
Restore(c) ==
    LET l == CHOOSE k \in Holding(Shown, c) : TRUE
        at == Position(view[l].cards, c)
    IN  Intent(l, At(view[l].cards, at - 1), At(view[l].cards, at + 1))

\* dropPosition
Announced(c, q) ==
    IF q.prev = None THEN 1 ELSE Position(Without(view[q.to].cards, c), q.prev) + 1

(***************************************************************************)
(* The two sides of a move                                                 *)
(***************************************************************************)

\* insertBetweenNeighbors
InsertBetween(s, c, prev, next) ==
    LET after == Position(s, prev)
        before == Position(s, next)
    IN  CASE after # 0 -> InsertAt(s, after + 1, c)
          [] after = 0 /\ before # 0 -> InsertAt(s, before, c)
          [] OTHER -> IF prev = None /\ next # None THEN <<c>> \o s ELSE Append(s, c)

\* applyMoveToBoard: also counts anew what is shown of each lane.
Applied(c, q) ==
    [l \in Lanes |->
        LET rest == Without(view[l].cards, c)
            after == IF l = q.to THEN InsertBetween(rest, c, q.prev, q.next) ELSE rest
        IN  [cards |-> after, over |-> Over(l, Len(after))]]

\* CardService.move: If-Match, and neighbours of that lane, not archived, in order.
Neighbour(x, c, l) == x # None => x # c /\ Contains(lanes[l], x) /\ x \notin archived
Accepts(c, q) ==
    /\ c \notin archived \cup newer
    /\ Neighbour(q.prev, c, q.to) /\ Neighbour(q.next, c, q.to)
    /\ q.prev # None /\ q.next # None
          => Position(lanes[q.to], q.prev) < Position(lanes[q.to], q.next)

\* The gap is the one just above `next`, whatever is in it since.
Placed(c, q) ==
    [l \in Lanes |->
        LET rest == Without(lanes[l], c)
        IN  IF l # q.to THEN rest
            ELSE IF q.next = None THEN Append(rest, c)
            ELSE InsertAt(rest, Position(rest, q.next), c)]

Init ==
    /\ lanes = InitialLanes /\ archived = {}
    /\ view = Snapshot /\ newer = {}
    /\ entry = None /\ others = 0

Refresh ==
    /\ view' = Snapshot /\ newer' = {}
    /\ UNCHANGED <<lanes, archived, entry, others>>

\* `quiet` and `before` are history: nobody else came in since, and what was shown.
Entry(c, undo, redo) ==
    [card |-> c, done |-> TRUE, undo |-> undo, redo |-> redo, quiet |-> Current, before |-> Shown]

\* A move is shown, and either kept or, with a conflict, rolled back.
Request(c, q) ==
    IF Accepts(c, q)
    THEN /\ lanes' = Placed(c, q)
         /\ view' = Applied(c, q)
         /\ newer' = newer \cup {c}
         /\ UNCHANGED <<archived, others>>
    ELSE UNCHANGED <<lanes, archived, view, newer, others>>

Record(c, q) == entry' = IF Accepts(c, q) THEN Entry(c, Restore(c), q) ELSE entry

\* A card dropped on itself, or where it is, is not moved.
Drop(c, q) ==
    /\ ~IsSamePosition(c, q)
    /\ Request(c, q) /\ Record(c, q)

MenuMove(c, q) ==
    /\ ~IsSamePosition(c, q)
    /\ Request(c, q) /\ Record(c, q)

\* fireMove: the card is looked up on the board that is shown now.
Undo ==
    /\ entry # None /\ entry.done /\ Holding(Shown, entry.card) # {}
    /\ Request(entry.card, entry.undo)
    /\ entry' = IF Accepts(entry.card, entry.undo)
                THEN [entry EXCEPT !.done = FALSE, !.before = Shown] ELSE entry

Redo ==
    /\ entry # None /\ ~entry.done /\ Holding(Shown, entry.card) # {}
    /\ Request(entry.card, entry.redo)
    /\ entry' = IF Accepts(entry.card, entry.redo)
                THEN [entry EXCEPT !.done = TRUE, !.before = Shown] ELSE entry

Disturbed == IF entry = None THEN None ELSE [entry EXCEPT !.quiet = FALSE]

OtherMoves(c, q) ==
    /\ others < MaxOthers /\ others' = others + 1
    /\ c \notin archived /\ Neighbour(q.next, c, q.to)
    /\ lanes' = Placed(c, q)
    /\ newer' = newer \cup {c}
    /\ entry' = Disturbed
    /\ UNCHANGED <<archived, view>>

OtherArchives(c) ==
    /\ others < MaxOthers /\ others' = others + 1
    /\ c \notin archived
    /\ archived' = archived \cup {c}
    /\ newer' = newer \cup {c}
    /\ entry' = Disturbed
    /\ UNCHANGED <<lanes, view>>

OnBoard == {c \in Cards : Holding(Shown, c) # {}}

Next ==
    \/ Refresh \/ Undo \/ Redo
    \/ \E c \in OnBoard, l \in Lanes : \E q \in DropIntents(l, c) : Drop(c, q)
    \/ \E c \in OnBoard, l \in Lanes : \E q \in MenuIntents(l, c) : MenuMove(c, q)
    \/ \E c \in Cards, l \in Lanes, n \in Cards \cup {None} : OtherMoves(c, Intent(l, None, n))
    \/ \E c \in Cards : OtherArchives(c)

Spec == Init /\ [][Next]_vars

(***************************************************************************)
(* Properties                                                              *)
(***************************************************************************)

\* The columns of the server have each card, in one place.
OnePlaceOnServer ==
    \A c \in Cards : \E l \in Lanes : \E i \in DOMAIN lanes[l] :
        \A k \in Lanes : \A j \in DOMAIN lanes[k] : lanes[k][j] = c <=> k = l /\ j = i

\* So have those on the board, at most.
OnePlaceShown ==
    \A l, k \in Lanes : \A i \in DOMAIN Shown[l], j \in DOMAIN Shown[k] :
        Shown[l][i] = Shown[k][j] => l = k /\ i = j


\* On an up-to-date board no move that the user can make is refused.
NeverRefusedWhenCurrent ==
    Current => \A c \in OnBoard, l \in Lanes :
                  \A q \in DropIntents(l, c) \cup MenuIntents(l, c) : Accepts(c, q)

\* A move by this user that was accepted, and the intent of it.
Accepted == lanes' # lanes /\ view' # view
Meant == IF entry'.done THEN entry'.redo ELSE entry'.undo

\* A move made on an up-to-date board changes what is shown and the fetch after
\* it changes nothing; so do its undo and redo while nobody else comes in.
ShownIsServed == Accepted /\ Current /\ entry'.quiet => Shown' = Served' /\ Shown' # Shown

\* However old the board, an accepted move lands between the neighbours named.
LandsBetweenNeighbours ==
    Accepted =>
        LET s == lanes'[Meant.to]
            at == Position(s, entry'.card)
        IN  /\ at # 0
            /\ Meant.prev # None => Position(s, Meant.prev) < at
            /\ Meant.next # None => Position(s, Meant.next) > at

\* What a screen reader is told is the place where the card then is.
AnnouncedIsShown ==
    Accepted /\ entry'.done /\ ~Redo =>
        Position(Shown'[Meant.to], entry'.card) = Announced(entry'.card, Meant)

\* Undo, and redo after it, bring back the board of before, unless others came in.
UndoRestores ==
    Accepted /\ (Undo \/ Redo) /\ entry.quiet /\ Current => Served' = entry.before

\* A board that shows the cards the server would return shows every lane over
\* its limit as such.
BreachShown == Shown = Served => \A l \in Lanes : Snapshot[l].over => view[l].over
=============================================================================
