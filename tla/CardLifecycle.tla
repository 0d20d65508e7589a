---------------------------- MODULE CardLifecycle ----------------------------
(***************************************************************************)
(* The life of work orders on one board: CardService, the admin's column    *)
(* service (LaneAdminService) and the part of PolicyService.apply cards     *)
(* depend on (the transition graph and the waiting reasons).                *)
(*                                                                         *)
(* Every service call runs in one unit of work, so it is one atomic step    *)
(* here (CardTransactions.tla opens the transactions up).  A call the code  *)
(* refuses (409, 422, 403, 404) changes nothing and is a stuttering step.   *)
(* Positions are left to LaneOrder.tla.                                    *)
(***************************************************************************)
EXTENDS Integers, Sequences, FiniteSets

CONSTANTS
    MaxId,        \* ids 1..MaxId: a bound on the cards alive at once
    Keys,         \* column keys an admin's labels may produce
    SeedLanes,    \* the columns the structural seed writes, in order
    Layouts,      \* the column orders admins may arrange
    SeedGraph,    \* the moves the seeded policy allows
    Graphs,       \* the sets of moves a policy may allow
    Reasons,      \* keys of waiting reasons
    SeedReasons,  \* those the seeded policy defines, all active
    CancelResolutions,
    MaxDay,       \* bound: the clock stops at this day
    MaxVersion,   \* bound: no call on a card once it has this version
    None          \* null

Ids  == 1 .. MaxId
Days == 0 .. MaxDay

Done       == "done"
InProgress == "in_progress"
Ready      == "ready"
Waiting    == "waiting_parts_vendor"

ASSUME BoundsAssumption == MaxId \in Nat /\ MaxDay \in Nat /\ MaxVersion \in Nat
ASSUME LayoutsAssumption ==
    /\ SeedLanes \in Layouts
    /\ \A l \in Layouts : l \in Seq(Keys) /\ l # << >>
ASSUME GraphsAssumption ==
    /\ SeedGraph \in Graphs
    /\ \A g \in Graphs : g \subseteq Keys \X Keys
ASSUME ReasonsAssumption == SeedReasons \subseteq Reasons
ASSUME ResolutionsAssumption == "completed" \notin CancelResolutions
ASSUME NoneAssumption ==
    /\ None \notin Keys \cup Reasons \cup Int
    /\ None \notin CancelResolutions \cup {"completed", Done, InProgress, Ready, Waiting}

Resolutions == CancelResolutions \cup {"completed", None}

VARIABLES
    lanes,     \* the board's columns, by position
    graph,     \* the cross-column moves the active policy allows
    reasons,   \* waiting reasons of the active policy: active, retired, absent
    cards,     \* id -> card, or None
    audit,     \* id -> what the card's events say, or None
    prior,     \* history: id -> the card as its last cancel found it, or None
    today      \* the server clock, in UTC days

vars == <<lanes, graph, reasons, cards, audit, prior, today>>

-----------------------------------------------------------------------------
(* Cards and their audit events.                                            *)

Cards == [lane : Keys, resolution : Resolutions, archived : BOOLEAN,
          blocked : BOOLEAN, reason : Reasons \cup {None},
          resume : Days \cup {None}, alerted : BOOLEAN, started : BOOLEAN,
          version : Nat, updated : Days]

EventTypes == {"card.created", "card.field_changed", "card.reordered",
               "card.status_changed", "card.cancelled", "card.reopened",
               "card.archived", "card.blocked", "card.unblocked"}

Events == [type : EventTypes, from : Keys \cup {None}, to : Keys \cup {None},
           resolution : Resolutions, reason : Reasons \cup {None},
           resume : Days \cup {None}, at : Days]

\* An event that carries no more than its type.
Plain(type) == [type |-> type, from |-> None, to |-> None, resolution |-> None,
                reason |-> None, resume |-> None, at |-> today]

\* What a reader who only folds the events believes about the card.
Replayed == [lane : Keys, resolution : Resolutions, archived : BOOLEAN,
             blocked : BOOLEAN]

Belief(card) == [lane |-> card.lane, resolution |-> card.resolution,
                 archived |-> card.archived, blocked |-> card.blocked]

Replay(s, ev) ==
    [lane       |-> IF ev.type \in {"card.status_changed", "card.reopened"} THEN ev.to
                    ELSE IF ev.type = "card.cancelled" THEN Done ELSE s.lane,
     resolution |-> IF ev.type = "card.status_changed"
                    THEN IF ev.to = Done THEN "completed" ELSE None
                    ELSE IF ev.type = "card.cancelled" THEN ev.resolution
                    ELSE IF ev.type = "card.reopened" THEN None ELSE s.resolution,
     archived   |-> IF ev.type = "card.archived" THEN TRUE
                    ELSE IF ev.type = "card.reopened" THEN FALSE ELSE s.archived,
     blocked    |-> IF ev.type = "card.blocked" THEN TRUE
                    ELSE IF ev.type = "card.unblocked" THEN FALSE ELSE s.blocked]

\* The trail of a card: its newest card.cancelled, its newest event among
\* card.cancelled and card.status_changed, and the fold of all of them.  The
\* code queries no more than that of a trail.
Trails == [cancel : Events \cup {None}, arrival : Events \cup {None},
           replay : Replayed]

AppendedKeepsOldest(trail, ev) ==       \* mutant: listLatestByCard read oldest first
    [cancel  |-> IF ev.type = "card.cancelled" /\ trail.cancel = None
                 THEN ev ELSE trail.cancel,
     arrival |-> IF ev.type \in {"card.cancelled", "card.status_changed"}
                 THEN ev ELSE trail.arrival,
     replay  |-> Replay(trail.replay, ev)]

Appended(trail, ev) ==
    [cancel  |-> IF ev.type = "card.cancelled" THEN ev ELSE trail.cancel,
     arrival |-> IF ev.type \in {"card.cancelled", "card.status_changed"}
                 THEN ev ELSE trail.arrival,
     replay  |-> Replay(trail.replay, ev)]

ASSUME NullAssumption == None \notin Cards \cup Events \cup Trails

Alive(c) == cards[c] # None

-----------------------------------------------------------------------------
(* Columns.                                                                 *)

OnBoard(key) == \E i \in DOMAIN lanes : lanes[i] = key
FirstLane    == lanes[1]

EntryOfAny(key) == TRUE                 \* mutant: discard from any column
EntryOf(key)    == key = FirstLane

HoldsActive(key) ==                     \* mutant: archived cards do not count
    \E c \in Ids : Alive(c) /\ cards[c].lane = key /\ ~cards[c].archived
Holds(key) == \E c \in Ids : Alive(c) /\ cards[c].lane = key

\* checkTransition: with enforcement off every move is in the graph.
Allowed(from, to)    == <<from, to>> \in graph

-----------------------------------------------------------------------------
Init ==
    /\ lanes = SeedLanes
    /\ graph = SeedGraph
    /\ reasons = [r \in Reasons |-> IF r \in SeedReasons THEN "active" ELSE "absent"]
    /\ cards = [c \in Ids |-> None]
    /\ audit = [c \in Ids |-> None]
    /\ prior = [c \in Ids |-> None]
    /\ today = 0

VersionOf(c)   == cards[c].version + 1

\* What every mutation of an existing card ends with: the row is written with
\* the next version and its event is appended.
Commit(c, card, ev) ==
    /\ cards' = [cards EXCEPT ![c] = [card EXCEPT !.version = VersionOf(c),
                                                  !.updated = today]]
    /\ audit' = [audit EXCEPT ![c] = Appended(audit[c], ev)]
    /\ UNCHANGED <<lanes, graph, reasons, today>>

\* A card a call may act on, under the bound on versions.
Open(c) == Alive(c) /\ cards[c].version < MaxVersion

\* ensureNotArchived: every call but reopen and delete refuses archived cards.
Editable(c) == Open(c) /\ ~cards[c].archived

\* nextCardId (SQLite adapter): one more than the greatest id in the table, so
\* the id of a discarded card may be used again.
IsNextCardId(c) ==
    /\ \A x \in Ids : Alive(x) => x < c
    /\ \A x \in Ids : x = c - 1 => Alive(x)

\* The row of a new card: in the first column, whatever its key.
Draft == [lane |-> FirstLane, resolution |-> None, archived |-> FALSE,
          blocked |-> FALSE, reason |-> None, resume |-> None,
          alerted |-> FALSE, started |-> FALSE, version |-> 1, updated |-> today]

\* CardService.create.
Create(c) ==
    /\ IsNextCardId(c)
    /\ cards' = [cards EXCEPT ![c] = Draft]
    /\ audit' = [audit EXCEPT ![c] =
           [cancel |-> None, arrival |-> None, replay |-> Belief(Draft)]]
    /\ UNCHANGED <<lanes, graph, reasons, prior, today>>

RearmsOnAnyEdit(card, r, d) ==          \* mutant: editing the reason re-arms too
    (r # None /\ r # card.reason) \/ (d # None /\ d # card.resume)
Rearms(card, r, d) == d # None /\ d # card.resume

\* CardService.update: `other` is a changed field the workflow does not look
\* at; r and d are the waiting reason and resume date of the patch, None when
\* the patch does not name them.
Update(c, other, r, d) ==
    LET card == cards[c]
        newReason == r # None /\ r # card.reason
        newResume == d # None /\ d # card.resume
    IN /\ Editable(c)
       /\ r # None \/ d # None => card.lane = Waiting
       /\ newReason => reasons[r] = "active"
       /\ other \/ newReason \/ newResume
       /\ Commit(c,
                 [card EXCEPT !.reason  = IF newReason THEN r ELSE @,
                              !.resume  = IF newResume THEN d ELSE @,
                              !.alerted = @ /\ ~Rearms(card, r, d)],
                 Plain("card.field_changed"))
       /\ UNCHANGED prior

\* CardService.move within a column: a new position, nothing else.
Reorder(c) ==
    /\ Editable(c)
    /\ Commit(c, cards[c], Plain("card.reordered"))
    /\ UNCHANGED prior

\* The resolution a move leaves: completed in done, none elsewhere.
ResolutionAfter(card, to) ==
    IF to = Done THEN "completed"
    ELSE IF card.lane = Done THEN None ELSE card.resolution

\* A card that leaves the waiting column, by a move or a cancel.
ClearedButAlert(card) ==                \* mutant: the alert flag survives
    [card EXCEPT !.reason = None, !.resume = None]
Cleared(card) ==
    [card EXCEPT !.reason = None, !.resume = None, !.alerted = FALSE]

\* CardService.move to another column; r and d are the waiting fields, which
\* only an entry into the waiting column reads.
Move(c, to, r, d) ==
    LET card     == cards[c]
        entering == to = Waiting
        swept    == IF card.lane = Waiting THEN Cleared(card) ELSE card
        moved    == IF entering
                    THEN [card EXCEPT !.reason = r, !.resume = d, !.alerted = FALSE]
                    ELSE swept
    IN /\ Editable(c)
       /\ OnBoard(to) /\ to # card.lane
       /\ Allowed(card.lane, to)
       /\ IF entering THEN r # None /\ d # None /\ reasons[r] = "active"
                      ELSE r = None /\ d = None
       /\ Commit(c,
                 [moved EXCEPT !.lane       = to,
                               !.started    = @ \/ to = InProgress,
                               !.resolution = ResolutionAfter(card, to)],
                 [Plain("card.status_changed") EXCEPT !.from = card.lane, !.to = to])
       /\ UNCHANGED prior

\* CardService.cancel: into the done column, remembering where from.
Cancel(c, resolution) ==
    LET card == cards[c]
    IN /\ Editable(c)
       /\ card.lane # Done
       /\ OnBoard(Done)
       /\ Commit(c,
                 [Cleared(card) EXCEPT !.lane = Done, !.resolution = resolution],
                 [Plain("card.cancelled") EXCEPT
                    !.from = card.lane, !.resolution = resolution,
                    !.reason = card.reason,
                    !.resume = IF card.reason # None THEN card.resume ELSE None])
       /\ prior' = [prior EXCEPT ![c] = card]

\* The column a reopened card returns to exactly, or None when it cannot: it
\* was completed, the column is gone, or its waiting reason was not recorded.
RestoredLane(c) ==
    LET ev == audit[c].cancel
    IN IF /\ cards[c].resolution \notin {None, "completed"}
          /\ ev # None
          /\ ~(ev.from = Waiting /\ ev.reason = None)
          /\ OnBoard(ev.from)
       THEN ev.from ELSE None

\* The card a reopen writes: the waiting fields come back with the waiting
\* column, the work start is kept only by a card that returns exactly.
Revived(card, ev, restored, target) ==
    LET waits == restored = Waiting
    IN [card EXCEPT !.lane       = target,
                    !.resolution = None,
                    !.archived   = FALSE,
                    !.started    = @ /\ restored # None,
                    !.reason     = IF waits THEN ev.reason ELSE @,
                    !.resume     = IF waits THEN ev.resume ELSE @,
                    !.alerted    = @ /\ ~waits]

\* CardService.reopen, of archived cards too.
Reopen(c) ==
    LET restored == RestoredLane(c)
        target   == IF restored # None THEN restored
                    ELSE IF OnBoard(Ready) THEN Ready ELSE FirstLane
    IN /\ Open(c)
       /\ cards[c].lane = Done
       /\ Commit(c, Revived(cards[c], audit[c].cancel, restored, target),
                 [Plain("card.reopened") EXCEPT !.to = target])
       /\ UNCHANGED prior

\* CardService.archive by a user.
Archive(c) ==
    /\ Editable(c)
    /\ cards[c].lane = Done
    /\ Commit(c, [cards[c] EXCEPT !.archived = TRUE], Plain("card.archived"))
    /\ UNCHANGED prior

\* CardService.block and unblock.
SetBlocked(c, flag) ==
    /\ Editable(c)
    /\ cards[c].blocked # flag
    /\ Commit(c, [cards[c] EXCEPT !.blocked = flag],
              Plain(IF flag THEN "card.blocked" ELSE "card.unblocked"))
    /\ UNCHANGED prior

\* hardDelete erases the card's events with the card.
TrailsErased(c) == [audit EXCEPT ![c] = None]

\* CardService.delete: a draft still in the first column disappears with its
\* whole trail.
Discard(c) ==
    /\ Alive(c)
    /\ EntryOf(cards[c].lane)
    /\ cards' = [cards EXCEPT ![c] = None]
    /\ audit' = TrailsErased(c)
    /\ prior' = [prior EXCEPT ![c] = None]
    /\ UNCHANGED <<lanes, graph, reasons, today>>

\* A card in an overdue waiting episode nobody was alerted to.
DueForAlert(c) ==
    /\ Alive(c)
    /\ cards[c].lane = Waiting
    /\ ~cards[c].archived
    /\ cards[c].resume # None /\ cards[c].resume < today
    /\ ~cards[c].alerted

\* CardService.claimOverdueWaitingAlerts: bookkeeping on every due card in one
\* transaction, with no new version and no event.
ClaimAlerts ==
    /\ \E c \in Ids : DueForAlert(c)
    /\ cards' = [c \in Ids |-> IF DueForAlert(c) THEN [cards[c] EXCEPT !.alerted = TRUE]
                              ELSE cards[c]]
    /\ UNCHANGED <<lanes, graph, reasons, audit, prior, today>>

-----------------------------------------------------------------------------
(* The administrator.                                                       *)

\* LaneAdminService.create: a column with a fresh key, at the end.
AddLane(key) ==
    /\ ~OnBoard(key)
    /\ lanes' = Append(lanes, key)
    /\ lanes' \in Layouts
    /\ UNCHANGED <<graph, reasons, cards, audit, prior, today>>

\* LaneAdminService.remove: never the last column, never one that holds cards
\* (edgeOfLane counts archived rows too).
RemoveLane(i) ==
    /\ Len(lanes) > 1
    /\ ~Holds(lanes[i])
    /\ lanes' = [j \in 1 .. Len(lanes) - 1 |-> IF j < i THEN lanes[j] ELSE lanes[j + 1]]
    /\ lanes' \in Layouts
    /\ UNCHANGED <<graph, reasons, cards, audit, prior, today>>

\* LaneAdminService.reorder: every column exactly once.
ReorderLanes(order) ==
    /\ Len(order) = Len(lanes)
    /\ \A i \in DOMAIN lanes : \E j \in DOMAIN order : order[j] = lanes[i]
    /\ lanes' = order
    /\ UNCHANGED <<graph, reasons, cards, audit, prior, today>>

\* A document that drops a reason retires it instead.
Merged(doc) ==
    [r \in Reasons |-> IF doc[r] = "absent" /\ reasons[r] # "absent"
                       THEN "retired" ELSE doc[r]]

\* PolicyService.apply, as far as cards depend on it.
ApplyPolicy(doc, allowed) ==
    /\ \E r \in Reasons : doc[r] = "active"
    /\ reasons' = Merged(doc)
    /\ graph' = allowed
    /\ UNCHANGED <<lanes, cards, audit, prior, today>>

Tick ==
    /\ today < MaxDay
    /\ today' = today + 1
    /\ UNCHANGED <<lanes, graph, reasons, cards, audit, prior>>

-----------------------------------------------------------------------------
Documents == [Reasons -> {"active", "retired", "absent"}]

CardNext(c) ==
    \/ Create(c)
    \/ \E other \in BOOLEAN, r \in Reasons \cup {None}, d \in Days \cup {None} :
          Update(c, other, r, d)
    \/ Reorder(c)
    \/ \E to \in Keys, r \in Reasons \cup {None}, d \in Days \cup {None} :
          Move(c, to, r, d)
    \/ \E resolution \in CancelResolutions : Cancel(c, resolution)
    \/ Reopen(c)
    \/ Archive(c)
    \/ \E flag \in BOOLEAN : SetBlocked(c, flag)
    \/ Discard(c)

AdminNext ==
    \/ \E key \in Keys : AddLane(key)
    \/ \E i \in DOMAIN lanes : RemoveLane(i)
    \/ \E order \in Layouts : ReorderLanes(order)
    \/ \E doc \in Documents, allowed \in Graphs : ApplyPolicy(doc, allowed)

Next == (\E c \in Ids : CardNext(c)) \/ ClaimAlerts \/ AdminNext \/ Tick

Spec == Init /\ [][Next]_vars

-----------------------------------------------------------------------------
(* Properties.                                                              *)

\* Every variable stays within its type.
TypeOK ==
    /\ lanes \in Layouts
    /\ graph \in Graphs
    /\ reasons \in [Reasons -> {"active", "retired", "absent"}]
    /\ cards \in [Ids -> Cards \cup {None}]
    /\ audit \in [Ids -> Trails \cup {None}]
    /\ prior \in [Ids -> Cards \cup {None}]
    /\ today \in Days
    /\ \A c \in Ids : Alive(c) <=> audit[c] # None

\* The assumption of a sane board: the first column is neither the terminal
\* nor the waiting one.  Nothing in LaneAdminService enforces it.
PlainEntry == \A l \in Layouts : l[1] \notin {Done, Waiting}

\* workflow.md, waiting discipline: exactly the cards in the waiting column
\* carry a reason and a resume date, and only they can have been alerted.  The
\* fields are written by move, update, cancel and reopen (card-service.ts) and
\* nothing in the database ties them to the column.
WaitsRight(card) ==
    /\ card.lane = Waiting <=> card.reason # None
    /\ card.lane = Waiting <=> card.resume # None
    /\ card.alerted => card.lane = Waiting

WaitingDiscipline == \A c \in Ids : Alive(c) => WaitsRight(cards[c])

\* workflow.md, terminal states: a card has a resolution exactly while it sits
\* in done, whichever of move, cancel, reopen and discard took it there or away.
EndsRight(card) == card.lane = Done <=> card.resolution # None

TerminalDiscipline == \A c \in Ids : Alive(c) => EndsRight(cards[c])

\* Archived cards are read-only but for reopen, so they never leave done
\* while archived (ensureNotArchived in every mutation).
ArchivedInDone ==
    \A c \in Ids : Alive(c) /\ cards[c].archived => cards[c].lane = Done

\* laneOfCard answers 404 for a card whose column is gone: removing columns,
\* recreating their keys and reopening cards cancelled long ago never leave one.
CardHasColumn == \A c \in Ids : Alive(c) => OnBoard(cards[c].lane)

\* The audit trail alone tells where a card is, its resolution and its flags.
ReplayMatches ==
    \A c \in Ids : Alive(c) => audit[c].replay = Belief(cards[c])

\* policy-service.ts: dropping a reason retires it, so every reason a card
\* carries, or that a reopen may bring back, still resolves to a definition.
ReasonsResolve ==
    \A c \in Ids : Alive(c) =>
        /\ cards[c].reason # None => reasons[cards[c].reason] # "absent"
        /\ (audit[c].cancel # None /\ audit[c].cancel.reason # None)
              => reasons[audit[c].cancel.reason] # "absent"

\* What reopen relies on: a card.cancelled names a column other than done, and
\* a waiting reason together with its date.
CancelRecorded ==
    \A c \in Ids : Alive(c) /\ audit[c].cancel # None =>
        /\ audit[c].cancel.from # Done
        /\ audit[c].cancel.reason # None => audit[c].cancel.resume # None

\* The half of TerminalDiscipline that holds on any board.
ResolvedInDone ==
    \A c \in Ids : Alive(c) /\ cards[c].resolution # None => cards[c].lane = Done

\* Inductive on any board ...
BoardInv == /\ TypeOK /\ ArchivedInDone /\ ResolvedInDone /\ CardHasColumn
            /\ ReplayMatches /\ ReasonsResolve

\* ... and, with it, inductive on boards with a plain first column.
DisciplineInv == WaitingDiscipline /\ TerminalDiscipline /\ CancelRecorded

\* The seeded graph routes every card through in_progress: with enforcement on
\* throughout, a completed card has had its work start stamped, whatever
\* detours by cancel, drag-out and reopen it took (burn-down, workflow.md).
CompletedWasWorked ==
    \A c \in Ids : Alive(c) /\ cards[c].resolution = "completed" => cards[c].started

\* What reopen promises of a card that a cancel ended, as long as the column the
\* cancel found it in is there.
ReturnsExactly(c) ==
    /\ Reopen(c)
    /\ cards[c].resolution \in CancelResolutions
    /\ OnBoard(prior[c].lane)
    => /\ cards'[c].lane    = prior[c].lane
       /\ cards'[c].reason  = prior[c].reason
       /\ cards'[c].resume  = prior[c].resume
       /\ cards'[c].started = prior[c].started

\* card-service.ts, reopen: a cancelled card returns to exactly the column and
\* state the cancel found, whatever came in between.
ReopenRestores == [][\A c \in Ids : ReturnsExactly(c)]_vars

\* The optimistic lock (ADR-012) is only as good as the version: a card that
\* kept its version is, but for the alert bookkeeping, the card it was.
SameVersionSameCard(c) ==
    cards'[c].version = cards[c].version
        => cards'[c] = [cards[c] EXCEPT !.alerted = cards'[c].alerted]

\* Each overdue episode is alerted at most once: the alert flag is only
\* re-armed by a new resume date, by leaving the waiting column, or by coming
\* back to it (workflow.md, "one Slack DM per overdue episode").
RearmedOnlyByNewEpisode(c) ==
    cards[c].alerted /\ ~cards'[c].alerted
        => cards'[c].lane # Waiting \/ cards'[c].resume # cards[c].resume

RowTells(c) ==
    Alive(c) /\ cards'[c] # None => SameVersionSameCard(c) /\ RearmedOnlyByNewEpisode(c)

\* What a later job or client relies on without reading the card's events.
VersionsAndAlertsTell == [][\A c \in Ids : RowTells(c)]_vars

-----------------------------------------------------------------------------
(* The stages of CardStates.tla a card goes through.                        *)

Stage(card) ==
    IF card = None THEN "absent"
    ELSE IF card.resolution = None THEN "open"
    ELSE IF card.resolution = "completed"
         THEN IF card.archived THEN "archived completed" ELSE "completed"
         ELSE IF card.archived THEN "archived cancelled" ELSE "cancelled"

States == INSTANCE CardStates WITH stage <- [c \in Ids |-> Stage(cards[c])]

\* Every run of the service is a run of the stage machine the product document
\* describes: one card at a time, cancel and complete are never exchanged, only
\* open drafts disappear, archived cards can only be reopened.
ImplementsStages == States!Spec
=============================================================================
