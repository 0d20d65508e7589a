------------------------- MODULE CardLifecycleProofs -------------------------
(***************************************************************************)
(* Proofs about CardLifecycle.tla for any number of cards, columns, reasons *)
(* and days: the types of the variables; the safety invariants, BoardInv on *)
(* every board and DisciplineInv on those whose first column is plain; and, *)
(* on these, the implementation of the stages of CardStates, what versions  *)
(* and alert flags tell, what a reopen brings back, and, where the graphs   *)
(* put done behind in_progress, that work comes before completion.          *)
(*                                                                         *)
(* Last come two readers of a card's past: the sweep (ArchiveSweep.tla)     *)
(* never takes a card to have been in its column for longer than it has,    *)
(* the feed (FollowUp.tla) never for shorter.                               *)
(***************************************************************************)
EXTENDS ArchiveSweep, FollowUp, TLAPS

-----------------------------------------------------------------------------
(* What the operators the actions are built from return.                    *)

\* An event keeps its type whatever fields the caller sets.
LEMMA PlainType ==
    ASSUME TypeOK, NEW type \in EventTypes
    PROVE  Plain(type) \in Events
  BY DEF TypeOK, Plain, Events, Resolutions

\* Folding an event into what a reader believes gives such a belief again.
LEMMA ReplayType ==
    ASSUME NEW s \in Replayed, NEW ev \in Events,
           ev.type \in {"card.status_changed", "card.reopened"} => ev.to \in Keys,
           ev.type = "card.cancelled" => Done \in Keys
    PROVE  Replay(s, ev) \in Replayed
  BY DEF Replay, Replayed, Events, EventTypes, Resolutions

\* Appending an event to a trail gives a trail, which is not null.
LEMMA AppendedType ==
    ASSUME NEW trail \in Trails, NEW ev \in Events,
           Replay(trail.replay, ev) \in Replayed
    PROVE  /\ Appended(trail, ev) \in Trails
           /\ Appended(trail, ev) # None
  BY NullAssumption DEF Appended, Trails

\* A key on the board is a column key.
LEMMA OnBoardKey ==
    ASSUME TypeOK, NEW key, OnBoard(key)
    PROVE  key \in Keys
  BY LayoutsAssumption DEF TypeOK, OnBoard

LEMMA FirstLaneKey ==
    ASSUME TypeOK
    PROVE  FirstLane \in Keys /\ OnBoard(FirstLane)
  <1>1. lanes \in Seq(Keys) /\ lanes # << >>
    BY LayoutsAssumption DEF TypeOK
  <1>2. 1 \in DOMAIN lanes
    BY <1>1
  <1> QED
    BY <1>1, <1>2 DEF FirstLane, OnBoard

\* What Commit leaves: the card with its next version, its trail extended,
\* every other card and trail as it was.
LEMMA CommitEffect ==
    ASSUME TypeOK, NEW c \in Ids, Alive(c), NEW card \in Cards, NEW ev \in Events,
           ev.type \in {"card.status_changed", "card.reopened"} => ev.to \in Keys,
           ev.type = "card.cancelled" => Done \in Keys,
           Commit(c, card, ev)
    PROVE  /\ cards' \in [Ids -> Cards \cup {None}]
           /\ audit' \in [Ids -> Trails \cup {None}]
           /\ cards'[c] \in Cards
           /\ cards'[c].lane = card.lane /\ cards'[c].resolution = card.resolution
           /\ cards'[c].archived = card.archived /\ cards'[c].blocked = card.blocked
           /\ cards'[c].reason = card.reason /\ cards'[c].resume = card.resume
           /\ cards'[c].alerted = card.alerted /\ cards'[c].started = card.started
           /\ cards'[c].version = cards[c].version + 1
           /\ audit'[c] = Appended(audit[c], ev)
           /\ audit'[c] # None
           /\ audit[c] \in Trails
           /\ \A x \in Ids \ {c} : cards'[x] = cards[x] /\ audit'[x] = audit[x]
  <1>1. cards[c] \in Cards /\ audit[c] \in Trails
    BY DEF TypeOK, Alive
  <1>2. audit[c].replay \in Replayed
    BY <1>1 DEF Trails
  <1>3. Replay(audit[c].replay, ev) \in Replayed
    BY <1>2, ReplayType
  <1>4. Appended(audit[c], ev) \in Trails /\ Appended(audit[c], ev) # None
    BY <1>1, <1>3, AppendedType
  <1>5. cards[c].version + 1 \in Nat /\ today \in Days
    BY <1>1 DEF Cards, TypeOK
  <1>6. [card EXCEPT !.version = cards[c].version + 1, !.updated = today] \in Cards
    BY <1>5 DEF Cards
  <1>7. cards'[c] = [card EXCEPT !.version = cards[c].version + 1, !.updated = today]
    BY DEF Commit, VersionOf, TypeOK
  <1>8. /\ cards'[c].lane = card.lane /\ cards'[c].resolution = card.resolution
        /\ cards'[c].archived = card.archived /\ cards'[c].blocked = card.blocked
        /\ cards'[c].reason = card.reason /\ cards'[c].resume = card.resume
        /\ cards'[c].alerted = card.alerted /\ cards'[c].started = card.started
        /\ cards'[c].version = cards[c].version + 1
    BY <1>7 DEF Cards
  <1> QED
    BY <1>1, <1>4, <1>6, <1>8 DEF Commit, VersionOf, TypeOK

\* So Commit preserves the types, but for the history the caller sets.
LEMMA CommitType ==
    ASSUME TypeOK, NEW c \in Ids, Alive(c), NEW card \in Cards, NEW ev \in Events,
           ev.type \in {"card.status_changed", "card.reopened"} => ev.to \in Keys,
           ev.type = "card.cancelled" => Done \in Keys,
           Commit(c, card, ev), prior' \in [Ids -> Cards \cup {None}]
    PROVE  TypeOK'
  <1>1. /\ cards' \in [Ids -> Cards \cup {None}]
        /\ audit' \in [Ids -> Trails \cup {None}]
        /\ cards'[c] # None /\ audit'[c] # None
        /\ \A x \in Ids \ {c} : cards'[x] = cards[x] /\ audit'[x] = audit[x]
    BY CommitEffect, NullAssumption
  <1>2. UNCHANGED <<lanes, graph, reasons, today>>
    BY DEF Commit
  <1> QED
    BY <1>1, <1>2 DEF TypeOK, Alive

-----------------------------------------------------------------------------
(* Type correctness.                                                        *)

LEMMA InitType == Init => TypeOK
  BY BoundsAssumption, LayoutsAssumption, GraphsAssumption, NullAssumption
  DEF Init, TypeOK, Alive, Days

LEMMA DraftType ==
    ASSUME TypeOK
    PROVE  /\ Draft \in Cards
           /\ [cancel |-> None, arrival |-> None, replay |-> Belief(Draft)] \in Trails
  <1>1. Draft \in Cards
    BY FirstLaneKey DEF Draft, Cards, Resolutions, TypeOK
  <1>2. Belief(Draft) \in Replayed
    BY <1>1 DEF Belief, Replayed, Cards
  <1> QED
    BY <1>1, <1>2 DEF Trails

LEMMA CreateType ==
    ASSUME TypeOK, NEW c \in Ids, Create(c)
    PROVE  TypeOK'
  <1> DEFINE trail == [cancel |-> None, arrival |-> None, replay |-> Belief(Draft)]
  <1>1. Draft \in Cards /\ trail \in Trails
    BY DraftType
  <1>2. cards' = [cards EXCEPT ![c] = Draft] /\ audit' = [audit EXCEPT ![c] = trail]
        /\ UNCHANGED <<lanes, graph, reasons, prior, today>>
    BY DEF Create
  <1> HIDE DEF trail
  <1> QED
    BY <1>1, <1>2, NullAssumption DEF TypeOK, Alive

\* The row of an edit, whichever of the two fields it names.
LEMMA EditedType ==
    ASSUME NEW card \in Cards, NEW r \in Reasons \cup {None}, NEW d \in Days \cup {None}
    PROVE  [card EXCEPT !.reason  = IF r # None /\ r # card.reason THEN r ELSE @,
                        !.resume  = IF d # None /\ d # card.resume THEN d ELSE @,
                        !.alerted = @ /\ ~Rearms(card, r, d)] \in Cards
  <1>1. PICK a : a = IF r # None /\ r # card.reason THEN r ELSE card.reason
    OBVIOUS
  <1>2. PICK b : b = IF d # None /\ d # card.resume THEN d ELSE card.resume
    OBVIOUS
  <1>3. PICK f : f = (card.alerted /\ ~Rearms(card, r, d))
    OBVIOUS
  <1>4. a \in Reasons \cup {None} /\ b \in Days \cup {None} /\ f \in BOOLEAN
    BY <1>1, <1>2, <1>3 DEF Cards
  <1>5. [card EXCEPT !.reason = a, !.resume = b, !.alerted = f] \in Cards
    BY <1>4 DEF Cards
  <1> QED
    BY <1>1, <1>2, <1>3, <1>5

\* The card each call writes, before the version is bumped, and the event it
\* appends are well typed.
LEMMA UpdateType ==
    ASSUME TypeOK, NEW c \in Ids, NEW other \in BOOLEAN,
           NEW r \in Reasons \cup {None}, NEW d \in Days \cup {None},
           Update(c, other, r, d)
    PROVE  TypeOK'
  <1> DEFINE card == cards[c]
             edited == [card EXCEPT
                          !.reason  = IF r # None /\ r # card.reason THEN r ELSE @,
                          !.resume  = IF d # None /\ d # card.resume THEN d ELSE @,
                          !.alerted = @ /\ ~Rearms(card, r, d)]
  <1>1. Alive(c) /\ Commit(c, edited, Plain("card.field_changed"))
    BY DEF Update, Editable, Open
  <1>2. card \in Cards
    BY <1>1 DEF TypeOK, Alive
  <1>4. edited \in Cards
    BY <1>2, EditedType
  <1>5. /\ Plain("card.field_changed") \in Events
        /\ Plain("card.field_changed").type = "card.field_changed"
    BY PlainType DEF EventTypes, Plain
  <1>6. prior' \in [Ids -> Cards \cup {None}]
    BY DEF TypeOK, Update
  <1> HIDE DEF edited
  <1> QED
    BY <1>1, <1>4, <1>5, <1>6, CommitType

\* The calls that change only a flag of the card, or nothing at all.
LEMMA FlagStep ==
    ASSUME TypeOK, NEW c \in Ids, Alive(c), NEW card \in Cards,
           NEW type \in {"card.reordered", "card.archived", "card.blocked",
                         "card.unblocked"},
           Commit(c, card, Plain(type)), UNCHANGED prior
    PROVE  TypeOK'
  <1>1. Plain(type) \in Events /\ Plain(type).type = type
    BY PlainType DEF EventTypes, Plain
  <1>2. prior' \in [Ids -> Cards \cup {None}]
    BY DEF TypeOK
  <1> QED
    BY <1>1, <1>2, CommitType

LEMMA FlagType ==
    ASSUME TypeOK, NEW c \in Ids,
           \/ Reorder(c)
           \/ Archive(c)
           \/ \E flag \in BOOLEAN : SetBlocked(c, flag)
    PROVE  TypeOK'
  <1>1. Alive(c)
    BY DEF Reorder, Archive, SetBlocked, Editable, Open
  <1>2. cards[c] \in Cards
    BY <1>1 DEF TypeOK, Alive
  <1>3. CASE Reorder(c)
    BY <1>1, <1>2, <1>3, FlagStep DEF Reorder
  <1>4. CASE Archive(c)
    <2>1. [cards[c] EXCEPT !.archived = TRUE] \in Cards
      BY <1>2 DEF Cards
    <2> QED
      BY <1>1, <1>4, <2>1, FlagStep DEF Archive
  <1>5. ASSUME NEW flag \in BOOLEAN, SetBlocked(c, flag) PROVE TypeOK'
    <2>1. [cards[c] EXCEPT !.blocked = flag] \in Cards
      BY <1>2 DEF Cards
    <2>2. PICK type \in {"card.blocked", "card.unblocked"} :
             type = IF flag THEN "card.blocked" ELSE "card.unblocked"
      OBVIOUS
    <2> QED
      BY <1>1, <1>5, <2>1, <2>2, FlagStep DEF SetBlocked
  <1> QED
    BY <1>3, <1>4, <1>5

LEMMA ClearedType ==
    ASSUME NEW card \in Cards PROVE Cleared(card) \in Cards
  BY DEF Cleared, Cards

LEMMA MoveType ==
    ASSUME TypeOK, NEW c \in Ids, NEW to \in Keys,
           NEW r \in Reasons \cup {None}, NEW d \in Days \cup {None},
           Move(c, to, r, d)
    PROVE  TypeOK'
  <1> DEFINE card  == cards[c]
             swept == IF card.lane = Waiting THEN Cleared(card) ELSE card
             placed == IF to = Waiting
                      THEN [card EXCEPT !.reason = r, !.resume = d, !.alerted = FALSE]
                      ELSE swept
             final == [placed EXCEPT !.lane       = to,
                                    !.started    = @ \/ to = InProgress,
                                    !.resolution = ResolutionAfter(card, to)]
             ev    == [Plain("card.status_changed") EXCEPT !.from = card.lane, !.to = to]
  <1>1. Alive(c) /\ Commit(c, final, ev) /\ prior' = prior
    BY DEF Move, Editable, Open
  <1>2. card \in Cards
    BY <1>1 DEF TypeOK, Alive
  <1>3. swept \in Cards
    BY <1>2, ClearedType
  <1>4. placed \in Cards
    BY <1>2, <1>3, ZenonT(60) DEF Cards
  <1>5. ResolutionAfter(card, to) \in Resolutions
    BY <1>2 DEF ResolutionAfter, Resolutions, Cards
  <1>6. final \in Cards
    <2> HIDE DEF placed
    <2> QED BY <1>4, <1>5 DEF Cards
  <1>7. card.lane \in Keys
    BY <1>2 DEF Cards
  <1>8. ev \in Events /\ ev.type = "card.status_changed" /\ ev.to \in Keys
    BY <1>7 DEF Plain, Events, EventTypes, Resolutions, TypeOK
  <1>9. prior' \in [Ids -> Cards \cup {None}]
    BY <1>1 DEF TypeOK
  <1> HIDE DEF final, ev
  <1> QED
    BY <1>1, <1>6, <1>8, <1>9, CommitType

LEMMA CancelType ==
    ASSUME TypeOK, NEW c \in Ids, NEW resolution \in CancelResolutions,
           Cancel(c, resolution)
    PROVE  TypeOK'
  <1> DEFINE card  == cards[c]
             final == [Cleared(card) EXCEPT !.lane = Done, !.resolution = resolution]
             ev    == [Plain("card.cancelled") EXCEPT
                         !.from = card.lane, !.resolution = resolution,
                         !.reason = card.reason,
                         !.resume = IF card.reason # None THEN card.resume ELSE None]
  <1>1. Alive(c) /\ OnBoard(Done) /\ Commit(c, final, ev)
        /\ prior' = [prior EXCEPT ![c] = card]
    BY DEF Cancel, Editable, Open
  <1>2. card \in Cards /\ Cleared(card) \in Cards /\ Done \in Keys
    BY <1>1, ClearedType, OnBoardKey DEF TypeOK, Alive
  <1>3. final \in Cards
    BY <1>2 DEF Cards, Resolutions
  <1>4. ev \in Events /\ ev.type = "card.cancelled"
    BY <1>2 DEF Plain, Events, EventTypes, Resolutions, TypeOK, Cards
  <1>5. prior' \in [Ids -> Cards \cup {None}]
    BY <1>1, <1>2 DEF TypeOK
  <1> HIDE DEF final, ev, card
  <1> QED
    BY <1>1, <1>2, <1>3, <1>4, <1>5, CommitType

\* The column a reopen returns to is null or a column of the board, and it is
\* the one the newest card.cancelled names.
LEMMA RestoredLaneFact ==
    ASSUME TypeOK, NEW c \in Ids, Alive(c)
    PROVE  \/ RestoredLane(c) = None
           \/ /\ RestoredLane(c) \in Keys /\ OnBoard(RestoredLane(c))
              /\ audit[c].cancel \in Events
              /\ RestoredLane(c) = audit[c].cancel.from
              /\ RestoredLane(c) = Waiting => audit[c].cancel.reason # None
  <1>1. audit[c].cancel \in Events \cup {None}
    BY DEF TypeOK, Alive, Trails
  <1> QED
    BY <1>1, OnBoardKey DEF RestoredLane

LEMMA RevivedType ==
    ASSUME NEW card \in Cards, NEW ev, NEW restored, NEW target \in Keys,
           restored = Waiting => ev \in Events
    PROVE  Revived(card, ev, restored, target) \in Cards
  <1>1. PICK a : a = IF restored = Waiting THEN ev.reason ELSE card.reason
    OBVIOUS
  <1>2. PICK b : b = IF restored = Waiting THEN ev.resume ELSE card.resume
    OBVIOUS
  <1>3. PICK f : f = (card.started /\ restored # None)
    OBVIOUS
  <1>4. PICK g : g = (card.alerted /\ ~(restored = Waiting))
    OBVIOUS
  <1>5. /\ a \in Reasons \cup {None} /\ b \in Days \cup {None}
        /\ f \in BOOLEAN /\ g \in BOOLEAN
    BY <1>1, <1>2, <1>3, <1>4 DEF Cards, Events
  <1>6. [card EXCEPT !.lane = target, !.resolution = None, !.archived = FALSE,
                     !.started = f, !.reason = a, !.resume = b, !.alerted = g] \in Cards
    BY <1>5 DEF Cards, Resolutions
  <1>7. Revived(card, ev, restored, target)
          = [card EXCEPT !.lane = target, !.resolution = None, !.archived = FALSE,
                         !.started = f, !.reason = a, !.resume = b, !.alerted = g]
    BY <1>1, <1>2, <1>3, <1>4, Zenon DEF Revived
  <1> QED
    BY <1>6, <1>7

LEMMA ReopenType ==
    ASSUME TypeOK, NEW c \in Ids, Reopen(c)
    PROVE  TypeOK'
  <1> DEFINE restored == RestoredLane(c)
             target   == IF restored # None THEN restored
                         ELSE IF OnBoard(Ready) THEN Ready ELSE FirstLane
             final    == Revived(cards[c], audit[c].cancel, restored, target)
             ev       == [Plain("card.reopened") EXCEPT !.to = target]
  <1>1. Alive(c) /\ Commit(c, final, ev) /\ prior' = prior
    BY DEF Reopen, Open
  <1>2. cards[c] \in Cards
    BY <1>1 DEF TypeOK, Alive
  <1>3. target \in Keys
    BY <1>1, RestoredLaneFact, OnBoardKey, FirstLaneKey
  <1>4. restored # None => audit[c].cancel \in Events
    BY <1>1, RestoredLaneFact
  <1>5. final \in Cards
    <2> HIDE DEF restored, target
    <2>1. restored = Waiting => audit[c].cancel \in Events
      BY <1>4, NoneAssumption
    <2> QED
      BY <1>2, <1>3, <2>1, RevivedType
  <1>6. ev \in Events /\ ev.type = "card.reopened" /\ ev.to \in Keys
    <2> HIDE DEF target
    <2> QED BY <1>3 DEF Plain, Events, EventTypes, Resolutions, TypeOK
  <1>7. prior' \in [Ids -> Cards \cup {None}]
    BY <1>1 DEF TypeOK
  <1> HIDE DEF final, ev
  <1> QED
    BY <1>1, <1>5, <1>6, <1>7, CommitType

LEMMA DiscardType ==
    ASSUME TypeOK, NEW c \in Ids, Discard(c)
    PROVE  TypeOK'
  BY DEF Discard, TrailsErased, TypeOK, Alive

LEMMA ClaimAlertsType ==
    ASSUME TypeOK, ClaimAlerts
    PROVE  TypeOK'
  <1>1. \A x \in Ids : Alive(x) => [cards[x] EXCEPT !.alerted = TRUE] \in Cards
    BY ZenonT(60) DEF TypeOK, Alive, Cards
  <1>2. \A x \in Ids : DueForAlert(x) => Alive(x)
    BY DEF DueForAlert
  <1>3. cards' \in [Ids -> Cards \cup {None}]
    BY <1>1, <1>2 DEF ClaimAlerts, TypeOK
  <1>4. \A x \in Ids : Alive(x)' <=> Alive(x)
    BY <1>1, <1>2, NullAssumption DEF ClaimAlerts, Alive, TypeOK
  <1> QED
    BY <1>3, <1>4 DEF ClaimAlerts, TypeOK

LEMMA AdminType ==
    ASSUME TypeOK, AdminNext
    PROVE  TypeOK'
  <1>1. CASE \E key \in Keys : AddLane(key)
    BY <1>1 DEF AddLane, TypeOK, Alive
  <1>2. CASE \E i \in DOMAIN lanes : RemoveLane(i)
    BY <1>2 DEF RemoveLane, TypeOK, Alive
  <1>3. CASE \E order \in Layouts : ReorderLanes(order)
    BY <1>3 DEF ReorderLanes, TypeOK, Alive
  <1>4. CASE \E doc \in Documents, allowed \in Graphs : ApplyPolicy(doc, allowed)
    BY <1>4 DEF ApplyPolicy, Merged, Documents, TypeOK, Alive
  <1> QED
    BY <1>1, <1>2, <1>3, <1>4 DEF AdminNext

\* Every step of the service keeps every variable within its type.
LEMMA NextType == TypeOK /\ [Next]_vars => TypeOK'
  <1> SUFFICES ASSUME TypeOK, [Next]_vars PROVE TypeOK'
    OBVIOUS
  <1>1. ASSUME NEW c \in Ids, CardNext(c) PROVE TypeOK'
    BY <1>1, CreateType, UpdateType, FlagType, MoveType, CancelType, ReopenType, DiscardType
    DEF CardNext
  <1>2. CASE ClaimAlerts
    BY <1>2, ClaimAlertsType
  <1>3. CASE AdminNext
    BY <1>3, AdminType
  <1>4. CASE Tick
    BY <1>4, BoundsAssumption DEF Tick, TypeOK, Alive, Days
  <1>5. CASE UNCHANGED vars
    BY <1>5 DEF vars, TypeOK, Alive
  <1> QED
    BY <1>1, <1>2, <1>3, <1>4, <1>5 DEF Next

\* Type correctness, for any board, policy and number of cards.
THEOREM TypeCorrect == Spec => []TypeOK
  BY InitType, NextType, PTL DEF Spec

-----------------------------------------------------------------------------
(* The safety invariants.  Every call on an existing card ends in Commit, so *)
(* a call is shown safe by showing the row and the event it hands to Commit *)
(* lawful.                                                                 *)

\* The row and the event a call may hand to Commit on any board.
Lawful(c, card, ev) ==
    /\ card \in Cards /\ ev \in Events
    /\ ev.type \in {"card.status_changed", "card.reopened"} => ev.to \in Keys
    /\ ev.type = "card.cancelled" => Done \in Keys
    /\ card.archived => card.lane = Done
    /\ card.resolution # None => card.lane = Done
    /\ OnBoard(card.lane)
    /\ Replay(audit[c].replay, ev) = Belief(card)
    /\ card.reason # None => reasons[card.reason] # "absent"
    /\ ev.type = "card.cancelled" /\ ev.reason # None => reasons[ev.reason] # "absent"

\* What they satisfy besides, on a board with a plain first column.
Disciplined(card, ev) ==
    /\ WaitsRight(card)
    /\ EndsRight(card)
    /\ ev.type = "card.cancelled" =>
          /\ ev.from # Done
          /\ ev.reason # None => ev.resume # None

\* Beliefs are compared field by field.
LEMMA BeliefType ==
    ASSUME NEW card \in Cards PROVE Belief(card) \in Replayed
  BY DEF Belief, Replayed, Cards

LEMMA BeliefFields ==
    ASSUME NEW card
    PROVE  /\ Belief(card).lane = card.lane
           /\ Belief(card).resolution = card.resolution
           /\ Belief(card).archived <=> card.archived
           /\ Belief(card).blocked <=> card.blocked
  BY DEF Belief

LEMMA ReplayFields ==
    ASSUME NEW s \in Replayed, NEW ev
    PROVE  /\ Replay(s, ev).lane =
                 IF ev.type \in {"card.status_changed", "card.reopened"} THEN ev.to
                 ELSE IF ev.type = "card.cancelled" THEN Done ELSE s.lane
           /\ Replay(s, ev).resolution =
                 IF ev.type = "card.status_changed"
                 THEN IF ev.to = Done THEN "completed" ELSE None
                 ELSE IF ev.type = "card.cancelled" THEN ev.resolution
                 ELSE IF ev.type = "card.reopened" THEN None ELSE s.resolution
           /\ Replay(s, ev).archived <=>
                 (ev.type = "card.archived" \/ (ev.type # "card.reopened" /\ s.archived))
           /\ Replay(s, ev).blocked <=>
                 (ev.type = "card.blocked" \/ (ev.type # "card.unblocked" /\ s.blocked))
  BY DEF Replay, Replayed

LEMMA ReplayedEqual ==
    ASSUME NEW a \in Replayed, NEW b \in Replayed,
           a.lane = b.lane, a.resolution = b.resolution,
           a.archived <=> b.archived, a.blocked <=> b.blocked
    PROVE  a = b
  BY DEF Replayed

LEMMA Folds ==
    ASSUME NEW old \in Cards, NEW card \in Cards, NEW ev \in Events,
           ev.type \in {"card.status_changed", "card.reopened"} => ev.to \in Keys,
           ev.type = "card.cancelled" => Done \in Keys,
           card.lane =
             IF ev.type \in {"card.status_changed", "card.reopened"} THEN ev.to
             ELSE IF ev.type = "card.cancelled" THEN Done ELSE old.lane,
           card.resolution =
             IF ev.type = "card.status_changed"
             THEN IF ev.to = Done THEN "completed" ELSE None
             ELSE IF ev.type = "card.cancelled" THEN ev.resolution
             ELSE IF ev.type = "card.reopened" THEN None ELSE old.resolution,
           card.archived <=>
             (ev.type = "card.archived" \/ (ev.type # "card.reopened" /\ old.archived)),
           card.blocked <=>
             (ev.type = "card.blocked" \/ (ev.type # "card.unblocked" /\ old.blocked))
    PROVE  Replay(Belief(old), ev) = Belief(card)
  <1> DEFINE s == Belief(old)
  <1>1. s \in Replayed /\ Belief(card) \in Replayed
    BY BeliefType
  <1>2. Replay(s, ev) \in Replayed
    BY <1>1, ReplayType
  <1>3. /\ s.lane = old.lane /\ s.resolution = old.resolution
        /\ s.archived <=> old.archived
        /\ s.blocked <=> old.blocked
    BY BeliefFields
  <1>4. /\ Belief(card).lane = card.lane /\ Belief(card).resolution = card.resolution
        /\ Belief(card).archived <=> card.archived
        /\ Belief(card).blocked <=> card.blocked
    BY BeliefFields
  <1> HIDE DEF s
  <1>5. /\ Replay(s, ev).lane = Belief(card).lane
        /\ Replay(s, ev).resolution = Belief(card).resolution
    BY <1>1, <1>3, <1>4, ReplayFields
  <1>6. /\ Replay(s, ev).archived <=> Belief(card).archived
        /\ Replay(s, ev).blocked <=> Belief(card).blocked
    <2>1. /\ Replay(s, ev).archived <=>
              (ev.type = "card.archived" \/ (ev.type # "card.reopened" /\ s.archived))
          /\ Replay(s, ev).blocked <=>
              (ev.type = "card.blocked" \/ (ev.type # "card.unblocked" /\ s.blocked))
      BY <1>1, ReplayFields
    <2>2. Replay(s, ev).archived <=> card.archived
      BY <1>3, <2>1, Zenon
    <2>3. Replay(s, ev).blocked <=> card.blocked
      BY <1>3, <2>1, Zenon
    <2> QED
      BY <1>4, <2>2, <2>3, Zenon
  <1>7. Replay(s, ev) = Belief(card)
    BY <1>1, <1>2, <1>5, <1>6, ReplayedEqual
  <1> QED
    BY <1>7 DEF s

\* A lawful write keeps the board's invariant.
LEMMA CommitKeepsBoard ==
    ASSUME BoardInv, NEW c \in Ids, Alive(c), NEW card, NEW ev, Lawful(c, card, ev),
           Commit(c, card, ev), prior' \in [Ids -> Cards \cup {None}]
    PROVE  BoardInv'
  <1>1. TypeOK'
    BY CommitType DEF BoardInv, Lawful
  <1>2. /\ cards'[c].lane = card.lane /\ cards'[c].resolution = card.resolution
        /\ cards'[c].archived = card.archived /\ cards'[c].blocked = card.blocked
        /\ cards'[c].reason = card.reason /\ cards'[c].resume = card.resume
        /\ cards'[c].alerted = card.alerted
        /\ audit'[c] = Appended(audit[c], ev)
        /\ audit[c] \in Trails
        /\ \A x \in Ids \ {c} : cards'[x] = cards[x] /\ audit'[x] = audit[x]
    BY CommitEffect DEF BoardInv, Lawful
  <1>3. Belief(cards'[c]) = Belief(card)
    BY <1>2 DEF Belief
  <1>4. /\ audit'[c].replay = Replay(audit[c].replay, ev)
        /\ audit'[c].cancel = IF ev.type = "card.cancelled" THEN ev ELSE audit[c].cancel
    BY <1>2 DEF Appended
  <1>5. \A x \in Ids \ {c} : Alive(x)' <=> Alive(x)
    BY <1>2 DEF Alive
  <1>6. UNCHANGED <<lanes, reasons>>
    BY DEF Commit
  <1>7. ArchivedInDone'
    BY <1>2, <1>5 DEF ArchivedInDone, BoardInv, Lawful
  <1>8. CardHasColumn'
    BY <1>2, <1>5, <1>6 DEF CardHasColumn, BoardInv, Lawful, OnBoard
  <1>9. ReplayMatches'
    <2>1. audit'[c].replay = Belief(cards'[c])
      BY <1>3, <1>4 DEF Lawful
    <2>2. \A x \in Ids \ {c} : Belief(cards'[x]) = Belief(cards[x])
      BY <1>2
    <2> QED
      BY <1>2, <1>5, <2>1, <2>2 DEF ReplayMatches, BoardInv, Belief
  <1>10. ReasonsResolve'
    <2>1. cards'[c].reason # None => reasons'[cards'[c].reason] # "absent"
      BY <1>2, <1>6 DEF Lawful
    <2>2. audit'[c].cancel # None /\ audit'[c].cancel.reason # None
             => reasons'[audit'[c].cancel.reason] # "absent"
      BY <1>4, <1>6 DEF Lawful, ReasonsResolve, BoardInv
    <2> QED
      BY <1>2, <1>5, <1>6, <2>1, <2>2 DEF ReasonsResolve, BoardInv
  <1>11. ResolvedInDone'
    BY <1>2, <1>5 DEF ResolvedInDone, BoardInv, Lawful
  <1> QED
    BY <1>1, <1>7, <1>8, <1>9, <1>10, <1>11 DEF BoardInv

\* A lawful and disciplined write keeps the discipline too.
LEMMA CommitKeepsDiscipline ==
    ASSUME BoardInv, DisciplineInv, NEW c \in Ids, Alive(c), NEW card, NEW ev,
           Lawful(c, card, ev), Disciplined(card, ev), Commit(c, card, ev)
    PROVE  DisciplineInv'
  <1>2. /\ cards'[c].lane = card.lane /\ cards'[c].resolution = card.resolution
        /\ cards'[c].archived = card.archived /\ cards'[c].blocked = card.blocked
        /\ cards'[c].reason = card.reason /\ cards'[c].resume = card.resume
        /\ cards'[c].alerted = card.alerted
        /\ audit'[c] = Appended(audit[c], ev)
        /\ \A x \in Ids \ {c} : cards'[x] = cards[x] /\ audit'[x] = audit[x]
    BY CommitEffect DEF BoardInv, Lawful
  <1>4. audit'[c].cancel = IF ev.type = "card.cancelled" THEN ev ELSE audit[c].cancel
    BY <1>2 DEF Appended
  <1>5. \A x \in Ids \ {c} : Alive(x)' <=> Alive(x)
    BY <1>2 DEF Alive
  <1>6. WaitsRight(cards'[c]) /\ EndsRight(cards'[c])
    BY <1>2 DEF Disciplined, WaitsRight, EndsRight
  <1>7. WaitingDiscipline'
    BY <1>2, <1>5, <1>6 DEF WaitingDiscipline, DisciplineInv, WaitsRight
  <1>8. TerminalDiscipline'
    BY <1>2, <1>5, <1>6 DEF TerminalDiscipline, DisciplineInv, EndsRight
  <1>9. CancelRecorded'
    BY <1>2, <1>4, <1>5 DEF CancelRecorded, DisciplineInv, Disciplined
  <1> QED
    BY <1>7, <1>8, <1>9 DEF DisciplineInv

-----------------------------------------------------------------------------
(* The calls on one card.                                                   *)

\* What BoardInv and DisciplineInv say of one card.
LEMMA BoardInvAt ==
    ASSUME BoardInv, NEW c \in Ids, Alive(c)
    PROVE  /\ cards[c] \in Cards /\ audit[c] \in Trails
           /\ cards[c].archived => cards[c].lane = Done
           /\ cards[c].resolution # None => cards[c].lane = Done
           /\ OnBoard(cards[c].lane)
           /\ audit[c].replay = Belief(cards[c])
           /\ cards[c].reason # None => reasons[cards[c].reason] # "absent"
           /\ (audit[c].cancel # None /\ audit[c].cancel.reason # None)
                 => reasons[audit[c].cancel.reason] # "absent"
  BY DEF BoardInv, TypeOK, ArchivedInDone, ResolvedInDone, CardHasColumn,
         ReplayMatches, ReasonsResolve, Alive

LEMMA DisciplineAt ==
    ASSUME DisciplineInv, NEW c \in Ids, Alive(c)
    PROVE  /\ WaitsRight(cards[c]) /\ EndsRight(cards[c])
           /\ audit[c].cancel # None =>
                 /\ audit[c].cancel.from # Done
                 /\ audit[c].cancel.reason # None => audit[c].cancel.resume # None
  BY DEF DisciplineInv, WaitingDiscipline, TerminalDiscipline, CancelRecorded

LEMMA UpdateSafe ==
    ASSUME BoardInv, NEW c \in Ids, NEW other \in BOOLEAN,
           NEW r \in Reasons \cup {None}, NEW d \in Days \cup {None},
           Update(c, other, r, d)
    PROVE  BoardInv' /\ (DisciplineInv => DisciplineInv')
  <1> DEFINE card == cards[c]
             edited == [card EXCEPT
                          !.reason  = IF r # None /\ r # card.reason THEN r ELSE @,
                          !.resume  = IF d # None /\ d # card.resume THEN d ELSE @,
                          !.alerted = @ /\ ~Rearms(card, r, d)]
             ev == Plain("card.field_changed")
  <1>1. Alive(c) /\ ~card.archived /\ Commit(c, edited, ev) /\ prior' = prior
        /\ (r # None \/ d # None => card.lane = Waiting)
        /\ (r # None /\ r # card.reason => reasons[r] = "active")
    BY DEF Update, Editable, Open
  <1>2. TypeOK
    BY DEF BoardInv
  <1>3. card \in Cards
    BY <1>1, BoardInvAt
  <1>4. edited \in Cards
    BY <1>3, EditedType
  <1>5. /\ edited.lane = card.lane /\ edited.resolution = card.resolution
        /\ edited.archived = card.archived /\ edited.blocked = card.blocked
        /\ edited.reason = IF r # None /\ r # card.reason THEN r ELSE card.reason
        /\ edited.resume = IF d # None /\ d # card.resume THEN d ELSE card.resume
        /\ edited.alerted = (card.alerted /\ ~Rearms(card, r, d))
    BY <1>3 DEF Cards
  <1>6. ev \in Events /\ ev.type = "card.field_changed"
    BY <1>2, PlainType DEF EventTypes, Plain
  <1> HIDE DEF edited, ev
  <1>7. audit[c].replay = Belief(card)
    BY <1>1, BoardInvAt
  <1>8. Replay(audit[c].replay, ev) = Belief(edited)
    BY <1>3, <1>4, <1>5, <1>6, <1>7, Folds
  <1>9. Lawful(c, edited, ev)
    BY <1>1, <1>4, <1>5, <1>6, <1>8, BoardInvAt DEF Lawful
  <1>10. ASSUME DisciplineInv PROVE Disciplined(edited, ev)
    BY <1>1, <1>5, <1>6, <1>10, DisciplineAt DEF Disciplined, WaitsRight, EndsRight
  <1>11. prior' \in [Ids -> Cards \cup {None}]
    BY <1>1, <1>2 DEF TypeOK
  <1>12. BoardInv'
    BY <1>1, <1>9, <1>11, CommitKeepsBoard
  <1>13. ASSUME DisciplineInv PROVE DisciplineInv'
    BY <1>1, <1>9, <1>10, <1>13, CommitKeepsDiscipline
  <1> QED
    BY <1>12, <1>13

\* Calls that write one flag: the row differs from the old one in `archived` or
\* `blocked` at most, and the event says so.
LEMMA FlagSafe ==
    ASSUME BoardInv, NEW c \in Ids, Alive(c), UNCHANGED prior, NEW card \in Cards,
           NEW type \in {"card.reordered", "card.archived", "card.blocked",
                         "card.unblocked"},
           Commit(c, card, Plain(type)),
           card.lane = cards[c].lane, card.resolution = cards[c].resolution,
           card.reason = cards[c].reason, card.resume = cards[c].resume,
           card.alerted = cards[c].alerted,
           card.archived <=> (cards[c].archived \/ type = "card.archived"),
           type = "card.archived" => card.lane = Done,
           card.blocked <=> (type = "card.blocked"
                             \/ (type # "card.unblocked" /\ cards[c].blocked))
    PROVE  BoardInv' /\ (DisciplineInv => DisciplineInv')
  <1> DEFINE ev == Plain(type)
  <1>1. TypeOK
    BY DEF BoardInv
  <1>2. ev \in Events /\ ev.type = type
    BY <1>1, PlainType DEF EventTypes, Plain
  <1>3. cards[c] \in Cards /\ audit[c].replay = Belief(cards[c])
    BY BoardInvAt
  <1>4. Replay(audit[c].replay, ev) = Belief(card)
    <2> HIDE DEF ev
    <2>1. Replay(Belief(cards[c]), ev) = Belief(card)
      BY <1>2, <1>3, Folds
    <2> QED
      BY <1>3, <2>1
  <1>5. Lawful(c, card, ev)
    <2> HIDE DEF ev
    <2> QED BY <1>2, <1>4, BoardInvAt DEF Lawful
  <1>6. ASSUME DisciplineInv PROVE Disciplined(card, ev)
    <2> HIDE DEF ev
    <2> QED BY <1>2, <1>6, DisciplineAt DEF Disciplined, WaitsRight, EndsRight
  <1>7. prior' \in [Ids -> Cards \cup {None}]
    BY <1>1 DEF TypeOK
  <1>8. BoardInv'
    BY <1>5, <1>7, CommitKeepsBoard
  <1>9. ASSUME DisciplineInv PROVE DisciplineInv'
    BY <1>5, <1>6, <1>9, CommitKeepsDiscipline
  <1> QED
    BY <1>8, <1>9

LEMMA ReorderSafe ==
    ASSUME BoardInv, NEW c \in Ids, Reorder(c)
    PROVE  BoardInv' /\ (DisciplineInv => DisciplineInv')
  <1>1. Alive(c) /\ Commit(c, cards[c], Plain("card.reordered")) /\ UNCHANGED prior
    BY DEF Reorder, Editable, Open
  <1>2. cards[c] \in Cards /\ cards[c].archived \in BOOLEAN
    BY <1>1, BoardInvAt DEF Cards
  <1> QED
    BY <1>1, <1>2, FlagSafe

LEMMA ArchiveSafe ==
    ASSUME BoardInv, NEW c \in Ids, Archive(c)
    PROVE  BoardInv' /\ (DisciplineInv => DisciplineInv')
  <1> DEFINE card == [cards[c] EXCEPT !.archived = TRUE]
  <1>1. Alive(c) /\ cards[c].lane = Done
        /\ Commit(c, card, Plain("card.archived")) /\ UNCHANGED prior
    BY DEF Archive, Editable, Open
  <1>2. cards[c] \in Cards
    BY <1>1, BoardInvAt
  <1>3. /\ card \in Cards /\ card.lane = cards[c].lane
        /\ card.resolution = cards[c].resolution /\ card.reason = cards[c].reason
        /\ card.resume = cards[c].resume /\ card.alerted = cards[c].alerted
        /\ card.blocked = cards[c].blocked /\ card.archived = TRUE
    BY <1>2 DEF Cards
  <1> HIDE DEF card
  <1> QED
    BY <1>1, <1>3, FlagSafe

LEMMA SetBlockedSafe ==
    ASSUME BoardInv, NEW c \in Ids, NEW flag \in BOOLEAN, SetBlocked(c, flag)
    PROVE  BoardInv' /\ (DisciplineInv => DisciplineInv')
  <1> DEFINE card == [cards[c] EXCEPT !.blocked = flag]
             type == IF flag THEN "card.blocked" ELSE "card.unblocked"
  <1>1. Alive(c) /\ ~cards[c].archived /\ Commit(c, card, Plain(type)) /\ UNCHANGED prior
    BY DEF SetBlocked, Editable, Open
  <1>2. cards[c] \in Cards
    BY <1>1, BoardInvAt
  <1>3. /\ card \in Cards /\ card.lane = cards[c].lane
        /\ card.resolution = cards[c].resolution /\ card.reason = cards[c].reason
        /\ card.resume = cards[c].resume /\ card.alerted = cards[c].alerted
        /\ card.blocked = flag /\ card.archived = FALSE
    BY <1>1, <1>2 DEF Cards
  <1>4. /\ type \in {"card.blocked", "card.unblocked"}
        /\ card.blocked <=> type = "card.blocked"
    BY <1>3
  <1> HIDE DEF card, type
  <1> QED
    BY <1>1, <1>3, <1>4, FlagSafe

LEMMA MoveSafe ==
    ASSUME BoardInv, NEW c \in Ids, NEW to \in Keys,
           NEW r \in Reasons \cup {None}, NEW d \in Days \cup {None},
           Move(c, to, r, d)
    PROVE  BoardInv' /\ (DisciplineInv => DisciplineInv')
  <1> DEFINE card  == cards[c]
             swept == IF card.lane = Waiting THEN Cleared(card) ELSE card
             placed == IF to = Waiting
                      THEN [card EXCEPT !.reason = r, !.resume = d, !.alerted = FALSE]
                      ELSE swept
             final == [placed EXCEPT !.lane       = to,
                                    !.started    = @ \/ to = InProgress,
                                    !.resolution = ResolutionAfter(card, to)]
             ev    == [Plain("card.status_changed") EXCEPT !.from = card.lane, !.to = to]
  <1>1. Alive(c) /\ ~card.archived /\ OnBoard(to) /\ to # card.lane
        /\ Commit(c, final, ev) /\ prior' = prior
        /\ IF to = Waiting THEN r # None /\ d # None /\ reasons[r] = "active"
                           ELSE r = None /\ d = None
    BY DEF Move, Editable, Open
  <1>2. TypeOK
    BY DEF BoardInv
  <1>3. card \in Cards /\ card.archived = FALSE
    BY <1>1, BoardInvAt DEF Cards
  <1>4. /\ placed \in Cards
        /\ placed.archived = FALSE /\ placed.blocked = card.blocked
        /\ placed.reason  = IF to = Waiting THEN r
                           ELSE IF card.lane = Waiting THEN None ELSE card.reason
        /\ placed.resume  = IF to = Waiting THEN d
                           ELSE IF card.lane = Waiting THEN None ELSE card.resume
        /\ placed.alerted => (to # Waiting /\ card.lane # Waiting /\ card.alerted)
    BY <1>3 DEF Cards, Cleared
  <1>5. ResolutionAfter(card, to) \in Resolutions
    BY <1>3 DEF ResolutionAfter, Resolutions, Cards
  <1>6. /\ final \in Cards /\ final.lane = to
        /\ final.resolution = ResolutionAfter(card, to)
        /\ final.archived = FALSE /\ final.blocked = card.blocked
        /\ final.reason = placed.reason /\ final.resume = placed.resume
        /\ final.alerted = placed.alerted
    <2> HIDE DEF placed
    <2> QED BY <1>4, <1>5 DEF Cards
  <1>7. card.lane \in Keys
    BY <1>3 DEF Cards
  <1>8. ev \in Events /\ ev.type = "card.status_changed" /\ ev.to = to
    BY <1>2, <1>7 DEF Plain, Events, EventTypes, Resolutions, TypeOK
  <1> HIDE DEF final, ev, placed
  <1>9. Replay(audit[c].replay, ev) = Belief(final)
    <2>1. audit[c].replay = Belief(card)
      BY <1>1, BoardInvAt
    <2>2. card.lane # Done => card.resolution = None
      BY <1>1, BoardInvAt
    <2>3. final.resolution = IF to = Done THEN "completed" ELSE None
      BY <1>6, <2>2 DEF ResolutionAfter
    <2>4. final.archived <=> card.archived
      BY <1>3, <1>6
    <2>5. Replay(Belief(card), ev) = Belief(final)
      BY <1>3, <1>6, <1>8, <2>3, <2>4, Folds
    <2> QED
      BY <2>1, <2>5
  <1>10. final.resolution # None => to = Done
    BY <1>1, <1>6, BoardInvAt DEF ResolutionAfter
  <1>11. final.reason # None => reasons[final.reason] # "absent"
    BY <1>1, <1>4, <1>6, BoardInvAt
  <1>12. Lawful(c, final, ev)
    BY <1>1, <1>6, <1>8, <1>9, <1>10, <1>11 DEF Lawful
  <1>13. ASSUME DisciplineInv PROVE Disciplined(final, ev)
    <2>1. WaitsRight(card) /\ EndsRight(card)
      BY <1>1, <1>13, DisciplineAt
    <2>2. WaitsRight(final)
      BY <1>1, <1>4, <1>6, <2>1 DEF WaitsRight
    <2>3. "completed" # None
      BY NoneAssumption
    <2>4. EndsRight(final)
      BY <1>6, <2>1, <2>3 DEF EndsRight, ResolutionAfter
    <2> QED
      BY <1>8, <2>2, <2>4 DEF Disciplined
  <1>14. prior' \in [Ids -> Cards \cup {None}]
    BY <1>1, <1>2 DEF TypeOK
  <1>15. BoardInv'
    BY <1>1, <1>12, <1>14, CommitKeepsBoard
  <1>16. ASSUME DisciplineInv PROVE DisciplineInv'
    BY <1>1, <1>12, <1>13, <1>16, CommitKeepsDiscipline
  <1> QED
    BY <1>15, <1>16

LEMMA CancelSafe ==
    ASSUME BoardInv, NEW c \in Ids, NEW resolution \in CancelResolutions,
           Cancel(c, resolution)
    PROVE  BoardInv' /\ (DisciplineInv => DisciplineInv')
  <1> DEFINE card  == cards[c]
             final == [Cleared(card) EXCEPT !.lane = Done, !.resolution = resolution]
             ev    == [Plain("card.cancelled") EXCEPT
                         !.from = card.lane, !.resolution = resolution,
                         !.reason = card.reason,
                         !.resume = IF card.reason # None THEN card.resume ELSE None]
  <1>1. Alive(c) /\ ~card.archived /\ card.lane # Done /\ OnBoard(Done)
        /\ Commit(c, final, ev) /\ prior' = [prior EXCEPT ![c] = card]
    BY DEF Cancel, Editable, Open
  <1>2. TypeOK
    BY DEF BoardInv
  <1>3. card \in Cards /\ Done \in Keys
    BY <1>1, <1>2, BoardInvAt, OnBoardKey
  <1>4. /\ Cleared(card) \in Cards
        /\ Cleared(card).reason = None /\ Cleared(card).resume = None
        /\ Cleared(card).alerted = FALSE
        /\ Cleared(card).archived = card.archived /\ Cleared(card).blocked = card.blocked
    BY <1>3 DEF Cleared, Cards
  <1>5. /\ final \in Cards /\ final.lane = Done /\ final.resolution = resolution
        /\ final.reason = None /\ final.resume = None /\ final.alerted = FALSE
        /\ final.archived = card.archived /\ final.blocked = card.blocked
    BY <1>3, <1>4 DEF Cards, Resolutions
  <1>6. /\ ev \in Events /\ ev.type = "card.cancelled" /\ ev.resolution = resolution
        /\ ev.from = card.lane /\ ev.reason = card.reason
        /\ ev.resume = IF card.reason # None THEN card.resume ELSE None
    BY <1>2, <1>3 DEF Plain, Events, EventTypes, Resolutions, TypeOK, Cards
  <1> HIDE DEF final, ev
  <1>7. Replay(audit[c].replay, ev) = Belief(final)
    <2>1. audit[c].replay = Belief(card)
      BY <1>1, BoardInvAt
    <2>2. Replay(Belief(card), ev) = Belief(final)
      BY <1>3, <1>5, <1>6, Folds
    <2> QED
      BY <2>1, <2>2
  <1>8. Lawful(c, final, ev)
    BY <1>1, <1>3, <1>5, <1>6, <1>7, BoardInvAt DEF Lawful
  <1>9. ASSUME DisciplineInv PROVE Disciplined(final, ev)
    <2>1. WaitsRight(card)
      BY <1>1, <1>9, DisciplineAt
    <2>2. resolution # None /\ Done # Waiting
      BY NoneAssumption DEF Done, Waiting
    <2> QED
      BY <1>1, <1>5, <1>6, <2>1, <2>2 DEF Disciplined, WaitsRight, EndsRight
  <1>10. prior' \in [Ids -> Cards \cup {None}]
    BY <1>1, <1>2, <1>3 DEF TypeOK
  <1>11. BoardInv'
    BY <1>1, <1>8, <1>10, CommitKeepsBoard
  <1>12. ASSUME DisciplineInv PROVE DisciplineInv'
    BY <1>1, <1>8, <1>9, <1>12, CommitKeepsDiscipline
  <1> QED
    BY <1>11, <1>12

LEMMA ReopenSafe ==
    ASSUME BoardInv, NEW c \in Ids, Reopen(c)
    PROVE  BoardInv' /\ (PlainEntry /\ DisciplineInv => DisciplineInv')
  <1> DEFINE card     == cards[c]
             cancel   == audit[c].cancel
             restored == RestoredLane(c)
             target   == IF restored # None THEN restored
                         ELSE IF OnBoard(Ready) THEN Ready ELSE FirstLane
             final    == Revived(card, cancel, restored, target)
             ev       == [Plain("card.reopened") EXCEPT !.to = target]
  <1>1. Alive(c) /\ card.lane = Done /\ Commit(c, final, ev) /\ prior' = prior
    BY DEF Reopen, Open
  <1>2. TypeOK
    BY DEF BoardInv
  <1>3. card \in Cards
    BY <1>1, BoardInvAt
  <1>4. target \in Keys /\ OnBoard(target)
    BY <1>1, <1>2, RestoredLaneFact, OnBoardKey, FirstLaneKey
  <1>5. restored # None => /\ cancel \in Events /\ restored = cancel.from
                           /\ restored = Waiting => cancel.reason # None
    BY <1>1, <1>2, RestoredLaneFact
  <1>6. restored = Waiting => /\ cancel \in Events /\ cancel # None
                              /\ cancel.reason # None /\ target = Waiting
    BY <1>5, NoneAssumption, NullAssumption
  <1>7. restored # None /\ target = Waiting => restored = Waiting
    OBVIOUS
  <1>8. restored = None => target \in {Ready, FirstLane}
    OBVIOUS
  <1>9. ev \in Events /\ ev.type = "card.reopened" /\ ev.to = target
    <2> HIDE DEF target
    <2> QED BY <1>2, <1>4 DEF Plain, Events, EventTypes, Resolutions, TypeOK
  <1> HIDE DEF target, restored, ev
  <1>10. /\ final \in Cards
         /\ final.lane = target /\ final.resolution = None
         /\ final.archived = FALSE /\ final.blocked = card.blocked
         /\ final.reason  = IF restored = Waiting THEN cancel.reason ELSE card.reason
         /\ final.resume  = IF restored = Waiting THEN cancel.resume ELSE card.resume
         /\ final.alerted <=> (card.alerted /\ restored # Waiting)
    <2>1. final \in Cards
      BY <1>3, <1>4, <1>6, RevivedType
    <2> HIDE DEF cancel, card
    <2> QED
      BY <1>3, <2>1, ZenonT(60) DEF Revived, Cards
  <1> HIDE DEF final
  <1>11. Replay(audit[c].replay, ev) = Belief(final)
    <2>1. audit[c].replay = Belief(card)
      BY <1>1, BoardInvAt
    <2>2. Replay(Belief(card), ev) = Belief(final)
      BY <1>3, <1>4, <1>9, <1>10, Folds
    <2> QED
      BY <2>1, <2>2
  <1>12. final.reason # None => reasons[final.reason] # "absent"
    BY <1>1, <1>6, <1>10, BoardInvAt
  <1>13. Lawful(c, final, ev)
    BY <1>4, <1>9, <1>10, <1>11, <1>12 DEF Lawful
  <1>14. ASSUME PlainEntry, DisciplineInv PROVE Disciplined(final, ev)
    <2>1. card.reason = None /\ card.resume = None /\ ~card.alerted
      BY <1>1, <1>14, DisciplineAt DEF WaitsRight, Done, Waiting
    <2>2. FirstLane \notin {Done, Waiting}
      BY <1>2, <1>14 DEF PlainEntry, TypeOK, FirstLane
    <2>3. restored = None => target \notin {Done, Waiting}
      BY <1>8, <2>2 DEF Ready, Done, Waiting
    <2>4. restored # None => target = cancel.from /\ cancel.from # Done
      <3>1. restored # None => cancel # None
        BY <1>5, NullAssumption
      <3>2. restored # None => target = restored
        BY DEF target
      <3> QED
        BY <1>1, <1>5, <1>14, <3>1, <3>2, DisciplineAt
    <2>5. restored = Waiting => cancel.resume # None
      BY <1>1, <1>6, <1>14, DisciplineAt
    <2>6. target = Waiting <=> restored = Waiting
      BY <1>6, <1>7, <2>3
    <2>7. WaitsRight(final)
      BY <1>6, <1>10, <2>1, <2>5, <2>6 DEF WaitsRight
    <2>8. EndsRight(final)
      BY <1>10, <2>3, <2>4 DEF EndsRight
    <2> QED
      BY <1>9, <2>7, <2>8 DEF Disciplined
  <1>15. prior' \in [Ids -> Cards \cup {None}]
    BY <1>1, <1>2 DEF TypeOK
  <1>16. BoardInv'
    BY <1>1, <1>13, <1>15, CommitKeepsBoard
  <1>17. ASSUME PlainEntry, DisciplineInv PROVE DisciplineInv'
    BY <1>1, <1>13, <1>14, <1>17, CommitKeepsDiscipline
  <1> QED
    BY <1>16, <1>17

-----------------------------------------------------------------------------
(* Birth, discard, the alert job, the administrator and the clock.          *)

LEMMA CreateSafe ==
    ASSUME BoardInv, NEW n \in Ids, Create(n)
    PROVE  BoardInv' /\ (PlainEntry /\ DisciplineInv => DisciplineInv')
  <1> DEFINE trail == [cancel |-> None, arrival |-> None, replay |-> Belief(Draft)]
  <1>1. n \in Ids /\ cards' = [cards EXCEPT ![n] = Draft]
        /\ audit' = [audit EXCEPT ![n] = trail]
        /\ UNCHANGED <<lanes, graph, reasons, prior, today>>
    BY DEF Create
  <1>2. TypeOK /\ TypeOK'
    BY CreateType DEF BoardInv
  <1>3. Draft.lane = FirstLane /\ OnBoard(FirstLane)
    BY <1>2, FirstLaneKey DEF Draft
  <1>4. /\ cards'[n] = Draft /\ audit'[n] = trail
        /\ \A x \in Ids \ {n} : cards'[x] = cards[x] /\ audit'[x] = audit[x]
    BY <1>1, <1>2 DEF TypeOK
  <1>5. /\ cards'[n].lane = FirstLane /\ cards'[n].resolution = None
        /\ ~cards'[n].archived /\ ~cards'[n].alerted
        /\ cards'[n].reason = None /\ cards'[n].resume = None
        /\ audit'[n].cancel = None /\ audit'[n].replay = Belief(cards'[n])
    BY <1>4 DEF Draft
  <1> HIDE DEF trail
  <1>6. \A x \in Ids \ {n} : Alive(x)' <=> Alive(x)
    BY <1>4 DEF Alive
  <1>7. ArchivedInDone' /\ ResolvedInDone'
    BY <1>1, <1>4, <1>5, <1>6 DEF ArchivedInDone, ResolvedInDone, BoardInv
  <1>8. CardHasColumn'
    BY <1>1, <1>3, <1>4, <1>5, <1>6 DEF CardHasColumn, BoardInv, OnBoard
  <1>9. ReplayMatches'
    BY <1>4, <1>5, <1>6 DEF ReplayMatches, BoardInv
  <1>10. ReasonsResolve'
    BY <1>1, <1>4, <1>5, <1>6 DEF ReasonsResolve, BoardInv
  <1>11. ASSUME PlainEntry, DisciplineInv PROVE DisciplineInv'
    <2>1. FirstLane \notin {Done, Waiting}
      BY <1>2, <1>11 DEF PlainEntry, TypeOK, FirstLane
    <2>2. WaitsRight(cards'[n]) /\ EndsRight(cards'[n])
      BY <1>5, <2>1 DEF WaitsRight, EndsRight
    <2>3. WaitingDiscipline'
      BY <1>4, <1>6, <1>11, <2>2 DEF WaitingDiscipline, DisciplineInv, WaitsRight
    <2>4. TerminalDiscipline'
      BY <1>4, <1>6, <1>11, <2>2 DEF TerminalDiscipline, DisciplineInv, EndsRight
    <2>5. CancelRecorded'
      BY <1>4, <1>5, <1>6, <1>11 DEF CancelRecorded, DisciplineInv
    <2> QED
      BY <2>3, <2>4, <2>5 DEF DisciplineInv
  <1> QED
    BY <1>2, <1>7, <1>8, <1>9, <1>10, <1>11 DEF BoardInv

LEMMA DiscardSafe ==
    ASSUME BoardInv, NEW c \in Ids, Discard(c)
    PROVE  BoardInv' /\ (DisciplineInv => DisciplineInv')
  <1>1. TypeOK /\ TypeOK'
    BY DiscardType DEF BoardInv
  <1>2. /\ cards'[c] = None
        /\ \A x \in Ids \ {c} : cards'[x] = cards[x] /\ audit'[x] = audit[x]
        /\ UNCHANGED <<lanes, reasons>>
    BY <1>1 DEF Discard, TrailsErased, TypeOK
  <1>3. \A x \in Ids : Alive(x)' => Alive(x) /\ cards'[x] = cards[x] /\ audit'[x] = audit[x]
    BY <1>2 DEF Alive
  <1>4. ArchivedInDone' /\ ResolvedInDone' /\ ReplayMatches'
    BY <1>3 DEF ArchivedInDone, ResolvedInDone, ReplayMatches, BoardInv
  <1>5. CardHasColumn' /\ ReasonsResolve'
    BY <1>2, <1>3 DEF CardHasColumn, ReasonsResolve, BoardInv, OnBoard
  <1>6. ASSUME DisciplineInv PROVE DisciplineInv'
    BY <1>3, <1>6 DEF DisciplineInv, WaitingDiscipline, TerminalDiscipline,
                      CancelRecorded, WaitsRight, EndsRight
  <1> QED
    BY <1>1, <1>4, <1>5, <1>6 DEF BoardInv

LEMMA ClaimAlertsSafe ==
    ASSUME BoardInv, ClaimAlerts
    PROVE  BoardInv' /\ (DisciplineInv => DisciplineInv')
  <1>1. TypeOK /\ TypeOK'
    BY ClaimAlertsType DEF BoardInv
  <1>2. UNCHANGED <<lanes, reasons, audit>>
    BY DEF ClaimAlerts
  <1>3. ASSUME NEW x \in Ids, Alive(x)'
        PROVE  /\ Alive(x)
               /\ cards'[x].lane = cards[x].lane
               /\ cards'[x].resolution = cards[x].resolution
               /\ cards'[x].archived = cards[x].archived
               /\ cards'[x].blocked = cards[x].blocked
               /\ cards'[x].reason = cards[x].reason
               /\ cards'[x].resume = cards[x].resume
               /\ cards'[x].alerted => cards[x].alerted \/ cards[x].lane = Waiting
    <2>1. CASE DueForAlert(x)
      <3>1. Alive(x) /\ cards[x].lane = Waiting
        BY <2>1 DEF DueForAlert
      <3>2. cards[x] \in Cards
        BY <3>1, BoardInvAt
      <3>3. cards'[x] = [cards[x] EXCEPT !.alerted = TRUE]
        BY <2>1 DEF ClaimAlerts
      <3> QED
        BY <3>1, <3>2, <3>3 DEF Cards
    <2>2. CASE ~DueForAlert(x)
      <3>1. cards'[x] = cards[x]
        BY <2>2 DEF ClaimAlerts
      <3> QED
        BY <1>3, <3>1 DEF Alive
    <2> QED
      BY <2>1, <2>2
  <1>4. \A x \in Ids : Alive(x)' => Belief(cards'[x]) = Belief(cards[x])
    BY <1>3 DEF Belief
  <1>5. ArchivedInDone' /\ ResolvedInDone'
    BY <1>3 DEF ArchivedInDone, ResolvedInDone, BoardInv
  <1>6. ReplayMatches'
    BY <1>2, <1>3, <1>4 DEF ReplayMatches, BoardInv
  <1>7. CardHasColumn' /\ ReasonsResolve'
    BY <1>2, <1>3 DEF CardHasColumn, ReasonsResolve, BoardInv, OnBoard
  <1>8. ASSUME DisciplineInv PROVE DisciplineInv'
    <2>1. WaitingDiscipline'
      BY <1>3, <1>8 DEF DisciplineInv, WaitingDiscipline, WaitsRight
    <2>2. TerminalDiscipline'
      BY <1>3, <1>8 DEF DisciplineInv, TerminalDiscipline, EndsRight
    <2>3. CancelRecorded'
      BY <1>2, <1>3, <1>8 DEF DisciplineInv, CancelRecorded
    <2> QED
      BY <2>1, <2>2, <2>3 DEF DisciplineInv
  <1> QED
    BY <1>1, <1>5, <1>6, <1>7, <1>8 DEF BoardInv

LEMMA RemoveLaneKeeps ==
    ASSUME TypeOK, CardHasColumn, NEW i \in DOMAIN lanes, RemoveLane(i)
    PROVE  CardHasColumn'
  <1>1. lanes \in Seq(Keys)
    BY LayoutsAssumption DEF TypeOK
  <1>2. Len(lanes) \in Nat /\ DOMAIN lanes = 1 .. Len(lanes)
    BY <1>1
  <1>3. lanes' = [j \in 1 .. Len(lanes) - 1 |-> IF j < i THEN lanes[j] ELSE lanes[j + 1]]
    BY DEF RemoveLane
  <1>4. ASSUME NEW c \in Ids, Alive(c) PROVE OnBoard(cards[c].lane)'
    <2>1. PICK k \in DOMAIN lanes : lanes[k] = cards[c].lane
      BY <1>4 DEF CardHasColumn, OnBoard
    <2>2. k # i
      BY <1>4, <2>1 DEF RemoveLane, Holds
    <2> DEFINE j == IF k < i THEN k ELSE k - 1
    <2>3. j \in 1 .. Len(lanes) - 1 /\ lanes'[j] = lanes[k]
      BY <1>2, <1>3, <2>2
    <2>4. j \in DOMAIN lanes'
      BY <1>3, <2>3
    <2>5. cards'[c] = cards[c]
      BY DEF RemoveLane
    <2> QED
      BY <2>1, <2>3, <2>4, <2>5 DEF OnBoard
  <1> QED
    BY <1>4 DEF CardHasColumn, RemoveLane, Alive

LEMMA AdminSafe ==
    ASSUME BoardInv, AdminNext
    PROVE  BoardInv' /\ (DisciplineInv => DisciplineInv')
  <1>1. TypeOK /\ TypeOK'
    BY AdminType DEF BoardInv
  <1>2. UNCHANGED <<cards, audit>>
    BY DEF AdminNext, AddLane, RemoveLane, ReorderLanes, ApplyPolicy
  <1>3. ArchivedInDone' /\ ResolvedInDone' /\ ReplayMatches'
    BY <1>2 DEF ArchivedInDone, ResolvedInDone, ReplayMatches, BoardInv, Alive
  <1>4. DisciplineInv => DisciplineInv'
    BY <1>2 DEF DisciplineInv, WaitingDiscipline, TerminalDiscipline,
                CancelRecorded, Alive
  <1>5. CardHasColumn'
    <2>1. CASE \E key \in Keys : AddLane(key)
      <3>1. lanes \in Seq(Keys)
        BY <1>1, LayoutsAssumption DEF TypeOK
      <3>2. \A k : OnBoard(k) => OnBoard(k)'
        BY <2>1, <3>1 DEF AddLane, OnBoard
      <3> QED
        BY <1>2, <3>2 DEF CardHasColumn, BoardInv, Alive
    <2>2. CASE \E i \in DOMAIN lanes : RemoveLane(i)
      BY <1>1, <2>2, RemoveLaneKeeps DEF BoardInv
    <2>3. CASE \E order \in Layouts : ReorderLanes(order)
      <3>1. \A k : OnBoard(k) => OnBoard(k)'
        BY <2>3 DEF ReorderLanes, OnBoard
      <3> QED
        BY <1>2, <3>1 DEF CardHasColumn, BoardInv, Alive
    <2>4. CASE \E doc \in Documents, allowed \in Graphs : ApplyPolicy(doc, allowed)
      BY <1>2, <2>4 DEF ApplyPolicy, CardHasColumn, BoardInv, Alive, OnBoard
    <2> QED
      BY <2>1, <2>2, <2>3, <2>4 DEF AdminNext
  <1>6. ReasonsResolve'
    <2>1. ASSUME NEW r \in Reasons, reasons[r] # "absent" PROVE reasons'[r] # "absent"
      BY <2>1 DEF AdminNext, AddLane, RemoveLane, ReorderLanes, ApplyPolicy, Merged
    <2>2. ASSUME NEW c \in Ids, Alive(c)
          PROVE  /\ cards[c].reason \in Reasons \cup {None}
                 /\ audit[c].cancel # None => audit[c].cancel.reason \in Reasons \cup {None}
      BY <2>2, BoardInvAt DEF Cards, Trails, Events
    <2> QED
      BY <1>2, <2>1, <2>2 DEF ReasonsResolve, BoardInv, Alive
  <1> QED
    BY <1>1, <1>3, <1>4, <1>5, <1>6 DEF BoardInv

\* Steps that touch none of the variables the invariants read.
LEMMA IdleSafe ==
    ASSUME BoardInv, UNCHANGED <<lanes, graph, reasons, cards, audit, prior>>,
           TypeOK'
    PROVE  BoardInv' /\ (DisciplineInv => DisciplineInv')
  BY DEF BoardInv, DisciplineInv, ArchivedInDone, ResolvedInDone, CardHasColumn,
         ReplayMatches, ReasonsResolve, WaitingDiscipline, TerminalDiscipline,
         CancelRecorded, Alive, OnBoard

-----------------------------------------------------------------------------
(* The invariants.                                                          *)

LEMMA InitSafe == Init => BoardInv /\ DisciplineInv
  <1> SUFFICES ASSUME Init PROVE BoardInv /\ DisciplineInv
    OBVIOUS
  <1>1. \A c \in Ids : ~Alive(c)
    BY DEF Init, Alive
  <1> QED
    BY <1>1, InitType DEF BoardInv, DisciplineInv, ArchivedInDone, ResolvedInDone,
       CardHasColumn, ReplayMatches, ReasonsResolve, WaitingDiscipline,
       TerminalDiscipline, CancelRecorded

\* Every step keeps the board's invariant, and the discipline where the first
\* column is plain: only create and reopen's fallback look at the first column.
LEMMA NextSafe ==
    ASSUME BoardInv, [Next]_vars
    PROVE  BoardInv' /\ (PlainEntry /\ DisciplineInv => DisciplineInv')
  <1>1. ASSUME NEW c \in Ids, CardNext(c)
        PROVE  BoardInv' /\ (PlainEntry /\ DisciplineInv => DisciplineInv')
    <2>1. CASE \E other \in BOOLEAN, r \in Reasons \cup {None}, d \in Days \cup {None} :
                  Update(c, other, r, d)
      BY <2>1, UpdateSafe
    <2>2. CASE Reorder(c)
      BY <2>2, ReorderSafe
    <2>3. CASE \E to \in Keys, r \in Reasons \cup {None}, d \in Days \cup {None} :
                  Move(c, to, r, d)
      BY <2>3, MoveSafe
    <2>4. CASE \E resolution \in CancelResolutions : Cancel(c, resolution)
      BY <2>4, CancelSafe
    <2>5. CASE Reopen(c)
      BY <2>5, ReopenSafe
    <2>6. CASE Archive(c)
      BY <2>6, ArchiveSafe
    <2>7. CASE \E flag \in BOOLEAN : SetBlocked(c, flag)
      BY <2>7, SetBlockedSafe
    <2>8. CASE Discard(c)
      BY <2>8, DiscardSafe
    <2>9. CASE Create(c)
      BY <2>9, CreateSafe
    <2> QED
      BY <1>1, <2>1, <2>2, <2>3, <2>4, <2>5, <2>6, <2>7, <2>8, <2>9 DEF CardNext
  <1>2. CASE ClaimAlerts
    BY <1>2, ClaimAlertsSafe
  <1>3. CASE AdminNext
    BY <1>3, AdminSafe
  <1>4. CASE Tick
    BY <1>4, NextType, IdleSafe DEF Tick, BoardInv, Next
  <1>5. CASE UNCHANGED vars
    BY <1>5, NextType, IdleSafe DEF vars, BoardInv
  <1> QED
    BY <1>1, <1>2, <1>3, <1>4, <1>5 DEF Next

\* On any board, whatever the admin does to columns and policy, every card has
\* a column, archived cards sit in done, the trail replays to the card and
\* every reason a card carries or may get back resolves.
THEOREM BoardCorrect == Spec => []BoardInv
  <1>1. BoardInv /\ [Next]_vars => BoardInv'
    BY NextSafe
  <1> QED
    BY <1>1, InitSafe, PTL DEF Spec

\* Removing a column and reopening a card cancelled long ago never leave a card
\* without its column (lane-admin-service.ts remove, card-service.ts reopen).
THEOREM ColumnsCorrect == Spec => []CardHasColumn
  <1>1. BoardInv => CardHasColumn
    BY DEF BoardInv
  <1> QED
    BY <1>1, BoardCorrect, PTL

\* The audit trail tells where a card is, its resolution and its flags.
THEOREM ReplayCorrect == Spec => []ReplayMatches
  <1>1. BoardInv => ReplayMatches
    BY DEF BoardInv
  <1> QED
    BY <1>1, BoardCorrect, PTL

\* Every waiting reason a card carries, or that a reopen may bring back, is a
\* definition the policy still has (policy-service.ts apply).
THEOREM ReasonsCorrect == Spec => []ReasonsResolve
  <1>1. BoardInv => ReasonsResolve
    BY DEF BoardInv
  <1> QED
    BY <1>1, BoardCorrect, PTL

\* Archived cards sit in done.
THEOREM ArchiveCorrect == Spec => []ArchivedInDone
  <1>1. BoardInv => ArchivedInDone
    BY DEF BoardInv
  <1> QED
    BY <1>1, BoardCorrect, PTL

\* On a board whose first column is neither done nor waiting, the waiting
\* fields follow the waiting column, the resolution follows done, and the newest
\* cancel of a trail says what a reopen brings back.
THEOREM DisciplineCorrect ==
    ASSUME PlainEntry
    PROVE  Spec => []DisciplineInv
  <1>1. BoardInv /\ DisciplineInv /\ [Next]_vars => BoardInv' /\ DisciplineInv'
    BY NextSafe
  <1> QED
    BY <1>1, InitSafe, PTL DEF Spec

\* On such boards no card that has left done keeps a resolution, and none in
\* done lacks one (card-service.ts move, cancel, reopen).
THEOREM TerminalCorrect ==
    ASSUME PlainEntry
    PROVE  Spec => []TerminalDiscipline
  <1>1. DisciplineInv => TerminalDiscipline
    BY DEF DisciplineInv
  <1> QED
    BY <1>1, DisciplineCorrect, PTL

-----------------------------------------------------------------------------
(* The stages of CardStates.                                               *)

StageNow == [c \in Ids |-> Stage(cards[c])]

\* The changes of stage CardStates allows one card.
Follows(from, to) ==
    \/ from = to
    \/ from = "absent" /\ to = "open"
    \/ from = "open" /\ to \in {"absent", "completed", "cancelled"}
    \/ from = "completed" /\ to \in {"open", "archived completed"}
    \/ from = "cancelled" /\ to \in {"open", "archived cancelled"}
    \/ from \in {"archived completed", "archived cancelled"} /\ to = "open"

\* A step that changes one row, and its stage as allowed, is a step of
\* CardStates or a stutter.
LEMMA OneRowSteps ==
    ASSUME NEW c \in Ids, \A x \in Ids \ {c} : cards'[x] = cards[x],
           Follows(Stage(cards[c]), Stage(cards'[c]))
    PROVE  [States!Next]_StageNow
  <1> DEFINE from == Stage(cards[c])
             to   == Stage(cards'[c])
  <1>1. StageNow' = [StageNow EXCEPT ![c] = to]
    BY DEF StageNow
  <1>2. StageNow[c] = from
    BY DEF StageNow
  <1> HIDE DEF from, to
  <1>3. CASE from = to
    BY <1>1, <1>2, <1>3 DEF StageNow
  <1>4. ASSUME from # to PROVE States!Next
    <2>1. Follows(from, to)
      BY DEF from, to
    <2>2. \/ from = "absent" /\ to = "open"
          \/ from = "open" /\ to = "absent"
          \/ from = "open" /\ to = "completed"
          \/ from = "open" /\ to = "cancelled"
          \/ from = "completed" /\ to = "archived completed"
          \/ from = "cancelled" /\ to = "archived cancelled"
          \/ from \in States!Stages \ {"absent", "open"} /\ to = "open"
      BY <1>4, <2>1 DEF Follows, States!Stages
    <2>3. States!Step(c, from, to)
      BY <1>1, <1>2 DEF States!Step, StageNow
    <2> QED
      BY <2>2, <2>3 DEF States!Next, States!File, States!Withdraw, States!Complete,
                        States!Abandon, States!Retire, States!Revive
  <1> QED
    BY <1>3, <1>4

\* The stage of a row, from its fields.
LEMMA StageFields ==
    ASSUME NEW card \in Cards
    PROVE  /\ card.resolution = None => Stage(card) = "open"
           /\ card.resolution # None =>
                 Stage(card) =
                   IF card.resolution = "completed"
                   THEN IF card.archived THEN "archived completed" ELSE "completed"
                   ELSE IF card.archived THEN "archived cancelled" ELSE "cancelled"
  BY NullAssumption DEF Stage

\* Rows that agree on their resolution and archived flag are in one stage.
LEMMA SameStage ==
    ASSUME NEW card \in Cards, NEW card2 \in Cards,
           card2.resolution = card.resolution, card2.archived = card.archived
    PROVE  Stage(card2) = Stage(card)
  BY NullAssumption DEF Stage

\* A commit steps from the stage of the old row to the stage of the new one.
LEMMA CommitSteps ==
    ASSUME TypeOK, NEW c \in Ids, Alive(c), NEW card \in Cards, NEW ev,
           Commit(c, card, ev), Follows(Stage(cards[c]), Stage(card))
    PROVE  [States!Next]_StageNow
  <1>1. cards[c].version + 1 \in Nat /\ today \in Days
    BY DEF TypeOK, Alive, Cards
  <1>2. cards'[c] = [card EXCEPT !.version = cards[c].version + 1, !.updated = today]
        /\ \A x \in Ids \ {c} : cards'[x] = cards[x]
    BY DEF Commit, VersionOf, TypeOK
  <1>3. cards'[c] \in Cards /\ cards'[c].resolution = card.resolution
        /\ cards'[c].archived = card.archived
    BY <1>1, <1>2 DEF Cards
  <1>4. Stage(cards'[c]) = Stage(card)
    BY <1>3, SameStage
  <1> QED
    BY <1>2, <1>4, OneRowSteps

-----------------------------------------------------------------------------
(* Each call is a step of CardStates or a stutter.                          *)

\* Calls that leave the resolution and the archived flag alone.
LEMMA QuietSteps ==
    ASSUME BoardInv, NEW c \in Ids,
           \/ \E other \in BOOLEAN, r \in Reasons \cup {None}, d \in Days \cup {None} :
                 Update(c, other, r, d)
           \/ Reorder(c)
           \/ \E flag \in BOOLEAN : SetBlocked(c, flag)
    PROVE  [States!Next]_StageNow
  <1>1. TypeOK /\ Alive(c)
    BY DEF BoardInv, Update, Reorder, SetBlocked, Editable, Open
  <1>2. cards[c] \in Cards
    BY <1>1, BoardInvAt
  <1>3. ASSUME NEW other \in BOOLEAN, NEW r \in Reasons \cup {None},
               NEW d \in Days \cup {None}, Update(c, other, r, d)
        PROVE  [States!Next]_StageNow
    <2> DEFINE card == cards[c]
               edited == [card EXCEPT
                            !.reason  = IF r # None /\ r # card.reason THEN r ELSE @,
                            !.resume  = IF d # None /\ d # card.resume THEN d ELSE @,
                            !.alerted = @ /\ ~Rearms(card, r, d)]
    <2>1. Commit(c, edited, Plain("card.field_changed"))
      BY <1>3 DEF Update
    <2>2. edited \in Cards
      BY <1>2, EditedType
    <2>3. /\ edited.resolution = card.resolution
          /\ edited.archived = card.archived
      BY <1>2 DEF Cards
    <2> HIDE DEF edited
    <2>4. Follows(Stage(card), Stage(edited))
      BY <1>2, <2>2, <2>3, SameStage DEF Follows
    <2> QED
      BY <1>1, <2>1, <2>2, <2>4, CommitSteps
  <1>4. CASE Reorder(c)
    <2>1. Commit(c, cards[c], Plain("card.reordered"))
      BY <1>4 DEF Reorder
    <2>2. Follows(Stage(cards[c]), Stage(cards[c]))
      BY DEF Follows
    <2> QED
      BY <1>1, <1>2, <2>1, <2>2, CommitSteps
  <1>5. ASSUME NEW flag \in BOOLEAN, SetBlocked(c, flag)
        PROVE  [States!Next]_StageNow
    <2> DEFINE row == [cards[c] EXCEPT !.blocked = flag]
    <2>1. Commit(c, row, Plain(IF flag THEN "card.blocked" ELSE "card.unblocked"))
      BY <1>5 DEF SetBlocked
    <2>2. /\ row \in Cards /\ row.resolution = cards[c].resolution
          /\ row.archived = cards[c].archived
      BY <1>2 DEF Cards
    <2> HIDE DEF row
    <2>3. Follows(Stage(cards[c]), Stage(row))
      BY <1>2, <2>2, SameStage DEF Follows
    <2> QED
      BY <1>1, <2>1, <2>2, <2>3, CommitSteps
  <1> QED
    BY <1>3, <1>4, <1>5

\* Moves complete open cards and reopen completed or cancelled ones.
LEMMA MoveSteps ==
    ASSUME BoardInv, NEW c \in Ids, NEW to \in Keys,
           NEW r \in Reasons \cup {None}, NEW d \in Days \cup {None},
           Move(c, to, r, d)
    PROVE  [States!Next]_StageNow
  <1> DEFINE card  == cards[c]
             swept == IF card.lane = Waiting THEN Cleared(card) ELSE card
             placed == IF to = Waiting
                      THEN [card EXCEPT !.reason = r, !.resume = d, !.alerted = FALSE]
                      ELSE swept
             final == [placed EXCEPT !.lane       = to,
                                    !.started    = @ \/ to = InProgress,
                                    !.resolution = ResolutionAfter(card, to)]
             ev    == [Plain("card.status_changed") EXCEPT !.from = card.lane, !.to = to]
  <1>1. Alive(c) /\ ~card.archived /\ to # card.lane /\ Commit(c, final, ev)
    BY DEF Move, Editable, Open
  <1>2. TypeOK /\ card \in Cards
    BY <1>1, BoardInvAt DEF BoardInv
  <1>3. placed \in Cards /\ placed.archived = card.archived
    BY <1>2 DEF Cards, Cleared
  <1>4. ResolutionAfter(card, to) \in Resolutions
    BY <1>2 DEF ResolutionAfter, Resolutions, Cards
  <1>5. /\ final \in Cards /\ final.archived = card.archived
        /\ final.resolution = ResolutionAfter(card, to)
    <2> HIDE DEF placed
    <2> QED BY <1>3, <1>4 DEF Cards
  <1> HIDE DEF final, ev, placed
  <1>6. card.resolution # None => card.lane = Done
    BY <1>1, BoardInvAt
  <1>7. Follows(Stage(card), Stage(final))
    <2>1. Stage(card) \in {"open", "completed", "cancelled"}
      BY <1>1, <1>2, StageFields
    <2>2. CASE to = Done
      <3>1. Stage(card) = "open"
        BY <1>1, <1>2, <1>6, <2>2, StageFields
      <3>2. final.resolution = "completed" /\ "completed" # None
        BY <1>5, <2>2, NoneAssumption DEF ResolutionAfter
      <3>3. Stage(final) = "completed"
        BY <1>1, <1>5, <3>2, StageFields
      <3> QED
        BY <3>1, <3>3 DEF Follows
    <2>3. CASE to # Done
      <3>1. final.resolution = None
        BY <1>5, <1>6, <2>3 DEF ResolutionAfter
      <3>2. Stage(final) = "open"
        BY <1>5, <3>1, StageFields
      <3> QED
        BY <2>1, <3>2 DEF Follows
    <2> QED
      BY <2>2, <2>3
  <1> QED
    BY <1>1, <1>2, <1>5, <1>7, CommitSteps

LEMMA CancelSteps ==
    ASSUME BoardInv, NEW c \in Ids, NEW resolution \in CancelResolutions,
           Cancel(c, resolution)
    PROVE  [States!Next]_StageNow
  <1> DEFINE card  == cards[c]
             final == [Cleared(card) EXCEPT !.lane = Done, !.resolution = resolution]
             ev    == [Plain("card.cancelled") EXCEPT
                         !.from = card.lane, !.resolution = resolution,
                         !.reason = card.reason,
                         !.resume = IF card.reason # None THEN card.resume ELSE None]
  <1>1. Alive(c) /\ ~card.archived /\ card.lane # Done /\ OnBoard(Done)
        /\ Commit(c, final, ev)
    BY DEF Cancel, Editable, Open
  <1>2. TypeOK /\ card \in Cards /\ Done \in Keys
    BY <1>1, BoardInvAt, OnBoardKey DEF BoardInv
  <1>3. Cleared(card) \in Cards /\ Cleared(card).archived = card.archived
    BY <1>2 DEF Cleared, Cards
  <1>4. final \in Cards /\ final.archived = card.archived /\ final.resolution = resolution
    BY <1>2, <1>3 DEF Cards, Resolutions
  <1> HIDE DEF final, ev
  <1>5. Stage(card) = "open"
    BY <1>1, <1>2, BoardInvAt, StageFields
  <1>6. Stage(final) = "cancelled"
    <2>1. resolution # None /\ resolution # "completed"
      BY NoneAssumption, ResolutionsAssumption
    <2> QED
      BY <1>1, <1>4, <2>1, StageFields
  <1>7. Follows(Stage(card), Stage(final))
    BY <1>5, <1>6 DEF Follows
  <1> QED
    BY <1>1, <1>2, <1>4, <1>7, CommitSteps

\* Archive and reopen start from done, where the discipline says the card is
\* completed or cancelled.
LEMMA ArchiveSteps ==
    ASSUME BoardInv, DisciplineInv, NEW c \in Ids, Archive(c)
    PROVE  [States!Next]_StageNow
  <1> DEFINE card  == cards[c]
             final == [card EXCEPT !.archived = TRUE]
  <1>1. Alive(c) /\ ~card.archived /\ card.lane = Done
        /\ Commit(c, final, Plain("card.archived"))
    BY DEF Archive, Editable, Open
  <1>2. TypeOK /\ card \in Cards
    BY <1>1, BoardInvAt DEF BoardInv
  <1>3. /\ final \in Cards /\ final.archived = TRUE
        /\ final.resolution = card.resolution
    BY <1>2 DEF Cards
  <1> HIDE DEF final
  <1>4. card.resolution # None
    BY <1>1, DisciplineAt DEF EndsRight
  <1>5. Stage(card) = IF card.resolution = "completed" THEN "completed" ELSE "cancelled"
    BY <1>1, <1>2, <1>4, StageFields
  <1>6. Stage(final) = IF card.resolution = "completed"
                       THEN "archived completed" ELSE "archived cancelled"
    BY <1>3, <1>4, StageFields
  <1>7. Follows(Stage(card), Stage(final))
    BY <1>5, <1>6 DEF Follows
  <1> QED
    BY <1>1, <1>2, <1>3, <1>7, CommitSteps

LEMMA ReopenSteps ==
    ASSUME BoardInv, DisciplineInv, NEW c \in Ids, Reopen(c)
    PROVE  [States!Next]_StageNow
  <1> DEFINE card     == cards[c]
             restored == RestoredLane(c)
             target   == IF restored # None THEN restored
                         ELSE IF OnBoard(Ready) THEN Ready ELSE FirstLane
             final    == Revived(card, audit[c].cancel, restored, target)
             ev       == [Plain("card.reopened") EXCEPT !.to = target]
  <1>1. Alive(c) /\ card.lane = Done /\ Commit(c, final, ev)
    BY DEF Reopen, Open
  <1>2. TypeOK /\ card \in Cards
    BY <1>1, BoardInvAt DEF BoardInv
  <1>3. target \in Keys
    BY <1>1, <1>2, RestoredLaneFact, OnBoardKey, FirstLaneKey
  <1>4. restored = Waiting => audit[c].cancel \in Events
    BY <1>1, <1>2, RestoredLaneFact, NoneAssumption
  <1> HIDE DEF restored, target
  <1>5. final \in Cards
    BY <1>2, <1>3, <1>4, RevivedType
  <1>6. final.resolution = None
    BY <1>2, <1>5 DEF Revived, Cards
  <1> HIDE DEF final, ev
  <1>7. Stage(card) \in States!Stages \ {"absent", "open"}
    <2>1. card.resolution # None
      BY <1>1, DisciplineAt DEF EndsRight
    <2> QED
      BY <1>2, <2>1, StageFields DEF States!Stages
  <1>8. Stage(final) = "open"
    BY <1>5, <1>6, StageFields
  <1>9. Follows(Stage(card), Stage(final))
    BY <1>7, <1>8 DEF Follows, States!Stages
  <1> QED
    BY <1>1, <1>2, <1>5, <1>9, CommitSteps

LEMMA CreateSteps ==
    ASSUME BoardInv, NEW c \in Ids, Create(c)
    PROVE  [States!Next]_StageNow
  <1>1. TypeOK
    BY DEF BoardInv
  <1>2. cards'[c] = Draft /\ \A x \in Ids \ {c} : cards'[x] = cards[x]
    BY <1>1 DEF Create, TypeOK
  <1>3. cards[c] = None
    BY <1>1 DEF Create, IsNextCardId, Alive, Ids
  <1>4. Draft \in Cards /\ Draft.resolution = None
    BY <1>1, DraftType DEF Draft
  <1>5. Stage(cards[c]) = "absent" /\ Stage(Draft) = "open"
    BY <1>3, <1>4, StageFields DEF Stage
  <1>6. Follows(Stage(cards[c]), Stage(cards'[c]))
    BY <1>2, <1>5 DEF Follows
  <1> QED
    BY <1>2, <1>6, OneRowSteps

\* On a board whose first column is not done, only open cards are discarded.
LEMMA DiscardSteps ==
    ASSUME PlainEntry, BoardInv, NEW c \in Ids, Discard(c)
    PROVE  [States!Next]_StageNow
  <1>1. TypeOK
    BY DEF BoardInv
  <1>2. /\ Alive(c) /\ cards[c].lane = FirstLane
        /\ cards'[c] = None /\ \A x \in Ids \ {c} : cards'[x] = cards[x]
    BY <1>1 DEF Discard, EntryOf, TypeOK
  <1>3. FirstLane # Done
    BY <1>1 DEF PlainEntry, TypeOK, FirstLane
  <1>4. cards[c] \in Cards /\ cards[c].resolution = None
    BY <1>2, <1>3, BoardInvAt
  <1>5. Stage(cards[c]) = "open" /\ Stage(cards'[c]) = "absent"
    BY <1>2, <1>4, StageFields DEF Stage
  <1>6. Follows(Stage(cards[c]), Stage(cards'[c]))
    BY <1>5 DEF Follows
  <1> QED
    BY <1>2, <1>6, OneRowSteps

LEMMA ClaimAlertsSteps ==
    ASSUME BoardInv, ClaimAlerts
    PROVE  StageNow' = StageNow
  <1>1. ASSUME NEW c \in Ids PROVE Stage(cards'[c]) = Stage(cards[c])
    <2>1. CASE DueForAlert(c)
      <3>1. cards[c] \in Cards /\ cards'[c] = [cards[c] EXCEPT !.alerted = TRUE]
        BY <2>1, BoardInvAt DEF DueForAlert, ClaimAlerts
      <3>2. /\ cards'[c] \in Cards /\ cards'[c].resolution = cards[c].resolution
            /\ cards'[c].archived = cards[c].archived
        BY <3>1 DEF Cards
      <3> QED
        BY <3>1, <3>2, SameStage
    <2>2. CASE ~DueForAlert(c)
      BY <2>2 DEF ClaimAlerts
    <2> QED
      BY <2>1, <2>2
  <1> QED
    BY <1>1 DEF StageNow

-----------------------------------------------------------------------------
LEMMA InitSteps == Init => States!Init
  BY DEF Init, Stage, States!Init

LEMMA NextSteps ==
    ASSUME PlainEntry, BoardInv, DisciplineInv, [Next]_vars
    PROVE  [States!Next]_StageNow
  <1>1. ASSUME NEW c \in Ids, CardNext(c) PROVE [States!Next]_StageNow
    BY <1>1, CreateSteps, QuietSteps, MoveSteps, CancelSteps, ReopenSteps,
       ArchiveSteps, DiscardSteps DEF CardNext
  <1>2. CASE ClaimAlerts
    BY <1>2, ClaimAlertsSteps
  <1>3. CASE AdminNext
    BY <1>3 DEF AdminNext, AddLane, RemoveLane, ReorderLanes, ApplyPolicy, StageNow
  <1>4. CASE Tick
    BY <1>4 DEF Tick, StageNow
  <1>5. CASE UNCHANGED vars
    BY <1>5 DEF vars, StageNow
  <1> QED
    BY <1>1, <1>2, <1>3, <1>4, <1>5 DEF Next

\* On a board whose first column is neither done nor waiting, the service
\* implements the stage machine of CardStates: only open drafts disappear,
\* completion and cancellation are never exchanged, an archived card can only
\* be reopened.
THEOREM StagesImplemented ==
    ASSUME PlainEntry
    PROVE  Spec => ImplementsStages
  <1>1. BoardInv /\ DisciplineInv /\ [Next]_vars => BoardInv' /\ DisciplineInv'
    BY NextSafe
  <1>2. BoardInv /\ DisciplineInv /\ [Next]_vars => [States!Next]_StageNow
    BY NextSteps
  <1> QED
    BY <1>1, <1>2, InitSafe, InitSteps, PTL DEF Spec, ImplementsStages, States!Spec, StageNow

-----------------------------------------------------------------------------
(* What a row tells: its version, and its alert flag.                       *)

\* A commit names the card it changes by a new version, and re-arms no alert
\* of the episode that goes on.
LEMMA CommitTells ==
    ASSUME TypeOK, NEW c \in Ids, Alive(c), NEW card \in Cards, NEW ev,
           Commit(c, card, ev),
           cards[c].alerted /\ ~card.alerted
             => card.lane # Waiting \/ card.resume # cards[c].resume
    PROVE  \A x \in Ids : RowTells(x)
  <1>1. cards[c].version + 1 \in Nat /\ cards[c].version \in Nat /\ today \in Days
    BY DEF TypeOK, Alive, Cards
  <1>2. cards'[c] = [card EXCEPT !.version = cards[c].version + 1, !.updated = today]
        /\ \A x \in Ids \ {c} : cards'[x] = cards[x]
    BY DEF Commit, VersionOf, TypeOK
  <1>3. /\ cards'[c].version = cards[c].version + 1
        /\ cards'[c].lane = card.lane /\ cards'[c].resume = card.resume
        /\ cards'[c].alerted = card.alerted
    BY <1>1, <1>2 DEF Cards
  <1>4. RowTells(c)
    BY <1>1, <1>3 DEF RowTells, SameVersionSameCard, RearmedOnlyByNewEpisode
  <1>5. ASSUME NEW x \in Ids \ {c} PROVE RowTells(x)
    <2>1. CASE Alive(x)
      <3>1. cards[x] \in Cards /\ cards'[x] = cards[x]
        BY <1>2, <2>1 DEF TypeOK, Alive
      <3>2. cards[x] = [cards[x] EXCEPT !.alerted = cards[x].alerted]
        BY <3>1 DEF Cards
      <3> QED
        BY <3>1, <3>2 DEF RowTells, SameVersionSameCard, RearmedOnlyByNewEpisode
    <2>2. CASE ~Alive(x)
      BY <2>2 DEF RowTells
    <2> QED
      BY <2>1, <2>2
  <1> QED
    BY <1>4, <1>5

\* Rows that stay as they are tell what they told.
LEMMA SameRowTells ==
    ASSUME TypeOK, NEW x \in Ids, cards'[x] = cards[x]
    PROVE  RowTells(x)
  <1>1. CASE Alive(x)
    <2>1. cards[x] = [cards[x] EXCEPT !.alerted = cards[x].alerted]
      BY <1>1 DEF TypeOK, Alive, Cards
    <2> QED
      BY <2>1 DEF RowTells, SameVersionSameCard, RearmedOnlyByNewEpisode
  <1>2. CASE ~Alive(x)
    BY <1>2 DEF RowTells
  <1> QED
    BY <1>1, <1>2

\* Edits re-arm the alert by a new date only; the flags leave it alone.
LEMMA QuietTells ==
    ASSUME BoardInv, NEW c \in Ids,
           \/ \E other \in BOOLEAN, r \in Reasons \cup {None}, d \in Days \cup {None} :
                 Update(c, other, r, d)
           \/ Reorder(c)
           \/ Archive(c)
           \/ \E flag \in BOOLEAN : SetBlocked(c, flag)
    PROVE  \A x \in Ids : RowTells(x)
  <1>1. TypeOK /\ Alive(c)
    BY DEF BoardInv, Update, Reorder, Archive, SetBlocked, Editable, Open
  <1>2. cards[c] \in Cards
    BY <1>1, BoardInvAt
  <1>3. ASSUME NEW other \in BOOLEAN, NEW r \in Reasons \cup {None},
               NEW d \in Days \cup {None}, Update(c, other, r, d)
        PROVE  \A x \in Ids : RowTells(x)
    <2> DEFINE card == cards[c]
               edited == [card EXCEPT
                            !.reason  = IF r # None /\ r # card.reason THEN r ELSE @,
                            !.resume  = IF d # None /\ d # card.resume THEN d ELSE @,
                            !.alerted = @ /\ ~Rearms(card, r, d)]
    <2>1. Commit(c, edited, Plain("card.field_changed"))
      BY <1>3 DEF Update
    <2>2. edited \in Cards
      BY <1>2, EditedType
    <2>3. /\ edited.resume = IF d # None /\ d # card.resume THEN d ELSE card.resume
          /\ edited.alerted = (card.alerted /\ ~Rearms(card, r, d))
      BY <1>2 DEF Cards
    <2>4. card.alerted /\ ~edited.alerted => edited.resume # card.resume
      BY <2>3 DEF Rearms
    <2> HIDE DEF edited
    <2> QED
      BY <1>1, <2>1, <2>2, <2>4, CommitTells
  <1>4. CASE Reorder(c)
    BY <1>1, <1>2, <1>4, CommitTells DEF Reorder
  <1>5. CASE Archive(c)
    <2>1. /\ [cards[c] EXCEPT !.archived = TRUE] \in Cards
          /\ [cards[c] EXCEPT !.archived = TRUE].alerted = cards[c].alerted
      BY <1>2 DEF Cards
    <2> QED
      BY <1>1, <1>5, <2>1, CommitTells DEF Archive
  <1>6. ASSUME NEW flag \in BOOLEAN, SetBlocked(c, flag)
        PROVE  \A x \in Ids : RowTells(x)
    <2>1. /\ [cards[c] EXCEPT !.blocked = flag] \in Cards
          /\ [cards[c] EXCEPT !.blocked = flag].alerted = cards[c].alerted
      BY <1>2 DEF Cards
    <2> QED
      BY <1>1, <1>6, <2>1, CommitTells DEF SetBlocked
  <1> QED
    BY <1>3, <1>4, <1>5, <1>6

\* A card comes to the waiting column from another one, where the discipline
\* says it is not alerted.
LEMMA MoveTells ==
    ASSUME BoardInv, DisciplineInv, NEW c \in Ids, NEW to \in Keys,
           NEW r \in Reasons \cup {None}, NEW d \in Days \cup {None},
           Move(c, to, r, d)
    PROVE  \A x \in Ids : RowTells(x)
  <1> DEFINE card  == cards[c]
             swept == IF card.lane = Waiting THEN Cleared(card) ELSE card
             placed == IF to = Waiting
                      THEN [card EXCEPT !.reason = r, !.resume = d, !.alerted = FALSE]
                      ELSE swept
             final == [placed EXCEPT !.lane       = to,
                                    !.started    = @ \/ to = InProgress,
                                    !.resolution = ResolutionAfter(card, to)]
             ev    == [Plain("card.status_changed") EXCEPT !.from = card.lane, !.to = to]
  <1>1. Alive(c) /\ to # card.lane /\ Commit(c, final, ev)
    BY DEF Move, Editable, Open
  <1>2. TypeOK /\ card \in Cards
    BY <1>1, BoardInvAt DEF BoardInv
  <1>3. placed \in Cards
    BY <1>2 DEF Cards, Cleared
  <1>4. ResolutionAfter(card, to) \in Resolutions
    BY <1>2 DEF ResolutionAfter, Resolutions, Cards
  <1>5. final \in Cards /\ final.lane = to
    <2> HIDE DEF placed
    <2> QED BY <1>3, <1>4 DEF Cards
  <1> HIDE DEF final, ev, placed
  <1>6. card.alerted => card.lane = Waiting
    BY <1>1, DisciplineAt DEF WaitsRight
  <1>7. card.alerted => final.lane # Waiting
    BY <1>1, <1>5, <1>6
  <1> QED
    BY <1>1, <1>2, <1>5, <1>7, CommitTells

LEMMA CancelTells ==
    ASSUME BoardInv, NEW c \in Ids, NEW resolution \in CancelResolutions,
           Cancel(c, resolution)
    PROVE  \A x \in Ids : RowTells(x)
  <1> DEFINE card  == cards[c]
             final == [Cleared(card) EXCEPT !.lane = Done, !.resolution = resolution]
             ev    == [Plain("card.cancelled") EXCEPT
                         !.from = card.lane, !.resolution = resolution,
                         !.reason = card.reason,
                         !.resume = IF card.reason # None THEN card.resume ELSE None]
  <1>1. Alive(c) /\ OnBoard(Done) /\ Commit(c, final, ev)
    BY DEF Cancel, Editable, Open
  <1>2. TypeOK /\ card \in Cards /\ Done \in Keys
    BY <1>1, BoardInvAt, OnBoardKey DEF BoardInv
  <1>3. Cleared(card) \in Cards
    BY <1>2 DEF Cleared, Cards
  <1>4. final \in Cards /\ final.lane = Done
    BY <1>2, <1>3 DEF Cards, Resolutions
  <1> HIDE DEF final, ev
  <1> QED
    BY <1>1, <1>2, <1>4, CommitTells DEF Done, Waiting

\* A card in done was not alerted, so reopen has no flag to clear.
LEMMA ReopenTells ==
    ASSUME BoardInv, DisciplineInv, NEW c \in Ids, Reopen(c)
    PROVE  \A x \in Ids : RowTells(x)
  <1> DEFINE card     == cards[c]
             restored == RestoredLane(c)
             target   == IF restored # None THEN restored
                         ELSE IF OnBoard(Ready) THEN Ready ELSE FirstLane
             final    == Revived(card, audit[c].cancel, restored, target)
             ev       == [Plain("card.reopened") EXCEPT !.to = target]
  <1>1. Alive(c) /\ card.lane = Done /\ Commit(c, final, ev)
    BY DEF Reopen, Open
  <1>2. TypeOK /\ card \in Cards
    BY <1>1, BoardInvAt DEF BoardInv
  <1>3. target \in Keys
    BY <1>1, <1>2, RestoredLaneFact, OnBoardKey, FirstLaneKey
  <1>4. restored = Waiting => audit[c].cancel \in Events
    BY <1>1, <1>2, RestoredLaneFact, NoneAssumption
  <1> HIDE DEF restored, target
  <1>5. final \in Cards
    BY <1>2, <1>3, <1>4, RevivedType
  <1> HIDE DEF final, ev
  <1>6. ~card.alerted
    BY <1>1, DisciplineAt DEF WaitsRight, Done, Waiting
  <1> QED
    BY <1>1, <1>2, <1>5, <1>6, CommitTells

LEMMA BirthTells ==
    ASSUME BoardInv, NEW c \in Ids, Create(c) \/ Discard(c)
    PROVE  \A x \in Ids : RowTells(x)
  <1>1. TypeOK
    BY DEF BoardInv
  <1>2. \A x \in Ids \ {c} : cards'[x] = cards[x]
    BY <1>1 DEF Create, Discard, TypeOK
  <1>3. CASE Create(c)
    <2>1. ~Alive(c)
      BY <1>3 DEF Create, IsNextCardId, Alive, Ids
    <2> QED
      BY <1>1, <1>2, <2>1, SameRowTells DEF RowTells
  <1>4. CASE Discard(c)
    <2>1. cards'[c] = None
      BY <1>1, <1>4 DEF Discard, TypeOK
    <2> QED
      BY <1>1, <1>2, <2>1, SameRowTells DEF RowTells
  <1> QED
    BY <1>3, <1>4

LEMMA ClaimAlertsTells ==
    ASSUME BoardInv, ClaimAlerts
    PROVE  \A x \in Ids : RowTells(x)
  <1>1. TypeOK
    BY DEF BoardInv
  <1>2. ASSUME NEW x \in Ids PROVE RowTells(x)
    <2>1. CASE DueForAlert(x)
      <3>1. cards[x] \in Cards /\ cards'[x] = [cards[x] EXCEPT !.alerted = TRUE]
        BY <2>1, BoardInvAt DEF DueForAlert, ClaimAlerts
      <3>2. cards'[x].alerted = TRUE
        BY <3>1 DEF Cards
      <3>3. SameVersionSameCard(x)
        BY <3>1, <3>2 DEF SameVersionSameCard
      <3> QED
        BY <3>2, <3>3 DEF RowTells, RearmedOnlyByNewEpisode
    <2>2. CASE ~DueForAlert(x)
      BY <1>1, <2>2, SameRowTells DEF ClaimAlerts
    <2> QED
      BY <2>1, <2>2
  <1> QED
    BY <1>2

LEMMA NextTells ==
    ASSUME BoardInv, DisciplineInv, [Next]_vars
    PROVE  \A x \in Ids : RowTells(x)
  <1>1. ASSUME NEW c \in Ids, CardNext(c) PROVE \A x \in Ids : RowTells(x)
    BY <1>1, BirthTells, QuietTells, MoveTells, CancelTells, ReopenTells DEF CardNext
  <1>2. CASE ClaimAlerts
    BY <1>2, ClaimAlertsTells
  <1>3. CASE cards' = cards
    BY <1>3, SameRowTells DEF BoardInv
  <1>4. AdminNext \/ Tick \/ UNCHANGED vars => cards' = cards
    BY DEF AdminNext, AddLane, RemoveLane, ReorderLanes, ApplyPolicy, Tick, vars
  <1> QED
    BY <1>1, <1>2, <1>3, <1>4 DEF Next

\* On a board with a plain first column a row that kept its version is the row
\* it was but for the alert flag, and that flag is re-armed only by a new date
\* or by leaving the waiting column (card-service.ts update, move, reopen).
THEOREM VersionsAndAlertsCorrect ==
    ASSUME PlainEntry
    PROVE  Spec => VersionsAndAlertsTell
  <1>1. BoardInv /\ DisciplineInv /\ [Next]_vars => BoardInv' /\ DisciplineInv'
    BY NextSafe
  <1>2. BoardInv /\ DisciplineInv /\ [Next]_vars => [\A c \in Ids : RowTells(c)]_vars
    BY NextTells
  <1> QED
    BY <1>1, <1>2, InitSafe, PTL DEF Spec, VersionsAndAlertsTell

-----------------------------------------------------------------------------
(* What reopen brings back.                                                 *)

\* While a card has the resolution of a cancel, its newest card.cancelled and
\* its work start are those of the row the cancel found.  Every call on a card
\* in done keeps both, but a move out of it ends the resolution.
KeptAt(c) ==
    /\ prior[c] \in Cards
    /\ prior[c].lane # Done /\ WaitsRight(prior[c])
    /\ audit[c].cancel \in Events
    /\ audit[c].cancel.from = prior[c].lane
    /\ audit[c].cancel.reason = prior[c].reason
    /\ audit[c].cancel.resume = prior[c].resume
    /\ cards[c].started = prior[c].started

CancelKept ==
    \A c \in Ids : Alive(c) /\ cards[c].resolution \in CancelResolutions => KeptAt(c)

\* A commit without a cancel keeps it when it keeps the resolution, if that is
\* one of a cancel, and the work start with it.
LEMMA CommitKeepsCancel ==
    ASSUME TypeOK, CancelKept, NEW c \in Ids, Alive(c), NEW card \in Cards,
           NEW ev \in Events, ev.type # "card.cancelled",
           ev.type \in {"card.status_changed", "card.reopened"} => ev.to \in Keys,
           Commit(c, card, ev), prior' = prior,
           card.resolution \in CancelResolutions
             => card.resolution = cards[c].resolution /\ card.started = cards[c].started
    PROVE  CancelKept'
  <1>1. /\ cards'[c].resolution = card.resolution /\ cards'[c].started = card.started
        /\ audit'[c] = Appended(audit[c], ev)
        /\ \A x \in Ids \ {c} : cards'[x] = cards[x] /\ audit'[x] = audit[x]
    BY CommitEffect
  <1>2. audit'[c].cancel = audit[c].cancel
    BY <1>1 DEF Appended
  <1>3. card.resolution \in CancelResolutions => KeptAt(c)'
    BY <1>1, <1>2 DEF CancelKept, KeptAt, WaitsRight
  <1>4. \A x \in Ids \ {c} : Alive(x)' /\ cards'[x].resolution \in CancelResolutions
                             => KeptAt(x)'
    BY <1>1 DEF CancelKept, KeptAt, WaitsRight, Alive
  <1> QED
    BY <1>1, <1>3, <1>4 DEF CancelKept

LEMMA QuietKeepsCancel ==
    ASSUME BoardInv, CancelKept, NEW c \in Ids,
           \/ \E other \in BOOLEAN, r \in Reasons \cup {None}, d \in Days \cup {None} :
                 Update(c, other, r, d)
           \/ Reorder(c)
           \/ Archive(c)
           \/ \E flag \in BOOLEAN : SetBlocked(c, flag)
    PROVE  CancelKept'
  <1>1. TypeOK /\ Alive(c)
    BY DEF BoardInv, Update, Reorder, Archive, SetBlocked, Editable, Open
  <1>2. cards[c] \in Cards
    BY <1>1, BoardInvAt
  <1>3. ASSUME NEW type \in {"card.field_changed", "card.reordered", "card.archived",
                             "card.blocked", "card.unblocked"}
        PROVE  Plain(type) \in Events /\ Plain(type).type = type
    BY <1>1, PlainType DEF EventTypes, Plain
  <1>4. ASSUME NEW other \in BOOLEAN, NEW r \in Reasons \cup {None},
               NEW d \in Days \cup {None}, Update(c, other, r, d)
        PROVE  CancelKept'
    <2> DEFINE card == cards[c]
               edited == [card EXCEPT
                            !.reason  = IF r # None /\ r # card.reason THEN r ELSE @,
                            !.resume  = IF d # None /\ d # card.resume THEN d ELSE @,
                            !.alerted = @ /\ ~Rearms(card, r, d)]
    <2>1. Commit(c, edited, Plain("card.field_changed")) /\ prior' = prior
      BY <1>4 DEF Update
    <2>2. edited \in Cards
      BY <1>2, EditedType
    <2>3. edited.resolution = card.resolution /\ edited.started = card.started
      BY <1>2 DEF Cards
    <2> HIDE DEF edited
    <2> QED
      BY <1>1, <1>3, <2>1, <2>2, <2>3, CommitKeepsCancel
  <1>5. CASE Reorder(c)
    BY <1>1, <1>2, <1>3, <1>5, CommitKeepsCancel DEF Reorder
  <1>6. CASE Archive(c)
    <2> DEFINE row == [cards[c] EXCEPT !.archived = TRUE]
    <2>1. Commit(c, row, Plain("card.archived")) /\ prior' = prior
      BY <1>6 DEF Archive
    <2>2. row \in Cards /\ row.resolution = cards[c].resolution
          /\ row.started = cards[c].started
      BY <1>2 DEF Cards
    <2> HIDE DEF row
    <2> QED
      BY <1>1, <1>3, <2>1, <2>2, CommitKeepsCancel
  <1>7. ASSUME NEW flag \in BOOLEAN, SetBlocked(c, flag) PROVE CancelKept'
    <2> DEFINE row == [cards[c] EXCEPT !.blocked = flag]
    <2>1. PICK type \in {"card.blocked", "card.unblocked"} :
             Commit(c, row, Plain(type)) /\ prior' = prior
      BY <1>7 DEF SetBlocked
    <2>2. row \in Cards /\ row.resolution = cards[c].resolution
          /\ row.started = cards[c].started
      BY <1>2 DEF Cards
    <2> HIDE DEF row
    <2> QED
      BY <1>1, <1>3, <2>1, <2>2, CommitKeepsCancel
  <1> QED
    BY <1>4, <1>5, <1>6, <1>7

\* A moved card is completed or has no resolution.
LEMMA MoveKeepsCancel ==
    ASSUME BoardInv, CancelKept, NEW c \in Ids, NEW to \in Keys,
           NEW r \in Reasons \cup {None}, NEW d \in Days \cup {None},
           Move(c, to, r, d)
    PROVE  CancelKept'
  <1> DEFINE card  == cards[c]
             swept == IF card.lane = Waiting THEN Cleared(card) ELSE card
             placed == IF to = Waiting
                      THEN [card EXCEPT !.reason = r, !.resume = d, !.alerted = FALSE]
                      ELSE swept
             final == [placed EXCEPT !.lane       = to,
                                    !.started    = @ \/ to = InProgress,
                                    !.resolution = ResolutionAfter(card, to)]
             ev    == [Plain("card.status_changed") EXCEPT !.from = card.lane, !.to = to]
  <1>1. Alive(c) /\ to # card.lane /\ Commit(c, final, ev) /\ prior' = prior
    BY DEF Move, Editable, Open
  <1>2. TypeOK /\ card \in Cards
    BY <1>1, BoardInvAt DEF BoardInv
  <1>3. placed \in Cards
    BY <1>2 DEF Cards, Cleared
  <1>4. ResolutionAfter(card, to) \in Resolutions
    BY <1>2 DEF ResolutionAfter, Resolutions, Cards
  <1>5. final \in Cards /\ final.resolution = ResolutionAfter(card, to)
    <2> HIDE DEF placed
    <2> QED BY <1>3, <1>4 DEF Cards
  <1>6. card.resolution # None => card.lane = Done
    BY <1>1, BoardInvAt
  <1>7. ResolutionAfter(card, to) \in {"completed", None}
    BY <1>6 DEF ResolutionAfter
  <1>8. card.lane \in Keys
    BY <1>2 DEF Cards
  <1>9. ev \in Events /\ ev.type = "card.status_changed" /\ ev.to = to
    BY <1>2, <1>8 DEF Plain, Events, EventTypes, Resolutions, TypeOK
  <1> HIDE DEF final, ev, placed
  <1>10. final.resolution \notin CancelResolutions
    BY <1>5, <1>7, NoneAssumption, ResolutionsAssumption
  <1> QED
    BY <1>1, <1>2, <1>5, <1>9, <1>10, CommitKeepsCancel

\* A cancel records what it found.
LEMMA CancelKeepsCancel ==
    ASSUME BoardInv, DisciplineInv, CancelKept, NEW c \in Ids,
           NEW resolution \in CancelResolutions, Cancel(c, resolution)
    PROVE  CancelKept'
  <1> DEFINE card  == cards[c]
             final == [Cleared(card) EXCEPT !.lane = Done, !.resolution = resolution]
             ev    == [Plain("card.cancelled") EXCEPT
                         !.from = card.lane, !.resolution = resolution,
                         !.reason = card.reason,
                         !.resume = IF card.reason # None THEN card.resume ELSE None]
  <1>1. /\ Alive(c) /\ card.lane # Done /\ OnBoard(Done) /\ Commit(c, final, ev)
        /\ prior' = [prior EXCEPT ![c] = card]
    BY DEF Cancel, Editable, Open
  <1>2. TypeOK /\ card \in Cards /\ Done \in Keys /\ WaitsRight(card)
    BY <1>1, BoardInvAt, DisciplineAt, OnBoardKey DEF BoardInv
  <1>3. prior'[c] = card /\ \A x \in Ids \ {c} : prior'[x] = prior[x]
    BY <1>1, <1>2 DEF TypeOK
  <1>4. Cleared(card) \in Cards /\ Cleared(card).started = card.started
    BY <1>2 DEF Cleared, Cards
  <1>5. final \in Cards /\ final.started = card.started
    BY <1>2, <1>4 DEF Cards, Resolutions
  <1>6. /\ ev \in Events /\ ev.type = "card.cancelled" /\ ev.from = card.lane
        /\ ev.reason = card.reason
        /\ ev.resume = IF card.reason # None THEN card.resume ELSE None
    BY <1>2 DEF Plain, Events, EventTypes, Resolutions, TypeOK, Cards
  <1>7. ev.resume = card.resume
    BY <1>2, <1>6 DEF WaitsRight
  <1> HIDE DEF final, ev
  <1>8. /\ cards'[c].started = card.started
        /\ audit'[c] = Appended(audit[c], ev)
        /\ \A x \in Ids \ {c} : cards'[x] = cards[x] /\ audit'[x] = audit[x]
    BY <1>1, <1>2, <1>5, <1>6, CommitEffect
  <1>9. audit'[c].cancel = ev
    BY <1>6, <1>8 DEF Appended
  <1> HIDE DEF card
  <1>10. KeptAt(c)'
    BY <1>1, <1>2, <1>3, <1>6, <1>7, <1>8, <1>9 DEF KeptAt, WaitsRight
  <1>11. \A x \in Ids \ {c} : Alive(x)' /\ cards'[x].resolution \in CancelResolutions
                              => KeptAt(x)'
    BY <1>3, <1>8 DEF CancelKept, KeptAt, WaitsRight, Alive
  <1> QED
    BY <1>10, <1>11 DEF CancelKept

\* A reopened card has no resolution.
LEMMA ReopenKeepsCancel ==
    ASSUME BoardInv, CancelKept, NEW c \in Ids, Reopen(c)
    PROVE  CancelKept'
  <1> DEFINE card     == cards[c]
             restored == RestoredLane(c)
             target   == IF restored # None THEN restored
                         ELSE IF OnBoard(Ready) THEN Ready ELSE FirstLane
             final    == Revived(card, audit[c].cancel, restored, target)
             ev       == [Plain("card.reopened") EXCEPT !.to = target]
  <1>1. Alive(c) /\ Commit(c, final, ev) /\ prior' = prior
    BY DEF Reopen, Open
  <1>2. TypeOK /\ card \in Cards
    BY <1>1, BoardInvAt DEF BoardInv
  <1>3. target \in Keys
    BY <1>1, <1>2, RestoredLaneFact, OnBoardKey, FirstLaneKey
  <1>4. restored = Waiting => audit[c].cancel \in Events
    BY <1>1, <1>2, RestoredLaneFact, NoneAssumption
  <1>5. ev \in Events /\ ev.type = "card.reopened" /\ ev.to = target
    <2> HIDE DEF target
    <2> QED BY <1>2, <1>3 DEF Plain, Events, EventTypes, Resolutions, TypeOK
  <1> HIDE DEF restored, target
  <1>6. final \in Cards
    BY <1>2, <1>3, <1>4, RevivedType
  <1>7. final.resolution = None
    BY <1>2, <1>6 DEF Revived, Cards
  <1> HIDE DEF final, ev
  <1>8. final.resolution \notin CancelResolutions
    BY <1>7, NoneAssumption
  <1> QED
    BY <1>1, <1>2, <1>3, <1>5, <1>6, <1>8, CommitKeepsCancel

\* A new card was not cancelled, and nothing is left of a discarded one.
LEMMA BirthKeepsCancel ==
    ASSUME BoardInv, CancelKept, NEW c \in Ids, Create(c) \/ Discard(c)
    PROVE  CancelKept'
  <1>1. TypeOK
    BY DEF BoardInv
  <1>2. \A x \in Ids \ {c} : /\ cards'[x] = cards[x] /\ audit'[x] = audit[x]
                             /\ prior'[x] = prior[x]
    BY <1>1 DEF Create, Discard, TrailsErased, TypeOK
  <1>3. Alive(c)' => cards'[c].resolution \notin CancelResolutions
    <2>1. CASE Create(c)
      BY <1>1, <2>1, NoneAssumption DEF Create, Draft, TypeOK
    <2>2. CASE Discard(c)
      BY <1>1, <2>2 DEF Discard, Alive, TypeOK
    <2> QED
      BY <2>1, <2>2
  <1>4. \A x \in Ids \ {c} : Alive(x)' /\ cards'[x].resolution \in CancelResolutions
                             => KeptAt(x)'
    BY <1>2 DEF CancelKept, KeptAt, WaitsRight, Alive
  <1> QED
    BY <1>3, <1>4 DEF CancelKept

LEMMA ClaimAlertsKeepsCancel ==
    ASSUME BoardInv, CancelKept, ClaimAlerts
    PROVE  CancelKept'
  <1>1. ASSUME NEW x \in Ids, Alive(x)', cards'[x].resolution \in CancelResolutions
        PROVE  KeptAt(x)'
    <2>1. /\ Alive(x) /\ cards'[x].resolution = cards[x].resolution
          /\ cards'[x].started = cards[x].started
      <3>1. CASE DueForAlert(x)
        <4>1. Alive(x) /\ cards[x] \in Cards
          BY <3>1, BoardInvAt DEF DueForAlert
        <4>2. cards'[x] = [cards[x] EXCEPT !.alerted = TRUE]
          BY <3>1 DEF ClaimAlerts
        <4> QED
          BY <4>1, <4>2 DEF Cards
      <3>2. CASE ~DueForAlert(x)
        BY <1>1, <3>2 DEF ClaimAlerts, Alive
      <3> QED
        BY <3>1, <3>2
    <2>2. KeptAt(x)
      BY <1>1, <2>1 DEF CancelKept
    <2> QED
      BY <2>1, <2>2 DEF KeptAt, WaitsRight, ClaimAlerts
  <1> QED
    BY <1>1 DEF CancelKept

LEMMA NextKeepsCancel ==
    ASSUME BoardInv, DisciplineInv, CancelKept, [Next]_vars
    PROVE  CancelKept'
  <1>1. ASSUME NEW c \in Ids, CardNext(c) PROVE CancelKept'
    BY <1>1, BirthKeepsCancel, QuietKeepsCancel, MoveKeepsCancel, CancelKeepsCancel,
       ReopenKeepsCancel DEF CardNext
  <1>2. CASE ClaimAlerts
    BY <1>2, ClaimAlertsKeepsCancel
  <1>3. CASE UNCHANGED <<cards, audit, prior>>
    BY <1>3 DEF CancelKept, KeptAt, WaitsRight, Alive
  <1>4. AdminNext \/ Tick \/ UNCHANGED vars => UNCHANGED <<cards, audit, prior>>
    BY DEF AdminNext, AddLane, RemoveLane, ReorderLanes, ApplyPolicy, Tick, vars
  <1> QED
    BY <1>1, <1>2, <1>3, <1>4 DEF Next

\* What a reopen writes, given what the cancel left.
LEMMA ReopenReturns ==
    ASSUME BoardInv, DisciplineInv, CancelKept, NEW c \in Ids
    PROVE  ReturnsExactly(c)
  <1> SUFFICES ASSUME Reopen(c), cards[c].resolution \in CancelResolutions,
                      OnBoard(prior[c].lane)
               PROVE  /\ cards'[c].lane    = prior[c].lane
                      /\ cards'[c].reason  = prior[c].reason
                      /\ cards'[c].resume  = prior[c].resume
                      /\ cards'[c].started = prior[c].started
    BY DEF ReturnsExactly
  <1> DEFINE card     == cards[c]
             cancel   == audit[c].cancel
             restored == RestoredLane(c)
             target   == IF restored # None THEN restored
                         ELSE IF OnBoard(Ready) THEN Ready ELSE FirstLane
             final    == Revived(card, cancel, restored, target)
             ev       == [Plain("card.reopened") EXCEPT !.to = target]
  <1>1. Alive(c) /\ card.lane = Done /\ Commit(c, final, ev)
    BY DEF Reopen, Open
  <1>2. TypeOK /\ card \in Cards
    BY <1>1, BoardInvAt DEF BoardInv
  <1>3. /\ prior[c] \in Cards /\ prior[c].lane # Done /\ WaitsRight(prior[c])
        /\ cancel \in Events /\ cancel.from = prior[c].lane
        /\ cancel.reason = prior[c].reason /\ cancel.resume = prior[c].resume
        /\ card.started = prior[c].started
    BY <1>1 DEF CancelKept, KeptAt
  <1>4. prior[c].lane \in Keys /\ prior[c].lane # None
    BY <1>3, NoneAssumption DEF Cards
  <1>5. restored = prior[c].lane
    <2>1. card.resolution \notin {None, "completed"}
      BY NoneAssumption, ResolutionsAssumption
    <2>2. cancel # None
      BY <1>3, NullAssumption
    <2>3. ~(cancel.from = Waiting /\ cancel.reason = None)
      BY <1>3 DEF WaitsRight
    <2> QED
      BY <1>3, <2>1, <2>2, <2>3 DEF RestoredLane
  <1>6. target = prior[c].lane
    BY <1>4, <1>5
  <1>7. card.reason = None /\ card.resume = None
    BY <1>1, DisciplineAt DEF WaitsRight, Done, Waiting
  <1>8. ev \in Events /\ ev.type = "card.reopened" /\ ev.to = target
    <2> HIDE DEF target
    <2> QED BY <1>2, <1>4, <1>6 DEF Plain, Events, EventTypes, Resolutions, TypeOK
  <1> HIDE DEF target, restored, ev, cancel, card
  <1>9. final \in Cards
    BY <1>2, <1>3, <1>4, <1>6, RevivedType
  <1>10. /\ final.lane = target
         /\ final.reason  = IF restored = Waiting THEN cancel.reason ELSE card.reason
         /\ final.resume  = IF restored = Waiting THEN cancel.resume ELSE card.resume
         /\ final.started = (card.started /\ restored # None)
    BY <1>2, <1>9 DEF Revived, Cards
  <1> HIDE DEF final
  <1>11. final.reason = prior[c].reason /\ final.resume = prior[c].resume
    BY <1>3, <1>5, <1>7, <1>10 DEF WaitsRight
  <1>12. final.started = prior[c].started
    <2>1. card.started \in BOOLEAN
      BY <1>2 DEF Cards
    <2> QED
      BY <1>3, <1>4, <1>5, <1>10, <2>1
  <1>13. /\ cards'[c].lane = final.lane /\ cards'[c].reason = final.reason
         /\ cards'[c].resume = final.resume /\ cards'[c].started = final.started
    BY <1>1, <1>2, <1>4, <1>6, <1>8, <1>9, CommitEffect
  <1> QED
    BY <1>6, <1>10, <1>11, <1>12, <1>13

\* On a board with a plain first column a cancelled card that is reopened, now
\* or after any number of edits, archivals and changes of columns and policy,
\* is back in the column the cancel found it in, with its waiting fields and its
\* work start, if that column is there (card-service.ts cancel, reopen).
THEOREM ReopenCorrect ==
    ASSUME PlainEntry
    PROVE  Spec => ReopenRestores
  <1>1. Init => CancelKept
    BY DEF Init, CancelKept, Alive
  <1>2. BoardInv /\ DisciplineInv /\ CancelKept /\ [Next]_vars
          => BoardInv' /\ DisciplineInv' /\ CancelKept'
    BY NextSafe, NextKeepsCancel
  <1>3. BoardInv /\ DisciplineInv /\ CancelKept /\ [Next]_vars
          => [\A c \in Ids : ReturnsExactly(c)]_vars
    BY ReopenReturns
  <1> QED
    BY <1>1, <1>2, <1>3, InitSafe, PTL DEF Spec, ReopenRestores

-----------------------------------------------------------------------------
(* Work comes before completion.                                            *)

\* W is a set of columns behind in_progress: no arrangement starts with one of
\* them, a reopen does not fall back to one, and every graph enters them, and
\* done, from one of them or by in_progress itself.  The seeded graph has such a
\* set: in_progress, waiting_parts_vendor and review.
BehindWork(W) ==
    /\ Done \notin W /\ Ready \notin W
    /\ \A l \in Layouts : l[1] \notin W
    /\ \A g \in Graphs, from, to \in Keys :
          <<from, to>> \in g /\ to \in W \cup {Done} => to = InProgress \/ from \in W

\* A row in one of them, completed, or cancelled there, has its work start.
RowWorked(W, card, before) ==
    /\ card.lane \in W => card.started
    /\ card.resolution = "completed" => card.started
    /\ card.resolution \in CancelResolutions /\ before.lane \in W => card.started

WorkInv(W) == \A c \in Ids : Alive(c) => RowWorked(W, cards[c], prior[c])

LEMMA CommitKeepsWork ==
    ASSUME NEW W, TypeOK, WorkInv(W), NEW c \in Ids, Alive(c), NEW card \in Cards,
           NEW ev, Commit(c, card, ev),
           \A x \in Ids \ {c} : prior'[x] = prior[x],
           RowWorked(W, card, prior'[c])
    PROVE  WorkInv(W)'
  <1>1. cards[c].version + 1 \in Nat /\ today \in Days
    BY DEF TypeOK, Alive, Cards
  <1>2. cards'[c] = [card EXCEPT !.version = cards[c].version + 1, !.updated = today]
        /\ \A x \in Ids \ {c} : cards'[x] = cards[x]
    BY DEF Commit, VersionOf, TypeOK
  <1>3. /\ cards'[c].lane = card.lane /\ cards'[c].resolution = card.resolution
        /\ cards'[c].started = card.started
    BY <1>1, <1>2 DEF Cards
  <1>4. RowWorked(W, cards'[c], prior'[c])
    BY <1>3 DEF RowWorked
  <1>5. \A x \in Ids \ {c} : Alive(x)' => RowWorked(W, cards'[x], prior'[x])
    BY <1>2 DEF WorkInv, Alive
  <1> QED
    BY <1>4, <1>5 DEF WorkInv

LEMMA QuietKeepsWork ==
    ASSUME NEW W, BoardInv, WorkInv(W), NEW c \in Ids,
           \/ \E other \in BOOLEAN, r \in Reasons \cup {None}, d \in Days \cup {None} :
                 Update(c, other, r, d)
           \/ Reorder(c)
           \/ Archive(c)
           \/ \E flag \in BOOLEAN : SetBlocked(c, flag)
    PROVE  WorkInv(W)'
  <1>1. TypeOK /\ Alive(c) /\ prior' = prior
    BY DEF BoardInv, Update, Reorder, Archive, SetBlocked, Editable, Open
  <1>2. cards[c] \in Cards /\ RowWorked(W, cards[c], prior[c])
    BY <1>1, BoardInvAt DEF WorkInv
  <1>3. ASSUME NEW row \in Cards, row.lane = cards[c].lane,
               row.resolution = cards[c].resolution, row.started = cards[c].started,
               NEW ev, Commit(c, row, ev)
        PROVE  WorkInv(W)'
    <2>1. RowWorked(W, row, prior'[c])
      BY <1>1, <1>2, <1>3 DEF RowWorked
    <2> QED
      BY <1>1, <1>3, <2>1, CommitKeepsWork
  <1>4. ASSUME NEW other \in BOOLEAN, NEW r \in Reasons \cup {None},
               NEW d \in Days \cup {None}, Update(c, other, r, d)
        PROVE  WorkInv(W)'
    <2> DEFINE card == cards[c]
               edited == [card EXCEPT
                            !.reason  = IF r # None /\ r # card.reason THEN r ELSE @,
                            !.resume  = IF d # None /\ d # card.resume THEN d ELSE @,
                            !.alerted = @ /\ ~Rearms(card, r, d)]
    <2>1. Commit(c, edited, Plain("card.field_changed"))
      BY <1>4 DEF Update
    <2>2. edited \in Cards
      BY <1>2, EditedType
    <2>3. /\ edited.lane = card.lane /\ edited.resolution = card.resolution
          /\ edited.started = card.started
      BY <1>2 DEF Cards
    <2> HIDE DEF edited
    <2> QED
      BY <1>3, <2>1, <2>2, <2>3
  <1>5. CASE Reorder(c)
    BY <1>2, <1>3, <1>5 DEF Reorder
  <1>6. CASE Archive(c)
    <2> DEFINE row == [cards[c] EXCEPT !.archived = TRUE]
    <2>1. Commit(c, row, Plain("card.archived"))
      BY <1>6 DEF Archive
    <2>2. /\ row \in Cards /\ row.lane = cards[c].lane
          /\ row.resolution = cards[c].resolution /\ row.started = cards[c].started
      BY <1>2 DEF Cards
    <2> HIDE DEF row
    <2> QED
      BY <1>3, <2>1, <2>2
  <1>7. ASSUME NEW flag \in BOOLEAN, SetBlocked(c, flag) PROVE WorkInv(W)'
    <2> DEFINE row == [cards[c] EXCEPT !.blocked = flag]
    <2>1. PICK ev : Commit(c, row, ev)
      BY <1>7 DEF SetBlocked
    <2>2. /\ row \in Cards /\ row.lane = cards[c].lane
          /\ row.resolution = cards[c].resolution /\ row.started = cards[c].started
      BY <1>2 DEF Cards
    <2> HIDE DEF row
    <2> QED
      BY <1>3, <2>1, <2>2
  <1> QED
    BY <1>4, <1>5, <1>6, <1>7

\* Only a move to in_progress comes from outside, and stamps the work start.
LEMMA MoveKeepsWork ==
    ASSUME NEW W, BehindWork(W), BoardInv, WorkInv(W), NEW c \in Ids, NEW to \in Keys,
           NEW r \in Reasons \cup {None}, NEW d \in Days \cup {None},
           Move(c, to, r, d)
    PROVE  WorkInv(W)'
  <1> DEFINE card  == cards[c]
             swept == IF card.lane = Waiting THEN Cleared(card) ELSE card
             placed == IF to = Waiting
                      THEN [card EXCEPT !.reason = r, !.resume = d, !.alerted = FALSE]
                      ELSE swept
             final == [placed EXCEPT !.lane       = to,
                                    !.started    = @ \/ to = InProgress,
                                    !.resolution = ResolutionAfter(card, to)]
             ev    == [Plain("card.status_changed") EXCEPT !.from = card.lane, !.to = to]
  <1>1. Alive(c) /\ <<card.lane, to>> \in graph /\ Commit(c, final, ev) /\ prior' = prior
    BY DEF Move, Editable, Open, Allowed
  <1>2. TypeOK /\ card \in Cards /\ RowWorked(W, card, prior[c])
    BY <1>1, BoardInvAt DEF BoardInv, WorkInv
  <1>3. placed \in Cards /\ placed.started = card.started
    BY <1>2 DEF Cards, Cleared
  <1>4. ResolutionAfter(card, to) \in Resolutions
    BY <1>2 DEF ResolutionAfter, Resolutions, Cards
  <1>5. /\ final \in Cards /\ final.lane = to
        /\ final.started = (card.started \/ to = InProgress)
        /\ final.resolution = ResolutionAfter(card, to)
    <2> HIDE DEF placed
    <2> QED BY <1>3, <1>4 DEF Cards
  <1> HIDE DEF final, ev, placed
  <1>6. card.resolution # None => card.lane = Done
    BY <1>1, BoardInvAt
  <1>7. final.resolution = IF to = Done THEN "completed" ELSE None
    BY <1>5, <1>6 DEF ResolutionAfter
  <1>8. final.resolution \notin CancelResolutions
    BY <1>7, NoneAssumption, ResolutionsAssumption
  <1>9. to \in W \cup {Done} => to = InProgress \/ card.lane \in W
    BY <1>1, <1>2 DEF BehindWork, TypeOK, Cards
  <1>10. to \in W \cup {Done} => final.started
    BY <1>2, <1>5, <1>9 DEF RowWorked
  <1>11. RowWorked(W, final, prior'[c])
    BY <1>5, <1>7, <1>8, <1>10, NoneAssumption DEF RowWorked
  <1> QED
    BY <1>1, <1>2, <1>5, <1>11, CommitKeepsWork

LEMMA CancelKeepsWork ==
    ASSUME NEW W, BehindWork(W), BoardInv, WorkInv(W), NEW c \in Ids,
           NEW resolution \in CancelResolutions, Cancel(c, resolution)
    PROVE  WorkInv(W)'
  <1> DEFINE card  == cards[c]
             final == [Cleared(card) EXCEPT !.lane = Done, !.resolution = resolution]
             ev    == [Plain("card.cancelled") EXCEPT
                         !.from = card.lane, !.resolution = resolution,
                         !.reason = card.reason,
                         !.resume = IF card.reason # None THEN card.resume ELSE None]
  <1>1. /\ Alive(c) /\ OnBoard(Done) /\ Commit(c, final, ev)
        /\ prior' = [prior EXCEPT ![c] = card]
    BY DEF Cancel, Editable, Open
  <1>2. TypeOK /\ card \in Cards /\ Done \in Keys /\ RowWorked(W, card, prior[c])
    BY <1>1, BoardInvAt, OnBoardKey DEF BoardInv, WorkInv
  <1>3. prior'[c] = card /\ \A x \in Ids \ {c} : prior'[x] = prior[x]
    BY <1>1, <1>2 DEF TypeOK
  <1>4. Cleared(card) \in Cards /\ Cleared(card).started = card.started
    BY <1>2 DEF Cleared, Cards
  <1>5. /\ final \in Cards /\ final.started = card.started
        /\ final.lane = Done /\ final.resolution = resolution
    BY <1>2, <1>4 DEF Cards, Resolutions
  <1> HIDE DEF final, ev
  <1>6. RowWorked(W, final, prior'[c])
    BY <1>2, <1>3, <1>5, ResolutionsAssumption DEF RowWorked, BehindWork
  <1> QED
    BY <1>1, <1>2, <1>3, <1>5, <1>6, CommitKeepsWork

\* A card returns to one of the columns only where its cancel found it, and
\* keeps the work start it had there.
LEMMA ReopenKeepsWork ==
    ASSUME NEW W, BehindWork(W), BoardInv, CancelKept, WorkInv(W), NEW c \in Ids,
           Reopen(c)
    PROVE  WorkInv(W)'
  <1> DEFINE card     == cards[c]
             restored == RestoredLane(c)
             target   == IF restored # None THEN restored
                         ELSE IF OnBoard(Ready) THEN Ready ELSE FirstLane
             final    == Revived(card, audit[c].cancel, restored, target)
             ev       == [Plain("card.reopened") EXCEPT !.to = target]
  <1>1. Alive(c) /\ Commit(c, final, ev) /\ prior' = prior
    BY DEF Reopen, Open
  <1>2. TypeOK /\ card \in Cards /\ RowWorked(W, card, prior[c])
    BY <1>1, BoardInvAt DEF BoardInv, WorkInv
  <1>3. target \in Keys
    BY <1>1, <1>2, RestoredLaneFact, OnBoardKey, FirstLaneKey
  <1>4. restored = Waiting => audit[c].cancel \in Events
    BY <1>1, <1>2, RestoredLaneFact, NoneAssumption
  <1>5. restored # None => /\ card.resolution \in CancelResolutions
                           /\ restored = prior[c].lane
    <2>1. restored # None => card.resolution \notin {None, "completed"}
                             /\ restored = audit[c].cancel.from
      BY DEF RestoredLane
    <2>2. restored # None => card.resolution \in CancelResolutions
      BY <1>2, <2>1 DEF Cards, Resolutions
    <2> QED
      BY <1>1, <2>1, <2>2 DEF CancelKept, KeptAt
  <1>6. restored = None => target \notin W
    BY <1>2 DEF BehindWork, TypeOK, FirstLane
  <1>7. restored # None => target = restored
    OBVIOUS
  <1> HIDE DEF restored, target
  <1>8. final \in Cards
    BY <1>2, <1>3, <1>4, RevivedType
  <1>9. /\ final.lane = target /\ final.resolution = None
        /\ final.started = (card.started /\ restored # None)
    BY <1>2, <1>8 DEF Revived, Cards
  <1> HIDE DEF final, ev
  <1>10. target \in W => card.started /\ restored # None
    BY <1>2, <1>5, <1>6, <1>7 DEF RowWorked
  <1>11. RowWorked(W, final, prior'[c])
    BY <1>9, <1>10, NoneAssumption DEF RowWorked
  <1> QED
    BY <1>1, <1>2, <1>8, <1>11, CommitKeepsWork

LEMMA BirthKeepsWork ==
    ASSUME NEW W, BehindWork(W), BoardInv, WorkInv(W), NEW c \in Ids,
           Create(c) \/ Discard(c)
    PROVE  WorkInv(W)'
  <1>1. TypeOK
    BY DEF BoardInv
  <1>2. \A x \in Ids \ {c} : cards'[x] = cards[x] /\ prior'[x] = prior[x]
    BY <1>1 DEF Create, Discard, TypeOK
  <1>3. Alive(c)' => RowWorked(W, cards'[c], prior'[c])
    <2>1. CASE Create(c)
      <3>1. cards'[c] = Draft
        BY <1>1, <2>1 DEF Create, TypeOK
      <3>2. Draft.lane = FirstLane /\ Draft.resolution = None
        BY DEF Draft
      <3>3. FirstLane \notin W
        BY <1>1 DEF BehindWork, TypeOK, FirstLane
      <3> QED
        BY <3>1, <3>2, <3>3, NoneAssumption DEF RowWorked
    <2>2. CASE Discard(c)
      BY <1>1, <2>2 DEF Discard, Alive, TypeOK
    <2> QED
      BY <2>1, <2>2
  <1>4. \A x \in Ids \ {c} : Alive(x)' => RowWorked(W, cards'[x], prior'[x])
    BY <1>2 DEF WorkInv, Alive
  <1> QED
    BY <1>3, <1>4 DEF WorkInv

LEMMA ClaimAlertsKeepsWork ==
    ASSUME NEW W, BoardInv, WorkInv(W), ClaimAlerts
    PROVE  WorkInv(W)'
  <1>1. ASSUME NEW x \in Ids, Alive(x)' PROVE RowWorked(W, cards'[x], prior'[x])
    <2>1. /\ Alive(x) /\ cards'[x].lane = cards[x].lane
          /\ cards'[x].resolution = cards[x].resolution
          /\ cards'[x].started = cards[x].started
      <3>1. CASE DueForAlert(x)
        <4>1. Alive(x) /\ cards[x] \in Cards
          BY <3>1, BoardInvAt DEF DueForAlert
        <4>2. cards'[x] = [cards[x] EXCEPT !.alerted = TRUE]
          BY <3>1 DEF ClaimAlerts
        <4> QED
          BY <4>1, <4>2 DEF Cards
      <3>2. CASE ~DueForAlert(x)
        BY <1>1, <3>2 DEF ClaimAlerts, Alive
      <3> QED
        BY <3>1, <3>2
    <2>2. RowWorked(W, cards[x], prior[x]) /\ prior' = prior
      BY <2>1 DEF WorkInv, ClaimAlerts
    <2> QED
      BY <2>1, <2>2 DEF RowWorked
  <1> QED
    BY <1>1 DEF WorkInv

LEMMA NextKeepsWork ==
    ASSUME NEW W, BehindWork(W), BoardInv, CancelKept, WorkInv(W), [Next]_vars
    PROVE  WorkInv(W)'
  <1>1. ASSUME NEW c \in Ids, CardNext(c) PROVE WorkInv(W)'
    BY <1>1, BirthKeepsWork, QuietKeepsWork, MoveKeepsWork, CancelKeepsWork,
       ReopenKeepsWork DEF CardNext
  <1>2. CASE ClaimAlerts
    BY <1>2, ClaimAlertsKeepsWork
  <1>3. CASE UNCHANGED <<cards, prior>>
    BY <1>3 DEF WorkInv, Alive
  <1>4. AdminNext \/ Tick \/ UNCHANGED vars => UNCHANGED <<cards, prior>>
    BY DEF AdminNext, AddLane, RemoveLane, ReorderLanes, ApplyPolicy, Tick, vars
  <1> QED
    BY <1>1, <1>2, <1>3, <1>4 DEF Next

\* Where done lies behind in_progress in every graph that is enforced, a
\* completed card has had its work start stamped, whatever detours by cancel,
\* archival, reopen and drag-out it took (card-service.ts move, reopen).
THEOREM CompletedCorrect ==
    ASSUME PlainEntry, NEW W, BehindWork(W)
    PROVE  Spec => []CompletedWasWorked
  <1>1. Init => CancelKept /\ WorkInv(W)
    BY DEF Init, CancelKept, WorkInv, Alive
  <1>2. BoardInv /\ DisciplineInv /\ CancelKept /\ WorkInv(W) /\ [Next]_vars
          => BoardInv' /\ DisciplineInv' /\ CancelKept' /\ WorkInv(W)'
    BY NextSafe, NextKeepsCancel, NextKeepsWork
  <1>3. WorkInv(W) => CompletedWasWorked
    BY DEF WorkInv, RowWorked, CompletedWasWorked
  <1> QED
    BY <1>1, <1>2, <1>3, InitSafe, PTL DEF Spec

-----------------------------------------------------------------------------
(* Where a card has been for how long: the sweep and the feed.              *)

\* A step leaves a card in its column with its newest arrival, takes it to
\* another one, or creates it.  It comes to done only with an arrival.
Stays(x) ==
    /\ Alive(x) /\ cards'[x].lane = cards[x].lane
    /\ audit'[x].arrival = audit[x].arrival
    /\ cards'[x].updated = cards[x].updated \/ cards'[x].updated = today

Goes(x) ==
    /\ Alive(x) /\ cards'[x].lane # cards[x].lane
    /\ cards'[x].updated = today
    /\ \/ audit'[x].arrival = audit[x].arrival /\ cards'[x].lane # Done
       \/ audit'[x].arrival.at = today

Begins(x) ==
    /\ ~Alive(x) /\ cards'[x].updated = today
    /\ audit'[x].arrival = None

\* An alert that is up was up for this date, or the date has passed.
AlertHolds(x) ==
    cards'[x].alerted =>
        \/ Alive(x) /\ cards[x].alerted /\ cards'[x].resume = cards[x].resume
        \/ cards'[x].resume # None /\ cards'[x].resume < today

StayStep(x) == cards'[x] # None => (Stays(x) \/ Goes(x) \/ Begins(x)) /\ AlertHolds(x)

LEMMA SameRowStays ==
    ASSUME NEW x \in Ids, cards'[x] = cards[x], audit'[x] = audit[x]
    PROVE  StayStep(x)
  BY DEF StayStep, Stays, AlertHolds, Alive

LEMMA CommitStays ==
    ASSUME TypeOK, NEW c \in Ids, Alive(c), NEW card \in Cards, NEW ev,
           Commit(c, card, ev), ev.at = today,
           card.lane = cards[c].lane => ev.type \notin {"card.cancelled", "card.status_changed"},
           card.lane = Done /\ card.lane # cards[c].lane
             => ev.type \in {"card.cancelled", "card.status_changed"},
           card.alerted => cards[c].alerted /\ card.resume = cards[c].resume
    PROVE  \A x \in Ids : StayStep(x)
  <1>1. cards[c].version + 1 \in Nat /\ today \in Days
    BY DEF TypeOK, Alive, Cards
  <1>2. /\ cards'[c] = [card EXCEPT !.version = cards[c].version + 1, !.updated = today]
        /\ audit'[c] = Appended(audit[c], ev)
        /\ \A x \in Ids \ {c} : cards'[x] = cards[x] /\ audit'[x] = audit[x]
    BY DEF Commit, VersionOf, TypeOK
  <1>3. /\ cards'[c].lane = card.lane /\ cards'[c].updated = today
        /\ cards'[c].alerted = card.alerted /\ cards'[c].resume = card.resume
    BY <1>1, <1>2 DEF Cards
  <1>4. audit'[c].arrival = IF ev.type \in {"card.cancelled", "card.status_changed"}
                            THEN ev ELSE audit[c].arrival
    BY <1>2 DEF Appended
  <1>5. AlertHolds(c)
    BY <1>3 DEF AlertHolds
  <1>6. Stays(c) \/ Goes(c)
    <2>1. CASE card.lane = cards[c].lane
      BY <1>3, <1>4, <2>1 DEF Stays
    <2>2. CASE card.lane # cards[c].lane
      BY <1>3, <1>4, <2>2 DEF Goes
    <2> QED
      BY <2>1, <2>2
  <1>7. StayStep(c)
    BY <1>5, <1>6 DEF StayStep
  <1> QED
    BY <1>2, <1>7, SameRowStays

LEMMA PlainAt ==
    ASSUME NEW type
    PROVE  Plain(type).at = today /\ Plain(type).type = type
  BY DEF Plain

\* Edits, reorders, flags and archivals leave a card where it is.
LEMMA QuietStays ==
    ASSUME TypeOK, NEW c \in Ids,
           \/ \E other \in BOOLEAN, r \in Reasons \cup {None}, d \in Days \cup {None} :
                 Update(c, other, r, d)
           \/ Reorder(c)
           \/ Archive(c)
           \/ \E flag \in BOOLEAN : SetBlocked(c, flag)
    PROVE  \A x \in Ids : StayStep(x)
  <1>1. Alive(c)
    BY DEF Update, Reorder, Archive, SetBlocked, Editable, Open
  <1>2. cards[c] \in Cards
    BY <1>1 DEF TypeOK, Alive
  <1>3. ASSUME NEW other \in BOOLEAN, NEW r \in Reasons \cup {None},
               NEW d \in Days \cup {None}, Update(c, other, r, d)
        PROVE  \A x \in Ids : StayStep(x)
    <2> DEFINE card == cards[c]
               edited == [card EXCEPT
                            !.reason  = IF r # None /\ r # card.reason THEN r ELSE @,
                            !.resume  = IF d # None /\ d # card.resume THEN d ELSE @,
                            !.alerted = @ /\ ~Rearms(card, r, d)]
    <2>1. Commit(c, edited, Plain("card.field_changed"))
      BY <1>3 DEF Update
    <2>2. edited \in Cards
      BY <1>2, EditedType
    <2>3. /\ edited.resume = IF d # None /\ d # card.resume THEN d ELSE card.resume
          /\ edited.alerted = (card.alerted /\ ~Rearms(card, r, d))
          /\ edited.lane = card.lane
      BY <1>2 DEF Cards
    <2>4. edited.alerted => card.alerted /\ edited.resume = card.resume
      BY <2>3 DEF Rearms
    <2> HIDE DEF edited
    <2> QED
      BY <1>1, <2>1, <2>2, <2>3, <2>4, PlainAt, CommitStays
  <1>4. CASE Reorder(c)
    BY <1>1, <1>2, <1>4, PlainAt, CommitStays DEF Reorder
  <1>5. CASE Archive(c)
    <2> DEFINE row == [cards[c] EXCEPT !.archived = TRUE]
    <2>1. Commit(c, row, Plain("card.archived"))
      BY <1>5 DEF Archive
    <2>2. /\ row \in Cards /\ row.alerted = cards[c].alerted
          /\ row.lane = cards[c].lane /\ row.resume = cards[c].resume
      BY <1>2 DEF Cards
    <2> HIDE DEF row
    <2> QED
      BY <1>1, <2>1, <2>2, PlainAt, CommitStays
  <1>6. ASSUME NEW flag \in BOOLEAN, SetBlocked(c, flag)
        PROVE  \A x \in Ids : StayStep(x)
    <2> DEFINE row == [cards[c] EXCEPT !.blocked = flag]
    <2>1. Commit(c, row, Plain(IF flag THEN "card.blocked" ELSE "card.unblocked"))
      BY <1>6 DEF SetBlocked
    <2>2. /\ row \in Cards /\ row.alerted = cards[c].alerted
          /\ row.lane = cards[c].lane /\ row.resume = cards[c].resume
      BY <1>2 DEF Cards
    <2>3. PICK type : /\ type = IF flag THEN "card.blocked" ELSE "card.unblocked"
                      /\ type \notin {"card.cancelled", "card.status_changed"}
      OBVIOUS
    <2> HIDE DEF row
    <2> QED
      BY <1>1, <2>1, <2>2, <2>3, PlainAt, CommitStays
  <1> QED
    BY <1>3, <1>4, <1>5, <1>6

LEMMA MoveGoes ==
    ASSUME TypeOK, NEW c \in Ids, NEW to \in Keys,
           NEW r \in Reasons \cup {None}, NEW d \in Days \cup {None},
           Move(c, to, r, d)
    PROVE  \A x \in Ids : StayStep(x)
  <1> DEFINE card  == cards[c]
             swept == IF card.lane = Waiting THEN Cleared(card) ELSE card
             placed == IF to = Waiting
                       THEN [card EXCEPT !.reason = r, !.resume = d, !.alerted = FALSE]
                       ELSE swept
             final == [placed EXCEPT !.lane       = to,
                                     !.started    = @ \/ to = InProgress,
                                     !.resolution = ResolutionAfter(card, to)]
             ev    == [Plain("card.status_changed") EXCEPT !.from = card.lane, !.to = to]
  <1>1. Alive(c) /\ to # card.lane /\ Commit(c, final, ev)
    BY DEF Move, Editable, Open
  <1>2. card \in Cards
    BY <1>1 DEF TypeOK, Alive
  <1>3. placed \in Cards
    BY <1>2 DEF Cards, Cleared
  <1>4. placed.alerted => card.alerted /\ placed.resume = card.resume
    BY <1>2 DEF Cards, Cleared
  <1>5. ResolutionAfter(card, to) \in Resolutions
    BY <1>2 DEF ResolutionAfter, Resolutions, Cards
  <1>6. /\ final \in Cards /\ final.lane = to
        /\ final.alerted = placed.alerted /\ final.resume = placed.resume
    <2> HIDE DEF placed
    <2> QED BY <1>3, <1>5 DEF Cards
  <1>7. ev.at = today /\ ev.type = "card.status_changed"
    BY DEF Plain
  <1> HIDE DEF final, ev, placed
  <1> QED
    BY <1>1, <1>2, <1>4, <1>6, <1>7, CommitStays

LEMMA CancelGoes ==
    ASSUME TypeOK, NEW c \in Ids, NEW resolution \in CancelResolutions,
           Cancel(c, resolution)
    PROVE  \A x \in Ids : StayStep(x)
  <1> DEFINE card  == cards[c]
             final == [Cleared(card) EXCEPT !.lane = Done, !.resolution = resolution]
             ev    == [Plain("card.cancelled") EXCEPT
                         !.from = card.lane, !.resolution = resolution,
                         !.reason = card.reason,
                         !.resume = IF card.reason # None THEN card.resume ELSE None]
  <1>1. Alive(c) /\ OnBoard(Done) /\ card.lane # Done /\ Commit(c, final, ev)
    BY DEF Cancel, Editable, Open
  <1>2. card \in Cards /\ Done \in Keys
    BY <1>1, OnBoardKey DEF TypeOK, Alive
  <1>3. Cleared(card) \in Cards /\ Cleared(card).alerted = FALSE
    BY <1>2 DEF Cleared, Cards
  <1>4. final \in Cards /\ final.lane = Done /\ final.alerted = FALSE
    BY <1>2, <1>3 DEF Cards, Resolutions
  <1>5. ev.at = today /\ ev.type = "card.cancelled"
    BY DEF Plain
  <1> HIDE DEF final, ev
  <1> QED
    BY <1>1, <1>4, <1>5, CommitStays

\* A reopen leaves done, unless done is the first column; either way it is not
\* an arrival.
LEMMA ReopenGoes ==
    ASSUME TypeOK, NEW c \in Ids, Reopen(c)
    PROVE  \A x \in Ids : StayStep(x)
  <1> DEFINE card     == cards[c]
             restored == RestoredLane(c)
             target   == IF restored # None THEN restored
                         ELSE IF OnBoard(Ready) THEN Ready ELSE FirstLane
             final    == Revived(card, audit[c].cancel, restored, target)
             ev       == [Plain("card.reopened") EXCEPT !.to = target]
  <1>1. Alive(c) /\ card.lane = Done /\ Commit(c, final, ev)
    BY DEF Reopen, Open
  <1>2. card \in Cards
    BY <1>1 DEF TypeOK, Alive
  <1>3. target \in Keys
    BY <1>1, RestoredLaneFact, OnBoardKey, FirstLaneKey
  <1>4. restored = Waiting => audit[c].cancel \in Events
    BY <1>1, RestoredLaneFact, NoneAssumption
  <1> HIDE DEF restored, target
  <1>5. final \in Cards
    BY <1>2, <1>3, <1>4, RevivedType
  <1>6. /\ final.lane = target
        /\ final.alerted = (card.alerted /\ ~(restored = Waiting))
        /\ final.resume = IF restored = Waiting THEN audit[c].cancel.resume ELSE card.resume
    BY <1>2 DEF Revived, Cards
  <1>7. ev.at = today /\ ev.type = "card.reopened"
    BY DEF Plain
  <1> HIDE DEF final, ev
  <1> QED
    BY <1>1, <1>5, <1>6, <1>7, CommitStays

LEMMA BirthBegins ==
    ASSUME TypeOK, NEW c \in Ids, Create(c) \/ Discard(c)
    PROVE  \A x \in Ids : StayStep(x)
  <1>1. \A x \in Ids \ {c} : cards'[x] = cards[x] /\ audit'[x] = audit[x]
    BY DEF Create, Discard, TrailsErased, TypeOK
  <1>2. StayStep(c)
    <2>1. CASE Create(c)
      <3>1. ~Alive(c)
        BY <2>1 DEF Create, IsNextCardId, Alive, Ids
      <3>2. cards'[c] = Draft /\ audit'[c].arrival = None
        BY <2>1 DEF Create, TypeOK
      <3>3. Draft.updated = today /\ ~Draft.alerted
        BY DEF Draft
      <3> QED
        BY <3>1, <3>2, <3>3 DEF StayStep, Begins, AlertHolds
    <2>2. CASE Discard(c)
      BY <2>2 DEF Discard, TypeOK, StayStep
    <2> QED
      BY <2>1, <2>2
  <1> QED
    BY <1>1, <1>2, SameRowStays

LEMMA ClaimAlertsStays ==
    ASSUME TypeOK, ClaimAlerts
    PROVE  \A x \in Ids : StayStep(x)
  <1> SUFFICES ASSUME NEW x \in Ids PROVE StayStep(x)
    OBVIOUS
  <1>1. CASE DueForAlert(x)
    <2>1. /\ cards[x] \in Cards /\ Alive(x)
          /\ cards'[x] = [cards[x] EXCEPT !.alerted = TRUE]
      BY <1>1 DEF DueForAlert, ClaimAlerts, TypeOK, Alive
    <2>2. /\ cards'[x].lane = cards[x].lane /\ cards'[x].resume = cards[x].resume
          /\ cards'[x].updated = cards[x].updated
      BY <2>1 DEF Cards
    <2>3. audit'[x] = audit[x]
      BY DEF ClaimAlerts
    <2> QED
      BY <1>1, <2>1, <2>2, <2>3 DEF StayStep, Stays, AlertHolds, DueForAlert
  <1>2. CASE ~DueForAlert(x)
    BY <1>2, SameRowStays DEF ClaimAlerts
  <1> QED
    BY <1>1, <1>2

LEMMA NextStays ==
    ASSUME TypeOK, [Next]_vars
    PROVE  /\ \A x \in Ids : StayStep(x)
           /\ \/ today' = today
              \/ today' = today + 1 /\ cards' = cards /\ audit' = audit
  <1>1. ASSUME NEW c \in Ids, CardNext(c) PROVE \A x \in Ids : StayStep(x)
    BY <1>1, BirthBegins, QuietStays, MoveGoes, CancelGoes, ReopenGoes DEF CardNext
  <1>2. ClaimAlerts => \A x \in Ids : StayStep(x)
    BY ClaimAlertsStays
  <1>3. cards' = cards /\ audit' = audit => \A x \in Ids : StayStep(x)
    BY SameRowStays
  <1>4. AdminNext \/ Tick \/ UNCHANGED vars => cards' = cards /\ audit' = audit
    BY DEF AdminNext, AddLane, RemoveLane, ReorderLanes, ApplyPolicy, Tick, vars
  <1>5. \A x \in Ids : StayStep(x)
    BY <1>1, <1>2, <1>3, <1>4 DEF Next
  <1>6. ASSUME NEW c \in Ids, CardNext(c) PROVE today' = today
    BY <1>6 DEF CardNext, Create, Update, Reorder, Move, Cancel, Reopen, Archive, SetBlocked,
         Discard, Commit
  <1>7. ClaimAlerts \/ AdminNext \/ UNCHANGED vars => today' = today
    BY DEF ClaimAlerts, AdminNext, AddLane, RemoveLane, ReorderLanes, ApplyPolicy, vars
  <1>8. Tick => today' = today + 1 /\ cards' = cards /\ audit' = audit
    BY DEF Tick
  <1> QED
    BY <1>5, <1>6, <1>7, <1>8 DEF Next

\* What the sweep rests on: since a card came to done it was written, and the
\* arrival that the sweep reads is not older than the stay; a run takes the
\* day it started on.
StayAt(x) ==
    /\ arrived[x] \in Days
    /\ arrived[x] <= cards[x].updated /\ arrived[x] <= today
    /\ audit[x].arrival # None
         /\ (audit[x].arrival.type = "card.cancelled" \/ audit[x].arrival.to = Done)
       => arrived[x] <= audit[x].arrival.at

SweepIInv ==
    /\ TypeOK
    /\ arrived \in [Ids -> Days \cup {None}]
    /\ \A x \in Ids : Alive(x) /\ cards[x].lane = Done => StayAt(x)
    /\ sweep # None => sweep.cutoff \in Int /\ sweep.cutoff + ArchivalDays <= today

LEMMA StaysKept ==
    ASSUME SweepIInv, TypeOK', Tracked,
           \A x \in Ids : StayStep(x),
           \/ today' = today
           \/ today' = today + 1 /\ cards' = cards /\ audit' = audit
    PROVE  /\ arrived' \in [Ids -> Days \cup {None}]
           /\ \A x \in Ids : Alive(x)' /\ cards'[x].lane = Done => StayAt(x)'
  <1>1. today \in Days /\ arrived \in [Ids -> Days \cup {None}]
    BY DEF SweepIInv, TypeOK
  <1>2. arrived' \in [Ids -> Days \cup {None}]
    BY <1>1 DEF Tracked
  <1>3. ASSUME NEW x \in Ids, cards'[x] # None, cards'[x].lane = Done
        PROVE  StayAt(x)'
    <2>1. arrived'[x] = IF Alive(x) /\ cards[x].lane = Done THEN arrived[x] ELSE today
      BY <1>3 DEF Tracked
    <2>2. cards'[x] \in Cards /\ audit'[x] \in Trails
      BY <1>3 DEF TypeOK, Alive
    <2>3. (Stays(x) \/ Goes(x) \/ Begins(x)) /\ AlertHolds(x)
      BY <1>3 DEF StayStep
    <2>4. CASE Stays(x)
      <3>1. arrived'[x] = arrived[x] /\ StayAt(x)
        BY <1>3, <2>1, <2>4 DEF Stays, SweepIInv
      <3>2. cards[x] \in Cards
        BY <2>4 DEF Stays, Alive, SweepIInv, TypeOK
      <3>3. arrived[x] \in Int /\ today \in Int /\ cards[x].updated \in Int
        BY <1>1, <3>1, <3>2 DEF StayAt, Cards, Days
      <3>4. /\ arrived[x] <= today /\ arrived[x] <= today'
            /\ arrived[x] <= cards'[x].updated
        BY <2>4, <3>1, <3>3 DEF StayAt, Stays
      <3>5. audit'[x].arrival = audit[x].arrival
        BY <2>4 DEF Stays
      <3> QED
        BY <3>1, <3>4, <3>5 DEF StayAt
    <2>5. CASE Goes(x)
      <3>1. arrived'[x] = today /\ audit'[x].arrival.at = today /\ cards'[x].updated = today
        BY <1>3, <2>1, <2>5 DEF Goes
      <3> QED
        BY <1>1, <3>1 DEF StayAt, Days
    <2>6. CASE Begins(x)
      <3>1. arrived'[x] = today /\ audit'[x].arrival = None /\ cards'[x].updated = today
        BY <1>3, <2>1, <2>6 DEF Begins
      <3> QED
        BY <1>1, <3>1 DEF StayAt, Days
    <2> QED
      BY <2>3, <2>4, <2>5, <2>6
  <1> QED
    BY <1>2, <1>3 DEF Alive

LEMMA SweepCardKeeps ==
    ASSUME SweepIInv, NEW c \in Ids, SweepCard(c)
    PROVE  /\ TypeOK' /\ Tracked /\ today' = today
           /\ \A x \in Ids : StayStep(x)
  <1>1. TypeOK /\ Tracked
    BY DEF SweepIInv, SweepCard
  <1>2. CASE Alive(c) /\ Expired(c)
    <2> DEFINE row == [cards[c] EXCEPT !.archived = TRUE]
    <2>1. Commit(c, row, Plain("card.archived")) /\ prior' = prior
      BY <1>2 DEF SweepCard
    <2>2. cards[c] \in Cards
      BY <1>1, <1>2 DEF TypeOK, Alive
    <2>3. /\ row \in Cards /\ row.alerted = cards[c].alerted
          /\ row.lane = cards[c].lane /\ row.resume = cards[c].resume
      BY <2>2 DEF Cards
    <2>4. /\ Plain("card.archived") \in Events
          /\ Plain("card.archived").type = "card.archived"
      BY <1>1, PlainType, PlainAt DEF EventTypes
    <2> HIDE DEF row
    <2>5. prior' \in [Ids -> Cards \cup {None}]
      BY <1>1, <2>1 DEF TypeOK
    <2>6. TypeOK'
      BY <1>1, <1>2, <2>1, <2>3, <2>4, <2>5, CommitType
    <2>7. \A x \in Ids : StayStep(x)
      BY <1>1, <1>2, <2>1, <2>3, PlainAt, CommitStays
    <2> QED
      BY <1>1, <2>1, <2>6, <2>7 DEF Commit
  <1>3. CASE ~(Alive(c) /\ Expired(c))
    <2>1. UNCHANGED vars
      BY <1>3 DEF SweepCard
    <2>2. TypeOK'
      BY <1>1, <2>1, NextType
    <2> QED
      BY <1>1, <2>1, <2>2, SameRowStays DEF vars
  <1> QED
    BY <1>2, <1>3

LEMMA SweepBegins == SweepInit => SweepIInv
  <1> SUFFICES ASSUME SweepInit PROVE SweepIInv
    OBVIOUS
  <1>1. TypeOK /\ arrived = [c \in Ids |-> None] /\ sweep = None
    BY InitType DEF SweepInit
  <1>2. \A x \in Ids : ~Alive(x)
    BY DEF SweepInit, Init, Alive
  <1> QED
    BY <1>1, <1>2 DEF SweepIInv

LEMMA SweepStep ==
    ASSUME SweepIInv, [SweepNext]_sweepVars
    PROVE  SweepIInv'
  <1>0. TypeOK /\ today \in Int /\ ArchivalDays \in Int
    BY SweepAssumption DEF SweepIInv, TypeOK, Days
  <1>1. CASE Others
    <2>1. [Next]_vars /\ Tracked /\ sweep' = sweep
      BY <1>1 DEF Others
    <2>2. TypeOK'
      BY <1>0, <2>1, NextType
    <2>3. /\ \A x \in Ids : StayStep(x)
          /\ \/ today' = today
             \/ today' = today + 1 /\ cards' = cards /\ audit' = audit
      BY <1>0, <2>1, NextStays
    <2>4. /\ arrived' \in [Ids -> Days \cup {None}]
          /\ \A x \in Ids : Alive(x)' /\ cards'[x].lane = Done => StayAt(x)'
      BY <2>1, <2>2, <2>3, StaysKept
    <2>5. sweep # None => sweep.cutoff + ArchivalDays <= today'
      BY <1>0, <2>3 DEF SweepIInv
    <2> QED
      BY <2>1, <2>2, <2>4, <2>5 DEF SweepIInv
  <1>2. ASSUME UNCHANGED vars, UNCHANGED arrived,
               sweep' # None => sweep'.cutoff \in Int /\ sweep'.cutoff + ArchivalDays <= today
        PROVE  SweepIInv'
    <2>1. TypeOK' /\ today' = today /\ cards' = cards /\ audit' = audit
      BY <1>0, <1>2, NextType DEF vars
    <2>2. \A x \in Ids : Alive(x)' /\ cards'[x].lane = Done => StayAt(x)'
      BY <1>2, <2>1 DEF SweepIInv, StayAt, Alive
    <2> QED
      BY <1>2, <2>1, <2>2 DEF SweepIInv
  <1>3. CASE SweepStart
    <2>1. /\ UNCHANGED vars /\ UNCHANGED arrived
          /\ sweep'.cutoff = today - ArchivalDays
      BY <1>3 DEF SweepStart
    <2>2. sweep'.cutoff \in Int /\ sweep'.cutoff + ArchivalDays <= today
      BY <1>0, <2>1
    <2> QED
      BY <1>2, <2>1, <2>2
  <1>4. ASSUME NEW c \in Ids, SweepCard(c)
        PROVE  SweepIInv'
    <2>1. /\ TypeOK' /\ Tracked /\ today' = today
          /\ \A x \in Ids : StayStep(x)
      BY <1>4, SweepCardKeeps
    <2>2. /\ arrived' \in [Ids -> Days \cup {None}]
          /\ \A x \in Ids : Alive(x)' /\ cards'[x].lane = Done => StayAt(x)'
      BY <2>1, StaysKept
    <2>3. /\ sweep # None /\ sweep' = [sweep EXCEPT !.left = @ \ {c}]
          /\ sweep.cutoff \in Int /\ sweep.cutoff + ArchivalDays <= today
      BY <1>4 DEF SweepCard, SweepIInv
    <2>4. sweep'.cutoff = sweep.cutoff
      BY <2>3
    <2> QED
      BY <2>1, <2>2, <2>3, <2>4 DEF SweepIInv
  <1>5. CASE SweepEnd \/ Crash
    BY <1>2, <1>5 DEF SweepEnd, Crash
  <1>6. CASE UNCHANGED sweepVars
    BY <1>2, <1>6 DEF sweepVars, SweepIInv
  <1> QED
    BY <1>1, <1>3, <1>4, <1>5, <1>6 DEF SweepNext

\* What the nightly job archives has been in done without a break for as long
\* as it must, whatever anybody did to it since the candidates were listed or
\* before, whenever the process was restarted (card-service.ts archiveExpired,
\* enteredDoneAt).
THEOREM FullStaysOnly == SweepSpec => [][AfterFullStay]_sweepVars
  <1>1. SweepIInv /\ [SweepNext]_sweepVars => SweepIInv'
    BY SweepStep
  <1>2. SweepIInv /\ [SweepNext]_sweepVars => [AfterFullStay]_sweepVars
    <2> SUFFICES ASSUME SweepIInv, NEW c \in Ids, SweepCard(c), Alive(c), cards' # cards
                 PROVE  arrived[c] # None /\ arrived[c] + ArchivalDays <= today
      BY DEF AfterFullStay
    <2>1. Expired(c)
      BY DEF SweepCard, vars
    <2>2. StayAt(c) /\ sweep.cutoff \in Int /\ sweep.cutoff + ArchivalDays <= today
      BY <2>1 DEF Expired, SweepIInv, SweepCard
    <2>3. /\ cards[c] \in Cards /\ audit[c] \in Trails /\ today \in Days
          /\ arrived[c] \in Int /\ ArchivalDays \in Int
      BY <2>2, SweepAssumption DEF SweepIInv, TypeOK, Alive, StayAt, Days
    <2>4. /\ cards[c].updated \in Int
          /\ audit[c].arrival # None => audit[c].arrival.at \in Int
      BY <2>3 DEF Cards, Trails, Events, Days
    <2>5. arrived[c] <= EnteredDoneAt(c) /\ EnteredDoneAt(c) \in Int
      BY <2>2, <2>4 DEF StayAt, EnteredDoneAt
    <2>6. EnteredDoneAt(c) <= sweep.cutoff
      BY <2>1 DEF Expired
    <2>7. arrived[c] + ArchivalDays <= today
      BY <2>2, <2>3, <2>5, <2>6 DEF Days
    <2> QED
      BY <2>3, <2>7, NoneAssumption
  <1> QED
    BY <1>1, <1>2, SweepBegins, PTL DEF SweepSpec

\* What the feed rests on: a stay begins with the newest arrival or later, and
\* an alert is up only past its date.
FeedRow(x) ==
    /\ made[x] \in Days /\ entered[x] \in Days
    /\ made[x] <= entered[x] /\ entered[x] <= today
    /\ audit[x].arrival # None => audit[x].arrival.at <= entered[x]
    /\ moved[x] # None => moved[x] \in Events /\ moved[x].at <= entered[x]
    /\ cards[x].alerted => cards[x].resume # None /\ cards[x].resume < today

FeedIInv == BoardInv /\ DisciplineInv /\ \A x \in Ids : Alive(x) => FeedRow(x)

LEMMA FeedRowKept ==
    ASSUME FeedIInv, BoardInv', [Next]_vars, FeedTracked, NEW x \in Ids, cards'[x] # None
    PROVE  FeedRow(x)'
  <1>1. TypeOK /\ TypeOK' /\ today \in Days /\ today' \in Days
    BY DEF FeedIInv, BoardInv, TypeOK
  <1>2. /\ (Stays(x) \/ Goes(x) \/ Begins(x)) /\ AlertHolds(x)
        /\ today' = today \/ today' = today + 1
    BY <1>1, NextStays DEF StayStep
  <1>3. /\ made'[x] = IF ~Alive(x) THEN today ELSE made[x]
        /\ moved'[x] = NewestMove(x)
        /\ entered'[x] = IF Alive(x) /\ cards[x].lane = cards'[x].lane THEN entered[x] ELSE today
    BY DEF FeedTracked
  <1>4. cards'[x] \in Cards /\ audit'[x] \in Trails
    BY <1>1 DEF TypeOK, Alive
  <1>5. audit'[x].arrival # None => audit'[x].arrival \in Events
    BY <1>4 DEF Trails
  <1>6. \A day \in Days : day \in Int
    BY DEF Days
  <1>7. ASSUME Alive(x)
        PROVE  FeedRow(x) /\ cards[x] \in Cards /\ audit[x] \in Trails
    BY <1>1, <1>7 DEF FeedIInv, TypeOK, Alive
  <1>8. /\ made'[x] \in Days /\ entered'[x] \in Days
        /\ made'[x] <= entered'[x] /\ entered'[x] <= today'
        /\ Alive(x) => entered[x] <= entered'[x]
        /\ ~Stays(x) => entered'[x] = today
    <2>1. CASE Stays(x)
      BY <1>1, <1>2, <1>3, <1>6, <1>7, <2>1 DEF Stays, FeedRow
    <2>2. CASE Goes(x)
      BY <1>1, <1>2, <1>3, <1>6, <1>7, <2>2 DEF Goes, FeedRow
    <2>3. CASE Begins(x)
      BY <1>1, <1>2, <1>3, <1>6, <2>3 DEF Begins
    <2> QED
      BY <1>2, <2>1, <2>2, <2>3
  <1>9. audit'[x].arrival # None => audit'[x].arrival.at <= entered'[x]
    <2> SUFFICES ASSUME audit'[x].arrival # None
                 PROVE  audit'[x].arrival.at <= entered'[x]
      OBVIOUS
    <2>1. audit'[x].arrival.at \in Int
      BY <1>5, <1>6 DEF Events
    <2>2. CASE Stays(x)
      <3>1. audit[x].arrival.at <= entered[x] /\ audit'[x].arrival = audit[x].arrival
        BY <1>7, <2>2 DEF Stays, FeedRow
      <3> QED
        BY <1>6, <1>7, <1>8, <2>1, <2>2, <3>1 DEF Stays, FeedRow
    <2>3. CASE Goes(x) /\ audit'[x].arrival = audit[x].arrival
      <3>1. audit[x].arrival.at <= entered[x]
        BY <1>7, <2>3 DEF Goes, FeedRow
      <3> QED
        BY <1>6, <1>7, <1>8, <2>1, <2>3, <3>1 DEF Goes, FeedRow
    <2>4. CASE Goes(x) /\ audit'[x].arrival.at = today
      <3>1. entered'[x] = today
        BY <1>3, <2>4 DEF Goes
      <3> QED
        BY <1>1, <1>6, <2>4, <3>1
    <2> QED
      BY <1>2, <2>2, <2>3, <2>4 DEF Goes, Begins
  <1>10. moved'[x] # None => moved'[x] \in Events /\ moved'[x].at <= entered'[x]
    <2>1. CASE moved'[x] = audit'[x].arrival
      BY <1>5, <1>9, <2>1
    <2>2. CASE Alive(x) /\ moved'[x] = moved[x]
      <3> SUFFICES ASSUME moved[x] # None
                   PROVE  moved[x] \in Events /\ moved[x].at <= entered'[x]
        BY <2>2
      <3>1. moved[x] \in Events /\ moved[x].at <= entered[x] /\ entered[x] \in Days
        BY <1>7, <2>2 DEF FeedRow
      <3>2. moved[x].at \in Int /\ entered[x] \in Int /\ entered'[x] \in Int
        BY <1>6, <1>8, <3>1 DEF Events
      <3> QED
        BY <1>8, <2>2, <3>1, <3>2
    <2>3. CASE moved'[x] = None
      BY <2>3
    <2>4. \/ moved'[x] = audit'[x].arrival
          \/ Alive(x) /\ moved'[x] = moved[x]
          \/ moved'[x] = None
      BY <1>3 DEF NewestMove
    <2> QED
      BY <2>1, <2>2, <2>3, <2>4
  <1>11. cards'[x].alerted => cards'[x].resume # None /\ cards'[x].resume < today'
    <2> SUFFICES ASSUME cards'[x].alerted
                 PROVE  cards'[x].resume # None /\ cards'[x].resume < today'
      OBVIOUS
    <2>1. cards'[x].resume # None /\ cards'[x].resume < today
      <3>1. CASE Alive(x) /\ cards[x].alerted /\ cards'[x].resume = cards[x].resume
        BY <1>7, <3>1 DEF FeedRow
      <3> QED
        BY <1>2, <3>1 DEF AlertHolds
    <2>2. cards'[x].resume \in Int
      BY <1>4, <1>6, <2>1 DEF Cards
    <2> QED
      BY <1>1, <1>2, <1>6, <2>1, <2>2
  <1> QED
    BY <1>8, <1>9, <1>10, <1>11 DEF FeedRow

\* Nothing in need of follow-up is missing from the feed: a card that sat in
\* review for longer than was asked is reported, whatever way it came there, and
\* so is every card an alert went out for (board-query-service.ts staleCards,
\* reviewEnteredAt).
THEOREM FeedMissesNothing ==
    PlainEntry /\ ReviewDays \in Nat /\ FeedSpec => []FeedIsComplete
  <1> SUFFICES ASSUME PlainEntry, ReviewDays \in Nat
               PROVE  FeedSpec => []FeedIsComplete
    OBVIOUS
  <1>1. FeedInit => FeedIInv
    <2> SUFFICES ASSUME FeedInit PROVE FeedIInv
      OBVIOUS
    <2>1. \A x \in Ids : ~Alive(x)
      BY DEF FeedInit, Init, Alive
    <2> QED
      BY <2>1, InitSafe DEF FeedInit, FeedIInv
  <1>2. FeedIInv /\ [FeedNext]_feedVars => FeedIInv'
    <2> SUFFICES ASSUME FeedIInv, [FeedNext]_feedVars PROVE FeedIInv'
      OBVIOUS
    <2>1. BoardInv' /\ DisciplineInv'
      BY NextSafe DEF FeedIInv, FeedNext, feedVars
    <2>2. CASE FeedNext
      BY <2>1, <2>2, FeedRowKept DEF FeedNext, FeedIInv, Alive
    <2>3. CASE UNCHANGED feedVars
      <3>1. /\ cards' = cards /\ audit' = audit /\ today' = today
            /\ made' = made /\ moved' = moved /\ entered' = entered
        BY <2>3 DEF feedVars, vars
      <3>2. \A x \in Ids : Alive(x)' => FeedRow(x)'
        BY <3>1 DEF FeedIInv, FeedRow, Alive
      <3> QED
        BY <2>1, <3>2 DEF FeedIInv
    <2> QED
      BY <2>2, <2>3
  <1>3. FeedIInv => FeedIsComplete
    <2> SUFFICES ASSUME FeedIInv PROVE FeedIsComplete
      OBVIOUS
    <2>1. today \in Int /\ \A day \in Days : day \in Int
      BY DEF FeedIInv, BoardInv, TypeOK, Days
    <2>2. ASSUME NEW c \in Ids, Live(c), cards[c].lane = Review,
                 today - entered[c] > ReviewDays
          PROVE  StaleReview(c)
      <3>1. FeedRow(c)
        BY <2>2 DEF FeedIInv, Live
      <3>2. /\ made[c] \in Int /\ entered[c] \in Int
            /\ moved[c] # None => moved[c].at \in Int
        BY <2>1, <3>1 DEF FeedRow, Events
      <3>3. ReviewEnteredAt(c) \in Int /\ ReviewEnteredAt(c) <= entered[c]
        BY <3>1, <3>2 DEF ReviewEnteredAt, FeedRow
      <3>4. today - ReviewEnteredAt(c) > ReviewDays
        BY <2>1, <2>2, <3>2, <3>3
      <3> QED
        BY <2>2, <3>4 DEF StaleReview
    <2>3. ASSUME NEW c \in Ids, Alive(c), cards[c].alerted
          PROVE  OverdueResume(c)
      <3>1. FeedRow(c) /\ WaitsRight(cards[c])
        BY <2>3, DisciplineAt DEF FeedIInv
      <3>2. cards[c].archived => cards[c].lane = Done
        BY <2>3, BoardInvAt DEF FeedIInv
      <3> QED
        BY <2>3, <3>1, <3>2 DEF OverdueResume, Live, FeedRow, WaitsRight, Done, Waiting
    <2> QED
      BY <2>2, <2>3 DEF FeedIsComplete, OldReviewsReported, AlertedIsReported
  <1> QED
    BY <1>1, <1>2, <1>3, PTL DEF FeedSpec
=============================================================================
