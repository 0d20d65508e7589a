----------------------------- MODULE CardDiscard -----------------------------
(***************************************************************************)
(* Ticket numbers, and what hangs on them: comments, events and relations.  *)
(* CardService.create, update, move and delete (the discard of a draft),    *)
(* CommentService.add, CardRelationService.create and delete, called by     *)
(* clients that may show a card long after it changed or went.  Units of    *)
(* work run one at a time on SQLite.  On Postgres they are READ COMMITTED:  *)
(* a statement sees what is committed, writers of a row wait for each       *)
(* other, a new row holds the rows its foreign keys name until the commit.  *)
(***************************************************************************)
EXTENDS Naturals, Sequences, FiniteSetsExt

CONSTANTS
    Numbers,    \* ticket numbers
    Requests,   \* calls at a time
    Types,      \* relation types
    Symmetric,  \* those that are symmetric
    Postgres,
    MaxCalls,   \* bound: calls in all
    None

VARIABLES
    card,   \* cards: number -> [born, version, draft], None: no such row
    rows,   \* comments, card_events and card_relations: [table, type, on, meant, id]
    next,   \* the sequence card_ids
    shown,  \* history: [on, born, version] of every committed card
    tx,     \* request -> its unit of work
    calls

vars == <<card, rows, next, shown, tx, calls>>

Idle == [op |-> None, pc |-> "done", result |-> None]

Init ==
    /\ card = [n \in Numbers |-> None]
    /\ rows = {}
    /\ next = 1
    /\ shown = {}
    /\ tx = [r \in Requests |-> Idle]
    /\ calls = 0

Exists(n) == card[n] # None
RowsOn(n) == {x \in rows : \E i \in DOMAIN x.on : x.on[i] = n}
TableRows(table) == {x \in rows : x.table = table}

-----------------------------------------------------------------------------
\* Units of work and their locks.

Open(r) == tx[r].pc # "done"
Others(r) == {s \in Requests \ {r} : Open(s)}

Begin(r, call) ==
    /\ ~Open(r)
    /\ calls < MaxCalls
    /\ Postgres \/ Others(r) = {}
    /\ calls' = calls + 1
    /\ tx' = [tx EXCEPT ![r] = call]
    /\ UNCHANGED <<card, rows, next, shown>>

At(r, op, pc) == tx[r].op = op /\ tx[r].pc = pc
Go(r, pc) == tx' = [tx EXCEPT ![r].pc = pc]
Done(r, result) == tx' = [tx EXCEPT ![r] = [op |-> @.op, pc |-> "done", result |-> result]]

Updating(s) == IF At(s, "edit", "commit") THEN {tx[s].on} ELSE {}
Deleting(s) == IF At(s, "discard", "commit") THEN {tx[s].on} ELSE {}
Holding(s)  ==
    IF At(s, "comment", "commit") THEN {tx[s].on}
    ELSE IF At(s, "relate", "commit") THEN {tx[s].on, tx[s].to} ELSE {}
RemovedBy(s) == IF Open(s) /\ tx[s].op \in {"discard", "unrelate"} THEN tx[s].gone ELSE {}

Unchanged == UNCHANGED <<card, rows, next, shown, calls>>

-----------------------------------------------------------------------------
\* CardService.create.

MaxPlusOne == Max({0} \cup {n \in Numbers : Exists(n)}) + 1
NextNumber == IF Postgres THEN next ELSE MaxPlusOne

Event(n, born) ==
    [table |-> "card_events", type |-> None, on |-> <<n>>, meant |-> <<born>>, id |-> calls]

Create ==
    /\ calls < MaxCalls
    /\ Postgres \/ \A r \in Requests : ~Open(r)
    /\ NextNumber \in Numbers
    /\ LET n == NextNumber
       IN  /\ card' = [card EXCEPT ![n] = [born |-> calls, version |-> 1, draft |-> TRUE]]
           /\ rows' = rows \cup {Event(n, calls)}
           /\ shown' = shown \cup {[on |-> n, born |-> calls, version |-> 1]}
    /\ next' = next + 1
    /\ calls' = calls + 1
    /\ UNCHANGED tx

-----------------------------------------------------------------------------
\* CardService.update, and move out of the first column.

Edit(r) ==
    \E s \in shown, draft \in BOOLEAN :
        Begin(r, [op |-> "edit", pc |-> "find", on |-> s.on, seen |-> s, copy |-> None,
                  draft |-> draft, id |-> calls])

EditFind(r) ==
    /\ At(r, "edit", "find")
    /\ LET n == tx[r].on
       IN  IF ~Exists(n) THEN Done(r, "missing")
           ELSE IF card[n].version # tx[r].seen.version THEN Done(r, "conflict")
           ELSE tx' = [tx EXCEPT ![r].pc = "write", ![r].copy = card[n]]
    /\ Unchanged

EditWrite(r) ==
    /\ At(r, "edit", "write")
    /\ \A s \in Others(r) : tx[r].on \notin Updating(s) \cup Deleting(s)
    /\ IF Exists(tx[r].on) THEN Go(r, "commit") ELSE Done(r, "missing")
    /\ Unchanged

\* Every column of the row is written from the copy.
EditCommit(r) ==
    /\ At(r, "edit", "commit")
    /\ LET n    == tx[r].on
           kept == tx[r].copy
       IN  /\ card' = [card EXCEPT ![n] = [kept EXCEPT !.version = @ + 1,
                                                       !.draft = @ /\ tx[r].draft]]
           /\ rows' = rows \cup {[Event(n, tx[r].seen.born) EXCEPT !.id = tx[r].id]}
           /\ shown' = shown \cup {[on |-> n, born |-> kept.born, version |-> kept.version + 1]}
    /\ Done(r, "ok")
    /\ UNCHANGED <<next, calls>>

-----------------------------------------------------------------------------
\* CommentService.add: no version is asked for.

Comment(r) ==
    \E s \in shown :
        Begin(r, [op |-> "comment", pc |-> "find", on |-> s.on, seen |-> s, id |-> calls])

CommentFind(r) ==
    /\ At(r, "comment", "find")
    /\ IF Exists(tx[r].on) THEN Go(r, "write") ELSE Done(r, "missing")
    /\ Unchanged

CommentWrite(r) ==
    /\ At(r, "comment", "write")
    /\ \A s \in Others(r) : tx[r].on \notin Deleting(s)
    /\ IF Exists(tx[r].on) THEN Go(r, "commit") ELSE Done(r, "error")
    /\ Unchanged

CommentCommit(r) ==
    /\ At(r, "comment", "commit")
    /\ LET ev == [Event(tx[r].on, tx[r].seen.born) EXCEPT !.id = tx[r].id]
       IN  rows' = rows \cup {ev, [ev EXCEPT !.table = "comments"]}
    /\ Done(r, "ok")
    /\ UNCHANGED <<card, next, shown, calls>>

-----------------------------------------------------------------------------
\* CardRelationService.create and delete.

Relate(r) ==
    \E s, t \in shown, type \in Types :
        /\ s.on # t.on
        /\ Begin(r, [op |-> "relate", pc |-> "find", on |-> s.on, to |-> t.on,
                     both |-> <<s, t>>, type |-> type, id |-> calls])

Relation(from, to, type) ==
    \E x \in TableRows("card_relations") : x.on = <<from, to>> /\ x.type = type

Duplicate(a, b, type) ==
    Relation(a, b, type) \/ (type \in Symmetric /\ Relation(b, a, type))

RelateFind(r) ==
    /\ At(r, "relate", "find")
    /\ LET a == tx[r].on
           b == tx[r].to
       IN  IF ~Exists(a) \/ ~Exists(b) THEN Done(r, "missing")
           ELSE IF Duplicate(a, b, tx[r].type) THEN Done(r, "conflict")
           ELSE Go(r, "write")
    /\ Unchanged

\* The unique index over (from, to, type): it waits for a like row that is
\* not committed yet, or not yet removed for good.
SameEntry(r, s) ==
    \/ At(s, "relate", "commit") /\ tx[s].on = tx[r].on /\ tx[s].to = tx[r].to
       /\ tx[s].type = tx[r].type
    \/ \E x \in RemovedBy(s) : x.on = <<tx[r].on, tx[r].to>> /\ x.type = tx[r].type
RelateWrite(r) ==
    /\ At(r, "relate", "write")
    /\ \A s \in Others(r) : {tx[r].on, tx[r].to} \cap Deleting(s) = {} /\ ~SameEntry(r, s)
    /\ IF Exists(tx[r].on) /\ Exists(tx[r].to) /\ ~Relation(tx[r].on, tx[r].to, tx[r].type)
       THEN Go(r, "commit") ELSE Done(r, "error")
    /\ Unchanged

RelateCommit(r) ==
    /\ At(r, "relate", "commit")
    /\ rows' = rows \cup {[table |-> "card_relations", type |-> tx[r].type,
                           on |-> <<tx[r].on, tx[r].to>>,
                           meant |-> <<tx[r].both[1].born, tx[r].both[2].born>>,
                           id |-> tx[r].id]}
    /\ Done(r, "ok")
    /\ UNCHANGED <<card, next, shown, calls>>

\* From the panel of either card.
Unrelate(r) ==
    \E x \in TableRows("card_relations") :
        Begin(r, [op |-> "unrelate", pc |-> "find", row |-> x, gone |-> {}])

UnrelateFind(r) ==
    /\ At(r, "unrelate", "find")
    /\ IF tx[r].row \in rows THEN Go(r, "write") ELSE Done(r, "missing")
    /\ Unchanged

UnrelateWrite(r) ==
    /\ At(r, "unrelate", "write")
    /\ \A s \in Others(r) : tx[r].row \notin RemovedBy(s)
    /\ tx' = [tx EXCEPT ![r].pc = "commit", ![r].gone = {tx[r].row} \cap rows]
    /\ Unchanged

UnrelateCommit(r) ==
    /\ At(r, "unrelate", "commit")
    /\ rows' = rows \ tx[r].gone
    /\ Done(r, "ok")
    /\ UNCHANGED <<card, next, shown, calls>>

-----------------------------------------------------------------------------
\* CardService.delete and CardRepository.hardDelete: table by table, the card
\* last.

Discard(r) ==
    \E s \in shown :
        Begin(r, [op |-> "discard", pc |-> "find", on |-> s.on, seen |-> s, gone |-> {}])

DiscardFind(r) ==
    /\ At(r, "discard", "find")
    /\ LET n == tx[r].on
       IN  IF ~Exists(n) THEN Done(r, "missing")
           ELSE IF card[n].version # tx[r].seen.version \/ ~card[n].draft
           THEN Done(r, "conflict")
           ELSE Go(r, "comments")
    /\ Unchanged

NextTable == [comments |-> "card_events", card_events |-> "card_relations",
              card_relations |-> "cards"]

RowsToGo(table, n) == RowsOn(n) \cap TableRows(table)

\* The rows of a statement are taken at once.
DiscardTable(r) ==
    /\ tx[r].op = "discard" /\ tx[r].pc \in DOMAIN NextTable
    /\ LET due == RowsToGo(tx[r].pc, tx[r].on)
       IN  /\ \A s \in Others(r) : due \cap RemovedBy(s) = {}
           /\ tx' = [tx EXCEPT ![r].pc = NextTable[@], ![r].gone = @ \cup due]
    /\ Unchanged

DiscardCardHalf(r) ==
    /\ At(r, "discard", "cards")
    /\ \A s \in Others(r) :
          tx[r].on \notin Updating(s) \cup Deleting(s) \cup Holding(s)
    /\ IF Exists(tx[r].on) /\ RowsOn(tx[r].on) \ tx[r].gone # {}
       THEN Done(r, "error") /\ rows' = rows \ tx[r].gone
       ELSE Go(r, "commit") /\ UNCHANGED rows
    /\ UNCHANGED <<card, next, shown, calls>>
\* What still names the card makes its removal fail.  A card that another
\* discard removed meanwhile is no error here.
DiscardCard(r) ==
    /\ At(r, "discard", "cards")
    /\ \A s \in Others(r) :
          tx[r].on \notin Updating(s) \cup Deleting(s) \cup Holding(s)
    /\ IF Exists(tx[r].on) /\ RowsOn(tx[r].on) \ tx[r].gone # {} THEN Done(r, "error")
       ELSE Go(r, "commit")
    /\ Unchanged

DiscardCommit(r) ==
    /\ At(r, "discard", "commit")
    /\ card' = [card EXCEPT ![tx[r].on] = None]
    /\ rows' = rows \ tx[r].gone
    /\ Done(r, "ok")
    /\ UNCHANGED <<next, shown, calls>>

-----------------------------------------------------------------------------

Step(r) ==
    \/ EditFind(r) \/ EditWrite(r) \/ EditCommit(r)
    \/ CommentFind(r) \/ CommentWrite(r) \/ CommentCommit(r)
    \/ RelateFind(r) \/ RelateWrite(r) \/ RelateCommit(r)
    \/ UnrelateFind(r) \/ UnrelateWrite(r) \/ UnrelateCommit(r)
    \/ DiscardFind(r) \/ DiscardTable(r) \/ DiscardCard(r) \/ DiscardCommit(r)

Next ==
    \/ Create
    \/ \E r \in Requests :
          \/ Edit(r) \/ Comment(r) \/ Relate(r) \/ Unrelate(r) \/ Discard(r)
          \/ Step(r)

Spec == Init /\ [][Next]_vars

-----------------------------------------------------------------------------

\* What someone did to a card is on the card he saw, never on another one that
\* took its number after a discard (data-model.md: the id is the ticket
\* number, `ticket numbers remain globally unique`).
MeantForThisCard ==
    \A x \in rows : \A i \in DOMAIN x.on : card[x.on[i]].born = x.meant[i]

\* Two cards are related at most once by a type, whichever way round a
\* symmetric one is stored (CardRelationService.create).
RelatedOnce ==
    \A x, y \in TableRows("card_relations") :
        x # y /\ x.type = y.type =>
            x.on # y.on /\ (x.type \in Symmetric => x.on # <<y.on[2], y.on[1]>>)

\* The unique index alone: never the same relation twice the same way.
RelatedOnceEachWay ==
    \A x, y \in TableRows("card_relations") :
        x # y => x.type # y.type \/ x.on # y.on

\* Only a draft still in the first column is discarded, and as its creator
\* last saw it (CardService.delete).
DiscardsDrafts ==
    \A n \in Numbers : Exists(n) /\ card'[n] = None =>
         /\ card[n].draft
         /\ \E r \in Requests : DiscardCommit(r) /\ tx[r].seen.version = card[n].version

\* A discard that passed its checks removes the card with all that names it.
DiscardsSucceed ==
    \A r \in Requests : At(r, "discard", "done") => tx[r].result # "error"

\* A card has the event of its creation, also after a discard of it failed
\* on the way: what a rolled back discard took away is back.
TrailBeginsAtCreation ==
    \A n \in Numbers : Exists(n) =>
        \E x \in TableRows("card_events") : x.on = <<n>> /\ x.id = card[n].born
=============================================================================
