------------------------------ MODULE Locations ------------------------------
(***************************************************************************)
(* The tree of locations (building, floor, room) and the cards that point   *)
(* into it, statement by statement: LocationAdminService with its           *)
(* repositories, and the card edits that write a location.  Units of work   *)
(* run one at a time on SQLite.  On Postgres they are READ COMMITTED: a     *)
(* SELECT sees what is committed and takes no lock, writers of a row wait   *)
(* for each other, a foreign key holds the row it points to until the       *)
(* commit, and is checked when its statement runs.                          *)
(***************************************************************************)
EXTENDS Naturals, Sequences, FiniteSets

CONSTANTS
    Nodes,      \* ids, never used twice
    Names,
    Cards,
    Requests,   \* calls at a time
    Seed,       \* the tree at the start: node -> row or None
    Postgres,
    MaxCalls,   \* bound: calls in all
    None

VARIABLES
    row,    \* locations: node -> [kind, parent, name], None: no such row
    used,   \* ids given out
    loc,    \* cards.location_id
    tx,     \* request -> its unit of work
    calls   \* calls so far

vars == <<row, used, loc, tx, calls>>

Kinds == {"building", "floor", "room"}
RequiredParent == [building |-> None, floor |-> "building", room |-> "floor"]

Exists(n) == n # None /\ row[n] # None
Children(ps) == {n \in Nodes : Exists(n) /\ row[n].parent \in ps}

Idle == [op |-> None, pc |-> "done", result |-> None]

Init ==
    /\ row = Seed
    /\ used = {n \in Nodes : Seed[n] # None}
    /\ loc \in [Cards -> used \cup {None}]
    /\ tx = [r \in Requests |-> Idle]
    /\ calls = 0

-----------------------------------------------------------------------------
\* Units of work and their locks.

Open(r) == tx[r].pc # "done"
Others(r) == {s \in Requests \ {r} : Open(s)}

Begin(r, call) ==
    /\ ~Open(r)
    /\ calls < MaxCalls
    /\ Postgres \/ Others(r) = {}
    /\ calls' = calls + 1
    /\ tx' = [tx EXCEPT ![r] = call]

At(r, op, pc) == tx[r].op = op /\ tx[r].pc = pc

\* A call that throws: its transaction is rolled back.
Fail(r, result) ==
    /\ tx' = [tx EXCEPT ![r] = [op |-> @.op, pc |-> "done", result |-> result]]
    /\ UNCHANGED <<row, loc>>

Go(r, pc) ==
    /\ tx' = [tx EXCEPT ![r].pc = pc]
    /\ UNCHANGED <<row, loc>>

Done(r) == tx' = [tx EXCEPT ![r] = [op |-> @.op, pc |-> "done", result |-> "ok"]]

Deleting(s) == IF tx[s].op = "delete" THEN tx[s].gone ELSE {}
Wrote(s) == tx[s].pc = "commit"
Renaming(s)  == IF tx[s].op = "rename" /\ Wrote(s) THEN {tx[s].node} ELSE {}

\* Rows that an uncommitted foreign key of s points to.
Pinned(s) ==
    IF ~Wrote(s) THEN {}
    ELSE IF tx[s].op = "create" THEN {tx[s].parent}
    ELSE IF tx[s].op = "card" /\ tx[s].to # loc[tx[s].card] THEN {tx[s].to}
    ELSE {}

\* Cards whose row an open unit of work has written.
CardRows(s) ==
    IF tx[s].op = "delete" THEN tx[s].cleared
    ELSE IF tx[s].op = "card" /\ Wrote(s) THEN {tx[s].card}
    ELSE {}

\* ensureUniqueSiblingName, on what is committed.
Clash(parent, name, self) ==
    \E n \in Nodes \ {self} : Exists(n) /\ row[n].parent = parent /\ row[n].name = name

-----------------------------------------------------------------------------
\* create(kind, parent, name)

Create(r) ==
    \E n \in Nodes \ used, k \in Kinds, p \in used \cup {None}, m \in Names :
        /\ Begin(r, [op |-> "create", pc |-> "find", node |-> n, kind |-> k,
                     parent |-> p, name |-> m])
        /\ used' = used \cup {n}
        /\ UNCHANGED <<row, loc>>

CreateFind(r) ==
    /\ At(r, "create", "find")
    /\ LET p == tx[r].parent
           k == RequiredParent[tx[r].kind]
       IN  IF (p = None) # (k = None) THEN Fail(r, "invalid")
           ELSE IF p # None /\ ~Exists(p) THEN Fail(r, "missing")
           ELSE IF p # None /\ row[p].kind # k THEN Fail(r, "invalid")
           ELSE Go(r, "unique")
    /\ UNCHANGED <<used, calls>>

Unique(r) ==
    IF tx[r].op = "create" THEN
        IF Clash(tx[r].parent, tx[r].name, None) THEN Fail(r, "conflict") ELSE Go(r, "write")
    ELSE
        IF Clash(tx[r].parent, tx[r].name, tx[r].node) THEN Fail(r, "conflict") ELSE Go(r, "write")

CreateUnique(r) == At(r, "create", "unique") /\ Unique(r) /\ UNCHANGED <<used, calls>>

CreateInsert(r) ==
    /\ At(r, "create", "write")
    /\ \A s \in Others(r) : tx[r].parent \notin Deleting(s)
    /\ IF tx[r].parent # None /\ ~Exists(tx[r].parent) THEN Fail(r, "error")
       ELSE Go(r, "commit")
    /\ UNCHANGED <<used, calls>>

CreateCommit(r) ==
    /\ At(r, "create", "commit")
    /\ row' = [row EXCEPT ![tx[r].node] =
                  [kind |-> tx[r].kind, parent |-> tx[r].parent, name |-> tx[r].name]]
    /\ Done(r)
    /\ UNCHANGED <<used, loc, calls>>

-----------------------------------------------------------------------------
\* update(locationId, name): a rename, there is no move.

Rename(r) ==
    \E n \in used, m \in Names :
        /\ Begin(r, [op |-> "rename", pc |-> "find", node |-> n, name |-> m, parent |-> None])
        /\ UNCHANGED <<row, used, loc>>

RenameFind(r) ==
    /\ At(r, "rename", "find")
    /\ IF ~Exists(tx[r].node) THEN Fail(r, "missing")
       ELSE /\ tx' = [tx EXCEPT ![r].pc = "unique", ![r].parent = row[tx[r].node].parent]
            /\ UNCHANGED <<row, loc>>
    /\ UNCHANGED <<used, calls>>

RenameUnique(r) == At(r, "rename", "unique") /\ Unique(r) /\ UNCHANGED <<used, calls>>

RenameWrite(r) ==
    /\ At(r, "rename", "write")
    /\ \A s \in Others(r) : tx[r].node \notin Deleting(s) \cup Renaming(s)
    /\ IF ~Exists(tx[r].node) THEN Fail(r, "missing") ELSE Go(r, "commit")
    /\ UNCHANGED <<used, calls>>

RenameCommit(r) ==
    /\ At(r, "rename", "commit")
    /\ row' = [row EXCEPT ![tx[r].node].name = tx[r].name]
    /\ Done(r)
    /\ UNCHANGED <<used, loc, calls>>

-----------------------------------------------------------------------------
\* delete(locationId): the subtree is collected level by level, the cards in
\* it are cleared, its rows are removed children first.

Delete(r) ==
    \E n \in used :
        /\ Begin(r, [op |-> "delete", pc |-> "find", node |-> n, levels |-> <<{n}>>,
                     cleared |-> {}, gone |-> {}])
        /\ UNCHANGED <<row, used, loc>>

DeleteFind(r) ==
    /\ At(r, "delete", "find")
    /\ IF Exists(tx[r].node) THEN Go(r, "walk") ELSE Fail(r, "missing")
    /\ UNCHANGED <<used, calls>>

Subtree(r) == UNION {tx[r].levels[i] : i \in DOMAIN tx[r].levels}

\* Deepest level first.
CollectSubtree(r) ==
    /\ At(r, "delete", "walk")
    /\ LET level == Children(tx[r].levels[1]) \ Subtree(r)
       IN  IF level = {} THEN Go(r, "clear")
           ELSE /\ tx' = [tx EXCEPT ![r].levels = <<level>> \o @]
                /\ UNCHANGED <<row, loc>>
    /\ UNCHANGED <<used, calls>>

ClearAll(r) ==
    /\ At(r, "delete", "clear")
    /\ tx' = [tx EXCEPT ![r].pc = "rows", ![r].cleared = Cards]
    /\ UNCHANGED <<row, used, loc, calls>>
ClearCards(r) ==
    /\ At(r, "delete", "clear")
    /\ LET cleared == {c \in Cards : loc[c] \in Subtree(r)}
       IN  /\ \A s \in Others(r) : cleared \cap CardRows(s) = {}
           /\ tx' = [tx EXCEPT ![r].pc = "rows", ![r].cleared = cleared]
    /\ UNCHANGED <<row, used, loc, calls>>

\* What still points to a row makes its removal fail.
Referenced(r, n) ==
    \/ Children({n}) \ tx[r].gone # {}
    \/ \E c \in Cards \ tx[r].cleared : loc[c] = n

DeleteRow(r) ==
    /\ At(r, "delete", "rows")
    /\ tx[r].levels # << >>
    /\ LET level == Head(tx[r].levels)
       IN  IF level = {}
           THEN /\ tx' = [tx EXCEPT ![r].levels = Tail(@)]
                /\ UNCHANGED <<row, loc>>
           ELSE \E n \in level :
                /\ \A s \in Others(r) : n \notin Deleting(s) \cup Renaming(s) \cup Pinned(s)
                /\ IF Exists(n) /\ Referenced(r, n) THEN Fail(r, "error")
                   ELSE /\ tx' = [tx EXCEPT ![r].levels[1] = @ \ {n},
                                            ![r].gone = IF Exists(n) THEN @ \cup {n} ELSE @]
                        /\ UNCHANGED <<row, loc>>
    /\ UNCHANGED <<used, calls>>

DeleteCommit(r) ==
    /\ At(r, "delete", "rows")
    /\ tx[r].levels = << >>
    /\ row' = [n \in Nodes |-> IF n \in tx[r].gone THEN None ELSE row[n]]
    /\ loc' = [c \in Cards |-> IF c \in tx[r].cleared THEN None ELSE loc[c]]
    /\ Done(r)
    /\ UNCHANGED <<used, calls>>

-----------------------------------------------------------------------------
\* CardService.update: with a location, or of another field (to = "kept");
\* it writes every column of the card it read.

EditCard(r) ==
    \E c \in Cards, to \in used \cup {None, "kept"} :
        /\ Begin(r, [op |-> "card", pc |-> "find", card |-> c, to |-> to])
        /\ UNCHANGED <<row, used, loc>>

EditFind(r) ==
    /\ At(r, "card", "find")
    /\ LET c == tx[r].card
           to == IF tx[r].to = "kept" THEN loc[c] ELSE tx[r].to
       IN  IF to # loc[c] /\ to # None /\ ~Exists(to) THEN Fail(r, "missing")
           ELSE /\ tx' = [tx EXCEPT ![r].pc = "write", ![r].to = to]
                /\ UNCHANGED <<row, loc>>
    /\ UNCHANGED <<used, calls>>

EditWrite(r) ==
    /\ At(r, "card", "write")
    /\ LET c == tx[r].card
           to == tx[r].to
           checked == to \notin {None, loc[c]}
       IN  /\ \A s \in Others(r) :
                 c \notin CardRows(s) /\ (checked => to \notin Deleting(s))
           /\ IF checked /\ ~Exists(to) THEN Fail(r, "error") ELSE Go(r, "commit")
    /\ UNCHANGED <<used, calls>>

EditCommit(r) ==
    /\ At(r, "card", "commit")
    /\ loc' = [loc EXCEPT ![tx[r].card] = tx[r].to]
    /\ Done(r)
    /\ UNCHANGED <<row, used, calls>>

-----------------------------------------------------------------------------

\* Whom the statement of r may have to wait for.
Waits(r) ==
    {s \in Others(r) :
        \/ At(r, "delete", "clear")
           /\ {c \in Cards : loc[c] \in Subtree(r)} \cap CardRows(s) # {}
        \/ At(r, "delete", "rows") /\ tx[r].levels # << >>
           /\ Head(tx[r].levels) \cap (Deleting(s) \cup Renaming(s) \cup Pinned(s)) # {}
        \/ At(r, "rename", "write") /\ tx[r].node \in Deleting(s) \cup Renaming(s)
        \/ At(r, "create", "write") /\ tx[r].parent \in Deleting(s)
        \/ At(r, "card", "write") /\ (tx[r].card \in CardRows(s) \/ tx[r].to \in Deleting(s))}

\* Postgres ends a cycle of waits with an error for one of them.
Deadlocked(r) ==
    /\ \E s \in Waits(r) : r \in Waits(s)
    /\ Fail(r, "error")
    /\ UNCHANGED <<used, calls>>

-----------------------------------------------------------------------------

Call(r) == Create(r) \/ Rename(r) \/ Delete(r) \/ EditCard(r)
Step(r) ==
    \/ CreateFind(r) \/ CreateUnique(r) \/ CreateInsert(r) \/ CreateCommit(r)
    \/ RenameFind(r) \/ RenameUnique(r) \/ RenameWrite(r) \/ RenameCommit(r)
    \/ DeleteFind(r) \/ CollectSubtree(r) \/ ClearCards(r) \/ DeleteRow(r) \/ DeleteCommit(r)
    \/ EditFind(r) \/ EditWrite(r) \/ EditCommit(r)
    \/ Deadlocked(r)

Next == \E r \in Requests : Call(r) \/ Step(r)

Fairness == \A r \in Requests : WF_vars(Step(r))

Spec == Init /\ [][Next]_vars /\ Fairness

-----------------------------------------------------------------------------

\* Every row hangs under a row of the kind above it and every card's location
\* exists: a subtree goes as a whole, with the cards' references to it
\* (delete: no row is ever orphaned).
TreeIsSound ==
    /\ \A n \in Nodes : Exists(n) =>
          LET k == RequiredParent[row[n].kind]
          IN  IF k = None THEN row[n].parent = None
              ELSE Exists(row[n].parent) /\ row[row[n].parent].kind = k
    /\ \A c \in Cards : loc[c] # None => Exists(loc[c])

\* A card loses its location only by an edit of it or together with the row
\* (delete: cards that referenced any removed node keep their row).
ClearsWithTheNode ==
    \A c \in Cards :
        loc'[c] # loc[c] => \/ \E r \in Requests : EditCommit(r) /\ tx[r].card = c
                            \/ loc'[c] = None /\ row'[loc[c]] = None

\* No two siblings share a name (ensureUniqueSiblingName).
SiblingNamesDiffer ==
    \A m, n \in Nodes :
        m # n /\ Exists(m) /\ Exists(n) /\ row[m].parent = row[n].parent
        => row[m].name # row[n].name

\* delete: "a missing id is the only failure".
MissingIsTheOnlyFailure ==
    \A r \in Requests : tx[r].op = "delete" /\ ~Open(r) => tx[r].result \in {"ok", "missing"}

\* Whoever asks gets an answer: no call waits for another forever.
EveryCallAnswered == \A r \in Requests : Open(r) ~> ~Open(r)
=============================================================================
