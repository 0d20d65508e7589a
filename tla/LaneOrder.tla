------------------------------ MODULE LaneOrder ------------------------------
(***************************************************************************)
(* The order of the cards in one column: fractional keys computed on the    *)
(* server from the neighbours a client names (CardService.move), from the   *)
(* edges of the column (create, cancel, reopen), and laid anew by the       *)
(* nightly rebalance (position-rebalance.ts), under UNIQUE(laneId,          *)
(* position) and its one retry (runWithPositionRetry).                      *)
(*                                                                         *)
(* A call is one transaction in four steps: it reads rows, reads the edge   *)
(* or the gap it aims at, updates its rows one statement each, commits.  On *)
(* SQLite transactions run one after the other; on Postgres they interleave *)
(* and a statement waits for the open transactions that wrote its row or    *)
(* its key.  Versions are left to CardTransactions.tla.                    *)
(***************************************************************************)
EXTENDS Integers, Sequences, FiniteSets

CONSTANTS
    Cards,
    Movers,         \* calls that place, remove or archive one card
    Jobs,           \* the rebalance: one call at most (croner's `protect`)
    Adapter,        \* "sqlite" or "postgres"
    Keys,           \* a bounded piece of the dense order of keys
    Long,           \* the keys longer than REBALANCE_MAX_KEY_LENGTH
    Between(_, _),  \* generateKeyBetween; None is an open end, or no room
    Fresh(_, _),    \* generateNKeysBetween(a, null, n); << >> when no room
    None

Calls == Movers \cup Jobs

ASSUME ParametersAssumption ==
    /\ Adapter \in {"sqlite", "postgres"}
    /\ Movers \cap Jobs = {}
    /\ IsFiniteSet(Cards)
    /\ Keys \subseteq Int /\ Long \subseteq Keys
    /\ None \notin Cards \cup Int
ASSUME BetweenAssumption ==
    \A a, b \in Keys \cup {None} : \/ Between(a, b) = None
                                   \/ /\ Between(a, b) \in Keys
                                      /\ a # None => a < Between(a, b)
                                      /\ b # None => Between(a, b) < b
ASSUME FreshAssumption ==
    \A a \in Keys, n \in 1 .. Cardinality(Cards) :
        \/ Fresh(a, n) = << >>
        \/ /\ Fresh(a, n) \in [1 .. n -> Keys \ Long]
           /\ \A i \in 1 .. n : a < Fresh(a, n)[i]
           /\ \A i, j \in 1 .. n : i < j => Fresh(a, n)[i] < Fresh(a, n)[j]

VARIABLES
    rows,      \* card -> its committed row
    pc,        \* call -> where it is
    request,   \* call -> what it was asked to do, or None
    image,     \* call -> the rows when its transaction read them
    plan,      \* call -> the updates it has left
    staged,    \* call -> card -> the row its open transaction wrote, or None
    retried    \* calls running their one retry

vars == <<rows, pc, request, image, plan, staged, retried>>

\* A card outside of the column, or not there at all, is away.
Rows == [here : BOOLEAN, key : Keys \cup {None}, archived : BOOLEAN]
Away == [here |-> FALSE, key |-> None, archived |-> FALSE]
Placed(k) == [here |-> TRUE, key |-> k, archived |-> FALSE]

Active(c) == rows[c].here /\ ~rows[c].archived

Requests ==
    [kind : {"move"}, card : Cards, prev : Cards \cup {None}, next : Cards \cup {None}]
    \cup [kind : {"top", "bottom", "leave", "archive"}, card : Cards,
          prev : {None}, next : {None}]

RebalanceRequest == [kind |-> "rebalance", card |-> None, prev |-> None, next |-> None]

ASSUME NoneAssumption == None \notin Rows \cup Requests \cup {RebalanceRequest}

Retriable == {"move", "top", "bottom"}

Updates == [card : Cards, row : Rows]

Nothing == [c \in Cards |-> None]
Blank   == [c \in Cards |-> Away]

Init ==
    /\ rows = Blank
    /\ pc = [m \in Calls |-> "idle"]
    /\ request = [m \in Calls |-> None]
    /\ image = [m \in Calls |-> Blank]
    /\ plan = [m \in Calls |-> << >>]
    /\ staged = [m \in Calls |-> Nothing]
    /\ retried = {}

-----------------------------------------------------------------------------
\* A call ends: committed, refused, or rolled back.
Forget(m) ==
    /\ pc' = [pc EXCEPT ![m] = "idle"]
    /\ request' = [request EXCEPT ![m] = None]
    /\ image' = [image EXCEPT ![m] = Blank]
    /\ plan' = [plan EXCEPT ![m] = << >>]
    /\ staged' = [staged EXCEPT ![m] = Nothing]
    /\ retried' = retried \ {m}

\* On SQLite no transaction starts inside another one.
MayBegin(m) ==
    Adapter = "sqlite" => \A n \in Calls \ {m} : pc[n] \in {"idle", "again"}

\* readNeighbor: in the column, not archived, another card.
Neighbour(x, c) == x # None => Active(x) /\ x # c

\* What the first reads must find, or the call is refused (409, nothing to do).
Acceptable(q) ==
    \/ /\ q.kind = "move"                  \* keyBetween throws on crossed bounds
       /\ ~rows[q.card].archived
       /\ Neighbour(q.prev, q.card) /\ Neighbour(q.next, q.card)
       /\ q.prev # None /\ q.next # None => rows[q.prev].key < rows[q.next].key
    \/ q.kind = "top" /\ ~rows[q.card].here
    \/ q.kind = "bottom"
    \/ q.kind = "leave" /\ rows[q.card].here
    \/ q.kind = "archive" /\ Active(q.card)
    \/ q.kind = "rebalance" /\ \E c \in Cards : Active(c) /\ rows[c].key \in Long

\* The rows whose contents the call uses later on.
Reads(q) == IF q.kind = "rebalance" THEN Cards
            ELSE IF q.kind = "archive" THEN {q.card}
            ELSE Cards \cap {q.prev, q.next}

Begin(m, q) ==
    /\ MayBegin(m)
    /\ Acceptable(q)
    /\ pc' = [pc EXCEPT ![m] = "aiming"]
    /\ request' = [request EXCEPT ![m] = q]
    /\ image' = [image EXCEPT ![m] = [c \in Cards |-> IF c \in Reads(q) THEN rows[c] ELSE Away]]
    /\ UNCHANGED <<rows, plan, staged, retried>>

\* A client drags a card between the neighbours it sees, or a card enters or
\* leaves the column in another way; the hour of the rebalance comes.  A call
\* refused at once changes nothing.  A card being created is new: its id comes
\* from a sequence (MAX(id) + 1 on SQLite) and no other call names it yet.
Start(m, q) ==
    /\ pc[m] = "idle"
    /\ \A n \in Calls : request[n] # None /\ request[n].card = q.card
          => "top" \notin {q.kind, request[n].kind}
    /\ Begin(m, q)

\* The one retry: all of it again, on what the rows are now.
Again(m) == pc[m] = "again" /\ Begin(m, request[m])

RefuseAgain(m) ==
    /\ pc[m] = "again"
    /\ MayBegin(m)
    /\ ~Acceptable(request[m])
    /\ Forget(m)
    /\ UNCHANGED rows

-----------------------------------------------------------------------------
(* Where a card goes.                                                       *)

KeysIn(S)   == {rows[d].key : d \in {e \in S : rows[e].here}}
Greatest(K) == IF K = {} THEN None ELSE CHOOSE k \in K : \A l \in K : l <= k
Least(K)    == IF K = {} THEN None ELSE CHOOSE k \in K : \A l \in K : k <= l

\* positionBefore: the closest row before the bound, archived ones included,
\* the moving card not.
PositionBeforeActive(bound, c) ==       \* mutant: archived rows are not seen
    Greatest({k \in KeysIn({d \in Cards \ {c} : ~rows[d].archived}) :
                  bound = None \/ k < bound})
PositionBefore(bound, c) ==
    Greatest({k \in KeysIn(Cards \ {c}) : bound = None \/ k < bound})

\* The neighbour the client named, as the call first read it.
Bound(m) == IF request[m].next = None THEN None ELSE image[m][request[m].next].key

KeyFromPrev(m) ==                       \* mutant: the gap is taken from the client
    LET q == request[m]
    IN Between(IF q.prev = None THEN PositionBefore(Bound(m), q.card)
               ELSE image[m][q.prev].key, Bound(m))
KeyAfterNext(m) ==                      \* mutant: the sides are swapped
    LET k == Bound(m)
    IN IF k = None THEN Between(PositionBefore(None, request[m].card), None)
       ELSE Between(k, Least({l \in KeysIn(Cards \ {request[m].card}) : k < l}))
KeyFor(m) ==
    LET q == request[m]
    IN IF q.kind = "move" THEN Between(PositionBefore(Bound(m), q.card), Bound(m))
       ELSE IF q.kind = "top" THEN Between(None, Least(KeysIn(Cards)))
       ELSE Between(Greatest(KeysIn(Cards)), None)

\* The active cards as the rebalance listed them, in order.
Listed(m) ==
    LET seen == {c \in Cards : image[m][c].here /\ ~image[m][c].archived}
    IN CHOOSE s \in [1 .. Cardinality(seen) -> seen] :
          \A i, j \in DOMAIN s : i < j => image[m][s[i]].key < image[m][s[j]].key

\* The fresh keys, after the greatest key any row of the column has.
FreshReversed(n) == LET k == Fresh(Greatest(KeysIn(Cards)), n)   \* mutant: listed
                    IN [i \in DOMAIN k |-> k[Len(k) + 1 - i]]    \* in descending order
FreshKeys(n) == Fresh(Greatest(KeysIn(Cards)), n)

\* The updates the call will make, whole rows spread from the ones it read.
AimPlace(m) ==
    /\ request[m].kind \in Retriable
    /\ KeyFor(m) \in Keys
    /\ plan' = [plan EXCEPT ![m] = <<[card |-> request[m].card, row |-> Placed(KeyFor(m))]>>]

AimLeave(m) ==
    /\ request[m].kind = "leave"
    /\ plan' = [plan EXCEPT ![m] = <<[card |-> request[m].card, row |-> Away]>>]

AimArchive(m) ==
    LET c == request[m].card
    IN /\ request[m].kind = "archive"
       /\ plan' = [plan EXCEPT ![m] =
              <<[card |-> c, row |-> [image[m][c] EXCEPT !.archived = TRUE]]>>]

AimRebalance(m) ==
    LET list == Listed(m)
        keys == FreshKeys(Len(list))
    IN /\ request[m].kind = "rebalance"
       /\ KeysIn(Cards) # {} /\ Len(keys) = Len(list)
       /\ plan' = [plan EXCEPT ![m] = [i \in DOMAIN list |->
              [card |-> list[i], row |-> [image[m][list[i]] EXCEPT !.key = keys[i]]]]]

Aim(m) ==
    /\ pc[m] = "aiming"
    /\ AimPlace(m) \/ AimLeave(m) \/ AimArchive(m) \/ AimRebalance(m)
    /\ pc' = [pc EXCEPT ![m] = "writing"]
    /\ UNCHANGED <<rows, request, image, staged, retried>>

-----------------------------------------------------------------------------
(* The database.                                                            *)

\* The row of card d as call m's transaction sees it.
Seen(m, d) == IF staged[m][d] # None THEN staged[m][d] ELSE rows[d]

\* UNIQUE(laneId, position): another row holds the key.
Taken(m) ==
    LET u == Head(plan[m])
    IN u.row.here /\ \E d \in Cards \ {u.card} : Seen(m, d).here /\ Seen(m, d).key = u.row.key

\* Another open transaction wrote this row, or wrote or freed this key: the
\* statement waits for it to end.
Waits(m) ==
    LET u == Head(plan[m])
    IN \E n \in Calls \ {m}, d \in Cards :
          /\ staged[n][d] # None
          /\ \/ d = u.card
             \/ u.row.here /\ u.row.key \in {staged[n][d].key, rows[d].key}

Ready(m) == pc[m] = "writing" /\ plan[m] # << >> /\ ~Waits(m)

\* UPDATE cards SET <all columns> WHERE id.
Write(m) ==
    /\ Ready(m)
    /\ ~Taken(m)
    /\ staged' = [staged EXCEPT ![m][Head(plan[m]).card] = Head(plan[m]).row]
    /\ plan' = [plan EXCEPT ![m] = Tail(@)]
    /\ UNCHANGED <<rows, pc, request, image, retried>>

\* DuplicatePositionError: rolled back, and run once more where
\* runWithPositionRetry is in use; otherwise the call fails.
Collide(m) ==
    /\ Ready(m)
    /\ Taken(m)
    /\ UNCHANGED rows
    /\ IF request[m].kind \in Retriable /\ m \notin retried
       THEN /\ pc' = [pc EXCEPT ![m] = "again"]
            /\ image' = [image EXCEPT ![m] = Blank]
            /\ plan' = [plan EXCEPT ![m] = << >>]
            /\ staged' = [staged EXCEPT ![m] = Nothing]
            /\ retried' = retried \cup {m}
            /\ UNCHANGED request
       ELSE Forget(m)

Commit(m) ==
    /\ pc[m] = "writing"
    /\ plan[m] = << >>
    /\ rows' = [c \in Cards |-> Seen(m, c)]
    /\ Forget(m)

\* The transaction fails otherwise (a lost connection, a deadlock victim, a
\* crash, or no room left in the bounded piece of the order).
Abort(m) ==
    /\ pc[m] \in {"aiming", "writing"}
    /\ Forget(m)
    /\ UNCHANGED rows

-----------------------------------------------------------------------------
Step(m) == \/ Again(m) \/ RefuseAgain(m) \/ Aim(m) \/ Write(m)
           \/ Collide(m) \/ Commit(m) \/ Abort(m)

Next ==
    \/ \E m \in Movers, q \in Requests : Start(m, q)
    \/ \E m \in Jobs : Start(m, RebalanceRequest)
    \/ \E m \in Calls : Step(m)

Spec == Init /\ [][Next]_vars

-----------------------------------------------------------------------------
(* Properties.                                                              *)

\* Every variable stays within its type.
TypeOK ==
    /\ rows \in [Cards -> Rows]
    /\ pc \in [Calls -> {"idle", "again", "aiming", "writing"}]
    /\ request \in [Calls -> Requests \cup {RebalanceRequest, None}]
    /\ image \in [Calls -> [Cards -> Rows]]
    /\ plan \in [Calls -> Seq(Updates)]
    /\ staged \in [Calls -> [Cards -> Rows \cup {None}]]
    /\ retried \in SUBSET Movers

IsOpen(m) == pc[m] \in {"aiming", "writing"}

\* No key twice in the column: the unique index, kept by transactions that
\* interleave.
KeysApart ==
    \A c, d \in Cards : rows[c].here /\ rows[d].here /\ c # d => rows[c].key # rows[d].key

\* What the rest is true from, on SQLite: variables within their types, no key
\* twice in the column, one transaction at a time and what it read still so,
\* and nothing left of a call that is over.
LaneInv ==
    /\ TypeOK
    /\ KeysApart
    /\ \A m, n \in Calls : IsOpen(m) /\ IsOpen(n) => m = n
    /\ \A m \in Calls : IF IsOpen(m) THEN \A c \in Reads(request[m]) : image[m][c] = rows[c]
                        ELSE staged[m] = Nothing /\ plan[m] = << >>

\* ADR-006 calls UNIQUE(lane_id, position) a backstop: with the keys computed
\* in the transaction no key is ever found taken, not even one of an archived
\* or filtered row inside the gap, nor a row the rebalance has yet to rewrite.
BackstopIdle == \A m \in Calls : pc[m] = "writing" /\ plan[m] # << >> => ~Taken(m)

\* position-rebalance.ts: the rewrite "never trips the UNIQUE backstop".
RebalanceNeverCollides == \A m \in Jobs : Ready(m) => ~Taken(m)

Before(r, c, d) == r[c].here /\ r[d].here /\ r[c].key < r[d].key

\* A card dropped before a neighbour lands directly before it, hidden rows and
\* all, and after the neighbour on the other side; without one, at the end.
LandsInGap ==
    \A m \in Movers : Commit(m) /\ request[m].kind = "move" =>
       LET q == request[m]
       IN /\ rows'[q.card].here
          /\ q.prev # None => Before(rows', q.prev, q.card)
          /\ q.next # None => Before(rows', q.card, q.next)
          /\ \A d \in Cards \ {q.next} : Before(rows', q.card, d)
                 => q.next # None /\ Before(rows', q.next, d)

\* On either adapter, a card lands before the neighbour it was dropped before,
\* unless that one has itself been moved in the meantime.
LandsBeforeNext ==
    \A m \in Movers :
       Commit(m) /\ request[m].kind = "move" /\ request[m].next # None =>
          LET q == request[m]
          IN rows[q.next] = image[m][q.next] => Before(rows', q.card, q.next)

\* ADR-006, "rebalancing is not a user-visible reorder": a commit leaves every
\* card but the one it is about in the column or away, archived or active, and
\* the active ones in the order they had.
OtherCardsStay ==
    \A m \in Calls : Commit(m) =>
       \A c, d \in Cards \ {request[m].card} :
          /\ rows'[c].here = rows[c].here /\ rows'[c].archived = rows[c].archived
          /\ Active(c) /\ Active(d) => (Before(rows, c, d) <=> Before(rows', c, d))

\* On either adapter no key is twice in the column; on SQLite what an open
\* transaction has read is still so, and the backstop stays idle.
KeysStayApart == KeysApart /\ (Adapter = "sqlite" => LaneInv /\ BackstopIdle)

\* A dropped card lands before its neighbour, and on SQLite in the gap.
LandsInPlace      == LandsBeforeNext /\ (Adapter = "sqlite" => LandsInGap)
LandsWhereDropped == [][LandsInPlace]_vars

\* No commit moves a card that it is not about.
OnlyTheMovedCardMoves == [][OtherCardsStay]_vars
=============================================================================
