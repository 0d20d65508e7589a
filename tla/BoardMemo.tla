----------------------------- MODULE BoardMemo -----------------------------
(***************************************************************************)
(* GET /board: the serialized board is kept per board version, a counter    *)
(* that the hints of committed changes bump; requests that miss it together *)
(* wait for one computation, and a client that still holds the body of the  *)
(* entity tag is told that nothing changed.  What the board shows is the    *)
(* number of changes made to it; a lane shows those made when it was read.  *)
(***************************************************************************)
EXTENDS Integers, FiniteSets

CONSTANTS
    Clients,
    Lanes,
    Kinds,      \* what happens: "card" changes; the "extra" that a card shows of
                \* attachments and locations changes; a card is "discard"ed
    Postgres,   \* a transaction reads one lane after the other
    MaxChanges, \* changes in a behaviour
    MaxBoots,   \* starts of the process
    MayFail,    \* a computation may fail
    None

ASSUME MemoAssumption ==
    /\ Kinds \subseteq {"card", "extra", "discard"}
    /\ {MaxChanges, MaxBoots} \subseteq Nat
    /\ {Postgres, MayFail} \subseteq BOOLEAN
    /\ None \notin [boot : Nat, version : Nat]

VARIABLES
    made,       \* changes committed
    hints,      \* committed changes that are not published yet
    answered,   \* the last change whose request was answered
    version,    \* boardVersion
    boot,       \* bootNonce
    memo,       \* boardCaches of the board, or None
    pending,    \* version -> the computation for it, or None
    client      \* client -> its request and what it holds

vars == <<made, hints, answered, version, boot, memo, pending, client>>

Unread == -1
Bodies == [Lanes -> {Unread} \cup 0 .. MaxChanges]
Blank == [l \in Lanes |-> Unread]
Latest == [l \in Lanes |-> made]

Tags == [boot : 1 .. MaxBoots, version : 0 .. MaxChanges]
Held == [tag : Tags \cup {None}, body : Bodies]

Init ==
    /\ made = 0 /\ hints = {} /\ answered = 0
    /\ version = 0 /\ boot = 1 /\ memo = None
    /\ pending = [v \in 0 .. MaxChanges |-> None]
    /\ client = [c \in Clients |->
                   [at |-> "rest", floor |-> 0, on |-> 0, held |-> [tag |-> None, body |-> Blank]]]

(***************************************************************************)
(* Changes                                                                 *)
(***************************************************************************)

Commit(kind) ==
    /\ made < MaxChanges
    /\ made' = made + 1
    /\ hints' = hints \cup {[kind |-> kind, change |-> made + 1]}
    /\ UNCHANGED <<answered, version, boot, memo, pending, client>>

Highest(m, n) == IF m > n THEN m ELSE n

\* affectsBoardSnapshot; a discard has no hint at all.
Affects(hint) == hint.kind = "card"

\* Listeners run synchronously, then the request of the change is answered.
Publish(hint) ==
    /\ hint \in hints
    /\ hints' = hints \ {hint}
    /\ version' = IF Affects(hint) THEN version + 1 ELSE version
    /\ answered' = Highest(answered, hint.change)
    /\ UNCHANGED <<made, boot, memo, pending, client>>

(***************************************************************************)
(* GET /board                                                              *)
(***************************************************************************)

Goes(c, at, on) == [client EXCEPT ![c].at = at, ![c].on = on]

\* The request waits for its session and access.
Ask(c) ==
    /\ client[c].at = "rest"
    /\ client' = [client EXCEPT ![c].at = "asked", ![c].floor = answered]
    /\ UNCHANGED <<made, hints, answered, version, boot, memo, pending>>

Tag(v) == [boot |-> boot, version |-> v]

\* 304 when the tag is the one the client holds.
Served(entry, held) ==
    IF held.tag = Tag(entry.version) THEN held
    ELSE [tag |-> Tag(entry.version), body |-> entry.body]

Hit == memo # None /\ memo.version = version

ServeMemo(c) ==
    /\ client[c].at = "asked" /\ Hit
    /\ client' = [client EXCEPT ![c].at = "shown", ![c].held = Served(memo, @)]
    /\ UNCHANGED <<made, hints, answered, version, boot, memo, pending>>

\* Joins the computation for this version, or starts it.
JoinAny(c) ==
    /\ client[c].at = "asked" /\ ~Hit
    /\ \E v \in DOMAIN pending :
          /\ IF \E w \in DOMAIN pending : pending[w] # None
             THEN pending[v] # None ELSE v = version
          /\ pending' = [pending EXCEPT ![v] = IF @ = None THEN Blank ELSE @]
          /\ client' = Goes(c, "waiting", v)
    /\ UNCHANGED <<made, hints, answered, version, boot, memo>>
Join(c) ==
    /\ client[c].at = "asked" /\ ~Hit
    /\ pending' = [pending EXCEPT ![version] = IF @ = None THEN Blank ELSE @]
    /\ client' = Goes(c, "waiting", version)
    /\ UNCHANGED <<made, hints, answered, version, boot, memo>>

ReadLanes(v, lanes) ==
    /\ pending[v] # None
    /\ \A l \in lanes : pending[v][l] = Unread
    /\ pending' = [pending EXCEPT ![v] = [l \in Lanes |-> IF l \in lanes THEN made ELSE @[l]]]
    /\ UNCHANGED <<made, hints, answered, version, boot, memo, client>>

\* uow.read: every statement of a Postgres transaction sees what is committed.
ReadLaneByLane(v) == \E l \in Lanes : ReadLanes(v, {l})
Read(v) == IF Postgres THEN ReadLaneByLane(v) ELSE ReadLanes(v, Lanes)

Settled(v, outcome(_)) ==
    [c \in Clients |-> IF client[c].at = "waiting" /\ client[c].on = v
                       THEN outcome(client[c]) ELSE client[c]]

\* A computation that raced with an invalidation is served, not kept.
KeepsAlways(entry) == [entry EXCEPT !.version = version]
Keeps(entry) == IF entry.version = version THEN entry ELSE memo

Finish(v) ==
    LET entry == [version |-> v, body |-> pending[v]]
    IN  /\ pending[v] # None /\ \A l \in Lanes : pending[v][l] # Unread
        /\ memo' = Keeps(entry)
        /\ client' = Settled(v, LAMBDA r :
                        [r EXCEPT !.at = "shown", !.held = Served(entry, @)])
        /\ pending' = [pending EXCEPT ![v] = None]
        /\ UNCHANGED <<made, hints, answered, version, boot>>

\* Not memoized; everybody who waited gets the error.
Fail(v) ==
    /\ MayFail /\ pending[v] # None
    /\ client' = Settled(v, LAMBDA r : [r EXCEPT !.at = "rest"])
    /\ pending' = [pending EXCEPT ![v] = None]
    /\ UNCHANGED <<made, hints, answered, version, boot, memo>>

Again(c) ==
    /\ client[c].at = "shown"
    /\ client' = Goes(c, "rest", 0)
    /\ UNCHANGED <<made, hints, answered, version, boot, memo, pending>>

\* What is in memory is gone, and the hints that were not published.
Restart ==
    /\ boot < MaxBoots
    /\ boot' = boot + 1
    /\ version' = 0 /\ memo' = None /\ hints' = {}
    /\ pending' = [v \in DOMAIN pending |-> None]
    /\ client' = [c \in Clients |->
                    IF client[c].at = "shown" THEN client[c] ELSE [client[c] EXCEPT !.at = "rest"]]
    /\ UNCHANGED <<made, answered>>

-----------------------------------------------------------------------------

Next ==
    \/ \E kind \in Kinds : Commit(kind)
    \/ \E hint \in hints : Publish(hint)
    \/ \E c \in Clients : Ask(c) \/ ServeMemo(c) \/ Join(c) \/ Again(c)
    \/ \E v \in DOMAIN pending : Read(v) \/ Finish(v) \/ Fail(v)
    \/ Restart

Spec == Init /\ [][Next]_vars

-----------------------------------------------------------------------------

\* The board version never passes the changes that were made, and the memo
\* never its version (board-routes.ts).
MemoTypeOK ==
    /\ made \in 0 .. MaxChanges /\ answered \in 0 .. made
    /\ hints \subseteq [kind : Kinds, change : 1 .. made]
    /\ version \in 0 .. made /\ boot \in 1 .. MaxBoots
    /\ memo # None => memo.version \in 0 .. version /\ memo.body \in Bodies
    /\ pending \in [0 .. MaxChanges -> Bodies \cup {None}]
    /\ \A c \in Clients : client[c].at \in {"rest", "asked", "waiting", "shown"}
                          /\ client[c].held \in Held

\* A board that is asked for after the answer to a change shows that change:
\* neither the memo, nor a computation that was running before, nor a tag of an
\* earlier process hides it (GET /board).
ReadYourWrites ==
    \A c \in Clients : client[c].at = "shown" =>
        \A l \in Lanes : client[c].held.body[l] >= client[c].floor

\* rest-api.md, GET /board: the body is memoized until the next committed
\* mutation.  Once every change is published the memo is the board.
MemoIsTheBoard == hints = {} /\ Hit => memo.body = Latest

\* unit-of-work.ts: each read has a consistent snapshot, so no card is shown
\* in two columns, or in none (boardSnapshot).
OneSnapshot ==
    \A c \in Clients : client[c].at = "shown" =>
        \A l, k \in Lanes : client[c].held.body[l] = client[c].held.body[k]
=============================================================================
