----------------------------- MODULE LiveBoard -----------------------------
(***************************************************************************)
(* What one browser shows (web/src/api): the board and the card of an open  *)
(* panel are cached queries; a committed change is hinted over the event    *)
(* stream (routes/stream-routes.ts), a hint invalidates the queries it      *)
(* names, and an invalid query is fetched again.  Moves of this user are    *)
(* shown before the server answers.  Content is the set of the changes it   *)
(* contains.  EventSource and the query library are external: modelled as   *)
(* far as this code relies on them.                                         *)
(***************************************************************************)
EXTENDS Integers, FiniteSets

CONSTANTS
    CardChanges,    \* what others do to the card: shown on board and panel
    FileChanges,    \* attachments: shown on the panel
    Discards,       \* cards deleted by others: no event, so no hint
    Moves,          \* moves by this user
    StartsConnected,    \* everything was fetched after the stream opened
    MaxDrops,       \* bound on broken connections
    None, Asked

Keys == {"board", "card"}
Changes == CardChanges \cup FileChanges \cup Discards \cup Moves

VARIABLES
    server,     \* the changes committed
    stream,     \* the connection: "connecting", "registered", "open" or "retrying"
    wire,       \* changes hinted and not yet delivered
    dropped, drops,
    pending,    \* the keys of the coalescing window
    data,       \* key -> what is shown, None before the first answer
    fetch,      \* key -> None, Asked or what the server answered
    move        \* move -> [state, previous]

vars == <<server, stream, wire, dropped, drops, pending, data, fetch, move>>

\* The part of the changes that a query returns.
View(k, changes) == IF k = "board" THEN changes \ FileChanges ELSE changes \ Discards

\* hintInvalidations
Hinted(c) == IF c \in FileChanges THEN {"card"} ELSE {"board", "card"}

Init ==
    /\ server = {} /\ wire = {} /\ pending = {}
    /\ dropped = FALSE /\ drops = 0
    /\ stream = IF StartsConnected THEN "open" ELSE "connecting"
    /\ data = [k \in Keys |-> IF StartsConnected THEN {} ELSE None]
    /\ fetch = [k \in Keys |-> IF StartsConnected THEN None ELSE Asked]
    /\ move = [m \in Moves |-> [state |-> "idle", previous |-> {}]]

\* A hint reaches the streams that are registered when it is published.
Published(changes) == IF stream \in {"registered", "open"} THEN wire \cup changes ELSE wire

Change(c) ==
    /\ c \notin server
    /\ server' = server \cup {c}
    /\ wire' = Published({c} \ Discards)
    /\ UNCHANGED <<stream, dropped, drops, pending, data, fetch, move>>

(***************************************************************************)
(* The query cache                                                         *)
(***************************************************************************)

\* Fetch again, from the start, unless the first answer is still awaited.
Refetched(keys) ==
    [k \in Keys |-> IF k \in keys /\ ~(data[k] = None /\ fetch[k] # None) THEN Asked ELSE fetch[k]]

Read(k) ==
    /\ fetch[k] = Asked
    /\ fetch' = [fetch EXCEPT ![k] = View(k, server)]
    /\ UNCHANGED <<server, stream, wire, dropped, drops, pending, data, move>>

Answer(k) ==
    /\ fetch[k] \notin {None, Asked}
    /\ data' = [data EXCEPT ![k] = fetch[k]]
    /\ fetch' = [fetch EXCEPT ![k] = None]
    /\ UNCHANGED <<server, stream, wire, dropped, drops, pending, move>>

(***************************************************************************)
(* The stream                                                              *)
(***************************************************************************)

Register ==
    /\ stream = "connecting"
    /\ stream' = "registered"
    /\ UNCHANGED <<server, wire, dropped, drops, pending, data, fetch, move>>

OpenWithoutRefetch ==
    /\ stream = "registered"
    /\ stream' = "open"
    /\ dropped' = FALSE
    /\ UNCHANGED <<server, wire, drops, pending, data, fetch, move>>
\* A first connection refetches nothing, a later one the board.
Open ==
    /\ stream = "registered"
    /\ stream' = "open"
    /\ dropped' = FALSE
    /\ fetch' = IF dropped THEN Refetched({"board"}) ELSE fetch
    /\ UNCHANGED <<server, wire, drops, pending, data, move>>

Lost(next) ==
    /\ drops < MaxDrops
    /\ drops' = drops + 1
    /\ dropped' = TRUE
    /\ stream' = next
    /\ wire' = {}
    /\ UNCHANGED <<server, pending, data, fetch, move>>

\* The browser reconnects by itself, unless the server refused.
Drop == stream \in {"registered", "open"} /\ Lost("connecting")
Refused == stream = "connecting" /\ Lost("retrying")

Retry ==
    /\ stream = "retrying"
    /\ stream' = "connecting"
    /\ UNCHANGED <<server, wire, dropped, drops, pending, data, fetch, move>>

Deliver(c) ==
    /\ stream = "open" /\ c \in wire
    /\ wire' = wire \ {c}
    /\ pending' = pending \cup Hinted(c)
    /\ UNCHANGED <<server, stream, dropped, drops, data, fetch, move>>

Flush ==
    /\ pending # {}
    /\ pending' = {}
    /\ fetch' = Refetched(pending)
    /\ UNCHANGED <<server, stream, wire, dropped, drops, data, move>>

(***************************************************************************)
(* useMoveCard                                                             *)
(***************************************************************************)

\* onMutate cancels the board's fetch, remembers the board and moves the card.
Mutate(m) ==
    /\ move[m].state = "idle" /\ data["board"] # None
    /\ move' = [move EXCEPT ![m] = [state |-> "posted", previous |-> data["board"]]]
    /\ data' = [data EXCEPT !["board"] = @ \cup {m}]
    /\ fetch' = [fetch EXCEPT !["board"] = None]
    /\ UNCHANGED <<server, stream, wire, dropped, drops, pending>>

Commit(m) ==
    /\ move[m].state = "posted"
    /\ server' = server \cup {m}
    /\ wire' = Published({m})
    /\ move' = [move EXCEPT ![m].state = "committed"]
    /\ UNCHANGED <<stream, dropped, drops, pending, data, fetch>>

Settled == Refetched({"board", "card"})

MoveSucceeds(m) ==
    /\ move[m].state = "committed"
    /\ move' = [move EXCEPT ![m].state = "done"]
    /\ fetch' = Settled
    /\ UNCHANGED <<server, stream, wire, dropped, drops, pending, data>>

MoveFailsSilently(m) ==
    /\ move[m].state \in {"posted", "committed"}
    /\ move' = [move EXCEPT ![m].state = "done"]
    /\ data' = [data EXCEPT !["board"] = move[m].previous]
    /\ UNCHANGED <<server, stream, wire, dropped, drops, pending, fetch>>
\* A conflict, or the answer is lost: roll back, then fetch.
MoveFails(m) ==
    /\ move[m].state \in {"posted", "committed"}
    /\ move' = [move EXCEPT ![m].state = "done"]
    /\ data' = [data EXCEPT !["board"] = move[m].previous]
    /\ fetch' = Settled
    /\ UNCHANGED <<server, stream, wire, dropped, drops, pending>>

Progress ==
    \/ \E k \in Keys : Read(k) \/ Answer(k)
    \/ Register \/ Open \/ Retry \/ Flush
    \/ \E c \in Changes : Deliver(c)
    \/ \E m \in Moves : MoveSucceeds(m) \/ MoveFails(m)

Next ==
    \/ \E c \in Changes \ Moves : Change(c)
    \/ \E m \in Moves : Mutate(m) \/ Commit(m)
    \/ Drop \/ Refused
    \/ Progress

\* Requests are answered, timers fire, hints on a connection that stays up arrive.
Fairness ==
    /\ \A k \in Keys : WF_vars(Read(k) \/ Answer(k))
    /\ WF_vars(Register) /\ WF_vars(Open) /\ WF_vars(Retry) /\ WF_vars(Flush)
    /\ \A c \in Changes : WF_vars(Deliver(c))
    /\ \A m \in Moves : WF_vars(MoveSucceeds(m) \/ MoveFails(m))

Spec == Init /\ [][Next]_vars /\ Fairness

(***************************************************************************)
(* Properties                                                              *)
(***************************************************************************)

InFlight(m) == move[m].state \in {"posted", "committed"}

LiveTypeOK ==
    /\ server \subseteq Changes /\ wire \subseteq server
    /\ stream \in {"connecting", "registered", "open", "retrying"}
    /\ pending \subseteq Keys
    /\ \A k \in Keys : data[k] = None \/ data[k] \subseteq View(k, Changes)
    /\ \A m \in Moves : move[m].state = "committed" => m \in server

\* A move that the server does not have is on the board only while a move is
\* under way, or a fetch: no order of failing moves leaves a ghost behind.  It
\* need not be the same move: the snapshot of a second one shows the first, and
\* a third cancels the fetch that would have taken it away.
NoGhosts ==
    data["board"] # None /\ (data["board"] \cap Moves) \ server # {} =>
        fetch["board"] # None \/ \E m \in Moves : InFlight(m)

\* The same for what disappears: no roll back hides a change that was there.
Quiet ==
    /\ stream = "open" /\ wire = {} /\ pending = {}
    /\ \A k \in Keys : fetch[k] = None
    /\ \A m \in Moves : ~InFlight(m)
QuietBoardIsCurrent == Quiet => data["board"] = View("board", server)

BoardInv == LiveTypeOK /\ NoGhosts /\ QuietBoardIsCurrent

\* Once changes and failures stop, the board shows what the server has.
BoardCatchesUp == <>[](data["board"] = View("board", server))

\* Once changes stop, so does the panel of an open card.
CardCatchesUp == <>[](data["card"] = View("card", server))
=============================================================================
