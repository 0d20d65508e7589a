---------------------------- MODULE WaitingBanner ----------------------------
(***************************************************************************)
(* The banner of a waiting card in the panel: reason and resume date are    *)
(* edited in place while others edit the card.  The banner keeps a draft    *)
(* and the server's values it has last seen; what comes from the server     *)
(* replaces a field of the draft that was not diverged from them            *)
(* (CardPanel.tsx, WaitingBanner).  The panel is one component for every    *)
(* card: it stays mounted when the user goes on to a card that is cached.   *)
(***************************************************************************)
EXTENDS Naturals

CONSTANTS
    Cards, Fields, Values,
    MaxVersion,     \* bound: no change of a card once it has this version
    None

VARIABLES
    server,     \* card -> [version, waits, value: field -> value]
    cache,      \* card -> what the browser has of it, or None
    open,       \* the card in the panel
    banner,     \* None, or [draft, seen, typed]; typed (history): on which card
                \* a field was edited away from the server's value, or None
    save        \* the PATCH under way, or None

vars == <<server, cache, open, banner, save>>

Contents == [Fields -> Values]

Fresh(entry) == [draft |-> entry.value, seen |-> entry.value,
                 typed |-> [f \in Fields |-> None]]

\* The user's divergence ends where draft and server agree.
Diverged(draft, value, typed) ==
    [f \in Fields |-> IF draft[f] = value[f] THEN None ELSE typed[f]]

\* The effect that runs when the server's values change.
Reseeded(b, value) ==
    [f \in Fields |-> IF value[f] # b.seen[f] /\ b.draft[f] = b.seen[f]
                      THEN value[f] ELSE b.draft[f]]

\* The banner once the panel shows this entry: not mounted without data or on
\* a card that does not wait, else kept from the render before.
Rendered(b, entry) ==
    IF entry = None \/ ~entry.waits THEN None
    ELSE IF b = None THEN Fresh(entry)
    ELSE LET draft == Reseeded(b, entry.value)
         IN  [draft |-> draft, seen |-> entry.value,
              typed |-> Diverged(draft, entry.value, b.typed)]

Init ==
    /\ \E v \in Contents :
          server = [c \in Cards |-> [version |-> 1, waits |-> TRUE, value |-> v]]
    /\ cache = [c \in Cards |-> None]
    /\ open \in Cards
    /\ banner = None
    /\ save = None

\* Somebody else edits the card, or takes it out of the column or back.
Remote(c, waits, v) ==
    /\ server[c].version < MaxVersion
    /\ server' = [server EXCEPT ![c] = [version |-> @.version + 1, waits |-> waits, value |-> v]]
    /\ UNCHANGED <<cache, open, banner, save>>

Cached(c, entry) ==
    /\ cache' = [cache EXCEPT ![c] = entry]
    /\ banner' = IF c = open THEN Rendered(banner, entry) ELSE banner

\* A first fetch, or one after a hint.
Fetch(c) ==
    /\ cache[c] # server[c]
    /\ Cached(c, server[c])
    /\ UNCHANGED <<server, open, save>>

\* To another card: by a relation, a notification, the board.
Open(c) ==
    /\ c # open
    /\ open' = c
    /\ banner' = Rendered(banner, cache[c])
    /\ UNCHANGED <<server, cache, save>>

Type(f, v) ==
    /\ banner # None
    /\ LET draft == [banner.draft EXCEPT ![f] = v]
       IN  banner' = [banner EXCEPT
                        !.draft = draft,
                        !.typed = Diverged(draft, cache[open].value, [@ EXCEPT ![f] = open])]
    /\ UNCHANGED <<server, cache, open, save>>

\* The button sends both fields, under the version of the card it shows.
Save ==
    /\ banner # None /\ save = None
    /\ banner.draft # cache[open].value
    /\ save' = [card |-> open, version |-> cache[open].version,
                value |-> banner.draft, typed |-> banner.typed]
    /\ UNCHANGED <<server, cache, open, banner>>

Accepts(c)    == server[c].waits /\ server[c].version = save.version

Saved ==
    /\ save # None
    /\ server[save.card].version < MaxVersion
    /\ Accepts(save.card)
    /\ LET entry == [server[save.card] EXCEPT !.version = @ + 1, !.value = save.value]
       IN  /\ server' = [server EXCEPT ![save.card] = entry]
           /\ Cached(save.card, entry)
    /\ save' = None
    /\ UNCHANGED open

\* A conflict, or the request fails: the card is fetched again.
Refused ==
    /\ save # None
    /\ save' = None
    /\ UNCHANGED <<server, cache, open, banner>>

Next ==
    \/ \E c \in Cards, waits \in BOOLEAN, v \in Contents : Remote(c, waits, v)
    \/ \E c \in Cards : Fetch(c) \/ Open(c)
    \/ \E f \in Fields, v \in Values : Type(f, v)
    \/ Save \/ Saved \/ Refused

Spec == Init /\ [][Next]_vars

-----------------------------------------------------------------------------

\* A banner is mounted for a card of the browser that waits; what it has seen
\* last is that card's value.
BannerTypeOK ==
    /\ open \in Cards
    /\ banner # None =>
          /\ cache[open] # None /\ cache[open].waits
          /\ banner.seen = cache[open].value
          /\ banner.draft \in Contents
          /\ \A f \in Fields : banner.typed[f] \in Cards \cup {None}

\* A field that the user did not edit shows the server's value, whatever else
\* is edited meanwhile (WaitingBanner: a fresh server state re-seeds it).
ShowsTheServer ==
    banner # None =>
        \A f \in Fields : banner.typed[f] = None => banner.draft[f] = cache[open].value[f]

\* An edit in progress survives what others do to the card, and the user's own
\* save of it, as long as the card is open and waits.
EditsSurvive ==
    \A f \in Fields :
         /\ banner # None /\ banner' # None /\ open' = open
         /\ banner.typed[f] # None
         => banner'.draft[f] = banner.draft[f] \/ (\E v \in Values : Type(f, v))

\* A save changes what its user edited on that card and nothing else: no value
\* of another card, none that someone else has replaced.
SavesWhatWasTyped ==
    Saved => \A f \in Fields :
         server'[save.card].value[f] # server[save.card].value[f]
         => save.typed[f] = save.card
=============================================================================
