------------------------------ MODULE InboxView ------------------------------
(***************************************************************************)
(* The bell in the header (shell/NotificationBell.tsx, api/notifications.ts)*)
(* shows one user's inbox: a count and one of two lists.  Each is a query   *)
(* of its own, polled while it is shown, fetched again after a hint and     *)
(* after the user's own changes.  A hint goes out with the commit of a      *)
(* card's change; the notice that belongs to it is written later, or never  *)
(* (fan-out.ts), and other tabs, other devices and discarded cards change   *)
(* the inbox without a hint.  What the server does with an inbox is in      *)
(* Notifications.                                                          *)
(***************************************************************************)
EXTENDS Naturals

CONSTANTS
    Notices,
    MaxChanges,     \* bound: changes of the inbox
    Hasty,          \* lists are switched, and changes made, while others are under way
    Asked,          \* a fetch that the server has not read yet
    None

VARIABLES
    inbox,      \* notice -> "due" (its event committed), "unread", "read", "gone", or None
    version,    \* counts the changes of the inbox
    hint,       \* a hint is on its way to the browser
    filter,     \* the list that is shown: "all" or "unread"
    cache,      \* query -> what it last fetched, or None
    fetch,      \* query -> the fetch under way: None, Asked, or what was read
    stale,      \* queries invalidated while they were not shown
    act,        \* the user's change under way: [op, on, at: its version], or None
    own         \* history: the version the user's last answered change made

vars == <<inbox, version, hint, filter, cache, fetch, stale, act, own>>

Queries == {"count", "all", "unread"}
Shown == {"count", filter}
Rows(list) ==
    {n \in Notices : inbox[n] = "unread" \/ (list = "all" /\ inbox[n] = "read")}
\* What the server answers; the version is a history.
Served(q) == [version |-> version,
              rows |-> IF q = "count" THEN {n \in Notices : inbox[n] = "unread"} ELSE Rows(q)]
Current(q) == cache[q] # None /\ cache[q].rows = Served(q).rows
Other == IF filter = "all" THEN "unread" ELSE "all"
\* keepPreviousData: until the first answer, the rows of the other list.
Listed == UNION {cache[q].rows : q \in {p \in IF cache[filter] = None THEN {Other} ELSE {filter} :
                                            cache[p] # None}}

Init ==
    /\ inbox = [n \in Notices |-> None]
    /\ version = 0 /\ hint = FALSE
    /\ filter = "all"
    /\ cache = [q \in Queries |-> None]
    /\ fetch = [q \in Queries |-> IF q = "unread" THEN None ELSE Asked]
    /\ stale = {}
    /\ act = None /\ own = 0

Changed(n, state) == inbox' = [inbox EXCEPT ![n] = state]
Counted == version < MaxChanges /\ version' = version + 1
Unseen == UNCHANGED <<filter, cache, fetch, stale, act, own>>

\* A card the user watches changes: the hint is out before the notice is written.
Event(n) ==
    /\ inbox[n] = None
    /\ Changed(n, "due")
    /\ hint' = TRUE
    /\ UNCHANGED version /\ Unseen

FanOut(n) ==
    /\ inbox[n] = "due"
    /\ Counted /\ Changed(n, "unread")
    /\ UNCHANGED hint /\ Unseen

\* Another tab reads, restores or clears it, or its card is discarded.
Elsewhere(n, state) ==
    /\ inbox[n] \in {"unread", "read"} /\ inbox[n] # state
    /\ Counted /\ Changed(n, state)
    /\ UNCHANGED hint /\ Unseen

FirstUnderWay(q) == cache[q] = None /\ fetch[q] # None
\* What is shown is fetched anew, in place of a fetch under way unless that is
\* its first; what is not is fetched when it is shown, unless an answer comes
\* in before.
Invalidated ==
    /\ fetch' = [q \in Queries |-> IF q \in Shown /\ ~FirstUnderWay(q) THEN Asked ELSE fetch[q]]
    /\ stale' = stale \cup (Queries \ Shown)

Hinted ==
    /\ hint
    /\ hint' = FALSE
    /\ Invalidated
    /\ UNCHANGED <<inbox, version, filter, cache, act, own>>

Poll(q) == q \in Shown /\ fetch[q] = None
Polled(q) ==
    /\ Poll(q)
    /\ ~Current(q)      \* one that would bring nothing new is left out
    /\ fetch' = [fetch EXCEPT ![q] = Asked]
    /\ UNCHANGED <<inbox, version, hint, filter, cache, stale, act, own>>

Read(q) ==
    /\ fetch[q] = Asked
    /\ fetch' = [fetch EXCEPT ![q] = Served(q)]
    /\ UNCHANGED <<inbox, version, hint, filter, cache, stale, act, own>>

Answer(q) ==
    /\ fetch[q] \notin {None, Asked}
    /\ cache' = [cache EXCEPT ![q] = fetch[q]]
    /\ fetch' = [fetch EXCEPT ![q] = None]
    /\ stale' = stale \ {q}
    /\ UNCHANGED <<inbox, version, hint, filter, act, own>>

\* Of the other list: older than the staleTime, or not.
MayRest(q) == cache[q] # None /\ q \notin stale

Toggle(rests) ==
    /\ Hasty \/ (fetch[filter] = None /\ act = None)
    /\ filter' = Other
    /\ IF rests THEN MayRest(filter') /\ fetch' = fetch
       ELSE fetch' = IF fetch[filter'] = None THEN [fetch EXCEPT ![filter'] = Asked] ELSE fetch
    /\ UNCHANGED <<inbox, version, hint, cache, stale, act, own>>

(***************************************************************************)
(* The user's own changes                                                  *)
(***************************************************************************)

MayPress == act = None /\ (Hasty \/ \A q \in Shown : cache[q] # None)

\* The marker and the cross of a row, the two buttons below.
Press(op, n) ==
    /\ MayPress
    /\ n \in Listed
    /\ act' = [op |-> op, on |-> {n}, at |-> None]
    /\ UNCHANGED <<inbox, version, hint, filter, cache, fetch, stale, own>>

PressAll(op) ==
    /\ MayPress
    /\ Listed # {}
    /\ act' = [op |-> op, on |-> Notices, at |-> None]
    /\ UNCHANGED <<inbox, version, hint, filter, cache, fetch, stale, own>>

Commit ==
    /\ act # None /\ act.at = None
    /\ \E n \in act.on : inbox[n] \in {"unread", "read"}
    /\ Counted
    /\ inbox' = [n \in Notices |-> IF n \in act.on /\ inbox[n] \in {"unread", "read"}
                                   THEN act.op ELSE inbox[n]]
    /\ act' = [act EXCEPT !.at = version + 1]
    /\ UNCHANGED <<hint, filter, cache, fetch, stale, own>>

\* onSuccess
Succeeded ==
    /\ act # None /\ act.at # None
    /\ own' = act.at
    /\ act' = None
    /\ Invalidated
    /\ UNCHANGED <<inbox, version, hint, filter, cache>>

\* Not found, or no answer: a toast, and the list stays as it is.
Failed ==
    /\ act # None
    /\ act' = None
    /\ UNCHANGED <<inbox, version, hint, filter, cache, fetch, stale, own>>

Next ==
    \/ \E n \in Notices :
          \/ Event(n) \/ FanOut(n)
          \/ \E state \in {"unread", "read", "gone"} : Elsewhere(n, state) \/ Press(state, n)
    \/ PressAll("read") \/ PressAll("gone")
    \/ Commit \/ Succeeded \/ Failed
    \/ Hinted
    \/ \E q \in Queries : Polled(q) \/ Read(q) \/ Answer(q)
    \/ \E rests \in BOOLEAN : Toggle(rests)

\* The timer of a query that is shown goes on; requests are answered.
Fairness ==
    \A q \in Queries : WF_vars(Polled(q)) /\ WF_vars(Read(q)) /\ WF_vars(Answer(q))

Spec == Init /\ [][Next]_vars /\ Fairness

-----------------------------------------------------------------------------

ViewTypeOK ==
    /\ inbox \in [Notices -> {"due", "unread", "read", "gone", None}]
    /\ \A q \in Queries : cache[q] # None =>
          cache[q].rows \subseteq Notices /\ cache[q].version \in 0 .. version
    /\ \A q \in Shown : cache[q] # None \/ fetch[q] # None
    /\ own \in 0 .. version

\* notifications.md: new notifications appear without a reload, although a
\* hint may be handled before the notice is there, and though nothing hints
\* at what other tabs do: the badge ends up with what is unread.
BadgeCatchesUp == <>[]Current("count")

\* A user's own change is in what the user is shown once its fetches are in:
\* no answer that was read before the change is taken for a newer one.
OwnChangesShow ==
    act = None =>
        \A q \in Shown : cache[q] # None /\ fetch[q] = None /\ q \notin stale
                         => cache[q].version >= own

ViewInv == ViewTypeOK /\ OwnChangesShow
=============================================================================
