--------------------------- MODULE Notifications ---------------------------
(***************************************************************************)
(* Who is told of a change to a card.  A change commits its audit events    *)
(* and, in the same transaction, the watches and mentions it brings; after  *)
(* the commit one hint goes out, and a subscriber turns it into notices in  *)
(* a transaction of its own, whenever that gets its turn, or never: it is   *)
(* best effort.  Meanwhile people watch and unwatch, lose boards, and cards *)
(* are discarded and their numbers given out again.                         *)
(***************************************************************************)
EXTENDS Integers, Sequences, FiniteSetsExt

CONSTANTS
    Users,
    System,         \* the seeded user that comments made through MCP belong to
    Token,          \* a service token: acts, and is no user
    Boards,
    MaxCard,        \* card numbers: 1 .. MaxCard
    MaxEvents,      \* events committed in a behaviour
    Lossy,          \* a fan-out may fail, the process may stop
    Fickle,         \* boards and accounts are closed to people and opened again
    Discards,       \* cards are discarded
    None

VARIABLES
    home,       \* card -> its board, None: no such card
    watchers,   \* card -> the users of its card_watchers rows
    sees,       \* <<user, board>>: canAccessBoard
    active,     \* the users that are
    events,     \* card_events
    issued,     \* event ids given out
    hints,      \* published, not yet fanned out
    notices,    \* the notifications table
    owed        \* history: <<event, user>> that watched at the commit, has stayed
                \* a watcher that may know since, and was not told

vars == <<home, watchers, sees, active, events, issued, hints, notices, owed>>

Cards == 1 .. MaxCard
Actors == (Users \ {System}) \cup {Token}
Exists(c) == home[c] # None
\* canAccessBoard of an archived board, a role, a membership: one relation.
Reaches(u, c) == Exists(c) /\ <<u, home[c]>> \in sees
Informed(u, c) == u \in active /\ Reaches(u, c)

Event(id) == CHOOSE e \in events : e.id = id
Known(id) == \E e \in events : e.id = id
Notice(u, e, kind) == [user |-> u, event |-> e.id, card |-> e.card, kind |-> kind, read |-> FALSE]

Init ==
    /\ home = [c \in Cards |-> None]
    /\ watchers = [c \in Cards |-> {}]
    /\ sees = Users \X Boards /\ active = Users
    /\ events = {} /\ issued = 0
    /\ hints = {} /\ notices = {} /\ owed = {}

(***************************************************************************)
(* Committing                                                              *)
(***************************************************************************)

NewEvents(c, kinds, actor, mentioned) ==
    {[id |-> issued + i, change |-> issued, card |-> c, kind |-> kinds[i],
      actor |-> actor, mentioned |-> mentioned] : i \in DOMAIN kinds}

\* publishCardHints: the last event stands for all of them.
Publish(new) ==
    {[card |-> e.card, event |-> e.id] : e \in {x \in new : \A y \in new : y.id <= x.id}}

Notifiable(kind) == kind # "quiet"      \* reordered, redacted, a comment edited or deleted
Excluded(e) == {e.actor} \cup e.mentioned

\* A change of the events `kinds` to card c, after which `readers` watch it.
Commit(c, kinds, actor, readers, mentioned) ==
    LET new == NewEvents(c, kinds, actor, mentioned)
        telling == {h \in Publish(new) : \E e \in new : e.id = h.event /\ Notifiable(e.kind)}
        told == {u \in (readers \cap active) \ ({actor} \cup mentioned) : <<u, home'[c]>> \in sees}
    IN  /\ issued + Len(kinds) <= MaxEvents
        /\ issued' = issued + Len(kinds)
        /\ events' = events \cup new
        /\ hints' = hints \cup Publish(new)
        /\ watchers' = [watchers EXCEPT ![c] = readers]
        /\ notices' = notices \cup {Notice(u, e, "mention") : u \in mentioned, e \in new}
        /\ owed' = owed \cup ({h.event : h \in telling} \X told)

MayAct(actor, c) == Exists(c) /\ (actor \in Users => Informed(actor, c))
Assignable(u, board) == u \in active \ {System} /\ <<u, board>> \in sees

NextCard == Max({0} \cup {c \in Cards : Exists(c)}) + 1

\* The reporter is the actor, or whom a trusted adapter names.
Create(actor, reporter, assignees, board) ==
    /\ NextCard \in Cards
    /\ actor \in Users => actor \in active /\ <<actor, board>> \in sees /\ reporter = actor
    /\ reporter \in active
    /\ \A u \in assignees : Assignable(u, board)
    /\ home' = [home EXCEPT ![NextCard] = board]
    /\ Commit(NextCard, <<"created">>, actor, {reporter} \cup assignees, {})
    /\ UNCHANGED <<sees, active>>

\* One event per changed field; an assignment also watches.
Update(actor, c, fields, assignees) ==
    /\ MayAct(actor, c)
    /\ \A u \in assignees : Assignable(u, home[c])
    /\ UNCHANGED <<home, sees, active>>
    /\ Commit(c, [i \in 1 .. fields |-> "changed"], actor, watchers[c] \cup assignees, {})

Quietly(actor, c) ==
    /\ MayAct(actor, c)
    /\ UNCHANGED <<home, sees, active>>
    /\ Commit(c, <<"quiet">>, actor, watchers[c], {})

\* The ids that are users who may know, and not the author.
ResolveMentions(mentions, author, c) == {u \in mentions \ {author} : Informed(u, c)}

\* author: the actor, or System for what comes through MCP.
Comment(actor, author, c, mentions) ==
    /\ MayAct(actor, c)
    /\ UNCHANGED <<home, sees, active>>
    /\ LET told == ResolveMentions(mentions, author, c)
       IN  Commit(c, <<"comment.added">>, actor, watchers[c] \cup {author} \cup told, told)

\* hardDelete: the rows that hang on the card go with it.
Discard(actor, c) ==
    /\ Discards
    /\ MayAct(actor, c)
    /\ home' = [home EXCEPT ![c] = None]
    /\ watchers' = [watchers EXCEPT ![c] = {}]
    /\ events' = {e \in events : e.card # c}
    /\ notices' = {n \in notices : n.card # c}
    /\ owed' = {o \in owed : Event(o[1]).card # c}
    /\ UNCHANGED <<sees, active, issued, hints>>

(***************************************************************************)
(* Fanning out                                                             *)
(***************************************************************************)

Recipients(e) == {u \in watchers[e.card] \ Excluded(e) : Informed(u, e.card)}

Triggers(h) == Known(h.event) /\ Notifiable(Event(h.event).kind) /\ Exists(h.card)

FanOut(h) ==
    /\ h \in hints
    /\ hints' = hints \ {h}
    /\ notices' =
         IF Triggers(h)
         THEN LET e == Event(h.event)
              IN  notices \cup {Notice(u, e, e.kind) : u \in Recipients(e)}
         ELSE notices
    /\ owed' = {o \in owed : ~\E n \in notices' : o = <<n.event, n.user>>}
    /\ UNCHANGED <<home, watchers, sees, active, events, issued>>

FanOutFails(h) ==
    /\ Lossy /\ h \in hints
    /\ hints' = hints \ {h}
    /\ UNCHANGED <<home, watchers, sees, active, events, issued, notices, owed>>

Crash ==
    /\ Lossy /\ hints # {}
    /\ hints' = {}
    /\ UNCHANGED <<home, watchers, sees, active, events, issued, notices, owed>>

(***************************************************************************)
(* Watching, reading, access                                               *)
(***************************************************************************)

StillOwed(keeps(_, _)) == {o \in owed : keeps(o[2], Event(o[1]).card)}

Watch(u, c) ==
    /\ Informed(u, c)
    /\ watchers' = [watchers EXCEPT ![c] = @ \cup {u}]
    /\ UNCHANGED <<home, sees, active, events, issued, hints, notices, owed>>

Unwatch(u, c) ==
    /\ Informed(u, c)
    /\ watchers' = [watchers EXCEPT ![c] = @ \ {u}]
    /\ owed' = StillOwed(LAMBDA v, d : <<v, d>> # <<u, c>>)
    /\ UNCHANGED <<home, sees, active, events, issued, hints, notices>>

Own(u) == {n \in notices : n.user = u}
Inbox(u) == {n \in Own(u) : Reaches(u, n.card)}     \* boardScope
Unread(u) == {n \in Inbox(u) : ~n.read}
Becomes(old, read) == (notices \ old) \cup {[n EXCEPT !.read = read] : n \in old}

\* One of one's own, seen or not; `read` is what it becomes.
MarkOne(n, read) ==
    /\ n \in notices /\ n.user \in active
    /\ notices' = Becomes({n}, read)
    /\ UNCHANGED <<home, watchers, sees, active, events, issued, hints, owed>>
Clear(n) ==
    /\ n \in notices /\ n.user \in active
    /\ notices' = notices \ {n}
    /\ UNCHANGED <<home, watchers, sees, active, events, issued, hints, owed>>

MarkAllRead(u) ==
    /\ u \in active
    /\ notices' = Becomes(Unread(u), TRUE)
    /\ UNCHANGED <<home, watchers, sees, active, events, issued, hints, owed>>
ClearAllOfUser(u) ==
    /\ u \in active
    /\ notices' = notices \ Own(u)
    /\ UNCHANGED <<home, watchers, sees, active, events, issued, hints, owed>>
ClearAll(u) ==
    /\ u \in active
    /\ notices' = notices \ Inbox(u)
    /\ UNCHANGED <<home, watchers, sees, active, events, issued, hints, owed>>

\* A grant, a role, an archived board; an account switched off and on.
ChangeAccess(u, b) ==
    /\ Fickle
    /\ sees' = IF <<u, b>> \in sees THEN sees \ {<<u, b>>} ELSE sees \cup {<<u, b>>}
    /\ owed' = StillOwed(LAMBDA v, d : <<v, home[d]>> # <<u, b>>)
    /\ UNCHANGED <<home, watchers, active, events, issued, hints, notices>>
ChangeActive(u) ==
    /\ Fickle
    /\ active' = IF u \in active THEN active \ {u} ELSE active \cup {u}
    /\ owed' = StillOwed(LAMBDA v, d : v # u)
    /\ UNCHANGED <<home, watchers, sees, events, issued, hints, notices>>

-----------------------------------------------------------------------------

People == Users \ {System}

Next ==
    \/ \E actor \in Actors, board \in Boards, assignees \in {{}} \cup {{u} : u \in People},
          reporter \in People : Create(actor, reporter, assignees, board)
    \/ \E actor \in Actors, c \in Cards :
          \/ \E fields \in 1 .. 2, assignees \in {{}} \cup {{u} : u \in People} :
                Update(actor, c, fields, assignees)
          \/ Quietly(actor, c)
          \/ Discard(actor, c)
          \/ \E author \in Users \cap {actor, System}, mentions \in SUBSET People :
                Comment(actor, author, c, mentions)
    \/ \E h \in hints : FanOut(h) \/ FanOutFails(h)
    \/ Crash
    \/ \E u \in People, c \in Cards : Watch(u, c) \/ Unwatch(u, c)
    \/ \E n \in notices : Clear(n) \/ \E read \in BOOLEAN : MarkOne(n, read)
    \/ \E u \in People : MarkAllRead(u) \/ ClearAll(u) \/ ChangeActive(u)
    \/ \E u \in People, b \in Boards : ChangeAccess(u, b)

\* A published hint is a task of its own that gets its turn at the unit of work.
Fairness == \A c \in Cards, i \in 1 .. MaxEvents : WF_vars(FanOut([card |-> c, event |-> i]))

Spec == Init /\ [][Next]_vars /\ Fairness

-----------------------------------------------------------------------------

Kinds == {"created", "changed", "quiet", "comment.added"}

\* The shapes of the tables.  A number that is free has no watchers to pass
\* on to the next card (hardDelete).
NotificationsTypeOK ==
    /\ home \in [Cards -> Boards \cup {None}]
    /\ watchers \in [Cards -> SUBSET Users]
    /\ \A c \in Cards : ~Exists(c) => watchers[c] = {}
    /\ sees \subseteq Users \X Boards /\ active \subseteq Users
    /\ issued \in 0 .. MaxEvents
    /\ \A e \in events : /\ e.id \in 1 .. issued /\ e.card \in Cards
                         /\ e.kind \in Kinds /\ e.mentioned \subseteq Users
    /\ hints \subseteq [card : Cards, event : 1 .. issued]
    /\ \A n \in notices : n.user \in Users /\ n.event \in 1 .. issued /\ n.read \in BOOLEAN

\* A change tells a user once, whatever it says: a mention takes the place
\* of the comment's notice, an edit of several fields is one change, and
\* nobody is told of what they did themselves (fanOutForEvent, resolveMentions).
ToldOnce ==
    \A n, o \in notices :
        /\ n.user = o.user /\ Event(n.event).change = Event(o.event).change => n = o
        /\ n.kind # "mention" => Event(n.event).actor # n.user

\* Card numbers are given out again: no notice outlives its card or speaks of
\* an event of the number's earlier owner, however late a fan-out comes
\* (hardDelete, fanOutForEvent).
NoStrayNotice ==
    \A n \in notices : Exists(n.card) /\ Known(n.event) /\ Event(n.event).card = n.card

\* Clearing the whole inbox and marking it read are about what it shows: what
\* a closed board hides is there, unread, when the board opens again
\* (markAllRead, clearAll).
KeepsTheHidden ==
    \A u \in Users : home' = home /\ ~(Inbox(u) \subseteq notices')
        => Own(u) \ Inbox(u) \subseteq notices'

\* Whoever watched when a change committed, and stays a watcher that may know,
\* is told of it in the end (fan-out.ts, while nothing fails).
WatchersAreTold ==
    \A i \in 1 .. MaxEvents, u \in Users : (<<i, u>> \in owed) ~> (<<i, u>> \notin owed)
=============================================================================
