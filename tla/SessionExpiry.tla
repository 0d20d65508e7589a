--------------------------- MODULE SessionExpiry ---------------------------
(***************************************************************************)
(* The life of session rows (auth/auth-service.ts).  A request reads its    *)
(* session without queueing; what it then writes, a later expiry, is not    *)
(* awaited and takes effect behind the other writes, if at all.  On SQLite  *)
(* writes apply in the order they were asked for, on Postgres in any.       *)
(* Passwords, roles and status of the users are in Accounts.                *)
(***************************************************************************)
EXTENDS Integers, FiniteSets, SequencesExt

CONSTANTS
    Sessions,   \* sessions of one user
    Idle,       \* SESSION_IDLE_MS
    Absolute,   \* SESSION_ABSOLUTE_MS
    Throttle,   \* SESSION_TOUCH_THROTTLE_MS
    Postgres,
    LosesWrites,    \* a touch may fail
    MaxTime, MaxQueue,  \* bounds
    None

VARIABLES
    now,
    row,        \* session -> its row, or None
    queue,      \* the writes asked for and not yet applied, the oldest first
    born,       \* history: when a session was minted
    lastUse,    \* history: when it last answered a request
    revoked     \* history: the sessions logged out or displaced

vars == <<now, row, queue, born, lastUse, revoked>>

Least(m, n) == IF m <= n THEN m ELSE n

FoldedExpiry(created, at) == Least(at + Idle, created + Absolute)

Init ==
    /\ now = 0
    /\ row = [s \in Sessions |-> None]
    /\ queue = <<>>
    /\ born = [s \in Sessions |-> None]
    /\ lastUse = [s \in Sessions |-> None]
    /\ revoked = {}

Asked(op, s, at) == [op |-> op, session |-> s, at |-> at]
Ask(op, s) == Len(queue) < MaxQueue /\ queue' = Append(queue, Asked(op, s, now))

\* Minted with the clock of the request, stored by its unit of work.
Login(s) ==
    /\ born[s] = None
    /\ born' = [born EXCEPT ![s] = now]
    /\ Ask("create", s)
    /\ UNCHANGED <<now, row, lastUse, revoked>>

Alive(s) == row[s] # None /\ row[s].expires > now

Throttled(s) == now - row[s].seen < Throttle

\* Every authenticated request, and every keepalive of a stream.
Authenticate(s) ==
    /\ Alive(s)
    /\ lastUse' = [lastUse EXCEPT ![s] = now]
    /\ IF Throttled(s) THEN UNCHANGED queue ELSE Ask("touch", s)
    /\ UNCHANGED <<now, row, born, revoked>>

Logout(s) ==
    /\ lastUse[s] # None /\ s \notin revoked
    /\ Ask("revoke", s)
    /\ UNCHANGED <<now, row, born, lastUse, revoked>>

\* A change of password from session s keeps it and no other.
ChangePassword(s) ==
    /\ Alive(s)
    /\ Ask("displace", s)
    /\ UNCHANGED <<now, row, born, lastUse, revoked>>

\* The daily job.
Purge ==
    /\ \E s \in Sessions : row[s] # None
    /\ Ask("purge", None)
    /\ UNCHANGED <<now, row, born, lastUse, revoked>>

(***************************************************************************)
(* The writes                                                              *)
(***************************************************************************)

Deleted(gone) == [s \in Sessions |-> IF s \in gone THEN None ELSE row[s]]

\* An UPDATE by id: a row that is gone stays gone.
Touched(w) ==
    IF row[w.session] = None THEN row
    ELSE [row EXCEPT ![w.session].seen = w.at,
                     ![w.session].expires = FoldedExpiry(row[w.session].created, w.at)]

Created(w) ==
    [row EXCEPT ![w.session] = [created |-> w.at, seen |-> w.at, expires |-> FoldedExpiry(w.at, w.at)]]

Expired(at) == {s \in Sessions : row[s] # None /\ row[s].expires <= at}

\* The sessions a write ends before their time.
Ended(w) ==
    CASE w.op = "revoke" -> {w.session}
      [] w.op = "displace" /\ Alive(w.session) -> {s \in Sessions : row[s] # None} \ {w.session}
      [] OTHER -> {}

Effect(w) ==
    CASE w.op = "create" -> Created(w)
      [] w.op = "touch" -> Touched(w)
      [] w.op = "purge" -> Deleted(Expired(w.at))
      [] OTHER -> Deleted(Ended(w))

MayApply(i) == Postgres \/ i = 1

Apply ==
    \E i \in DOMAIN queue :
        LET w == queue[i] IN
        /\ MayApply(i)
        /\ row' = Effect(w)
        /\ revoked' = revoked \cup Ended(w)
        /\ lastUse' = IF w.op = "create" THEN [lastUse EXCEPT ![w.session] = w.at] ELSE lastUse
        /\ queue' = RemoveAt(queue, i)
        /\ UNCHANGED <<now, born>>

\* Nobody waits for a touch: its failure goes unnoticed.
TouchFails ==
    /\ LosesWrites
    /\ \E i \in DOMAIN queue : queue[i].op = "touch" /\ queue' = RemoveAt(queue, i)
    /\ UNCHANGED <<now, row, born, lastUse, revoked>>

Tick == now < MaxTime /\ now' = now + 1 /\ UNCHANGED <<row, queue, born, lastUse, revoked>>

Next ==
    \/ \E s \in Sessions : Login(s) \/ Authenticate(s) \/ Logout(s) \/ ChangePassword(s)
    \/ Purge \/ Apply \/ TouchFails \/ Tick

Spec == Init /\ [][Next]_vars

(***************************************************************************)
(* Properties                                                              *)
(***************************************************************************)

Row == [created : 0 .. MaxTime, seen : 0 .. MaxTime, expires : 1 .. MaxTime + Idle]

SessionsTypeOK ==
    /\ now \in 0 .. MaxTime
    /\ row \in [Sessions -> Row \cup {None}]
    /\ \A i \in DOMAIN queue : queue[i].at <= now
    /\ lastUse \in [Sessions -> 0 .. MaxTime \cup {None}]

\* However late its touches take effect, no session outlives its absolute cap.
AbsoluteCap == \A s \in Sessions : Alive(s) => now < born[s] + Absolute

\* A session that answers a request answered another less than the idle limit
\* ago: what counts is when it was used, not when that was written down.
IdleEnds ==
    \A s \in Sessions :
       lastUse[s] # None /\ lastUse'[s] # lastUse[s] => lastUse'[s] - lastUse[s] < Idle

\* A touch that takes effect after a logout, a change of password or the purge
\* does not bring the session back.
RevokedStaysDead == \A s \in revoked : row[s] = None

TouchesOf(s) == {i \in DOMAIN queue : queue[i].op = "touch" /\ queue[i].session = s}

\* A session that is used stays: once its touches are written it is good for
\* the idle limit less one throttle window, and no purge takes it before.
UseKeepsAlive ==
    \A s \in Sessions :
        lastUse[s] # None /\ s \notin revoked /\ TouchesOf(s) = {} =>
            \/ Alive(s)
            \/ now > lastUse[s] + Idle - Throttle
            \/ now >= born[s] + Absolute
=============================================================================
