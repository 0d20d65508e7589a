---------------------------- MODULE UploadQuota ----------------------------
(***************************************************************************)
(* The daily quota of one user (uploads/upload-quota.ts) under concurrent   *)
(* uploads: each reserves before it stores and is refunded if it fails,     *)
(* against a counter that starts anew on the first call of a UTC day.       *)
(***************************************************************************)
EXTENDS Integers, FiniteSets

CONSTANTS
    Uploads,
    Sizes,          \* what an upload may weigh
    LimitBytes,
    MaxDay,         \* bound on the calendar
    SpansMidnight   \* an upload may take from one day into the next

VARIABLES
    today,      \* the UTC day of the clock
    day,        \* UploadQuota.day
    used,       \* UploadQuota.byUser of the user
    uploads     \* upload -> its state, size and the day it was reserved on

vars == <<today, day, used, uploads>>

Init ==
    /\ today = 0 /\ day = 0 /\ used = 0
    /\ uploads = [u \in Uploads |-> [state |-> "new", size |-> 0, on |-> 0]]

\* What the counter holds once a call has looked at the clock.
Rolled == IF today # day THEN 0 ELSE used

NotNegative(n) == IF n < 0 THEN 0 ELSE n

Within(size) == Rolled + size <= LimitBytes

Reserve(u, size) ==
    /\ uploads[u].state = "new"
    /\ Within(size)
    /\ day' = today
    /\ used' = Rolled + size
    /\ uploads' = [uploads EXCEPT ![u] = [state |-> "sent", size |-> size, on |-> today]]
    /\ UNCHANGED today

\* A refusal still rolls the day over; the client may try again.
Refuse(u, size) ==
    /\ uploads[u].state = "new"
    /\ ~Within(size)
    /\ day' = today
    /\ used' = Rolled
    /\ UNCHANGED <<today, uploads>>

Store(u) ==
    /\ uploads[u].state = "sent"
    /\ uploads' = [uploads EXCEPT ![u].state = "stored"]
    /\ UNCHANGED <<today, day, used>>

Refunded(u) == NotNegative(Rolled - uploads[u].size)

\* The store is full, or the service refuses: release.
Fail(u) ==
    /\ uploads[u].state = "sent"
    /\ day' = today
    /\ used' = Refunded(u)
    /\ uploads' = [uploads EXCEPT ![u].state = "failed"]
    /\ UNCHANGED today

Midnight ==
    /\ today < MaxDay
    /\ SpansMidnight \/ \A u \in Uploads : uploads[u].state # "sent"
    /\ today' = today + 1
    /\ UNCHANGED <<day, used, uploads>>

Next ==
    \/ \E u \in Uploads : \/ Store(u) \/ Fail(u)
                          \/ \E size \in Sizes : Reserve(u, size) \/ Refuse(u, size)
    \/ Midnight

Spec == Init /\ [][Next]_vars

(***************************************************************************)
(* Properties                                                              *)
(***************************************************************************)

\* What was reserved on day d, failures aside.
Reserved(d) == {u \in Uploads : uploads[u].state \in {"sent", "stored"} /\ uploads[u].on = d}

\* How much that is: the bytes of one upload are numbered.
BytesOf(set) == UNION {{u} \X (1 .. uploads[u].size) : u \in set}
Bytes(set) == Cardinality(BytesOf(set))

\* Uploads admitted on one day never add up to more than the daily quota.
DailyLimit == \A d \in 0 .. today : Bytes(Reserved(d)) <= LimitBytes

\* The counter is what was admitted today, no more: a failed upload costs
\* nothing, whatever ran beside it.
CountsWhatWasAdmitted == day = today => used = Bytes(Reserved(today))
=============================================================================
