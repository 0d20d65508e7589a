---------------------------- MODULE SlackIntake ----------------------------
(***************************************************************************)
(* Tickets from Slack (server/src/slack): the guard that swallows           *)
(* redeliveries, the @-mention, the message shortcut with its modal and the *)
(* submission of it, and the sliding-window limits.  Slack is external: it  *)
(* delivers an event again while it has not seen it acknowledged, and lets  *)
(* a user submit a modal again when the acknowledgement is late.  The       *)
(* binding of Slack ids to accounts is in Accounts.tla.                     *)
(***************************************************************************)
EXTENDS Integers, Sequences, SequencesExt, FiniteSets

CONSTANTS
    Mentions, Shortcuts,
    Commands,       \* the mentions that match the grammar
    Users, UserOf,  \* UserOf: request -> who sent it
    Linked,          \* the users that resolve to an active account
    Capacity,       \* of the set of ids seen
    Limit, Window,  \* limiter -> slots, and the span they are counted over
    MaxDeliveries, MaxTries, MaxTime, MaxFailures, MaxCrashes   \* bounds

Intakes == Mentions \cup Shortcuts
Limiters == {"card", "summary", "global"}

Tries == Intakes \X (1 .. MaxTries)
Meters == Limiters \X Users

VARIABLES
    deliveries, \* request -> how often it was delivered
    recency,    \* the requests delivered, latest delivery last
    dedup,      \* BoundedLruSet, oldest first
    modal,      \* shortcut -> what the user sees
    tries,      \* request -> listeners started for it
    step,       \* <<request, n>> -> where its n-th listener is
    tickets,    \* request -> cards created
    replies,    \* request -> what was posted into the thread
    hits,       \* meter -> the times kept
    granted,    \* meter -> all times a slot was given
    now, failures, crashes

slack == <<deliveries, recency, modal>>
server == <<dedup, tries, step, hits>>
vars == <<slack, server, tickets, replies, granted, now, failures, crashes>>

Init ==
    /\ deliveries = [r \in Intakes |-> 0] /\ recency = << >> /\ dedup = << >>
    /\ modal = [s \in Shortcuts |-> "none"]
    /\ tries = [r \in Intakes |-> 0] /\ step = [t \in Tries |-> "idle"]
    /\ tickets = [r \in Intakes |-> 0] /\ replies = [r \in Intakes |-> {}]
    /\ hits = [m \in Meters |-> << >>] /\ granted = [m \in Meters |-> << >>]
    /\ now = 0 /\ failures = 0 /\ crashes = 0

Fails == failures < MaxFailures /\ failures' = failures + 1

(***************************************************************************)
(* Delivery                                                                *)
(***************************************************************************)

PlaceOf(s, r) == CHOOSE i \in DOMAIN s : s[i] = r

Newest(s, r) == Append(IF Contains(s, r) THEN RemoveAt(s, PlaceOf(s, r)) ELSE s, r)
Trimmed(s) == IF Len(s) > Capacity THEN Tail(s) ELSE s

\* addIfAbsent: a duplicate becomes the newest.
Added(r) == Trimmed(Newest(dedup, r))

\* Slack gives up on a redelivery long before Capacity other requests came.
Recent(r) ==
    Contains(recency, r) => Len(recency) - PlaceOf(recency, r) < Capacity

Handled(r) ==
    IF r \in Mentions
    THEN /\ tries' = [tries EXCEPT ![r] = @ + 1]
         /\ step' = [step EXCEPT ![<<r, tries[r] + 1>>] = "deciding"]
         /\ UNCHANGED modal
    ELSE /\ modal' = [modal EXCEPT ![r] = "opening"]
         /\ UNCHANGED <<tries, step>>

\* An event is acknowledged as it arrives; the acknowledgement may be lost.
Deliver(r) ==
    /\ deliveries[r] < MaxDeliveries /\ tries[r] < MaxTries /\ Recent(r)
    /\ deliveries' = [deliveries EXCEPT ![r] = @ + 1]
    /\ recency' = Newest(recency, r)
    /\ dedup' = Added(r)
    /\ IF Contains(dedup, r) THEN UNCHANGED <<tries, step, modal>> ELSE Handled(r)
    /\ UNCHANGED <<tickets, replies, hits, granted, now, failures, crashes>>

(***************************************************************************)
(* Limits                                                                  *)
(***************************************************************************)

MeterOf(l, r) == <<l, UserOf[r]>>
GlobalMeter == <<"global", CHOOSE u \in Users : TRUE>>

\* The times ascend: what has expired of them is the beginning.
Kept(m) ==
    LET expired == {i \in DOMAIN hits[m] : hits[m][i] <= now - Window[m[1]]}
    IN  SubSeq(hits[m], Cardinality(expired) + 1, Len(hits[m]))

Free(m) == Len(Kept(m)) < Limit[m[1]]

\* tryAcquire for some meters, one after the other until one is exhausted.
Acquire(meters, taken) ==
    /\ hits' = [m \in Meters |-> IF m \in taken THEN Append(Kept(m), now)
                                 ELSE IF m \in meters THEN Kept(m) ELSE hits[m]]
    /\ granted' = [m \in Meters |-> IF m \in taken THEN Append(granted[m], now) ELSE granted[m]]

(***************************************************************************)
(* The message shortcut                                                    *)
(***************************************************************************)

OpenModal(s) ==
    /\ modal[s] = "opening"
    /\ \/ modal' = [modal EXCEPT ![s] = "loading"] /\ UNCHANGED failures
       \/ modal' = [modal EXCEPT ![s] = "none"] /\ Fails
    /\ UNCHANGED <<deliveries, recency, server, tickets, replies, granted, now, crashes>>

\* The summarizer runs within both budgets and is never waited for in vain.
Draft(s) ==
    LET own == MeterOf("summary", s)
        taken == IF ~Free(own) THEN {} ELSE IF ~Free(GlobalMeter) THEN {own} ELSE {own, GlobalMeter}
    IN  /\ modal[s] = "loading"
        /\ \/ /\ UserOf[s] \in Linked
              /\ modal' = [modal EXCEPT ![s] = "draft"]
              /\ Acquire({own, GlobalMeter}, taken)
              /\ UNCHANGED failures
           \/ /\ UserOf[s] \notin Linked
              /\ modal' = [modal EXCEPT ![s] = "notice"]
              /\ UNCHANGED <<hits, granted, failures>>
           \/ /\ modal' = [modal EXCEPT ![s] = "notice"] /\ Fails
              /\ UNCHANGED <<hits, granted>>
        /\ UNCHANGED <<deliveries, recency, dedup, tries, step, tickets, replies, now, crashes>>

\* Submissions carry no id that the guard knows.
Submit(s) ==
    /\ modal[s] = "draft" /\ tries[s] < MaxTries
    /\ modal' = [modal EXCEPT ![s] = "sending"]
    /\ tries' = [tries EXCEPT ![s] = @ + 1]
    /\ step' = [step EXCEPT ![<<s, tries[s] + 1>>] = "deciding"]
    /\ UNCHANGED <<deliveries, recency, dedup, tickets, replies, hits, granted, now, failures, crashes>>

\* Three seconds without an acknowledgement: the user may try again.
GiveUp(s) ==
    /\ modal[s] = "sending" /\ Fails
    /\ modal' = [modal EXCEPT ![s] = "draft"]
    /\ UNCHANGED <<deliveries, recency, server, tickets, replies, granted, now, crashes>>

(***************************************************************************)
(* Listeners                                                               *)
(***************************************************************************)

Goes(t, next) == step' = [step EXCEPT ![t] = next]

\* What is refused: posted to a mention's thread, shown in a modal.
Refused(t, message) ==
    IF t[1] \in Mentions
    THEN Goes(t, message) /\ UNCHANGED modal
    ELSE /\ Goes(t, "idle")
         /\ modal' = [modal EXCEPT ![t[1]] = IF @ = "sending" /\ t[2] = tries[t[1]] THEN "draft" ELSE @]

Acknowledged(t) ==
    IF t[1] \in Mentions
    THEN UNCHANGED modal
    ELSE modal' = [modal EXCEPT ![t[1]] = IF @ = "sending" /\ t[2] = tries[t[1]] THEN "closed" ELSE @]

IsCommand(r) == r \in Commands \cup Shortcuts

\* Up to the slot of the card limiter nothing of this is kept.
Decide(t) ==
    LET r == t[1]
        meter == MeterOf("card", r)
    IN  /\ step[t] = "deciding"
        /\ \/ /\ ~IsCommand(r) /\ Refused(t, "hint")
              /\ UNCHANGED <<hits, granted, failures>>
           \/ /\ IsCommand(r) /\ UserOf[r] \notin Linked /\ Refused(t, "ask")
              /\ UNCHANGED <<hits, granted, failures>>
           \/ /\ IsCommand(r) /\ Refused(t, "ask") /\ Fails
              /\ UNCHANGED <<hits, granted>>
           \/ /\ IsCommand(r) /\ UserOf[r] \in Linked
              /\ Acquire({meter}, IF Free(meter) THEN {meter} ELSE {})
              /\ IF Free(meter) THEN Goes(t, "creating") /\ Acknowledged(t)
                                ELSE Refused(t, "limit")
              /\ UNCHANGED failures
           \/ /\ r \in Shortcuts /\ UserOf[r] \in Linked /\ Free(meter)
              /\ Acquire({meter}, {meter})   \* no such assignee or location
              /\ Refused(t, "field")
              /\ UNCHANGED failures
        /\ UNCHANGED <<deliveries, recency, dedup, tries, tickets, replies, now, crashes>>

Create(t) ==
    /\ step[t] = "creating"
    /\ \/ /\ tickets' = [tickets EXCEPT ![t[1]] = @ + 1]
          /\ Goes(t, "created") /\ UNCHANGED failures
       \/ Goes(t, "failed") /\ Fails /\ UNCHANGED tickets
    /\ UNCHANGED <<slack, dedup, tries, hits, replies, granted, now, crashes>>

Messages == {"hint", "ask", "limit", "created", "failed"}

\* A message that cannot be posted is followed by the one for a failure.
Say(t) ==
    /\ step[t] \in Messages
    /\ \/ /\ replies' = [replies EXCEPT ![t[1]] = @ \cup {step[t]}]
          /\ Goes(t, "idle") /\ UNCHANGED failures
       \/ /\ Goes(t, IF step[t] = "failed" THEN "idle" ELSE "failed")
          /\ Fails /\ UNCHANGED replies
    /\ UNCHANGED <<slack, dedup, tries, hits, tickets, granted, now, crashes>>

\* Everything in memory is gone; Slack still has what it did not see acknowledged.
Crash ==
    /\ crashes < MaxCrashes /\ crashes' = crashes + 1
    /\ dedup' = << >> /\ hits' = [m \in Meters |-> << >>]
    /\ step' = [t \in Tries |-> "idle"]
    /\ UNCHANGED <<slack, tries, tickets, replies, granted, now, failures>>

Tick ==
    /\ now < MaxTime /\ now' = now + 1
    /\ UNCHANGED <<slack, server, tickets, replies, granted, failures, crashes>>

Next ==
    \/ \E r \in Intakes : Deliver(r)
    \/ \E s \in Shortcuts : OpenModal(s) \/ Draft(s) \/ Submit(s) \/ GiveUp(s)
    \/ \E t \in Tries : Decide(t) \/ Create(t) \/ Say(t)
    \/ Crash \/ Tick

\* Listeners run to their end.
Fairness ==
    /\ \A s \in Shortcuts : WF_vars(OpenModal(s) \/ Draft(s))
    /\ \A t \in Tries : WF_vars(Decide(t) \/ Create(t) \/ Say(t))

Spec == Init /\ [][Next]_vars /\ Fairness

(***************************************************************************)
(* Properties                                                              *)
(***************************************************************************)

\* However often it is delivered, a request makes one ticket.
OnceEach == \A m \in Mentions : tickets[m] <= 1

\* A modal is submitted once.
SubmittedOnce == \A s \in Shortcuts : tickets[s] <= 1

\* No span of a window's length has more slots than the limit, however requests
\* are spread over it.
WithinLimits ==
    \A m \in Meters : \A i \in DOMAIN granted[m] :
        Cardinality({j \in DOMAIN granted[m] : /\ granted[m][j] <= granted[m][i]
                                               /\ granted[m][j] > granted[m][i] - Window[m[1]]})
            <= Limit[m[1]]

\* Who is told that creating the ticket failed has no ticket.
HonestFailure == \A r \in Intakes : "failed" \in replies[r] => tickets[r] = 0

\* Through one failure of Slack or of the database, every mention and every
\* submission that was accepted is answered in its thread.
MentionAnswered == \A m \in Mentions : deliveries[m] > 0 ~> replies[m] # {}
SubmissionAnswered == \A s \in Shortcuts : tickets[s] > 0 ~> replies[s] # {}
=============================================================================
