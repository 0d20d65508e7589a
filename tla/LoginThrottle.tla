--------------------------- MODULE LoginThrottle ---------------------------
(***************************************************************************)
(* Password attempts (auth/auth-service.ts, auth/backoff.ts).  Verifying a  *)
(* password takes a while: attempts on one account are chained, each on the *)
(* last one that arrived, and the failures of an account delay the next     *)
(* attempt.  The failures are kept for the MaxEntries accounts that failed  *)
(* last.                                                                    *)
(***************************************************************************)
EXTENDS Integers, FiniteSets, SequencesExt

CONSTANTS
    Attempts, Accounts,
    MaxEntries,     \* LRU cap of LoginBackoff
    CapDelay,       \* BACKOFF_CAP_MS, in BACKOFF_BASE_MS
    MaxTime,        \* bound on the clock
    None

VARIABLES
    now,
    attempt,    \* attempt -> [state, account, kind]
    prior,      \* attempt -> the attempt it is chained on, or None
    tail,       \* account -> attemptQueues: the last attempt of the chain, or None
    entries,    \* LoginBackoff.entries, in insertion order
    outcomes    \* history: account -> the failures since its last success

vars == <<now, attempt, prior, tail, entries, outcomes>>

Idle == [state |-> "idle", account |-> None, kind |-> None]

Init ==
    /\ now = 0
    /\ attempt = [a \in Attempts |-> Idle]
    /\ prior = [a \in Attempts |-> None]
    /\ tail = [c \in Accounts |-> None]
    /\ entries = <<>>
    /\ outcomes = [c \in Accounts |-> <<>>]

(***************************************************************************)
(* LoginBackoff                                                            *)
(***************************************************************************)

Least(m, n) == IF m <= n THEN m ELSE n
Delay(failures) == IF failures <= 0 THEN 0 ELSE Least(2 ^ (failures - 1), CapDelay)

EntriesOf(c) == {i \in DOMAIN entries : entries[i].account = c}

PlaceOf(c) == CHOOSE i \in EntriesOf(c) : TRUE
EntryOf(c) == entries[PlaceOf(c)]

ReadyAt(c) ==
    IF EntriesOf(c) = {} THEN 0 ELSE EntryOf(c).at + Delay(EntryOf(c).failures)

Failures(c) == IF EntriesOf(c) = {} THEN 0 ELSE EntryOf(c).failures

\* The rest of the map, without the account's entry.
Others(c) == IF EntriesOf(c) = {} THEN entries ELSE RemoveAt(entries, PlaceOf(c))

Evicted(seq) == IF Len(seq) >= MaxEntries THEN Tail(seq) ELSE seq

RecordedAsFirst(c) == [account |-> c, failures |-> 1, at |-> now]
Recorded(c) == [account |-> c, failures |-> Failures(c) + 1, at |-> now]

RecordFailure(c) == entries' = Append(Evicted(Others(c)), Recorded(c))

Reset(c) == entries' = Others(c)

(***************************************************************************)
(* The chain of attempts                                                   *)
(***************************************************************************)

State(a) == attempt[a].state
Account(a) == attempt[a].account
Settled(a) == State(a) \in {"done", "broken"}

Arrive(a) ==
    /\ State(a) = "idle"
    /\ \E c \in Accounts, kind \in {"login", "change"} :
          /\ attempt' = [attempt EXCEPT ![a] = [state |-> "queued", account |-> c, kind |-> kind]]
          /\ prior' = [prior EXCEPT ![a] = tail[c]]
          /\ tail' = [tail EXCEPT ![c] = a]
    /\ UNCHANGED <<now, entries, outcomes>>

\* The end of an attempt takes its chain away unless another has joined it.
TailAfter(a) == IF tail[Account(a)] = a THEN [tail EXCEPT ![Account(a)] = None] ELSE tail

Leave(a, state) ==
    /\ attempt' = [attempt EXCEPT ![a].state = state]
    /\ tail' = TailAfter(a)

TurnUnlessBroken(a) == State(a) = "queued" /\ (prior[a] # None => State(prior[a]) = "done")
Turn(a) == State(a) = "queued" /\ (prior[a] # None => Settled(prior[a]))

Clear(a) == now >= ReadyAt(Account(a))

Start(a) ==
    /\ Turn(a)
    /\ Clear(a)
    /\ attempt' = [attempt EXCEPT ![a].state = "verifying"]
    /\ UNCHANGED <<now, prior, tail, entries, outcomes>>

\* 429
TurnedAway(a) ==
    /\ Turn(a)
    /\ ~Clear(a)
    /\ Leave(a, "done")
    /\ UNCHANGED <<now, prior, entries, outcomes>>

\* A wrong password, an unknown email or an inactive account.
Fail(a) ==
    /\ State(a) = "verifying"
    /\ RecordFailure(Account(a))
    /\ outcomes' = [outcomes EXCEPT ![Account(a)] = Append(@, now)]
    /\ Leave(a, "done")
    /\ UNCHANGED <<now, prior>>

\* A change of password leaves the chain at once, a login when its session is
\* stored.
Succeed(a) ==
    /\ State(a) = "verifying"
    /\ Reset(Account(a))
    /\ outcomes' = [outcomes EXCEPT ![Account(a)] = <<>>]
    /\ IF attempt[a].kind = "login"
       THEN attempt' = [attempt EXCEPT ![a].state = "storing"] /\ UNCHANGED tail
       ELSE Leave(a, "done")
    /\ UNCHANGED <<now, prior>>

Store(a) ==
    /\ State(a) = "storing"
    /\ Leave(a, "done")
    /\ UNCHANGED <<now, prior, entries, outcomes>>

\* The database or the hasher fails: the attempt rejects with nothing recorded.
Break(a) ==
    /\ State(a) \in {"verifying", "storing"}
    /\ Leave(a, "broken")
    /\ UNCHANGED <<now, prior, entries, outcomes>>

Tick == now < MaxTime /\ now' = now + 1 /\ UNCHANGED <<attempt, prior, tail, entries, outcomes>>

Runs(a) == Start(a) \/ TurnedAway(a) \/ Fail(a) \/ Succeed(a) \/ Store(a) \/ Break(a)

Next == (\E a \in Attempts : Arrive(a) \/ Runs(a)) \/ Tick

\* Node runs the continuation of a settled promise; hashing and the database
\* answer or fail.
Fairness == \A a \in Attempts : WF_vars(Runs(a))

Spec == Init /\ [][Next]_vars /\ Fairness

(***************************************************************************)
(* Properties                                                              *)
(***************************************************************************)

ThrottleTypeOK ==
    /\ now \in 0 .. MaxTime
    /\ \A a \in Attempts : State(a) \in {"idle", "queued", "verifying", "storing", "done", "broken"}
    /\ \A c \in Accounts : Cardinality(EntriesOf(c)) <= 1
    /\ Len(entries) <= MaxEntries

\* One password of an account is verified at a time, however many attempts
\* arrive together and however they end.
OneVerification ==
    \A a, b \in Attempts : State(a) = "verifying" /\ State(b) = "verifying" /\ a # b => Account(a) # Account(b)

\* No verification begins within the delay that the failures since the last
\* success call for, in a burst least of all.
SpacedGuesses ==
    \A a \in Attempts :
       State(a) = "queued" /\ attempt'[a].state = "verifying" /\ outcomes[Account(a)] # <<>> =>
           now >= Last(outcomes[Account(a)]) + Delay(Len(outcomes[Account(a)]))

LastFailure(c) == IF outcomes[c] = <<>> THEN 0 ELSE Last(outcomes[c])

\* What the cap drops is the account that has not failed for the longest.
DropsTheStalest ==
    \A c, d \in Accounts :
        outcomes[c] # <<>> /\ outcomes[d] # <<>> /\ EntriesOf(c) = {} /\ EntriesOf(d) # {} =>
            LastFailure(c) <= LastFailure(d)

\* Every attempt is answered: a chain never waits on an attempt that failed.
EveryAttemptAnswered == \A a \in Attempts : State(a) = "queued" ~> Settled(a)
=============================================================================
