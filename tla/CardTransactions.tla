--------------------------- MODULE CardTransactions ---------------------------
(***************************************************************************)
(* The units of work on one card row, statement by statement, on the two    *)
(* adapters of the UnitOfWork port:                                        *)
(*                                                                         *)
(*   sqlite     SqliteUnitOfWork: one connection, calls serialized by an    *)
(*              in-process promise chain, BEGIN IMMEDIATE ... COMMIT;       *)
(*   postgres   PostgresUnitOfWork: one db.transaction() per call at the    *)
(*              server's default level, READ COMMITTED: a plain SELECT      *)
(*              takes no lock, an UPDATE ... WHERE id waits for the row     *)
(*              lock and then writes every column the service spread.       *)
(*                                                                         *)
(* Edits are the calls of CardService that require expectedVersion; the job *)
(* is the hourly alert claim, which writes the whole row without a version. *)
(***************************************************************************)
EXTENDS Naturals, Sequences, FiniteSets

CONSTANTS
    Edits,      \* calls of clients, each an edit of the card
    Job,        \* the job's call; `protect` in croner keeps its runs apart
    Adapter,    \* "sqlite" or "postgres"
    None

Calls == Edits \cup {Job}

ASSUME AdapterAssumption == Adapter \in {"sqlite", "postgres"}
ASSUME CallsAssumption   == Job \notin Edits /\ None \notin Calls

VARIABLES
    row,        \* the committed row
    events,     \* the committed audit events: the edits, in order
    chain,      \* SqliteUnitOfWork.chain: the calls waiting, in order
    owner,      \* sqlite: the call whose transaction is open;
                \* postgres: the call that holds the row's lock
    pc,         \* call -> where it is
    expected,   \* edit -> the version its client last looked at, 0 if none
    image,      \* call -> the row its transaction read
    retried,    \* edits running their one retry (runWithPositionRetry)
    alerts      \* history: messages sent for the overdue episode

vars == <<row, events, chain, owner, pc, expected, image, retried, alerts>>

Rows == [version : Nat, content : SUBSET Edits, alerted : BOOLEAN]

Fresh == [version |-> 1, content |-> {}, alerted |-> FALSE]

Open == {"open", "read", "written"}

Init ==
    /\ row = Fresh
    /\ events = << >>
    /\ chain = << >>
    /\ owner = None
    /\ pc = [c \in Calls |-> "idle"]
    /\ expected = [e \in Edits |-> 0]
    /\ image = [c \in Calls |-> Fresh]
    /\ retried = {}
    /\ alerts = 0

-----------------------------------------------------------------------------
(* Clients and the job.                                                     *)

\* A client fetches the card, at first or to see what a 409 was about; one that
\* finds its edit there has nothing left to do.
Look(e) ==
    /\ pc[e] \in {"idle", "refused", "lost"}
    /\ expected' = [expected EXCEPT ![e] = row.version]
    /\ pc' = [pc EXCEPT ![e] = IF e \in row.content THEN "done" ELSE "idle"]
    /\ UNCHANGED <<row, events, chain, owner, image, retried, alerts>>

\* The call reaches the server: on SQLite, run() appends it to the chain.
Enqueued(c) == IF Adapter = "sqlite" THEN Append(chain, c) ELSE chain

\* A request, or the same request again when the answer to it was lost.
Send(e) ==
    /\ pc[e] \in {"idle", "lost"}
    /\ expected[e] # 0
    /\ pc' = [pc EXCEPT ![e] = "waiting"]
    /\ chain' = Enqueued(e)
    /\ UNCHANGED <<row, events, owner, expected, image, retried, alerts>>

\* The top of the hour, unless the previous run is still going.
Fire ==
    /\ pc[Job] = "idle"
    /\ pc' = [pc EXCEPT ![Job] = "waiting"]
    /\ chain' = Enqueued(Job)
    /\ UNCHANGED <<row, events, owner, expected, image, retried, alerts>>

-----------------------------------------------------------------------------
(* Transactions.                                                            *)

BeginAnyTime(c) ==                      \* mutant: the chain does not serialize
    /\ pc[c] = "waiting"
    /\ IF Adapter = "sqlite"
       THEN /\ chain # << >> /\ Head(chain) = c
            /\ chain' = Tail(chain) /\ owner' = c
       ELSE UNCHANGED <<chain, owner>>
    /\ pc' = [pc EXCEPT ![c] = "open"]
    /\ UNCHANGED <<row, events, expected, image, retried, alerts>>

\* SQLite: run() starts a call when every earlier one has settled.
Begin(c) ==
    /\ pc[c] = "waiting"
    /\ IF Adapter = "sqlite"
       THEN /\ chain # << >> /\ Head(chain) = c /\ owner = None
            /\ chain' = Tail(chain) /\ owner' = c
       ELSE UNCHANGED <<chain, owner>>
    /\ pc' = [pc EXCEPT ![c] = "open"]
    /\ UNCHANGED <<row, events, expected, image, retried, alerts>>

\* ensureVersion on the row read; the job looks for an episode nobody claimed.
PassesUnchecked(c) == IF c = Job THEN ~row.alerted ELSE TRUE   \* mutant: no lock
Passes(c) == IF c = Job THEN ~row.alerted ELSE row.version = expected[c]

\* SELECT ... WHERE id, and the checks on what it returned.
Read(c) ==
    /\ pc[c] = "open"
    /\ Passes(c)
    /\ image' = [image EXCEPT ![c] = row]
    /\ pc' = [pc EXCEPT ![c] = "read"]
    /\ UNCHANGED <<row, events, chain, owner, expected, retried, alerts>>

Released(c) == IF owner = c THEN None ELSE owner

\* The transaction ends without a write: a 409 for a client (its transaction is
\* rolled back), nothing to do for the job.
RefuseHoldingChain(c) ==                \* mutant: a rejected run keeps the chain
    /\ pc[c] = "open"
    /\ ~Passes(c)
    /\ pc' = [pc EXCEPT ![c] = IF c = Job THEN "idle" ELSE "refused"]
    /\ retried' = retried \ {c}
    /\ UNCHANGED <<row, events, chain, owner, expected, image, alerts>>
Refuse(c) ==
    /\ pc[c] = "open"
    /\ ~Passes(c)
    /\ owner' = Released(c)
    /\ pc' = [pc EXCEPT ![c] = IF c = Job THEN "idle" ELSE "refused"]
    /\ retried' = retried \ {c}
    /\ UNCHANGED <<row, events, chain, expected, image, alerts>>

\* The UPDATE trips UNIQUE(laneId, position): rolled back, and run once more
\* from the start; a second violation is a 409.
Collide(e) ==
    /\ pc[e] = "read"
    /\ owner \in {None, e}
    /\ owner' = None
    /\ IF e \in retried
       THEN /\ pc' = [pc EXCEPT ![e] = "refused"]
            /\ retried' = retried \ {e}
            /\ UNCHANGED chain
       ELSE /\ pc' = [pc EXCEPT ![e] = "waiting"]
            /\ retried' = retried \cup {e}
            /\ chain' = Enqueued(e)
    /\ UNCHANGED <<row, events, expected, image, alerts>>

\* UPDATE cards SET <all columns> WHERE id.
Write(c) ==
    /\ pc[c] = "read"
    /\ owner \in {None, c}
    /\ owner' = c
    /\ pc' = [pc EXCEPT ![c] = "written"]
    /\ UNCHANGED <<row, events, chain, expected, image, retried, alerts>>

\* The row the transaction wrote: the one it read, changed.
Written(c) ==
    IF c = Job THEN [image[c] EXCEPT !.alerted = TRUE]
    ELSE [image[c] EXCEPT !.version = @ + 1, !.content = @ \cup {c}]

\* COMMIT: the row and, for an edit, its event in the same transaction (ADR-005).
Commit(c) ==
    /\ pc[c] = "written"
    /\ row' = Written(c)
    /\ events' = IF c = Job THEN events ELSE Append(events, c)
    /\ owner' = None
    /\ pc' = [pc EXCEPT ![c] = "committed"]
    /\ retried' = retried \ {c}
    /\ UNCHANGED <<chain, expected, image, alerts>>

\* The answer reaches the client; the job sends its message.
Answer(c) ==
    /\ pc[c] = "committed"
    /\ pc' = [pc EXCEPT ![c] = IF c = Job THEN "idle" ELSE "done"]
    /\ alerts' = IF c = Job THEN alerts + 1 ELSE alerts
    /\ UNCHANGED <<row, events, chain, owner, expected, image, retried>>

\* The process dies and starts again: open transactions are rolled back, calls
\* in memory are gone, clients cannot tell whether theirs was committed.
Crash ==
    /\ \E c \in Calls : pc[c] \in Open \cup {"waiting", "committed"}
    /\ pc' = [c \in Calls |->
                 IF pc[c] \in Open \cup {"waiting", "committed"}
                 THEN IF c = Job THEN "idle" ELSE "lost"
                 ELSE pc[c]]
    /\ chain' = << >>
    /\ owner' = None
    /\ retried' = {}
    /\ UNCHANGED <<row, events, expected, image, alerts>>

-----------------------------------------------------------------------------
Step(c) == Begin(c) \/ Read(c) \/ Refuse(c) \/ Write(c) \/ Commit(c) \/ Answer(c)

Next ==
    \/ \E e \in Edits : Look(e) \/ Send(e) \/ Collide(e)
    \/ Fire
    \/ \E c \in Calls : Step(c)
    \/ Crash

Spec == Init /\ [][Next]_vars

\* The event loop and the database run every transaction that can run.
Fairness == \A c \in Calls : WF_vars(Step(c))

-----------------------------------------------------------------------------
(* Properties.                                                              *)

\* Every variable stays within its type.
TypeOK ==
    /\ row \in Rows
    /\ events \in Seq(Edits)
    /\ chain \in Seq(Calls)
    /\ owner \in Calls \cup {None}
    /\ pc \in [Calls -> Open \cup {"idle", "waiting", "committed", "done",
                                   "refused", "lost"}]
    /\ expected \in [Edits -> Nat]
    /\ image \in [Calls -> Rows]
    /\ retried \in SUBSET Edits
    /\ alerts \in Nat

Committed == {events[i] : i \in DOMAIN events}

\* ADR-012: "last-write-wins silently destroys edits" is what the version is
\* for.  An edit that was committed is still in the card's fields.
NoLostUpdate == Committed \subseteq row.content

\* ADR-012: the version is incremented on every mutation, so it counts the
\* events, and two edits never share one.
VersionCountsEdits == row.version = Len(events) + 1

\* Neither the retry after a position conflict nor a client that repeats a
\* request whose answer was lost applies an edit a second time.
AppliedOnce == \A i, j \in DOMAIN events : events[i] = events[j] => i = j

\* A client that was told its edit succeeded finds it in the audit trail, also
\* after a crash: an answer is given for nothing the database may still undo.
AnswersMatchTrail == \A e \in Edits : pc[e] \in {"committed", "done"} => e \in Committed

\* One message per overdue episode, and none at all rather than a second one
\* when the process dies between the claim and the message.
AlertedAtMostOnce == alerts <= 1

\* The four above, of one card under the optimistic lock.
TrailInv == VersionCountsEdits /\ AppliedOnce /\ AnswersMatchTrail /\ AlertedAtMostOnce

\* A call the server took in is settled: answered, refused, or lost with the
\* process.  The promise chain never wedges.
EveryCallSettles ==
    \A c \in Calls : pc[c] = "waiting" ~> pc[c] \notin Open \cup {"waiting"}

Lock == INSTANCE OptimisticLock WITH
    version <- row.version, content <- row.content, log <- events, seen <- expected

\* The transactions on SQLite implement the optimistic lock of ADR-012.
ImplementsLock == Lock!Spec

-----------------------------------------------------------------------------
\* On SQLite the row a call has read stays the committed row until the call
\* ends: nothing interleaves into an open transaction.
Exclusive ==
    Adapter = "sqlite" =>
        /\ \A c \in Calls : pc[c] \in Open <=> owner = c
        /\ \A c \in Calls : pc[c] \in {"read", "written"} => image[c] = row
        /\ \A e \in Edits : pc[e] \in {"read", "written"} => expected[e] = row.version

\* The inductive invariant: that, and the types.
LockInv == TypeOK /\ Exclusive
=============================================================================
