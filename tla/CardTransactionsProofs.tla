------------------------ MODULE CardTransactionsProofs ------------------------
(***************************************************************************)
(* Units of work and what runs beside them, proved for any number of        *)
(* clients, jobs, nights and files.                                         *)
(*                                                                         *)
(* On SQLite the units of work implement the optimistic lock of ADR-012:    *)
(* while a transaction is open it owns the connection, so the row it has    *)
(* read is the committed row when it commits (Exclusive).                   *)
(*                                                                         *)
(* The process (ServerProcess) closes the database behind what is drained;  *)
(* the nightly snapshots (SnapshotRotation) and the files of a card         *)
(* (AttachmentBlobs) rest on counting: a run knows before it copies what it *)
(* removes, an upload holds room before it writes.                          *)
(*                                                                         *)
(* The numbers of the cards and what hangs on them (CardDiscard) are kept   *)
(* apart by what a unit of work about to commit holds: two of them touch no *)
(* card in common, unless both only hang something on it.                   *)
(*                                                                         *)
(* The daily quota (UploadQuota) holds as the counter is what is reserved   *)
(* on the day it was last read, however uploads overlap.                    *)
(***************************************************************************)
EXTENDS CardTransactions, FiniteSetTheorems, WellFoundedInduction, TLAPS

CONSTANTS
    Jobs, Requests, Signals, SlackEnabled, SlackFails, EarlySignals,  \* of ServerProcess
    Retain, MaxDay, Operator,                                         \* of SnapshotRotation
    Blobs, Deleters, HighWater, MaxActive, Postgres, FirstColumn, Faults,   \* of AttachmentBlobs
    Numbers, Types, Symmetric, MaxCalls    \* of CardDiscard, with Requests and Postgres

VARIABLES
    main, scheduler, running, stop, awaited, serving, inflight, connection, exited,
    day, dated, partial, whole, run, succeeded,     \* of SnapshotRotation, with run for job
    upload, attached, holder, disk, total, reserved, deleting,  \* of AttachmentBlobs: rows, card
    card, rows, next, shown, tx, calls              \* of CardDiscard

P == INSTANCE ServerProcess
N == INSTANCE SnapshotRotation WITH job <- run
F == INSTANCE AttachmentBlobs WITH rows <- attached, card <- holder
D == INSTANCE CardDiscard

\* What a transaction writes is a row.
LEMMA WrittenIsRow ==
    ASSUME TypeOK, NEW c \in Calls
    PROVE  Written(c) \in Rows
<1>1. image[c] \in Rows
  BY DEF TypeOK
<1>2. CASE c = Job
  BY <1>1, <1>2 DEF Written, Rows
<1>3. CASE c # Job
  <2>1. c \in Edits
    BY <1>3 DEF Calls
  <2>2. image[c].version + 1 \in Nat /\ image[c].content \cup {c} \in SUBSET Edits
    BY <1>1, <2>1 DEF Rows
  <2> QED BY <1>1, <1>3, <2>2 DEF Written, Rows
<1> QED BY <1>2, <1>3

LEMMA InitLockInv == Init => LockInv
<1> SUFFICES ASSUME Init PROVE LockInv
  OBVIOUS
<1>1. Fresh \in Rows
  BY DEF Fresh, Rows
<1>2. TypeOK
  BY <1>1 DEF Init, TypeOK, Open
<1>3. Exclusive
  BY CallsAssumption DEF Init, Exclusive, Open, Calls
<1> QED BY <1>2, <1>3 DEF LockInv

\* Every step keeps the types.
LEMMA TypeStep == TypeOK /\ [Next]_vars => TypeOK'
<1> SUFFICES ASSUME TypeOK, [Next]_vars PROVE TypeOK'
  OBVIOUS
<1> USE DEF TypeOK, Open
<1>1. ASSUME NEW e \in Edits, Look(e) PROVE TypeOK'
  <2>1. row.version \in Nat
    BY DEF Rows
  <2> QED BY <1>1, <2>1 DEF Look, Calls
<1>2. ASSUME NEW e \in Edits, Send(e) PROVE TypeOK'
  BY <1>2 DEF Send, Enqueued, Calls
<1>3. ASSUME NEW e \in Edits, Collide(e) PROVE TypeOK'
  <2>1. e \in Calls
    BY DEF Calls
  <2>2. chain' \in Seq(Calls)
    <3>1. Append(chain, e) \in Seq(Calls)
      BY <2>1
    <3>2. chain' \in {chain, Append(chain, e)}
      BY <1>3 DEF Collide, Enqueued
    <3> QED BY <3>1, <3>2
  <2>3. retried' \in SUBSET Edits
    BY <1>3 DEF Collide
  <2>4. owner' \in Calls \cup {None}
    BY <1>3 DEF Collide
  <2> QED BY <1>3, <2>1, <2>2, <2>3, <2>4 DEF Collide
<1>4. CASE Fire
  <2>1. chain' \in Seq(Calls)
    BY <1>4 DEF Fire, Enqueued, Calls
  <2> QED BY <1>4, <2>1 DEF Fire
<1>5. ASSUME NEW c \in Calls, Begin(c) PROVE TypeOK'
  <2>1. chain' \in Seq(Calls) /\ owner' \in Calls \cup {None}
    <3> HIDE DEF TypeOK, Open
    <3>1. chain \in Seq(Calls) /\ owner \in Calls \cup {None}
      BY DEF TypeOK
    <3>2. CASE Adapter = "sqlite"
      <4>1. chain # << >> /\ chain' = Tail(chain) /\ owner' = c
        BY <1>5, <3>2 DEF Begin
      <4> QED BY <3>1, <4>1
    <3>3. CASE Adapter # "sqlite"
      BY <1>5, <3>1, <3>3 DEF Begin
    <3> QED BY <3>2, <3>3
  <2>2. pc' = [pc EXCEPT ![c] = "open"]
    BY <1>5 DEF Begin
  <2> QED BY <1>5, <2>1, <2>2 DEF Begin
<1>6. ASSUME NEW c \in Calls, Read(c) PROVE TypeOK'
  BY <1>6 DEF Read
<1>7. ASSUME NEW c \in Calls, Refuse(c) PROVE TypeOK'
  BY <1>7 DEF Refuse, Released
<1>8. ASSUME NEW c \in Calls, Write(c) PROVE TypeOK'
  BY <1>8 DEF Write
<1>9. ASSUME NEW c \in Calls, Commit(c) PROVE TypeOK'
  <2>1. Written(c) \in Rows
    BY WrittenIsRow
  <2>2. events' \in Seq(Edits)
    BY <1>9 DEF Commit, Calls
  <2>3. pc' \in [Calls -> Open \cup {"idle", "waiting", "committed", "done",
                                     "refused", "lost"}]
    BY <1>9 DEF Commit
  <2> QED BY <1>9, <2>1, <2>2, <2>3 DEF Commit
<1>10. ASSUME NEW c \in Calls, Answer(c) PROVE TypeOK'
  BY <1>10 DEF Answer
<1>11. CASE Crash
  BY <1>11 DEF Crash
<1>12. CASE UNCHANGED vars
  BY <1>12 DEF vars
<1> QED BY <1>1, <1>2, <1>3, <1>4, <1>5, <1>6, <1>7, <1>8, <1>9, <1>10, <1>11, <1>12
        DEF Next, Step

\* A transaction of SQLite commits the committed row, changed.
LEMMA CommitsOnRow ==
    ASSUME Adapter = "sqlite", LockInv, NEW c \in Calls, Commit(c)
    PROVE  /\ row' = IF c = Job THEN [row EXCEPT !.alerted = TRUE]
                     ELSE [row EXCEPT !.version = @ + 1, !.content = @ \cup {c}]
           /\ c \in Edits => expected[c] = row.version
<1>1. pc[c] = "written" /\ row' = Written(c)
  BY DEF Commit
<1>2. image[c] = row
  BY <1>1 DEF LockInv, Exclusive
<1>3. c \in Edits => expected[c] = row.version
  BY <1>1 DEF LockInv, Exclusive
<1> QED BY <1>1, <1>2, <1>3 DEF Written

\* Every step keeps the transactions apart.  On the owner: a call opens only
\* when nobody owns the connection, and gives it up when it ends.
LEMMA ExclusiveStep == LockInv /\ [Next]_vars => Exclusive'
<1> SUFFICES ASSUME LockInv, [Next]_vars, Adapter = "sqlite"
             PROVE  /\ \A c \in Calls : pc'[c] \in Open <=> owner' = c
                    /\ \A c \in Calls : pc'[c] \in {"read", "written"} => image'[c] = row'
                    /\ \A e \in Edits : pc'[e] \in {"read", "written"}
                                           => expected'[e] = row'.version
  BY DEF Exclusive
<1> DEFINE Goal == /\ \A c \in Calls : pc'[c] \in Open <=> owner' = c
                   /\ \A c \in Calls : pc'[c] \in {"read", "written"} => image'[c] = row'
                   /\ \A e \in Edits : pc'[e] \in {"read", "written"}
                                          => expected'[e] = row'.version
<1>a. /\ \A c \in Calls : pc[c] \in Open <=> owner = c
      /\ \A c \in Calls : pc[c] \in {"read", "written"} => image[c] = row
      /\ \A e \in Edits : pc[e] \in {"read", "written"} => expected[e] = row.version
  BY DEF LockInv, Exclusive
<1>b. /\ DOMAIN pc = Calls /\ DOMAIN image = Calls /\ DOMAIN expected = Edits
      /\ None \notin Calls /\ Edits \subseteq Calls
      /\ pc \in [Calls -> Open \cup {"idle", "waiting", "committed", "done",
                                     "refused", "lost"}]
      /\ image \in [Calls -> Rows] /\ expected \in [Edits -> Nat]
  BY CallsAssumption DEF LockInv, TypeOK, Calls
<1> USE DEF Open
<1>1. ASSUME NEW e \in Edits, Look(e) PROVE Goal
  BY <1>1, <1>a, <1>b DEF Look
<1>2. ASSUME NEW e \in Edits, Send(e) PROVE Goal
  BY <1>2, <1>a, <1>b DEF Send
<1>3. ASSUME NEW e \in Edits, Collide(e) PROVE Goal
  <2>1. owner = e /\ owner' = None
    BY <1>3, <1>a, <1>b DEF Collide
  <2>2. pc' = [pc EXCEPT ![e] = "refused"] \/ pc' = [pc EXCEPT ![e] = "waiting"]
    BY <1>3 DEF Collide
  <2>3. UNCHANGED <<row, expected, image>>
    BY <1>3 DEF Collide
  <2> QED BY <2>1, <2>2, <2>3, <1>a, <1>b
<1>4. CASE Fire
  BY <1>4, <1>a, <1>b DEF Fire
<1>5. ASSUME NEW c \in Calls, Begin(c) PROVE Goal
  <2>1. /\ owner = None /\ owner' = c /\ pc' = [pc EXCEPT ![c] = "open"]
        /\ UNCHANGED <<row, expected, image>>
    BY <1>5 DEF Begin
  <2> QED BY <2>1, <1>a, <1>b
<1>6. ASSUME NEW c \in Calls, Read(c) PROVE Goal
  <2>1. c \in Edits => c # Job /\ expected[c] = row.version
    BY <1>6, CallsAssumption DEF Read, Passes
  <2>2. /\ pc[c] = "open" /\ pc' = [pc EXCEPT ![c] = "read"]
        /\ image' = [image EXCEPT ![c] = row]
        /\ UNCHANGED <<row, expected, owner>>
    BY <1>6 DEF Read
  <2> QED BY <2>1, <2>2, <1>a, <1>b
<1>7. ASSUME NEW c \in Calls, Refuse(c) PROVE Goal
  <2>1. owner = c /\ owner' = None
    BY <1>7, <1>a DEF Refuse, Released
  <2>2. pc' = [pc EXCEPT ![c] = "idle"] \/ pc' = [pc EXCEPT ![c] = "refused"]
    BY <1>7 DEF Refuse
  <2>3. UNCHANGED <<row, expected, image>>
    BY <1>7 DEF Refuse
  <2> QED BY <2>1, <2>2, <2>3, <1>a, <1>b
<1>8. ASSUME NEW c \in Calls, Write(c) PROVE Goal
  <2>1. /\ pc[c] = "read" /\ pc' = [pc EXCEPT ![c] = "written"] /\ owner' = c
        /\ UNCHANGED <<row, expected, image>>
    BY <1>8 DEF Write
  <2>2. owner = c
    BY <2>1, <1>a
  <2> QED BY <2>1, <2>2, <1>a, <1>b
<1>9. ASSUME NEW c \in Calls, Commit(c) PROVE Goal
  <2>1. /\ pc[c] = "written" /\ pc' = [pc EXCEPT ![c] = "committed"] /\ owner' = None
        /\ UNCHANGED <<expected, image>>
    BY <1>9 DEF Commit
  <2>2. owner = c
    BY <2>1, <1>a
  <2>3. \A x \in Calls : pc'[x] \notin Open
    BY <2>1, <2>2, <1>a, <1>b
  <2> QED BY <2>1, <2>3, <1>b
<1>10. ASSUME NEW c \in Calls, Answer(c) PROVE Goal
  <2>1. pc' = [pc EXCEPT ![c] = "idle"] \/ pc' = [pc EXCEPT ![c] = "done"]
    BY <1>10 DEF Answer
  <2>2. pc[c] = "committed" /\ UNCHANGED <<row, owner, expected, image>>
    BY <1>10 DEF Answer
  <2> QED BY <2>1, <2>2, <1>a, <1>b
<1>11. CASE Crash
  <2>1. owner' = None /\ \A c \in Calls : pc'[c] \notin Open
    BY <1>11, <1>b DEF Crash
  <2> QED BY <2>1, <1>b
<1>12. CASE UNCHANGED vars
  BY <1>12, <1>a DEF vars
<1> QED BY <1>1, <1>2, <1>3, <1>4, <1>5, <1>6, <1>7, <1>8, <1>9, <1>10, <1>11, <1>12
        DEF Next, Step

\* LockInv, for any number of clients: each variable has its type and, on
\* SQLite, the row a transaction has read is the committed row until it ends.
THEOREM TransactionsExclusive == Spec => []LockInv
<1>1. LockInv /\ [Next]_vars => LockInv'
  BY TypeStep, ExclusiveStep DEF LockInv
<1> QED BY InitLockInv, <1>1, PTL DEF Spec

\* A step that keeps the abstract variables is a stutter of the lock.
LEMMA LockStep ==
    ASSUME Adapter = "sqlite", LockInv, [Next]_vars
    PROVE  [Lock!Next]_(Lock!vars)
<1> DEFINE Kept == UNCHANGED <<row.version, row.content, events, expected>>
           Goal == [Lock!Next]_(Lock!vars)
<1>a. Kept => Goal
  BY DEF Lock!vars
<1>1. ASSUME NEW e \in Edits, Look(e) PROVE Goal
  <2>1. Lock!Look(e)
    BY <1>1 DEF Look, Lock!Look
  <2> QED BY <2>1 DEF Lock!Next
<1>2. ASSUME NEW c \in Calls, Commit(c) PROVE Goal
  <2>1. /\ row' = IF c = Job THEN [row EXCEPT !.alerted = TRUE]
                  ELSE [row EXCEPT !.version = @ + 1, !.content = @ \cup {c}]
        /\ c \in Edits => expected[c] = row.version
    BY <1>2, CommitsOnRow
  <2>2. row \in Rows
    BY DEF LockInv, TypeOK
  <2>3. expected' = expected
    BY <1>2 DEF Commit
  <2>4. CASE c = Job
    <3>1. row'.version = row.version /\ row'.content = row.content
      BY <2>1, <2>2, <2>4 DEF Rows
    <3>2. events' = events
      BY <1>2, <2>4 DEF Commit
    <3> QED BY <3>1, <3>2, <2>3, <1>a
  <2>5. CASE c # Job
    <3>1. c \in Edits
      BY <2>5 DEF Calls
    <3>2. row'.version = row.version + 1 /\ row'.content = row.content \cup {c}
      BY <2>1, <2>2, <2>5 DEF Rows
    <3>3. events' = Append(events, c)
      BY <1>2, <2>5 DEF Commit
    <3>4. Lock!Accept(c)
      BY <2>1, <2>3, <3>1, <3>2, <3>3 DEF Lock!Accept
    <3> QED BY <3>1, <3>4 DEF Lock!Next
  <2> QED BY <2>4, <2>5
<1>3. ASSUME NEW e \in Edits, Send(e) \/ Collide(e) PROVE Goal
  BY <1>3, <1>a DEF Send, Collide
<1>4. CASE Fire
  BY <1>4, <1>a DEF Fire
<1>5. ASSUME NEW c \in Calls, Begin(c) \/ Read(c) \/ Refuse(c) \/ Write(c) \/ Answer(c)
      PROVE  Goal
  BY <1>5, <1>a DEF Begin, Read, Refuse, Write, Answer
<1>6. CASE Crash
  BY <1>6, <1>a DEF Crash
<1>7. CASE UNCHANGED vars
  BY <1>7, <1>a DEF vars
<1>8. ASSUME NEW e \in Edits, Look(e) \/ Send(e) \/ Collide(e) PROVE Goal
  BY <1>8, <1>1, <1>3
<1>9. ASSUME NEW c \in Calls, Step(c) PROVE Goal
  BY <1>9, <1>2, <1>5 DEF Step
<1>10. Next \/ UNCHANGED vars
  OBVIOUS
<1>11. Goal
  BY <1>4, <1>6, <1>7, <1>8, <1>9, <1>10 DEF Next
<1> QED BY <1>11

\* ADR-012 on SQLite: whatever the clients, the job and crashes do, the card is
\* under the optimistic lock.
THEOREM LockImplemented ==
    ASSUME Adapter = "sqlite"
    PROVE  Spec => ImplementsLock
<1>1. Init => Lock!Init
  BY DEF Init, Fresh, Lock!Init
<1>2. LockInv /\ [Next]_vars => [Lock!Next]_(Lock!vars)
  BY LockStep
<1> QED BY <1>1, <1>2, TransactionsExclusive, PTL DEF Spec, ImplementsLock, Lock!Spec

\* What a lock of ADR-012 is for, as one invariant of the service on SQLite.
Kept == NoLostUpdate /\ VersionCountsEdits

LEMMA KeptStep ==
    ASSUME Adapter = "sqlite", LockInv, Kept, [Next]_vars
    PROVE  Kept'
<1>1. events \in Seq(Edits) /\ row \in Rows
  BY DEF LockInv, TypeOK
<1>2. CASE UNCHANGED <<row.version, row.content, events>>
  BY <1>2 DEF Kept, NoLostUpdate, VersionCountsEdits, Committed
<1>3. CASE \E e \in Edits : Lock!Accept(e)
  <2>1. PICK e \in Edits : Lock!Accept(e)
    BY <1>3
  <2>2. /\ row'.version = row.version + 1
        /\ row'.content = row.content \cup {e}
        /\ events' = Append(events, e)
    BY <2>1 DEF Lock!Accept
  <2>3. Len(events') = Len(events) + 1
    BY <1>1, <2>2
  <2>4. \A i \in DOMAIN events' : events'[i] = e \/ \E j \in DOMAIN events : events'[i] = events[j]
    BY <1>1, <2>2
  <2>5. VersionCountsEdits'
    BY <1>1, <2>2, <2>3 DEF Kept, VersionCountsEdits, Rows
  <2>6. NoLostUpdate'
    BY <2>2, <2>4 DEF Kept, NoLostUpdate, Committed
  <2> QED BY <2>5, <2>6 DEF Kept
<1>4. [Lock!Next]_(Lock!vars)
  BY LockStep
<1> QED BY <1>2, <1>3, <1>4 DEF Lock!Next, Lock!Look, Lock!vars

\* On SQLite no committed edit is ever overwritten by another one, by a retry
\* or by the job's full-row write, and every version names one edit.
THEOREM NothingLost ==
    ASSUME Adapter = "sqlite"
    PROVE  Spec => [](NoLostUpdate /\ VersionCountsEdits)
<1>1. Init => Kept
  BY DEF Init, Fresh, Kept, NoLostUpdate, VersionCountsEdits, Committed
<1>2. LockInv /\ Kept /\ [Next]_vars => Kept'
  BY KeptStep
<1>3. Kept => NoLostUpdate /\ VersionCountsEdits
  BY DEF Kept
<1> QED BY <1>1, <1>2, <1>3, TransactionsExclusive, PTL DEF Spec

\* On SQLite a version never stands for two different edits, so a client that
\* holds it knows the row it holds (card-service.ts: the version check).
THEOREM VersionsNameEdits ==
    ASSUME Adapter = "sqlite"
    PROVE  Spec => []VersionCountsEdits
<1>1. NoLostUpdate /\ VersionCountsEdits => VersionCountsEdits
  OBVIOUS
<1> QED BY <1>1, NothingLost, PTL

-----------------------------------------------------------------------------
(* The trail and the alert, on SQLite.                                      *)

\* A committed edit that its client does not know of carries a version that has
\* gone by, so that sending it again is refused.
EditsSettled ==
    \A e \in Edits :
        /\ pc[e] \in {"committed", "done"} => e \in Committed
        /\ e \in Committed /\ pc[e] # "done" => expected[e] < row.version

\* The job has claimed the episode before it sends a message, and nobody takes
\* the claim back.
ClaimHeld ==
    /\ alerts \in {0, 1}
    /\ alerts = 1 => row.alerted
    /\ pc[Job] = "committed" => row.alerted /\ alerts = 0
    /\ pc[Job] \in {"read", "written"} => ~row.alerted

TrailIInv ==
    /\ row.content = Committed
    /\ AppliedOnce
    /\ EditsSettled
    /\ ClaimHeld

\* The steps that commit nothing, answer nobody and show nobody the row.
LEMMA QuietSteps ==
    ASSUME TrailIInv, UNCHANGED <<row, events, expected, alerts>>,
           \A e \in Edits : /\ pc'[e] \in {"committed", "done"} => pc[e] \in {"committed", "done"}
                            /\ pc[e] = "done" => pc'[e] = "done",
           pc'[Job] = "committed" => pc[Job] = "committed",
           pc'[Job] \in {"read", "written"} => ~row.alerted
    PROVE  TrailIInv'
<1>1. Committed' = Committed
  BY DEF Committed
<1>2. AppliedOnce'
  BY DEF TrailIInv, AppliedOnce
<1>3. EditsSettled'
  BY <1>1 DEF TrailIInv, EditsSettled
<1>4. ClaimHeld'
  BY DEF TrailIInv, ClaimHeld
<1> QED BY <1>1, <1>2, <1>3, <1>4 DEF TrailIInv

LEMMA TrailStep ==
    ASSUME Adapter = "sqlite", LockInv, TrailIInv, [Next]_vars
    PROVE  TrailIInv'
<1> DEFINE Quiet ==
        /\ UNCHANGED <<row, events, expected, alerts>>
        /\ \A e \in Edits : /\ pc'[e] \in {"committed", "done"} => pc[e] \in {"committed", "done"}
                            /\ pc[e] = "done" => pc'[e] = "done"
        /\ pc'[Job] = "committed" => pc[Job] = "committed"
        /\ pc'[Job] \in {"read", "written"} => ~row.alerted
<1>q. Quiet => TrailIInv'
  BY QuietSteps
<1>t. /\ Job \notin Edits /\ Job \in Calls /\ Edits \subseteq Calls
      /\ DOMAIN pc = Calls /\ DOMAIN expected = Edits
      /\ row \in Rows /\ events \in Seq(Edits) /\ expected \in [Edits -> Nat]
      /\ pc[Job] \in {"read", "written"} => ~row.alerted
  BY CallsAssumption DEF LockInv, TypeOK, Calls, TrailIInv, ClaimHeld
<1>1. ASSUME NEW e \in Edits, Look(e) PROVE TrailIInv'
  <2>1. /\ pc[e] # "done"
        /\ UNCHANGED <<row, events, alerts>>
        /\ expected' = [expected EXCEPT ![e] = row.version]
        /\ pc' = [pc EXCEPT ![e] = IF e \in row.content THEN "done" ELSE "idle"]
    BY <1>1 DEF Look
  <2>2. Committed' = Committed
    BY <2>1 DEF Committed
  <2>3. AppliedOnce'
    BY <2>1 DEF TrailIInv, AppliedOnce
  <2>4. EditsSettled'
    BY <2>1, <2>2, <1>t DEF TrailIInv, EditsSettled
  <2>5. ClaimHeld'
    BY <2>1, <1>t DEF TrailIInv, ClaimHeld
  <2> QED BY <2>1, <2>2, <2>3, <2>4, <2>5 DEF TrailIInv
<1>2. ASSUME NEW e \in Edits, Send(e) PROVE Quiet
  BY <1>2, <1>t DEF Send
<1>3. ASSUME NEW e \in Edits, Collide(e) PROVE Quiet
  <2>1. pc' = [pc EXCEPT ![e] = "refused"] \/ pc' = [pc EXCEPT ![e] = "waiting"]
    BY <1>3 DEF Collide
  <2>2. pc[e] = "read" /\ UNCHANGED <<row, events, expected, alerts>>
    BY <1>3 DEF Collide
  <2> QED BY <2>1, <2>2, <1>t
<1>4. ASSUME Fire PROVE Quiet
  BY <1>4, <1>t DEF Fire
<1>5. ASSUME NEW c \in Calls, Begin(c) PROVE Quiet
  <2>1. /\ pc[c] = "waiting" /\ pc' = [pc EXCEPT ![c] = "open"]
        /\ UNCHANGED <<row, events, expected, alerts>>
    BY <1>5 DEF Begin
  <2> QED BY <2>1, <1>t
<1>6. ASSUME NEW c \in Calls, Read(c) PROVE Quiet
  <2>1. /\ pc[c] = "open" /\ pc' = [pc EXCEPT ![c] = "read"]
        /\ UNCHANGED <<row, events, expected, alerts>>
        /\ c = Job => ~row.alerted
    BY <1>6 DEF Read, Passes
  <2> QED BY <2>1, <1>t
<1>7. ASSUME NEW c \in Calls, Refuse(c) PROVE Quiet
  <2>1. pc' = [pc EXCEPT ![c] = "idle"] \/ pc' = [pc EXCEPT ![c] = "refused"]
    BY <1>7 DEF Refuse
  <2>2. pc[c] = "open" /\ UNCHANGED <<row, events, expected, alerts>>
    BY <1>7 DEF Refuse
  <2> QED BY <2>1, <2>2, <1>t
<1>8. ASSUME NEW c \in Calls, Write(c) PROVE Quiet
  <2>1. /\ pc[c] = "read" /\ pc' = [pc EXCEPT ![c] = "written"]
        /\ UNCHANGED <<row, events, expected, alerts>>
    BY <1>8 DEF Write
  <2> QED BY <2>1, <1>t
<1>9. ASSUME NEW e \in Edits, Commit(e) PROVE TrailIInv'
  <2>1. /\ row' = [row EXCEPT !.version = @ + 1, !.content = @ \cup {e}]
        /\ expected[e] = row.version
    BY <1>9, <1>t, CommitsOnRow
  <2>2. /\ pc[e] = "written" /\ pc' = [pc EXCEPT ![e] = "committed"]
        /\ events' = Append(events, e) /\ UNCHANGED <<expected, alerts>>
    BY <1>9, <1>t DEF Commit
  <2>3. /\ row'.version = row.version + 1 /\ row'.content = row.content \cup {e}
        /\ row'.alerted = row.alerted /\ row.version \in Nat
    BY <2>1, <1>t DEF Rows
  <2>4. Committed' = Committed \cup {e}
    <3>1. /\ Len(events') = Len(events) + 1 /\ events'[Len(events) + 1] = e
          /\ \A i \in 1 .. Len(events) : events'[i] = events[i]
      BY <2>2, <1>t
    <3>2. DOMAIN events = 1 .. Len(events) /\ DOMAIN events' = 1 .. Len(events) + 1
      BY <2>2, <1>t
    <3> QED BY <3>1, <3>2, <1>t, SMTT(60) DEF Committed
  <2>5. e \notin Committed
    BY <2>1, <2>2, <2>3, <1>t DEF TrailIInv, EditsSettled
  <2>6. AppliedOnce'
    <3> SUFFICES ASSUME NEW i \in DOMAIN events', NEW j \in DOMAIN events',
                        events'[i] = events'[j]
                 PROVE  i = j
      BY DEF AppliedOnce
    <3>1. i \in DOMAIN events => events'[i] = events[i] /\ events[i] # e
      BY <2>2, <2>5, <1>t DEF Committed
    <3>2. j \in DOMAIN events => events'[j] = events[j] /\ events[j] # e
      BY <2>2, <2>5, <1>t DEF Committed
    <3>3. /\ i \notin DOMAIN events => i = Len(events) + 1 /\ events'[i] = e
          /\ j \notin DOMAIN events => j = Len(events) + 1 /\ events'[j] = e
      BY <2>2, <1>t
    <3> QED BY <3>1, <3>2, <3>3 DEF TrailIInv, AppliedOnce
  <2>7. EditsSettled'
    BY <2>2, <2>3, <2>4, <2>1, <1>t DEF TrailIInv, EditsSettled
  <2>8. ClaimHeld'
    BY <2>2, <2>3, <1>t DEF TrailIInv, ClaimHeld
  <2> QED BY <2>3, <2>4, <2>6, <2>7, <2>8 DEF TrailIInv
<1>10. CASE Commit(Job)
  <2>1. row' = [row EXCEPT !.alerted = TRUE]
    BY <1>10, <1>t, CommitsOnRow
  <2>2. /\ pc[Job] = "written" /\ pc' = [pc EXCEPT ![Job] = "committed"]
        /\ UNCHANGED <<events, expected, alerts>>
    BY <1>10, <1>t DEF Commit
  <2>3. row'.version = row.version /\ row'.content = row.content /\ row'.alerted = TRUE
    BY <2>1, <1>t DEF Rows
  <2>4. Committed' = Committed /\ AppliedOnce'
    BY <2>2 DEF Committed, TrailIInv, AppliedOnce
  <2>5. EditsSettled'
    BY <2>2, <2>3, <2>4, <1>t DEF TrailIInv, EditsSettled
  <2>6. ClaimHeld'
    BY <2>2, <2>3, <1>t DEF TrailIInv, ClaimHeld
  <2> QED BY <2>3, <2>4, <2>5, <2>6 DEF TrailIInv
<1>11. ASSUME NEW e \in Edits, Answer(e) PROVE Quiet
  <2>1. /\ pc[e] = "committed" /\ pc' = [pc EXCEPT ![e] = "done"]
        /\ UNCHANGED <<row, events, expected, alerts>>
    BY <1>11, <1>t DEF Answer
  <2> QED BY <2>1, <1>t
<1>12. CASE Answer(Job)
  <2>1. /\ pc[Job] = "committed" /\ pc' = [pc EXCEPT ![Job] = "idle"]
        /\ alerts' = alerts + 1 /\ UNCHANGED <<row, events, expected>>
    BY <1>12 DEF Answer
  <2>2. Committed' = Committed /\ AppliedOnce'
    BY <2>1 DEF Committed, TrailIInv, AppliedOnce
  <2>3. EditsSettled'
    BY <2>1, <2>2, <1>t DEF TrailIInv, EditsSettled
  <2>4. ClaimHeld'
    BY <2>1, <1>t DEF TrailIInv, ClaimHeld
  <2> QED BY <2>1, <2>2, <2>3, <2>4 DEF TrailIInv
<1>13. ASSUME Crash PROVE Quiet
  <2>1. ASSUME NEW c \in Calls
        PROVE  pc'[c] = IF pc[c] \in Open \cup {"waiting", "committed"}
                        THEN IF c = Job THEN "idle" ELSE "lost" ELSE pc[c]
    BY <1>13 DEF Crash
  <2>2. UNCHANGED <<row, events, expected, alerts>>
    BY <1>13 DEF Crash
  <2> QED BY <2>1, <2>2, <1>t DEF Open
<1>14. ASSUME UNCHANGED vars PROVE Quiet
  BY <1>14, <1>t DEF vars
<1> QED
  BY <1>q, <1>1, <1>2, <1>3, <1>4, <1>5, <1>6, <1>7, <1>8, <1>9, <1>10, <1>11, <1>12,
     <1>13, <1>14 DEF Next, Step, Calls

\* On SQLite each edit a client was told of is in the audit trail once, none is
\* applied a second time by a retry or a repeated request, and an overdue
\* episode is alerted once, through crashes at every step (card-service.ts,
\* internal.ts runWithPositionRetry).
THEOREM TrailCorrect ==
    ASSUME Adapter = "sqlite"
    PROVE  Spec => []TrailInv
<1>1. Init => TrailIInv
  <2> SUFFICES ASSUME Init PROVE TrailIInv
    OBVIOUS
  <2>1. Job \in Calls /\ Edits \subseteq Calls
    BY DEF Calls
  <2>2. Committed = {} /\ AppliedOnce
    BY DEF Init, Committed, AppliedOnce
  <2> QED BY <2>1, <2>2 DEF Init, Fresh, TrailIInv, EditsSettled, ClaimHeld
<1>2. LockInv /\ TrailIInv /\ [Next]_vars => TrailIInv'
  BY TrailStep
<1>3. VersionCountsEdits /\ TrailIInv => TrailInv
  BY DEF TrailInv, TrailIInv, EditsSettled, ClaimHeld, AnswersMatchTrail, AlertedAtMostOnce
<1> QED BY <1>1, <1>2, <1>3, TransactionsExclusive, VersionsNameEdits, PTL DEF Spec

-----------------------------------------------------------------------------
(* The process the units of work run in (ServerProcess).                    *)

\* Whoever closes the database has stopped the server before: no request is
\* accepted after a shutdown, or the failure of Slack, has begun to close.
ClosingInv ==
    /\ stop \in [Signals -> {"none", "draining", "closing"}]
    /\ main = "closing" \/ (\E s \in Signals : stop[s] = "closing") => ~serving
    /\ connection = "closed" =>
          /\ inflight = {}
          /\ main = "closing" \/ \E s \in Signals : stop[s] = "closing"

LEMMA ClosingStep == ClosingInv /\ [P!Next]_(P!vars) => ClosingInv'
  <1> SUFFICES ASSUME ClosingInv, [P!Next]_(P!vars) PROVE ClosingInv'
    OBVIOUS
  <1>1. CASE P!Listen
    BY <1>1 DEF P!Listen, P!Booting, ClosingInv
  <1>2. CASE P!ListenFails \/ P!Schedule \/ P!SlackStarts \/ P!SlackUnreachable
    BY <1>2 DEF P!ListenFails, P!Schedule, P!SlackStarts, P!SlackUnreachable, P!Booting, ClosingInv
  <1>3. ASSUME NEW j \in Jobs, P!RunBegins(j) \/ P!RunEnds(j) PROVE ClosingInv'
    BY <1>3 DEF P!RunBegins, P!RunEnds, ClosingInv
  <1>4. ASSUME NEW r \in Requests, P!Arrive(r) \/ P!Answer(r) PROVE ClosingInv'
    BY <1>4 DEF P!Arrive, P!Answer, ClosingInv
  <1>5. ASSUME NEW s \in Signals, P!Signal(s) PROVE ClosingInv'
    <2>1. \A v \in Signals : stop'[v] = "closing" <=> stop[v] = "closing"
      BY <1>5 DEF P!Signal, ClosingInv
    <2>2. stop' \in [Signals -> {"none", "draining", "closing"}]
      BY <1>5 DEF P!Signal, ClosingInv
    <2> QED
      BY <1>5, <2>1, <2>2 DEF P!Signal, ClosingInv
  <1>6. ASSUME NEW s \in Signals, P!Drained(s) PROVE ClosingInv'
    <2>1. \A v \in Signals : stop[v] = "closing" => stop'[v] = "closing"
      BY <1>6 DEF P!Drained, ClosingInv
    <2>2. stop' \in [Signals -> {"none", "draining", "closing"}]
      BY <1>6 DEF P!Drained, ClosingInv
    <2> QED
      BY <1>6, <2>1, <2>2 DEF P!Drained, ClosingInv
  <1>7. CASE P!Close \/ P!Exit
    BY <1>7 DEF P!Close, P!AppClosed, P!Exit, ClosingInv
  <1>8. CASE UNCHANGED P!vars
    BY <1>8 DEF P!vars, ClosingInv
  <1> QED
    BY <1>1, <1>2, <1>3, <1>4, <1>5, <1>6, <1>7, <1>8 DEF P!Next, P!Alive

\* Whenever signals come, how many of them, and however the boot goes: the
\* database is closed after the last request was answered.
THEOREM RequestsAreAnsweredFirst == P!Spec => []P!RequestsEndFirst
  <1>1. P!Init => ClosingInv
    BY DEF P!Init, ClosingInv
  <1>2. ClosingInv => P!RequestsEndFirst
    BY DEF ClosingInv, P!RequestsEndFirst
  <1> QED
    BY <1>1, <1>2, ClosingStep, PTL DEF P!Spec

\* A signal that finds the boot ended stops the scheduler, so its shutdown waits
\* for all the runs there will ever be.
DrainInv ==
    /\ stop \in [Signals -> {"none", "draining", "closing"}]
    /\ awaited \in [Signals -> SUBSET Jobs]
    /\ main # "closing"
    /\ main = "up" <=> main \notin {"listen", "metrics", "slack"}
    /\ scheduler = "none" => running = {} /\ main \in {"listen", "metrics"}
    /\ \A s \in Signals : awaited[s] \subseteq running
    /\ \A s \in Signals : stop[s] # "none" =>
          /\ main = "up" /\ scheduler = "stopped"
          /\ running \subseteq awaited[s]
          /\ stop[s] = "closing" => running = {}
    /\ running \subseteq Jobs
    /\ connection = "closed" => \E s \in Signals : stop[s] = "closing"

LEMMA DrainStep ==
    ~SlackFails /\ ~EarlySignals /\ DrainInv /\ [P!Next]_(P!vars) => DrainInv'
  <1> SUFFICES ASSUME ~SlackFails, ~EarlySignals, DrainInv, [P!Next]_(P!vars) PROVE DrainInv'
    OBVIOUS
  <1>1. CASE P!Listen \/ P!ListenFails \/ P!Schedule \/ P!SlackStarts
    BY <1>1 DEF P!Listen, P!ListenFails, P!Schedule, P!SlackStarts, P!Booting, DrainInv
  <1>2. ~P!SlackUnreachable
    BY DEF P!SlackUnreachable
  <1>3. ASSUME NEW j \in Jobs, P!RunBegins(j) PROVE DrainInv'
    BY <1>3 DEF P!RunBegins, P!Tick, DrainInv
  <1>4. ASSUME NEW j \in Jobs, P!RunEnds(j) PROVE DrainInv'
    <2>1. /\ running' = running \ {j}
          /\ awaited' = [s \in Signals |-> awaited[s] \ {j}]
          /\ UNCHANGED <<main, scheduler, stop, serving, inflight, connection, exited>>
      BY <1>4 DEF P!RunEnds
    <2>2. \A s \in Signals : awaited'[s] = awaited[s] \ {j}
      BY <2>1
    <2> QED
      BY <2>1, <2>2 DEF DrainInv
  <1>5. ASSUME NEW r \in Requests, P!Arrive(r) \/ P!Answer(r) PROVE DrainInv'
    BY <1>5 DEF P!Arrive, P!Answer, DrainInv
  <1>6. ASSUME NEW s \in Signals, P!Signal(s) PROVE DrainInv'
    <2>1. /\ stop[s] = "none" /\ main = "up" /\ stop' = [stop EXCEPT ![s] = "draining"]
          /\ scheduler # "none"
          /\ UNCHANGED <<main, running, serving, inflight, connection, exited>>
      BY <1>6 DEF P!Signal, DrainInv
    <2>2. scheduler' = "stopped" /\ awaited' = [awaited EXCEPT ![s] = running]
      BY <1>6, <2>1 DEF P!Signal, P!Drain
    <2>3. \A v \in Signals : /\ stop'[v] = IF v = s THEN "draining" ELSE stop[v]
                             /\ awaited'[v] = IF v = s THEN running ELSE awaited[v]
      BY <2>1, <2>2 DEF DrainInv
    <2>4. stop' \in [Signals -> {"none", "draining", "closing"}] /\ awaited' \in [Signals -> SUBSET Jobs]
      BY <2>1, <2>2 DEF DrainInv
    <2>5. connection' = "closed" => \E v \in Signals : stop'[v] = "closing"
      BY <2>1, <2>3 DEF DrainInv
    <2> QED
      BY <2>1, <2>2, <2>3, <2>4, <2>5 DEF DrainInv
  <1>7. ASSUME NEW s \in Signals, P!Drained(s) PROVE DrainInv'
    <2>1. /\ stop[s] = "draining" /\ awaited[s] = {} /\ stop' = [stop EXCEPT ![s] = "closing"]
          /\ UNCHANGED <<main, scheduler, running, awaited, inflight, connection, exited>>
      BY <1>7 DEF P!Drained
    <2>2. \A v \in Signals : stop'[v] = IF v = s THEN "closing" ELSE stop[v]
      BY <2>1 DEF DrainInv
    <2>3. running = {}
      BY <2>1 DEF DrainInv
    <2> QED
      BY <2>1, <2>2, <2>3 DEF DrainInv
  <1>8. CASE P!Close \/ P!Exit
    BY <1>8 DEF P!Close, P!AppClosed, P!Exit, DrainInv
  <1>9. CASE UNCHANGED P!vars
    BY <1>9 DEF P!vars, DrainInv
  <1> QED
    BY <1>1, <1>2, <1>3, <1>4, <1>5, <1>6, <1>7, <1>8, <1>9 DEF P!Next, P!Alive

\* When Slack is there and signals wait for the boot, no job loses the database
\* either; disagreements with jobs.ts show that both are needed.
THEOREM RunsAreAwaited == ~SlackFails /\ ~EarlySignals /\ P!Spec => []P!RunsEndFirst
  <1> SUFFICES ASSUME ~SlackFails, ~EarlySignals PROVE P!Spec => []P!RunsEndFirst
    OBVIOUS
  <1>1. P!Init => DrainInv
    BY DEF P!Init, DrainInv
  <1>2. DrainInv => P!RunsEndFirst
    BY DEF DrainInv, P!RunsEndFirst
  <1>3. DrainInv /\ [P!Next]_(P!vars) => DrainInv'
    BY DrainStep
  <1> QED
    BY <1>1, <1>2, <1>3, PTL DEF P!Spec

-----------------------------------------------------------------------------
(* The nightly snapshots.                                                   *)

\* A set of days has a first and a last one.
LEMMA FirstDay ==
    ASSUME NEW S, S \subseteq Nat, S # {}
    PROVE  \E x \in S : \A y \in S : x <= y
  <1>1. PICK x \in S : \A y \in S : <<y, x>> \notin OpToRel(<, Nat)
    BY NatLessThanWellFounded, WFMin, Zenon
  <1>2. ASSUME NEW y \in S, y < x PROVE FALSE
    <2>1. <<y, x>> \in Nat \X Nat /\ <<y, x>>[1] = y /\ <<y, x>>[2] = x
      OBVIOUS
    <2> QED
      BY <1>1, <1>2, <2>1, Zenon DEF OpToRel
  <1>3. \A y \in S : x \in Nat /\ y \in Nat /\ ~(y < x)
    BY <1>2
  <1> QED
    BY <1>3

LEMMA LastDay ==
    ASSUME NEW n \in Nat, NEW S, S \subseteq 1 .. n, S # {}
    PROVE  N!Max(S) \in S /\ \A y \in S : y <= N!Max(S)
  <1> DEFINE Back == {n - y : y \in S}
  <1>1. Back \subseteq Nat /\ Back # {}
    <2>1. ASSUME NEW y \in S PROVE n - y \in Nat
      <3>1. y \in 1 .. n
        OBVIOUS
      <3> QED
        BY <3>1
    <2> QED
      BY <2>1
  <1>2. PICK b \in Back : \A c \in Back : b <= c
    <2> HIDE DEF Back
    <2> QED
      BY <1>1, FirstDay
  <1>3. PICK m \in S : b = n - m
    BY <1>2
  <1>4. \A y \in S : m >= y
    <2>1. ASSUME NEW y \in S PROVE m >= y
      <3>1. n - m <= n - y /\ y \in 1 .. n /\ m \in 1 .. n
        BY <1>2, <1>3
      <3> QED
        BY <3>1
    <2> QED
      BY <2>1
  <1>5. N!Max(S) \in S /\ \A y \in S : N!Max(S) >= y
    BY <1>4, Zenon DEF N!Max
  <1>6. \A y \in S : y \in Int /\ N!Max(S) \in Int
    <2>1. S \subseteq Int
      OBVIOUS
    <2> QED
      BY <1>5, <2>1
  <1> QED
    BY <1>5, <1>6

\* Sets of days are finite, and one inside another is not larger.
LEMMA DaysAreCounted ==
    ASSUME NEW n \in Nat, NEW S \in SUBSET (1 .. n), NEW T \in SUBSET S
    PROVE  /\ IsFiniteSet(S) /\ IsFiniteSet(T)
           /\ N!Cardinality(S) \in Nat /\ N!Cardinality(T) \in Nat
           /\ N!Cardinality(T) <= N!Cardinality(S)
  <1>1. IsFiniteSet(1 .. n)
    BY FS_Interval
  <1>2. IsFiniteSet(S)
    BY <1>1, FS_Subset
  <1>3. IsFiniteSet(T) /\ Cardinality(T) <= Cardinality(S)
    BY <1>2, FS_Subset
  <1>4. Cardinality(S) \in Nat /\ Cardinality(T) \in Nat
    BY <1>2, <1>3, FS_CardinalityType
  <1>5. \A X : N!Cardinality(X) = Cardinality(X)
    BY DEF N!Cardinality, Cardinality
  <1> QED
    BY <1>2, <1>3, <1>4, <1>5

\* What is not beyond the newest Retain files is at most Retain of them.
LEMMA AtMostRetain ==
    ASSUME Retain \in Nat, NEW n \in Nat, NEW Nights \in SUBSET (1 .. n)
    PROVE  N!Cardinality(Nights \ N!BeyondRetain(Nights)) <= Retain
  <1> DEFINE K == Nights \ N!BeyondRetain(Nights)
  <1>1. CASE K = {}
    <2>1. N!Cardinality({}) = 0
      BY FS_EmptySet DEF N!Cardinality, Cardinality
    <2> QED
      BY <1>1, <2>1
  <1>2. CASE K # {}
    <2>1. PICK m \in K : \A y \in K : m <= y
      <3>1. Nights \subseteq Nat /\ K \subseteq Nights
        OBVIOUS
      <3> HIDE DEF K
      <3> QED
        BY <1>2, <3>1, FirstDay
    <2> DEFINE A == {e \in Nights : e > m}
    <2>2. m \in Nights /\ ~(N!Cardinality(A) >= Retain)
      BY <2>1 DEF N!BeyondRetain
    <2>3. A \in SUBSET (1 .. n)
      OBVIOUS
    <2>4. K \subseteq A \cup {m}
      <3>1. ASSUME NEW y \in K PROVE y \in A \cup {m}
        <4>1. m <= y /\ m \in 1 .. n /\ y \in 1 .. n /\ y \in Nights
          BY <2>1
        <4> QED
          BY <4>1
      <3> QED
        BY <3>1
    <2>5. A \cup {m} \in SUBSET (1 .. n)
      BY <2>2
    <2> HIDE DEF A, K
    <2>6. N!Cardinality(A) \in Nat /\ IsFiniteSet(A)
      BY <2>3, DaysAreCounted
    <2>7. N!Cardinality(A \cup {m}) <= N!Cardinality(A) + 1
      <3>1. \A X : N!Cardinality(X) = Cardinality(X)
        BY DEF N!Cardinality, Cardinality
      <3>2. Cardinality(A \cup {m}) = IF m \in A THEN Cardinality(A) ELSE Cardinality(A) + 1
        BY <2>6, FS_AddElement
      <3> QED
        BY <2>6, <3>1, <3>2
    <2>8. /\ N!Cardinality(K) <= N!Cardinality(A \cup {m})
          /\ N!Cardinality(K) \in Nat /\ N!Cardinality(A \cup {m}) \in Nat
      BY <2>4, <2>5, DaysAreCounted
    <2> QED
      BY <2>2, <2>6, <2>7, <2>8 DEF K
  <1> QED
    BY <1>1, <1>2

\* The dated files as they will be when the run begins to remove.
Expected == IF run.at = "prune" THEN dated ELSE dated \cup {run.name}

SnapshotRuns == [at : {"reclaim", "copy", "prune"}, name : 1 .. day, copied : BOOLEAN, left : SUBSET (1 .. day)]

\* What is newer than everything a run has left to remove.
Successors(files, left) == {e \in files : \A d \in left : e > d}

\* A run knows what it removes before it copies: what is not in its list is at
\* most Retain files, and Retain of the files are newer than all of the list.
RotationInv ==
    /\ day \in Nat /\ 1 <= day
    /\ dated \subseteq whole /\ whole \subseteq 1 .. day
    /\ run # N!Idle =>
         /\ run \in SnapshotRuns /\ succeeded = FALSE
         /\ N!Cardinality(Expected \ run.left) <= Retain
         /\ ~Operator /\ run.left # {} => N!Cardinality(Successors(Expected, run.left)) >= Retain
    /\ succeeded => N!Cardinality(dated) <= Retain

LEMMA FewerSuffice ==
    ASSUME RotationInv, Retain \in Nat, NEW S \in SUBSET (1 .. day), NEW T \in SUBSET S,
           N!Cardinality(S) <= Retain
    PROVE  N!Cardinality(T) <= Retain
  <1>1. day \in Nat
    BY DEF RotationInv
  <1>2. N!Cardinality(T) \in Nat /\ N!Cardinality(S) \in Nat /\ N!Cardinality(T) <= N!Cardinality(S)
    BY <1>1, DaysAreCounted
  <1> QED
    BY <1>2

LEMMA RotationBegins ==
    ASSUME Retain \in Nat, RotationInv, N!Begin
    PROVE  RotationInv'
  <1> DEFINE Nights == dated \cup {day}
             L == N!BeyondRetain(Nights)
  <1>1. /\ day \in Nat /\ 1 <= day /\ day' = day /\ dated' = dated /\ whole' = whole
        /\ dated \subseteq whole /\ whole \subseteq 1 .. day
        /\ succeeded' = FALSE
        /\ run' = [at |-> IF day \in dated THEN "prune" ELSE "reclaim",
                   name |-> day, copied |-> FALSE, left |-> L]
    BY DEF N!Begin, RotationInv
  <1>2. Nights \in SUBSET (1 .. day)
    BY <1>1
  <1>3. L \in SUBSET Nights
    BY DEF N!BeyondRetain
  <1>4. run'.left = L /\ Expected' = Nights
    BY <1>1 DEF Expected
  <1>5. run' \in SnapshotRuns'
    BY <1>1, <1>2, <1>3 DEF SnapshotRuns
  <1>6. N!Cardinality(Nights \ L) <= Retain
    BY <1>1, <1>2, AtMostRetain
  <1>7. ASSUME L # {} PROVE N!Cardinality(Successors(Nights, L)) >= Retain
    <2>1. L \in SUBSET (1 .. day)
      BY <1>2, <1>3
    <2> HIDE DEF L, Nights
    <2>2. PICK d \in L : \A y \in L : y <= d
      BY <1>1, <1>7, <2>1, LastDay
    <2>3. N!Cardinality({e \in Nights : e > d}) >= Retain
      BY <2>2 DEF L, N!BeyondRetain
    <2>4. {e \in Nights : e > d} = Successors(Nights, L)
      <3>1. ASSUME NEW e \in Nights PROVE e > d <=> \A y \in L : e > y
        <4>1. e \in 1 .. day /\ \A y \in L : y \in 1 .. day
          BY <1>2, <2>1
        <4>2. ASSUME e > d, NEW y \in L PROVE e > y
          <5>1. e \in 1 .. day /\ y \in 1 .. day /\ d \in 1 .. day /\ y <= d
            BY <2>2, <4>1
          <5> QED
            BY <4>2, <5>1
        <4> QED
          BY <2>2, <4>2
      <3> QED
        BY <3>1 DEF Successors
    <2> QED
      BY <2>3, <2>4
  <1> HIDE DEF Nights, L
  <1> QED
    BY <1>1, <1>4, <1>5, <1>6, <1>7 DEF RotationInv, Successors

LEMMA RotationRemoves ==
    ASSUME Retain \in Nat, RotationInv, N!Remove
    PROVE  /\ RotationInv'
           /\ ~Operator => \A d \in dated \ dated' : N!Cardinality({e \in whole' : e > d}) >= Retain
  <1>1. /\ day \in Nat /\ 1 <= day /\ day' = day
        /\ dated \subseteq whole /\ whole \subseteq 1 .. day
        /\ run \in SnapshotRuns /\ succeeded = FALSE /\ succeeded' = FALSE
        /\ run.at = "prune" /\ run.left # {} /\ run.left \in SUBSET (1 .. day)
        /\ N!Cardinality(dated \ run.left) <= Retain
        /\ ~Operator => N!Cardinality(Successors(dated, run.left)) >= Retain
    <2>1. run # N!Idle
      BY DEF N!Remove, N!Idle
    <2> QED
      BY <2>1 DEF N!Remove, RotationInv, SnapshotRuns, Expected
  <1>2. PICK d \in run.left : /\ dated' = dated \ {d} /\ whole' = whole \ {d}
                              /\ run' = IF d \in dated THEN [run EXCEPT !.left = @ \ {d}] ELSE N!Idle
    <2>1. N!Max(run.left) \in run.left
      BY <1>1, LastDay
    <2> QED
      BY <2>1 DEF N!Remove
  <1>3. dated' \subseteq whole' /\ whole' \subseteq 1 .. day
    BY <1>1, <1>2
  <1>4. CASE d \notin dated
    <2>1. run' = N!Idle /\ dated' = dated
      BY <1>2, <1>4
    <2> QED
      BY <1>1, <1>3, <2>1 DEF RotationInv
  <1>5. CASE d \in dated
    <2> DEFINE L == run.left \ {d}
    <2>1. run' \in SnapshotRuns' /\ run'.at = "prune" /\ run'.left = L
      BY <1>1, <1>2, <1>5 DEF SnapshotRuns
    <2>2. Expected' = dated \ {d}
      BY <1>2, <2>1 DEF Expected
    <2>3. N!Cardinality((dated \ {d}) \ L) <= Retain
      <3>1. dated \ run.left \in SUBSET (1 .. day) /\ (dated \ {d}) \ L \in SUBSET (dated \ run.left)
        BY <1>1
      <3> QED
        BY <1>1, <3>1, FewerSuffice
    <2>4. /\ Successors(dated, run.left) \in SUBSET Successors(dated \ {d}, L)
          /\ Successors(dated, run.left) \in SUBSET {e \in whole' : e > d}
      <3>1. ASSUME NEW e \in Successors(dated, run.left)
            PROVE  e \in dated \ {d} /\ e > d /\ e \in whole' /\ \A y \in L : e > y
        <4>1. e \in dated /\ e > d /\ \A y \in run.left : e > y
          BY <1>2, <3>1 DEF Successors
        <4>2. e \in 1 .. day /\ d \in 1 .. day /\ e # d
          BY <1>1, <1>2, <4>1
        <4> QED
          BY <1>1, <1>2, <4>1, <4>2
      <3> QED
        BY <3>1 DEF Successors
    <2>5. ASSUME ~Operator
          PROVE  /\ N!Cardinality(Successors(dated \ {d}, L)) >= Retain
                 /\ N!Cardinality({e \in whole' : e > d}) >= Retain
      <3> DEFINE A == Successors(dated, run.left)
                 B == Successors(dated \ {d}, L)
                 C == {e \in whole' : e > d}
      <3>1. B \in SUBSET (1 .. day) /\ C \in SUBSET (1 .. day)
        BY <1>1, <1>3 DEF Successors
      <3>2. A \in SUBSET B /\ A \in SUBSET C /\ N!Cardinality(A) >= Retain
        BY <1>1, <2>4, <2>5
      <3> HIDE DEF A, B, C
      <3>3. /\ N!Cardinality(A) \in Nat /\ N!Cardinality(B) \in Nat /\ N!Cardinality(C) \in Nat
            /\ N!Cardinality(A) <= N!Cardinality(B) /\ N!Cardinality(A) <= N!Cardinality(C)
        BY <1>1, <3>1, <3>2, DaysAreCounted
      <3>4. N!Cardinality(B) >= Retain /\ N!Cardinality(C) >= Retain
        BY <3>2, <3>3
      <3> QED
        BY <3>4 DEF B, C
    <2>6. dated \ dated' \subseteq {d}
      BY <1>2
    <2>7. Successors(Expected, run.left)' = Successors(dated \ {d}, L)
      BY <2>1, <2>2 DEF Successors
    <2> HIDE DEF L
    <2> QED
      BY <1>1, <1>3, <2>1, <2>2, <2>3, <2>5, <2>6, <2>7 DEF RotationInv
  <1> QED
    <2>1. d \notin dated => dated \ dated' = {}
      BY <1>2
    <2>2. d \notin dated => \A y \in dated \ dated' : N!Cardinality({e \in whole' : e > y}) >= Retain
      BY <2>1
    <2> QED
      BY <1>4, <1>5, <2>2

LEMMA RotationStep == Retain \in Nat /\ RotationInv /\ [N!Next]_(N!vars) => RotationInv'
  <1> SUFFICES ASSUME Retain \in Nat, RotationInv, [N!Next]_(N!vars) PROVE RotationInv'
    OBVIOUS
  <1>0. /\ day \in Nat /\ 1 <= day /\ dated \subseteq whole /\ whole \subseteq 1 .. day
        /\ run = N!Idle => run.at = "idle"
    BY DEF RotationInv, N!Idle
  <1>1. CASE N!Begin
    BY <1>1, RotationBegins
  <1>2. CASE N!Remove
    BY <1>2, RotationRemoves
  <1>3. CASE N!Midnight
    <2>1. /\ day' = day + 1 /\ day' \in Nat /\ 1 <= day' /\ 1 .. day \subseteq 1 .. day'
          /\ UNCHANGED <<dated, partial, whole, run, succeeded>>
      BY <1>0, <1>3 DEF N!Midnight
    <2>2. run \in SnapshotRuns => run \in SnapshotRuns'
      BY <2>1 DEF SnapshotRuns
    <2> QED
      BY <2>1, <2>2 DEF RotationInv, Expected, Successors
  <1>4. CASE N!Reclaim \/ N!CopyEnds
    <2>1. /\ day' = day /\ dated' = dated /\ whole' = whole /\ succeeded' = succeeded
          /\ run.at \in {"reclaim", "copy"} /\ run # N!Idle
      BY <1>0, <1>4 DEF N!Reclaim, N!CopyEnds
    <2>2. run \in SnapshotRuns
      BY <2>1 DEF RotationInv
    <2>3. /\ run' \in SnapshotRuns' /\ run'.at = "copy"
          /\ run'.left = run.left /\ run'.name = run.name
      BY <1>4, <2>1, <2>2 DEF N!Reclaim, N!CopyEnds, SnapshotRuns
    <2>4. Expected' = Expected
      BY <2>1, <2>3 DEF Expected
    <2> QED
      BY <2>1, <2>2, <2>3, <2>4 DEF RotationInv, Successors
  <1>5. CASE N!Publish
    <2>1. run.at = "copy" /\ run # N!Idle /\ day' = day /\ succeeded' = succeeded
      BY <1>0, <1>5 DEF N!Publish
    <2>2. run \in SnapshotRuns /\ run.name \in 1 .. day /\ succeeded = FALSE
      BY <2>1 DEF RotationInv, SnapshotRuns
    <2>3. /\ dated' = dated \cup {run.name} /\ whole' = whole \cup {run.name}
          /\ run' = [run EXCEPT !.at = "prune"]
      BY <1>5 DEF N!Publish
    <2>4. /\ run' \in SnapshotRuns' /\ run'.at = "prune" /\ run'.left = run.left
      BY <2>1, <2>2, <2>3 DEF SnapshotRuns
    <2>5. Expected' = Expected
      BY <2>1, <2>3, <2>4 DEF Expected
    <2>6. dated' \subseteq whole' /\ whole' \subseteq 1 .. day
      BY <1>0, <2>2, <2>3
    <2> QED
      BY <1>0, <2>1, <2>2, <2>4, <2>5, <2>6 DEF RotationInv, Successors
  <1>6. CASE N!CopyFails \/ N!Crash
    <2>1. run' = N!Idle /\ UNCHANGED <<day, dated, whole, succeeded>>
      BY <1>6 DEF N!CopyFails, N!Crash
    <2> QED
      BY <2>1 DEF RotationInv
  <1>7. CASE N!End
    <2>1. /\ run.at = "prune" /\ run.left = {} /\ run' = N!Idle /\ run # N!Idle
          /\ UNCHANGED <<day, dated, whole>>
      BY <1>0, <1>7 DEF N!End
    <2>2. N!Cardinality(dated) <= Retain
      <3>1. dated \ {} = dated
        OBVIOUS
      <3> QED
        BY <2>1, <3>1 DEF RotationInv, Expected
    <2> QED
      BY <2>1, <2>2 DEF RotationInv
  <1>8. ASSUME NEW d \in 1 .. MaxDay, N!TidiedUp(d) PROVE RotationInv'
    <2>1. /\ Operator /\ dated' = dated \ {d} /\ whole' = whole \ {d}
          /\ UNCHANGED <<day, run, succeeded>>
      BY <1>8 DEF N!TidiedUp
    <2>2. succeeded => N!Cardinality(dated') <= Retain
      <3>1. dated \in SUBSET (1 .. day) /\ dated' \in SUBSET dated
        BY <1>0, <2>1
      <3>2. succeeded => N!Cardinality(dated) <= Retain
        BY DEF RotationInv
      <3> QED
        BY <3>1, <3>2, FewerSuffice
    <2>3. ASSUME run # N!Idle PROVE N!Cardinality(Expected' \ run.left) <= Retain
      <3>1. run \in SnapshotRuns /\ run.name \in 1 .. day /\ N!Cardinality(Expected \ run.left) <= Retain
        BY <2>3 DEF RotationInv, SnapshotRuns
      <3>2. Expected \ run.left \in SUBSET (1 .. day) /\ Expected' \ run.left \in SUBSET (Expected \ run.left)
        BY <1>0, <2>1, <3>1 DEF Expected
      <3> QED
        BY <3>1, <3>2, FewerSuffice
    <2>4. dated' \subseteq whole' /\ whole' \subseteq 1 .. day
      BY <1>0, <2>1
    <2>5. run # N!Idle => run' \in SnapshotRuns' /\ succeeded = FALSE
      BY <2>1 DEF RotationInv, SnapshotRuns
    <2> QED
      BY <1>0, <2>1, <2>2, <2>3, <2>4, <2>5 DEF RotationInv
  <1>9. CASE UNCHANGED N!vars
    BY <1>9 DEF N!vars, RotationInv, Expected, SnapshotRuns, Successors
  <1> QED
    BY <1>1, <1>2, <1>3, <1>4, <1>5, <1>6, <1>7, <1>8, <1>9 DEF N!Next

LEMMA RotationHolds == Retain \in Nat /\ N!Spec => []RotationInv
  <1> SUFFICES ASSUME Retain \in Nat PROVE N!Spec => []RotationInv
    OBVIOUS
  <1>1. N!Init => RotationInv
    BY DEF N!Init, RotationInv
  <1>2. RotationInv /\ [N!Next]_(N!vars) => RotationInv'
    BY RotationStep
  <1> QED
    BY <1>1, <1>2, PTL DEF N!Spec

\* Whatever ends a run and when, a dated file is a completed copy, and after a
\* night that succeeded there are no more of them than SNAPSHOT_RETAIN_COUNT.
THEOREM SnapshotsAreWhole ==
    Retain \in Nat /\ N!Spec => [](N!DatedIsWhole /\ N!WithinRetention)
  <1>1. RotationInv => N!DatedIsWhole /\ N!WithinRetention
    BY DEF RotationInv, N!DatedIsWhole, N!WithinRetention
  <1> QED
    BY <1>1, RotationHolds, PTL

\* As long as only the job removes files, it removes one when Retain complete
\* ones that are newer are there: failed nights do not eat the backups.
THEOREM RemovedAreSucceeded ==
    Retain \in Nat /\ ~Operator /\ N!Spec => [][N!RemovalHasSuccessors]_(N!vars)
  <1> SUFFICES ASSUME Retain \in Nat, ~Operator
               PROVE  N!Spec => [][N!RemovalHasSuccessors]_(N!vars)
    OBVIOUS
  <1>1. RotationInv /\ [N!Next]_(N!vars) => [N!RemovalHasSuccessors]_(N!vars)
    <2> SUFFICES ASSUME RotationInv, N!Next PROVE N!RemovalHasSuccessors
      BY DEF N!RemovalHasSuccessors
    <2>1. CASE N!Remove
      BY <2>1, RotationRemoves DEF N!RemovalHasSuccessors
    <2>2. CASE dated \subseteq dated'
      BY <2>2 DEF N!RemovalHasSuccessors
    <2> QED
      BY <2>1, <2>2 DEF N!Next, N!Midnight, N!Begin, N!Reclaim, N!CopyEnds, N!Publish, N!CopyFails,
         N!End, N!Crash, N!TidiedUp
  <1> QED
    BY <1>1, RotationHolds, PTL DEF N!Spec

-----------------------------------------------------------------------------
(* The files of a card.                                                     *)

\* What is in flight, or marked for deletion, is not listed and will not be;
\* what was stored is on the disk until its own upload or a deletion takes it.
FilesIInv ==
    /\ upload \in [Blobs -> {"new", "reserved", "stored", "counted", "cleanup", "over"}]
    /\ attached \in [Blobs -> {"none", "live", "deleted"}]
    /\ holder \in {"first", "board", "archived", "gone"}
    /\ deleting \in [Deleters -> [keys : SUBSET Blobs, seen : Blobs \cup {None}]]
    /\ disk \subseteq Blobs
    /\ \A b \in Blobs :
          /\ attached[b] # "none" => upload[b] = "over"
          /\ upload[b] \in {"stored", "counted", "cleanup"} => b \in disk
          /\ attached[b] = "live" => b \in disk
          /\ \A d \in Deleters : b \in deleting[d].keys => attached[b] # "live" /\ upload[b] = "over"
    /\ \A d \in Deleters : deleting[d].seen # None => deleting[d].seen \in deleting[d].keys

\* One upload goes on: the rows, the disk and the deletions of the others stay.
LEMMA UploadsGo ==
    ASSUME FilesIInv, NEW b \in Blobs,
           F!Reserve(b) \/ F!Put(b) \/ F!PutFails(b) \/ F!Count(b) \/ F!Insert(b)
           \/ F!InsertRefused(b) \/ F!Cleanup(b) \/ F!CleanupFails(b)
    PROVE  FilesIInv'
  <1> DEFINE From == {"new", "reserved", "stored", "counted", "cleanup"}
             Goes(s) == /\ upload' = [upload EXCEPT ![b] = s]
                        /\ upload[b] \in From
                        /\ UNCHANGED <<holder, deleting>>
  <1>1. PICK s \in {"reserved", "stored", "counted", "cleanup", "over"} :
           /\ Goes(s)
           /\ s \in {"stored", "counted", "cleanup"} => b \in disk'
           /\ \/ attached' = attached /\ disk' \in {disk, disk \cup {b}}
              \/ attached' = attached /\ disk' = disk \ {b} /\ s = "over"
              \/ attached' = [attached EXCEPT ![b] = "live"] /\ disk' = disk /\ s = "over"
                 /\ upload[b] \in {"stored", "counted"}
    <2>0. upload[b] \in {"stored", "counted", "cleanup"} => b \in disk
      BY DEF FilesIInv
    <2>1. CASE F!Reserve(b)
      <3>1. Goes("reserved") /\ attached' = attached /\ disk' = disk
        BY <2>1 DEF F!Reserve, F!Goes
      <3> QED
        BY <3>1
    <2>2. CASE F!Put(b)
      <3>1. Goes("stored") /\ attached' = attached /\ disk' = disk \cup {b}
        BY <2>2 DEF F!Put, F!Goes
      <3> QED
        BY <3>1
    <2>3. CASE F!PutFails(b)
      <3>1. Goes("over") /\ attached' = attached /\ disk' = disk \cup {b}
        BY <2>3 DEF F!PutFails, F!Goes
      <3> QED
        BY <3>1
    <2>4. CASE F!Count(b)
      <3>1. Goes("counted") /\ attached' = attached /\ disk' = disk /\ b \in disk
        BY <2>0, <2>4 DEF F!Count, F!Goes
      <3> QED
        BY <3>1
    <2>5. CASE F!Insert(b)
      <3>1. /\ Goes("over") /\ attached' = [attached EXCEPT ![b] = "live"] /\ disk' = disk
            /\ upload[b] \in {"stored", "counted"}
        BY <2>5 DEF F!Insert, F!MayInsert, F!Goes
      <3> QED
        BY <3>1
    <2>6. CASE F!InsertRefused(b)
      <3>1. Goes("cleanup") /\ attached' = attached /\ disk' = disk /\ b \in disk
        BY <2>0, <2>6 DEF F!InsertRefused, F!Goes
      <3> QED
        BY <3>1
    <2>7. CASE F!Cleanup(b)
      <3>1. Goes("over") /\ attached' = attached /\ disk' = disk \ {b}
        BY <2>7 DEF F!Cleanup, F!Goes, F!Without
      <3> QED
        BY <3>1
    <2>8. CASE F!CleanupFails(b)
      <3>1. Goes("over") /\ attached' = attached /\ disk' = disk
        BY <2>8 DEF F!CleanupFails, F!Goes
      <3> QED
        BY <3>1
    <2> HIDE DEF Goes
    <2> QED
      BY <2>1, <2>2, <2>3, <2>4, <2>5, <2>6, <2>7, <2>8
  <1>2. /\ \A x \in Blobs : upload'[x] = IF x = b THEN s ELSE upload[x]
        /\ upload' \in [Blobs -> {"new", "reserved", "stored", "counted", "cleanup", "over"}]
    BY <1>1 DEF FilesIInv
  <1>3. /\ \A x \in Blobs : x # b => attached'[x] = attached[x] /\ (x \in disk' <=> x \in disk)
        /\ attached' \in [Blobs -> {"none", "live", "deleted"}] /\ disk' \subseteq Blobs
        /\ attached[b] = "none" /\ \A d \in Deleters : b \notin deleting[d].keys
    BY <1>1 DEF FilesIInv
  <1>4. ASSUME NEW x \in Blobs, x # b
        PROVE  /\ attached'[x] # "none" => upload'[x] = "over"
               /\ upload'[x] \in {"stored", "counted", "cleanup"} => x \in disk'
               /\ attached'[x] = "live" => x \in disk'
               /\ \A d \in Deleters :
                     x \in deleting'[d].keys => attached'[x] # "live" /\ upload'[x] = "over"
    BY <1>1, <1>2, <1>3, <1>4 DEF FilesIInv
  <1>5. /\ attached'[b] # "none" => upload'[b] = "over"
        /\ upload'[b] \in {"stored", "counted", "cleanup"} => b \in disk'
        /\ attached'[b] = "live" => b \in disk'
        /\ \A d \in Deleters : b \notin deleting'[d].keys
    <2>1. upload'[b] = s /\ (attached' = attached => attached'[b] = "none")
      BY <1>2, <1>3
    <2>2. upload[b] \in {"stored", "counted", "cleanup"} => b \in disk
      BY DEF FilesIInv
    <2> QED
      BY <1>1, <1>3, <2>1, <2>2
  <1> QED
    BY <1>1, <1>2, <1>3, <1>4, <1>5 DEF FilesIInv

\* Deletions, the card and crashes.
LEMMA DeletionsGo ==
    ASSUME FilesIInv, NEW d \in Deleters,
           (\E b \in Blobs : F!Remove(d, b)) \/ F!Discard(d) \/ F!Stat(d) \/ F!Rm(d) \/ F!RmFails(d)
    PROVE  FilesIInv'
  <1>1. ASSUME NEW b \in Blobs, F!Remove(d, b) PROVE FilesIInv'
    <2>1. /\ attached[b] = "live" /\ attached' = [attached EXCEPT ![b] = "deleted"]
          /\ deleting[d] = [keys |-> {}, seen |-> None] /\ UNCHANGED <<upload, holder, disk>>
          /\ deleting' = [deleting EXCEPT ![d].keys = {b}]
      BY <1>1 DEF F!Remove, F!Resting
    <2>2. /\ \A e \in Deleters : e # d => deleting'[e] = deleting[e]
          /\ deleting'[d] = [keys |-> {b}, seen |-> None]
          /\ deleting' \in [Deleters -> [keys : SUBSET Blobs, seen : Blobs \cup {None}]]
      <3>1. deleting \in [Deleters -> [keys : SUBSET Blobs, seen : Blobs \cup {None}]]
        BY DEF FilesIInv
      <3>2. deleting' = [deleting EXCEPT ![d] = [keys |-> {b}, seen |-> None]]
        <4>1. [deleting[d] EXCEPT !.keys = {b}] = [keys |-> {b}, seen |-> None]
          <5>1. deleting[d] = [keys |-> {}, seen |-> None]
            BY <2>1
          <5> QED
            BY <5>1
        <4>2. deleting' = [deleting EXCEPT ![d] = [deleting[d] EXCEPT !.keys = {b}]]
          BY <2>1, <3>1
        <4> QED
          BY <4>1, <4>2
      <3> QED
        BY <3>1, <3>2
    <2>3. /\ \A x \in Blobs : attached'[x] = IF x = b THEN "deleted" ELSE attached[x]
          /\ attached' \in [Blobs -> {"none", "live", "deleted"}]
      BY <2>1 DEF FilesIInv
    <2>4. ASSUME NEW x \in Blobs, NEW e \in Deleters, x \in deleting'[e].keys
          PROVE  attached'[x] # "live" /\ upload[x] = "over"
      BY <2>1, <2>2, <2>3, <2>4 DEF FilesIInv
    <2> QED
      BY <2>1, <2>2, <2>3, <2>4 DEF FilesIInv
  <1>2. CASE F!Discard(d)
    <2>1. /\ attached' = [b \in Blobs |-> "none"] /\ holder' = "gone" /\ UNCHANGED <<upload, disk>>
          /\ deleting[d].seen = None
          /\ deleting' = [deleting EXCEPT ![d].keys = {b \in Blobs : attached[b] # "none"}]
      BY <1>2 DEF F!Discard, F!Resting, F!Keys
    <2>2. /\ \A e \in Deleters : e # d => deleting'[e] = deleting[e]
          /\ deleting'[d] = [keys |-> {b \in Blobs : attached[b] # "none"}, seen |-> None]
          /\ deleting' \in [Deleters -> [keys : SUBSET Blobs, seen : Blobs \cup {None}]]
      BY <2>1, ZenonT(60) DEF FilesIInv
    <2>3. ASSUME NEW x \in Blobs, NEW e \in Deleters, x \in deleting'[e].keys
          PROVE  attached'[x] # "live" /\ upload[x] = "over"
      BY <2>1, <2>2, <2>3 DEF FilesIInv
    <2> QED
      BY <2>1, <2>2, <2>3 DEF FilesIInv
  <1>3. CASE F!Stat(d)
    <2>0. deleting \in [Deleters -> [keys : SUBSET Blobs, seen : Blobs \cup {None}]]
      BY DEF FilesIInv
    <2>1. PICK b \in deleting[d].keys :
             deleting' = IF b \in disk THEN [deleting EXCEPT ![d].seen = b]
                         ELSE [deleting EXCEPT ![d].keys = @ \ {b}]
      BY <1>3 DEF F!Stat
    <2>2. deleting[d].seen = None /\ UNCHANGED <<upload, attached, holder, disk>>
      BY <1>3 DEF F!Stat
    <2>3. /\ \A e \in Deleters : e # d => deleting'[e] = deleting[e]
          /\ deleting'[d].keys \subseteq deleting[d].keys
          /\ deleting'[d].seen # None => deleting'[d].seen = b /\ deleting'[d].keys = deleting[d].keys
          /\ deleting' \in [Deleters -> [keys : SUBSET Blobs, seen : Blobs \cup {None}]]
      <3>1. CASE b \in disk
        BY <2>0, <2>1, <3>1
      <3>2. CASE b \notin disk
        <4>1. deleting' = [deleting EXCEPT ![d].keys = @ \ {b}]
          BY <2>1, <3>2
        <4>2. deleting'[d].keys = deleting[d].keys \ {b} /\ deleting'[d].seen = None
          BY <2>0, <2>2, <4>1
        <4> QED
          BY <2>0, <4>1, <4>2
      <3> QED
        BY <3>1, <3>2
    <2>4. \A e \in Deleters : deleting'[e].keys \subseteq deleting[e].keys
      BY <2>3
    <2>5. \A e \in Deleters : deleting'[e].seen # None => deleting'[e].seen \in deleting'[e].keys
      BY <2>1, <2>3 DEF FilesIInv
    <2> QED
      BY <2>2, <2>3, <2>4, <2>5 DEF FilesIInv
  <1>4. CASE F!Rm(d) \/ F!RmFails(d)
    <2>1. /\ deleting[d].seen # None /\ UNCHANGED <<upload, attached, holder>>
          /\ deleting' = [deleting EXCEPT ![d] = [keys |-> @.keys \ {@.seen}, seen |-> None]]
          /\ disk' \in {disk, disk \ {deleting[d].seen}}
      BY <1>4 DEF F!Rm, F!RmFails, F!Forget, F!Seen, F!Without
    <2>2. /\ \A e \in Deleters : e # d => deleting'[e] = deleting[e]
          /\ deleting'[d] = [keys |-> deleting[d].keys \ {deleting[d].seen}, seen |-> None]
          /\ deleting' \in [Deleters -> [keys : SUBSET Blobs, seen : Blobs \cup {None}]]
      BY <2>1 DEF FilesIInv
    <2>3. \A e \in Deleters : /\ deleting'[e].keys \subseteq deleting[e].keys
                              /\ deleting'[e].seen # None => deleting'[e].seen \in deleting'[e].keys
      BY <2>2 DEF FilesIInv
    <2>4. \A x \in Blobs : attached[x] = "live" \/ upload[x] # "over" => (x \in disk' <=> x \in disk)
      BY <2>1 DEF FilesIInv
    <2> QED
      BY <2>1, <2>2, <2>3, <2>4 DEF FilesIInv
  <1> QED
    BY <1>1, <1>2, <1>3, <1>4

LEMMA FilesStep == FilesIInv /\ [F!Next]_(F!vars) => FilesIInv'
  <1> SUFFICES ASSUME FilesIInv, [F!Next]_(F!vars) PROVE FilesIInv'
    OBVIOUS
  <1>1. CASE F!MoveCard
    <2>1. holder' \in {"first", "board", "archived"} /\ UNCHANGED <<upload, attached, disk, deleting>>
      BY <1>1 DEF F!MoveCard
    <2> QED
      BY <2>1 DEF FilesIInv
  <1>2. CASE F!Crash
    <2>1. /\ UNCHANGED <<attached, holder>>
          /\ upload' = [b \in Blobs |-> IF F!InFlight(b) THEN "over" ELSE upload[b]]
          /\ deleting' = [d \in Deleters |-> F!Resting]
          /\ disk \subseteq disk' /\ disk' \subseteq Blobs
      BY <1>2 DEF F!Crash, FilesIInv
    <2>2. \A b \in Blobs : upload'[b] \in {"new", "over"} /\ (upload[b] = "over" => upload'[b] = "over")
      BY <2>1 DEF F!InFlight
    <2>3. \A d \in Deleters : deleting'[d].keys = {} /\ deleting'[d].seen = None
      BY <2>1 DEF F!Resting
    <2>4. deleting' \in [Deleters -> [keys : SUBSET Blobs, seen : Blobs \cup {None}]]
      BY <2>1 DEF F!Resting
    <2>5. upload' \in [Blobs -> {"new", "reserved", "stored", "counted", "cleanup", "over"}]
      BY <2>1, <2>2
    <2> QED
      BY <2>1, <2>2, <2>3, <2>4, <2>5 DEF FilesIInv
  <1>3. CASE UNCHANGED F!vars
    BY <1>3 DEF F!vars, FilesIInv
  <1> QED
    BY <1>1, <1>2, <1>3, UploadsGo, DeletionsGo DEF F!Next

LEMMA FilesHold == F!Spec => []FilesIInv
  <1>1. F!Init => FilesIInv
    BY DEF F!Init, F!Resting, FilesIInv
  <1>2. FilesIInv /\ [F!Next]_(F!vars) => FilesIInv'
    BY FilesStep
  <1> QED
    BY <1>1, <1>2, PTL DEF F!Spec

\* On both adapters, whatever fails and whenever the process stops, what a
\* card lists can be downloaded.
THEOREM ListedCanBeDownloaded == F!Spec => []F!ListedHasBlob
  <1>1. FilesIInv => F!ListedHasBlob
    BY DEF FilesIInv, F!ListedHasBlob, F!Live
  <1> QED
    BY <1>1, FilesHold, PTL

\* MAX_ACTIVE_ATTACHMENTS_PER_CARD: on SQLite the count and the row are one step.
CapInv == FilesIInv /\ F!Cardinality(F!Live) <= MaxActive

\* Sets of blobs are finite, and one inside another is not larger.
LEMMA BlobsAreCounted ==
    ASSUME IsFiniteSet(Blobs), NEW S \in SUBSET Blobs, NEW T \in SUBSET S
    PROVE  /\ IsFiniteSet(S) /\ IsFiniteSet(T)
           /\ F!Cardinality(S) \in Nat /\ F!Cardinality(T) \in Nat
           /\ F!Cardinality(T) <= F!Cardinality(S)
  <1>1. IsFiniteSet(S) /\ IsFiniteSet(T) /\ Cardinality(T) <= Cardinality(S)
    BY FS_Subset
  <1>2. Cardinality(S) \in Nat /\ Cardinality(T) \in Nat
    BY <1>1, FS_CardinalityType
  <1>3. \A X : F!Cardinality(X) = Cardinality(X)
    BY DEF F!Cardinality, Cardinality
  <1> QED
    BY <1>1, <1>2, <1>3

LEMMA OneBlobMore ==
    ASSUME IsFiniteSet(Blobs), NEW S \in SUBSET Blobs, NEW b \in Blobs
    PROVE  /\ F!Cardinality(S) \in Nat
           /\ F!Cardinality(S \cup {b}) = IF b \in S THEN F!Cardinality(S) ELSE F!Cardinality(S) + 1
           /\ F!Cardinality(S \ {b}) = IF b \in S THEN F!Cardinality(S) - 1 ELSE F!Cardinality(S)
  <1>1. IsFiniteSet(S)
    BY FS_Subset
  <1>2. Cardinality(S) \in Nat
    BY <1>1, FS_CardinalityType
  <1>3. /\ Cardinality(S \cup {b}) = IF b \in S THEN Cardinality(S) ELSE Cardinality(S) + 1
        /\ Cardinality(S \ {b}) = IF b \in S THEN Cardinality(S) - 1 ELSE Cardinality(S)
    BY <1>1, FS_AddElement, FS_RemoveElement
  <1>4. \A X : F!Cardinality(X) = Cardinality(X)
    BY DEF F!Cardinality, Cardinality
  <1> QED
    BY <1>2, <1>3, <1>4

LEMMA CapStep ==
    ASSUME ~Postgres, MaxActive \in Nat, IsFiniteSet(Blobs), CapInv, [F!Next]_(F!vars)
    PROVE  CapInv'
  <1>0. FilesIInv /\ FilesIInv'
    BY FilesStep DEF CapInv
  <1>1. ASSUME NEW b \in Blobs, F!Insert(b) PROVE F!Cardinality(F!Live') <= MaxActive
    <2>1. attached' = [attached EXCEPT ![b] = "live"] /\ F!Cardinality(F!Live) < MaxActive
      BY <1>1 DEF F!Insert, F!MayInsert, F!MayAdd
    <2>2. F!Live' = F!Live \cup {b} /\ F!Live \in SUBSET Blobs
      BY <1>0, <2>1 DEF F!Live, FilesIInv
    <2>3. /\ F!Cardinality(F!Live) \in Nat
          /\ F!Cardinality(F!Live') = F!Cardinality(F!Live)
             \/ F!Cardinality(F!Live') = F!Cardinality(F!Live) + 1
      BY <2>2, OneBlobMore
    <2> QED
      BY <2>1, <2>3
  <1>2. ASSUME F!Live' \subseteq F!Live PROVE F!Cardinality(F!Live') <= MaxActive
    <2>1. F!Live \in SUBSET Blobs /\ F!Live' \in SUBSET F!Live
      BY <1>2 DEF F!Live
    <2>2. /\ F!Cardinality(F!Live') \in Nat /\ F!Cardinality(F!Live) \in Nat
          /\ F!Cardinality(F!Live') <= F!Cardinality(F!Live)
      BY <2>1, BlobsAreCounted
    <2> QED
      BY <2>2 DEF CapInv
  <1>3. ASSUME attached' = attached PROVE F!Live' \subseteq F!Live
    BY <1>3 DEF F!Live
  <1>4. ASSUME NEW d \in Deleters, NEW b \in Blobs, F!Remove(d, b) PROVE F!Live' \subseteq F!Live
    BY <1>0, <1>4 DEF F!Remove, F!Live, FilesIInv
  <1>5. ASSUME NEW d \in Deleters, F!Discard(d) PROVE F!Live' \subseteq F!Live
    <2>1. \A b \in Blobs : attached'[b] = "none"
      BY <1>5 DEF F!Discard
    <2> QED
      BY <2>1 DEF F!Live
  <1>6. \/ attached' = attached
        \/ \E b \in Blobs : F!Insert(b)
        \/ \E d \in Deleters : F!Discard(d) \/ \E b \in Blobs : F!Remove(d, b)
    BY DEF F!Next, F!vars, F!Reserve, F!Put, F!PutFails, F!Count, F!InsertRefused, F!Cleanup,
       F!CleanupFails, F!Stat, F!Rm, F!RmFails, F!MoveCard, F!Crash
  <1>7. F!Cardinality(F!Live') <= MaxActive
    BY <1>1, <1>2, <1>3, <1>4, <1>5, <1>6
  <1> QED
    <2>1. F!Live' = {b \in Blobs : attached'[b] = "live"}
      BY DEF F!Live
    <2> QED
      BY <1>0, <1>7 DEF CapInv

THEOREM CardsKeepTheCap ==
    ~Postgres /\ MaxActive \in Nat /\ IsFiniteSet(Blobs) /\ F!Spec => []F!ActiveWithinCap
  <1> SUFFICES ASSUME ~Postgres, MaxActive \in Nat, IsFiniteSet(Blobs)
               PROVE  F!Spec => []F!ActiveWithinCap
    OBVIOUS
  <1>1. F!Init => CapInv
    <2> SUFFICES ASSUME F!Init PROVE CapInv
      OBVIOUS
    <2>1. FilesIInv
      BY DEF F!Init, F!Resting, FilesIInv
    <2>2. F!Live = {}
      BY DEF F!Init, F!Live
    <2>3. F!Cardinality({}) = 0
      BY FS_EmptySet DEF F!Cardinality, Cardinality
    <2> QED
      BY <2>1, <2>2, <2>3 DEF CapInv
  <1>2. CapInv /\ [F!Next]_(F!vars) => CapInv'
    BY CapStep
  <1>3. CapInv => F!ActiveWithinCap
    BY DEF CapInv, F!ActiveWithinCap
  <1> QED
    BY <1>1, <1>2, <1>3, PTL DEF F!Spec

\* What lies on the disk is listed, or on its way there or to its deletion.
Tidy == \A b \in disk : \/ attached[b] = "live"
                        \/ upload[b] \in {"stored", "counted", "cleanup"}
                        \/ \E d \in Deleters : b \in deleting[d].keys
TidyInv == FilesIInv /\ Tidy

LEMMA TidyStep == ASSUME Faults = {}, TidyInv, [F!Next]_(F!vars) PROVE TidyInv'
  <1>0. FilesIInv /\ FilesIInv'
    BY FilesStep DEF TidyInv
  <1>1. Tidy
    BY DEF TidyInv
  <1>2. ASSUME NEW b \in Blobs,
               F!Reserve(b) \/ F!Put(b) \/ F!Count(b) \/ F!Insert(b) \/ F!InsertRefused(b) \/ F!Cleanup(b)
        PROVE  Tidy'
    <2>1. CASE F!Reserve(b)
      BY <1>0, <1>1, <2>1 DEF F!Reserve, F!Goes, FilesIInv, Tidy
    <2>2. CASE F!Put(b)
      BY <1>0, <1>1, <2>2 DEF F!Put, F!Goes, FilesIInv, Tidy
    <2>3. CASE F!Count(b)
      BY <1>0, <1>1, <2>3 DEF F!Count, F!Goes, FilesIInv, Tidy
    <2>4. CASE F!Insert(b)
      BY <1>0, <1>1, <2>4 DEF F!Insert, F!Goes, FilesIInv, Tidy
    <2>5. CASE F!InsertRefused(b)
      BY <1>0, <1>1, <2>5 DEF F!InsertRefused, F!Goes, FilesIInv, Tidy
    <2>6. CASE F!Cleanup(b)
      BY <1>0, <1>1, <2>6 DEF F!Cleanup, F!Goes, F!Without, FilesIInv, Tidy
    <2> QED
      BY <1>2, <2>1, <2>2, <2>3, <2>4, <2>5, <2>6
  <1>3. ASSUME NEW d \in Deleters, NEW b \in Blobs, F!Remove(d, b) PROVE Tidy'
    <2>1. /\ UNCHANGED <<upload, disk>> /\ attached' = [attached EXCEPT ![b] = "deleted"]
          /\ deleting' = [deleting EXCEPT ![d].keys = {b}] /\ deleting[d].keys = {}
      BY <1>3 DEF F!Remove, F!Resting
    <2>2. \A x \in Blobs : x # b => attached'[x] = attached[x]
      BY <1>0, <2>1 DEF FilesIInv
    <2>3. b \in deleting'[d].keys /\ \A e \in Deleters : deleting[e].keys \subseteq deleting'[e].keys
      BY <1>0, <2>1 DEF FilesIInv
    <2> QED
      BY <1>0, <1>1, <2>1, <2>2, <2>3 DEF FilesIInv, Tidy
  <1>4. ASSUME NEW d \in Deleters, F!Discard(d) PROVE Tidy'
    <2>1. /\ UNCHANGED <<upload, disk>>
          /\ deleting' = [deleting EXCEPT ![d].keys = {b \in Blobs : attached[b] # "none"}]
          /\ deleting[d].keys = {}
      BY <1>4 DEF F!Discard, F!Resting, F!Keys
    <2>2. /\ deleting'[d].keys = {b \in Blobs : attached[b] # "none"}
          /\ \A e \in Deleters : deleting[e].keys \subseteq deleting'[e].keys
      BY <1>0, <2>1 DEF FilesIInv
    <2> QED
      BY <1>0, <1>1, <2>1, <2>2 DEF FilesIInv, Tidy
  <1>5. ASSUME NEW d \in Deleters, F!Stat(d) PROVE Tidy'
    <2>1. PICK b \in deleting[d].keys :
             deleting' = IF b \in disk THEN [deleting EXCEPT ![d].seen = b]
                         ELSE [deleting EXCEPT ![d].keys = @ \ {b}]
      BY <1>5 DEF F!Stat
    <2>2. UNCHANGED <<upload, attached, disk>>
      BY <1>5 DEF F!Stat
    <2>3. \A e \in Deleters : \A x \in disk : x \in deleting[e].keys => x \in deleting'[e].keys
      BY <1>0, <2>1 DEF FilesIInv
    <2> QED
      BY <1>1, <2>2, <2>3 DEF Tidy
  <1>6. ASSUME NEW d \in Deleters, F!Rm(d) PROVE Tidy'
    <2>1. /\ UNCHANGED <<upload, attached>> /\ disk' = disk \ {deleting[d].seen}
          /\ deleting' = [deleting EXCEPT ![d] = [keys |-> @.keys \ {@.seen}, seen |-> None]]
      BY <1>6 DEF F!Rm, F!Forget, F!Seen, F!Without
    <2>2. \A e \in Deleters : \A x \in disk' : x \in deleting[e].keys => x \in deleting'[e].keys
      BY <1>0, <2>1 DEF FilesIInv
    <2> QED
      BY <1>1, <2>1, <2>2 DEF Tidy
  <1>7. ASSUME UNCHANGED <<upload, attached, disk, deleting>> PROVE Tidy'
    <2>1. upload' = upload /\ attached' = attached /\ disk' = disk /\ deleting' = deleting
      BY <1>7
    <2> QED
      BY <1>1, <2>1 DEF Tidy
  <1>8. \/ UNCHANGED <<upload, attached, disk, deleting>>
        \/ \E b \in Blobs : \/ F!Reserve(b) \/ F!Put(b) \/ F!Count(b) \/ F!Insert(b)
                            \/ F!InsertRefused(b) \/ F!Cleanup(b)
        \/ \E d \in Deleters : \/ F!Discard(d) \/ F!Stat(d) \/ F!Rm(d) \/ \E b \in Blobs : F!Remove(d, b)
    BY DEF F!Next, F!vars, F!PutFails, F!CleanupFails, F!RmFails, F!MoveCard, F!Crash
  <1>9. Tidy'
    BY <1>2, <1>3, <1>4, <1>5, <1>6, <1>7, <1>8, Zenon
  <1> QED
    BY <1>0, <1>9 DEF TidyInv

\* Every refusal, removal and discard cleans up, on both adapters, as long as
\* nothing fails.
THEOREM NothingIsLeftBehind == Faults = {} /\ F!Spec => []F!SettledDiskIsListed
  <1> SUFFICES ASSUME Faults = {} PROVE F!Spec => []F!SettledDiskIsListed
    OBVIOUS
  <1>1. F!Init => TidyInv
    BY DEF F!Init, F!Resting, FilesIInv, TidyInv, Tidy
  <1>2. TidyInv /\ [F!Next]_(F!vars) => TidyInv'
    BY TidyStep
  <1>3. TidyInv => F!SettledDiskIsListed
    <2> SUFFICES ASSUME TidyInv, F!Settled PROVE disk = F!Live
      BY DEF F!SettledDiskIsListed
    <2>1. \A b \in Blobs : upload[b] \in {"new", "over"}
      BY DEF F!Settled, F!InFlight
    <2>2. \A d \in Deleters : deleting[d].keys = {}
      BY DEF F!Settled, F!Resting
    <2> QED
      BY <2>1, <2>2 DEF TidyInv, Tidy, FilesIInv, F!Live
  <1> QED
    BY <1>1, <1>2, <1>3, PTL DEF F!Spec

\* The reservations are those of the uploads in flight.
Sailing == {b \in Blobs : F!InFlight(b)}
TallyInv == FilesIInv /\ reserved = F!Cardinality(Sailing)

LEMMA TallyStep == ASSUME IsFiniteSet(Blobs), TallyInv, [F!Next]_(F!vars) PROVE TallyInv'
  <1>0. FilesIInv /\ FilesIInv' /\ reserved = F!Cardinality(Sailing) /\ Sailing \in SUBSET Blobs
    BY FilesStep DEF TallyInv, Sailing
  <1>1. ASSUME NEW b \in Blobs, F!Reserve(b) PROVE reserved' = F!Cardinality(Sailing')
    <2>1. Sailing' = Sailing \cup {b} /\ b \notin Sailing /\ reserved' = reserved + 1
      BY <1>0, <1>1 DEF F!Reserve, F!Goes, FilesIInv, Sailing, F!InFlight
    <2>2. F!Cardinality(Sailing \cup {b}) = F!Cardinality(Sailing) + 1
      BY <1>0, <2>1, OneBlobMore
    <2> QED
      BY <1>0, <2>1, <2>2
  <1>2. ASSUME NEW b \in Blobs, F!Put(b) \/ F!Count(b) \/ F!InsertRefused(b)
        PROVE  reserved' = F!Cardinality(Sailing')
    <2>1. Sailing' = Sailing /\ reserved' = reserved
      BY <1>0, <1>2 DEF F!Put, F!Count, F!InsertRefused, F!Goes, FilesIInv, Sailing, F!InFlight
    <2> QED
      BY <1>0, <2>1
  <1>3. ASSUME NEW b \in Blobs, F!PutFails(b) \/ F!Insert(b) \/ F!Cleanup(b) \/ F!CleanupFails(b)
        PROVE  reserved' = F!Cardinality(Sailing')
    <2>1. /\ upload[b] \in {"reserved", "stored", "counted", "cleanup"}
          /\ upload' = [upload EXCEPT ![b] = "over"] /\ reserved' = reserved - 1
      BY <1>3 DEF F!PutFails, F!Insert, F!MayInsert, F!Cleanup, F!CleanupFails, F!Goes
    <2>2. Sailing' = Sailing \ {b} /\ b \in Sailing
      BY <1>0, <2>1 DEF FilesIInv, Sailing, F!InFlight
    <2>3. F!Cardinality(Sailing \ {b}) = F!Cardinality(Sailing) - 1
      BY <1>0, <2>2, OneBlobMore
    <2> QED
      BY <1>0, <2>1, <2>2, <2>3
  <1>4. ASSUME F!Crash PROVE reserved' = F!Cardinality(Sailing')
    <2>1. reserved' = 0 /\ upload' = [b \in Blobs |-> IF F!InFlight(b) THEN "over" ELSE upload[b]]
      BY <1>4 DEF F!Crash
    <2>2. Sailing' = {}
      BY <2>1 DEF Sailing, F!InFlight
    <2>3. F!Cardinality({}) = 0
      BY FS_EmptySet DEF F!Cardinality, Cardinality
    <2> QED
      BY <2>1, <2>2, <2>3
  <1>5. ASSUME upload' = upload, reserved' = reserved PROVE reserved' = F!Cardinality(Sailing')
    <2>1. Sailing' = Sailing
      BY <1>5 DEF Sailing, F!InFlight
    <2> QED
      BY <1>0, <1>5, <2>1
  <1>6. \/ upload' = upload /\ reserved' = reserved
        \/ F!Crash
        \/ \E b \in Blobs : \/ F!Reserve(b) \/ F!Put(b) \/ F!PutFails(b) \/ F!Count(b) \/ F!Insert(b)
                            \/ F!InsertRefused(b) \/ F!Cleanup(b) \/ F!CleanupFails(b)
    BY DEF F!Next, F!vars, F!Remove, F!Discard, F!Stat, F!Rm, F!RmFails, F!MoveCard
  <1>7. reserved' = F!Cardinality(Sailing')
    BY <1>1, <1>2, <1>3, <1>4, <1>5, <1>6, Zenon
  <1>8. Sailing' = {b \in Blobs : upload'[b] \notin {"new", "over"}}
    BY DEF Sailing, F!InFlight
  <1> QED
    BY <1>0, <1>7, <1>8 DEF TallyInv

\* One file is in the hands of one deletion, so that the total is what a scan
\* of the directory would count, and what may still be written has room.
Held == {b \in Blobs : upload[b] = "reserved"}
Unwritten   == \A b \in Blobs : upload[b] \in {"new", "reserved"} => b \notin disk
OneDeletion == \A d, e \in Deleters : d # e => deleting[d].keys \cap deleting[e].keys = {}
SeenIsThere == \A d \in Deleters : deleting[d].seen # None => deleting[d].seen \in disk
WaterInv ==
    /\ TallyInv
    /\ holder # "first"
    /\ total = F!Cardinality(disk)
    /\ F!Cardinality(disk \cup Held) <= HighWater
    /\ Unwritten
    /\ OneDeletion
    /\ SeenIsThere

LEMMA FewerFit ==
    ASSUME IsFiniteSet(Blobs), HighWater \in Nat, WaterInv,
           disk' \cup Held' \subseteq disk \cup Held
    PROVE  F!Cardinality(disk' \cup Held') <= HighWater
  <1>1. disk \cup Held \in SUBSET Blobs /\ disk' \cup Held' \in SUBSET (disk \cup Held)
    BY DEF WaterInv, TallyInv, FilesIInv, Held
  <1>2. /\ F!Cardinality(disk' \cup Held') \in Nat /\ F!Cardinality(disk \cup Held) \in Nat
        /\ F!Cardinality(disk' \cup Held') <= F!Cardinality(disk \cup Held)
    BY <1>1, BlobsAreCounted
  <1> QED
    BY <1>2 DEF WaterInv

\* An upload reserves when everything on the disk and in flight leaves room.
LEMMA ReservedFits ==
    ASSUME IsFiniteSet(Blobs), HighWater \in Nat, WaterInv, NEW b \in Blobs, F!Reserve(b)
    PROVE  F!Cardinality(disk' \cup Held') <= HighWater
  <1>1. /\ total + reserved + 1 <= HighWater /\ disk' = disk
        /\ upload' = [upload EXCEPT ![b] = "reserved"]
        /\ total = F!Cardinality(disk) /\ reserved = F!Cardinality(Sailing)
        /\ disk \in SUBSET Blobs /\ Sailing \in SUBSET Blobs
    BY DEF F!Reserve, F!Fits, F!Goes, WaterInv, TallyInv, FilesIInv, Sailing
  <1>2. disk' \cup Held' \subseteq (disk \cup Sailing) \cup {b}
    BY <1>1 DEF Held, Sailing, F!InFlight, WaterInv, TallyInv, FilesIInv
  <1>3. IsFiniteSet(disk) /\ IsFiniteSet(Sailing)
    BY <1>1, BlobsAreCounted
  <1>4. F!Cardinality(disk \cup Sailing) <= total + reserved
    <2>1. \A X : F!Cardinality(X) = Cardinality(X)
      BY DEF F!Cardinality, Cardinality
    <2>2. Cardinality(disk \cup Sailing) = Cardinality(disk) + Cardinality(Sailing) - Cardinality(disk \cap Sailing)
      BY <1>3, FS_Union
    <2>3. /\ F!Cardinality(disk) \in Nat /\ F!Cardinality(disk \cap Sailing) \in Nat
          /\ F!Cardinality(Sailing) \in Nat
      BY <1>1, BlobsAreCounted
    <2> QED
      BY <1>1, <2>1, <2>2, <2>3
  <1>5. /\ F!Cardinality(disk \cup Sailing) \in Nat
        /\ F!Cardinality((disk \cup Sailing) \cup {b}) <= F!Cardinality(disk \cup Sailing) + 1
    <2>1. disk \cup Sailing \in SUBSET Blobs
      BY <1>1
    <2>2. /\ F!Cardinality(disk \cup Sailing) \in Nat
          /\ F!Cardinality((disk \cup Sailing) \cup {b}) =
                IF b \in disk \cup Sailing THEN F!Cardinality(disk \cup Sailing)
                ELSE F!Cardinality(disk \cup Sailing) + 1
      BY <2>1, OneBlobMore
    <2> QED
      BY <2>2
  <1>6. /\ F!Cardinality(disk' \cup Held') <= F!Cardinality((disk \cup Sailing) \cup {b})
        /\ F!Cardinality(disk' \cup Held') \in Nat /\ F!Cardinality((disk \cup Sailing) \cup {b}) \in Nat
    <2>1. (disk \cup Sailing) \cup {b} \in SUBSET Blobs
      BY <1>1
    <2> QED
      BY <1>2, <2>1, BlobsAreCounted
  <1>7. total \in Nat /\ reserved \in Nat
    BY <1>1, BlobsAreCounted
  <1> QED
    BY <1>1, <1>4, <1>5, <1>6, <1>7

LEMMA WaterStep ==
    ASSUME IsFiniteSet(Blobs), HighWater \in Nat, ~FirstColumn, "partialWrite" \notin Faults,
           WaterInv, [F!Next]_(F!vars)
    PROVE  WaterInv'
  <1>0. /\ TallyInv /\ TallyInv' /\ FilesIInv /\ FilesIInv' /\ holder # "first"
        /\ total = F!Cardinality(disk) /\ disk \in SUBSET Blobs
        /\ Unwritten /\ OneDeletion /\ SeenIsThere
    BY TallyStep DEF WaterInv, TallyInv, FilesIInv
  <1>u. \A b \in Blobs : upload[b] \in {"new", "reserved"} => b \notin disk
    BY <1>0 DEF Unwritten
  <1>o. \A d, e \in Deleters : d # e => deleting[d].keys \cap deleting[e].keys = {}
    BY <1>0 DEF OneDeletion
  <1>s. \A d \in Deleters :
           deleting[d].seen # None => deleting[d].seen \in disk /\ deleting[d].seen \in deleting[d].keys
    BY <1>0 DEF SeenIsThere, FilesIInv
  <1>d. deleting \in [Deleters -> [keys : SUBSET Blobs, seen : Blobs \cup {None}]]
    BY <1>0 DEF FilesIInv
  <1>1. ASSUME NEW b \in Blobs, F!Reserve(b) PROVE WaterInv'
    <2>1. /\ UNCHANGED <<holder, disk, total, deleting>> /\ b \notin disk
          /\ upload' = [upload EXCEPT ![b] = "reserved"]
      BY <1>1, <1>u DEF F!Reserve, F!Goes
    <2>2. F!Cardinality(disk' \cup Held') <= HighWater
      BY <1>1, ReservedFits
    <2>3. Unwritten'
      BY <1>0, <2>1 DEF FilesIInv, Unwritten
    <2> QED
      BY <1>0, <2>1, <2>2, <2>3 DEF WaterInv, Unwritten, OneDeletion, SeenIsThere
  <1>2. ASSUME NEW b \in Blobs, F!Put(b) PROVE WaterInv'
    <2>1. /\ UNCHANGED <<holder, deleting>> /\ upload[b] = "reserved" /\ b \notin disk
          /\ disk' = disk \cup {b} /\ total' = total + 1 /\ upload' = [upload EXCEPT ![b] = "stored"]
      BY <1>2, <1>u DEF F!Put, F!Goes
    <2>2. \A x \in Blobs : upload'[x] = IF x = b THEN "stored" ELSE upload[x]
      BY <1>0, <2>1 DEF FilesIInv
    <2>3. disk' \cup Held' \subseteq disk \cup Held
      BY <2>1, <2>2 DEF Held
    <2>4. F!Cardinality(disk' \cup Held') <= HighWater
      BY <2>3, FewerFit
    <2>5. total' = F!Cardinality(disk')
      <3>1. F!Cardinality(disk \cup {b}) = F!Cardinality(disk) + 1
        BY <1>0, <2>1, OneBlobMore
      <3> QED
        BY <1>0, <2>1, <3>1
    <2>6. Unwritten'
      <3>1. ASSUME NEW x \in Blobs, upload'[x] \in {"new", "reserved"} PROVE x \notin disk'
        <4>1. x # b
          BY <2>2, <3>1
        <4>2. upload[x] \in {"new", "reserved"}
          BY <2>2, <3>1, <4>1
        <4> QED
          BY <1>u, <2>1, <4>1, <4>2
      <3> QED
        BY <3>1, Zenon DEF Unwritten
    <2> QED
      BY <1>0, <2>1, <2>4, <2>5, <2>6 DEF WaterInv, Unwritten, OneDeletion, SeenIsThere
  <1>3. ASSUME NEW b \in Blobs, F!Count(b) \/ F!Insert(b) \/ F!InsertRefused(b) \/ F!CleanupFails(b)
        PROVE  WaterInv'
    <2>1. PICK s \in {"counted", "cleanup", "over"} :
             upload' = [upload EXCEPT ![b] = s] /\ UNCHANGED <<holder, disk, total, deleting>>
      BY <1>3 DEF F!Count, F!Insert, F!InsertRefused, F!CleanupFails, F!Goes
    <2>2. \A x \in Blobs : upload'[x] = IF x = b THEN s ELSE upload[x]
      BY <1>0, <2>1 DEF FilesIInv
    <2>3. disk' \cup Held' \subseteq disk \cup Held
      BY <2>1, <2>2 DEF Held
    <2>4. F!Cardinality(disk' \cup Held') <= HighWater
      BY <2>3, FewerFit
    <2>5. Unwritten'
      BY <1>u, <2>1, <2>2 DEF Unwritten
    <2> QED
      BY <1>0, <2>1, <2>4, <2>5 DEF WaterInv, Unwritten, OneDeletion, SeenIsThere
  <1>4. ASSUME NEW b \in Blobs, F!Cleanup(b) PROVE WaterInv'
    <2>1. /\ UNCHANGED <<holder, deleting>> /\ upload[b] = "cleanup" /\ b \in disk
          /\ disk' = disk \ {b} /\ total' = total - 1 /\ upload' = [upload EXCEPT ![b] = "over"]
      BY <1>0, <1>4 DEF F!Cleanup, F!Goes, F!Without, FilesIInv
    <2>2. \A x \in Blobs : upload'[x] = IF x = b THEN "over" ELSE upload[x]
      BY <1>0, <2>1 DEF FilesIInv
    <2>3. disk' \cup Held' \subseteq disk \cup Held
      BY <2>1, <2>2 DEF Held
    <2>4. F!Cardinality(disk' \cup Held') <= HighWater
      BY <2>3, FewerFit
    <2>5. total' = F!Cardinality(disk')
      <3>1. F!Cardinality(disk \ {b}) = F!Cardinality(disk) - 1
        BY <1>0, <2>1, OneBlobMore
      <3> QED
        BY <1>0, <2>1, <3>1
    <2>6. Unwritten'
      BY <1>u, <2>1, <2>2 DEF Unwritten
    <2>7. \A d \in Deleters : b \notin deleting[d].keys
      BY <1>0, <2>1 DEF FilesIInv
    <2>8. SeenIsThere'
      BY <1>0, <2>1, <2>7 DEF FilesIInv, SeenIsThere
    <2> QED
      BY <1>0, <2>1, <2>4, <2>5, <2>6, <2>8 DEF WaterInv, Unwritten, OneDeletion, SeenIsThere
  <1>5. ASSUME NEW d \in Deleters, NEW b \in Blobs, F!Remove(d, b) PROVE WaterInv'
    <2>1. /\ UNCHANGED <<upload, holder, disk, total>> /\ attached[b] = "live"
          /\ deleting[d] = [keys |-> {}, seen |-> None] /\ deleting' = [deleting EXCEPT ![d].keys = {b}]
      BY <1>5 DEF F!Remove, F!Resting
    <2>2. \A e \in Deleters : b \notin deleting[e].keys
      BY <1>0, <2>1 DEF FilesIInv
    <2>3. /\ deleting'[d].keys = {b} /\ deleting'[d].seen = None
          /\ \A e \in Deleters : e # d => deleting'[e] = deleting[e]
      BY <1>d, <2>1
    <2>4. OneDeletion'
      <3>1. ASSUME NEW e \in Deleters, NEW g \in Deleters, e # g
            PROVE  deleting'[e].keys \cap deleting'[g].keys = {}
        <4>1. CASE e = d
          BY <2>2, <2>3, <3>1, <4>1
        <4>2. CASE g = d
          BY <2>2, <2>3, <3>1, <4>2
        <4>3. CASE e # d /\ g # d
          BY <1>o, <2>3, <3>1, <4>3
        <4> QED
          BY <4>1, <4>2, <4>3
      <3> QED
        BY <3>1, Zenon DEF OneDeletion
    <2>5. SeenIsThere'
      <3>1. ASSUME NEW e \in Deleters, deleting'[e].seen # None PROVE deleting'[e].seen \in disk'
        <4>1. e # d
          BY <2>3, <3>1
        <4> QED
          BY <1>s, <2>1, <2>3, <3>1, <4>1
      <3> QED
        BY <3>1, Zenon DEF SeenIsThere
    <2>6. Held' = Held
      BY <2>1 DEF Held
    <2> QED
      BY <1>0, <2>1, <2>4, <2>5, <2>6 DEF WaterInv, Unwritten, OneDeletion, SeenIsThere
  <1>6. ASSUME NEW d \in Deleters, F!Stat(d) PROVE WaterInv'
    <2>1. PICK b \in deleting[d].keys :
             deleting' = IF b \in disk THEN [deleting EXCEPT ![d].seen = b]
                         ELSE [deleting EXCEPT ![d].keys = @ \ {b}]
      BY <1>6 DEF F!Stat
    <2>2. UNCHANGED <<upload, holder, disk, total>> /\ deleting[d].seen = None
      BY <1>6 DEF F!Stat
    <2>3. \A e \in Deleters : /\ deleting'[e].keys \subseteq deleting[e].keys
                              /\ deleting'[e].seen # None => deleting'[e].seen \in disk
      <3>1. CASE b \in disk
        BY <1>d, <1>s, <2>1, <3>1
      <3>2. CASE b \notin disk
        BY <1>d, <1>s, <2>1, <2>2, <3>2
      <3> QED
        BY <3>1, <3>2
    <2>4. OneDeletion'
      BY <1>o, <2>3 DEF OneDeletion
    <2>5. Held' = Held
      BY <2>2 DEF Held
    <2> QED
      BY <1>0, <2>2, <2>3, <2>4, <2>5 DEF WaterInv, Unwritten, OneDeletion, SeenIsThere
  <1>7. ASSUME NEW d \in Deleters, F!Rm(d) \/ F!RmFails(d) PROVE WaterInv'
    <2> DEFINE b == deleting[d].seen
    <2>1. /\ UNCHANGED <<upload, holder>> /\ b # None
          /\ deleting' = [deleting EXCEPT ![d] = [keys |-> @.keys \ {@.seen}, seen |-> None]]
          /\ \/ disk' = disk \ {b} /\ total' = total - 1
             \/ disk' = disk /\ total' = total
      BY <1>7 DEF F!Rm, F!RmFails, F!Forget, F!Seen, F!Without
    <2>2. b \in disk /\ b \in deleting[d].keys /\ b \in Blobs
      BY <1>0, <1>s, <2>1
    <2>3. /\ deleting'[d] = [keys |-> deleting[d].keys \ {b}, seen |-> None]
          /\ \A e \in Deleters : e # d => deleting'[e] = deleting[e]
      BY <1>0, <2>1 DEF FilesIInv
    <2>4. OneDeletion'
      BY <1>o, <2>3 DEF OneDeletion
    <2>5. SeenIsThere'
      <3>1. ASSUME NEW e \in Deleters, e # d, deleting[e].seen # None PROVE deleting[e].seen \in disk'
        <4>1. deleting[e].seen \in deleting[e].keys /\ deleting[e].seen \in disk
          BY <1>s, <3>1
        <4>2. deleting[e].keys \cap deleting[d].keys = {}
          BY <3>1 DEF WaterInv, Unwritten, OneDeletion, SeenIsThere
        <4> QED
          BY <2>1, <2>2, <4>1, <4>2
      <3> QED
        BY <2>3, <3>1 DEF SeenIsThere
    <2>6. Held' = Held
      BY <2>1 DEF Held
    <2>7. total' = F!Cardinality(disk')
      <3>1. F!Cardinality(disk \ {b}) = F!Cardinality(disk) - 1
        BY <1>0, <2>2, OneBlobMore
      <3> QED
        BY <1>0, <2>1, <3>1
    <2>8. F!Cardinality(disk' \cup Held') <= HighWater
      BY <2>1, <2>6, FewerFit
    <2>9. Unwritten'
      BY <1>u, <2>1 DEF Unwritten
    <2> HIDE DEF b
    <2> QED
      BY <1>0, <2>1, <2>4, <2>5, <2>7, <2>8, <2>9 DEF WaterInv, Unwritten, OneDeletion, SeenIsThere
  <1>8. CASE F!MoveCard
    <2>1. holder' # "first" /\ UNCHANGED <<upload, disk, total, deleting>>
      BY <1>0, <1>8 DEF F!MoveCard
    <2>2. Held' = Held
      BY <2>1 DEF Held
    <2> QED
      BY <1>0, <2>1, <2>2 DEF WaterInv, Unwritten, OneDeletion, SeenIsThere
  <1>9. CASE F!Crash
    <2>1. /\ holder' = holder /\ disk' \subseteq disk \cup Held /\ total' = F!Cardinality(disk')
          /\ upload' = [b \in Blobs |-> IF F!InFlight(b) THEN "over" ELSE upload[b]]
          /\ deleting' = [d \in Deleters |-> F!Resting]
      BY <1>9 DEF F!Crash, Held
    <2>2. \A x \in Blobs : upload'[x] \in {"new", "reserved"} => upload[x] = "new" /\ upload'[x] = "new"
      BY <2>1 DEF F!InFlight
    <2>3. Held' = {}
      BY <2>2 DEF Held
    <2>4. F!Cardinality(disk' \cup Held') <= HighWater
      BY <2>1, <2>3, FewerFit
    <2>5. \A d \in Deleters : deleting'[d].keys = {} /\ deleting'[d].seen = None
      BY <2>1 DEF F!Resting
    <2>6. Unwritten'
      BY <1>0, <2>1, <2>2 DEF Held, Unwritten
    <2> QED
      BY <1>0, <2>1, <2>4, <2>5, <2>6 DEF WaterInv, Unwritten, OneDeletion, SeenIsThere
  <1>10. CASE UNCHANGED F!vars
    <2>1. UNCHANGED <<upload, holder, disk, total, deleting>>
      BY <1>10 DEF F!vars
    <2>2. Held' = Held
      BY <2>1 DEF Held
    <2> QED
      BY <1>0, <2>1, <2>2 DEF WaterInv, Unwritten, OneDeletion, SeenIsThere
  <1>11. ASSUME NEW d \in Deleters, F!Discard(d) PROVE FALSE
    BY <1>0, <1>11 DEF F!Discard
  <1>12. ASSUME NEW b \in Blobs, F!PutFails(b) PROVE FALSE
    BY <1>12 DEF F!PutFails
  <1> QED
    BY <1>1, <1>2, <1>3, <1>4, <1>5, <1>6, <1>7, <1>8, <1>9, <1>10, <1>11, <1>12, Zenon DEF F!Next

\* blobHighWaterBytes and the running total of LocalBlobStore, for a card that
\* has left the first column and when a failed write leaves nothing: crashes
\* and failed deletions are allowed for.  With either hypothesis dropped a
\* file is counted twice or not at all, and both statements fail.
THEOREM UploadsFitTheDisk ==
    /\ IsFiniteSet(Blobs) /\ HighWater \in Nat
    /\ ~FirstColumn /\ "partialWrite" \notin Faults
    /\ F!Spec
    => [](F!BlobsTypeOK /\ F!DiskWithinHighWater /\ F!TotalCountsDisk)
  <1> SUFFICES ASSUME IsFiniteSet(Blobs), HighWater \in Nat, ~FirstColumn, "partialWrite" \notin Faults
               PROVE  F!Spec => [](F!BlobsTypeOK /\ F!DiskWithinHighWater /\ F!TotalCountsDisk)
    OBVIOUS
  <1>1. F!Init => WaterInv
    <2> SUFFICES ASSUME F!Init PROVE WaterInv
      OBVIOUS
    <2>1. FilesIInv
      BY DEF F!Init, F!Resting, FilesIInv
    <2>2. disk = {} /\ Held = {} /\ Sailing = {} /\ holder # "first" /\ total = 0 /\ reserved = 0
      BY DEF F!Init, Held, Sailing, F!InFlight
    <2>3. F!Cardinality({}) = 0
      BY FS_EmptySet DEF F!Cardinality, Cardinality
    <2>4. \A d \in Deleters : deleting[d].keys = {} /\ deleting[d].seen = None
      BY DEF F!Init, F!Resting
    <2> QED
      BY <2>1, <2>2, <2>3, <2>4 DEF WaterInv, TallyInv, Unwritten, OneDeletion, SeenIsThere
  <1>2. WaterInv /\ [F!Next]_(F!vars) => WaterInv'
    BY WaterStep
  <1>3. WaterInv => F!BlobsTypeOK /\ F!DiskWithinHighWater /\ F!TotalCountsDisk
    <2> SUFFICES ASSUME WaterInv PROVE F!BlobsTypeOK /\ F!DiskWithinHighWater /\ F!TotalCountsDisk
      OBVIOUS
    <2>1. F!BlobsTypeOK
      BY DEF WaterInv, TallyInv, FilesIInv, Sailing, F!BlobsTypeOK
    <2>2. F!Cardinality(disk) <= HighWater
      <3>1. disk \cup Held \in SUBSET Blobs /\ disk \in SUBSET (disk \cup Held)
        BY DEF WaterInv, TallyInv, FilesIInv, Held
      <3>2. /\ F!Cardinality(disk) \in Nat /\ F!Cardinality(disk \cup Held) \in Nat
            /\ F!Cardinality(disk) <= F!Cardinality(disk \cup Held)
        BY <3>1, BlobsAreCounted
      <3>3. F!Cardinality(disk \cup Held) <= HighWater
        BY DEF WaterInv
      <3> QED
        BY <3>2, <3>3
    <2> QED
      BY <2>1, <2>2 DEF WaterInv, F!DiskWithinHighWater, F!TotalCountsDisk
  <1> QED
    BY <1>1, <1>2, <1>3, PTL DEF F!Spec

-----------------------------------------------------------------------------
(* Numbers, and what hangs on them.                                         *)

\* What the tables and the units of work hold.
OneNumber == {<<n>> : n \in Numbers}
OneBirth  == {<<b>> : b \in Nat}
CardRows  == [born : Nat, version : Nat, draft : BOOLEAN]
Shows     == [on : Numbers, born : Nat, version : Nat]
Singles   == [table : {"comments", "card_events"}, type : {None},
              on : OneNumber, meant : OneBirth, id : Nat]
Relations == [table : {"card_relations"}, type : Types,
              on : Numbers \X Numbers, meant : Nat \X Nat, id : Nat]
Hanging   == Singles \cup Relations

Stages == {"find", "write", "commit"}
EditUnits    == [op : {"edit"}, pc : Stages, on : Numbers, seen : Shows,
              copy : CardRows \cup {None}, draft : BOOLEAN, id : Nat]
CommentUnits == [op : {"comment"}, pc : Stages, on : Numbers, seen : Shows, id : Nat]
RelateUnits   == [op : {"relate"}, pc : Stages, on : Numbers, to : Numbers,
              both : Shows \X Shows, type : Types, id : Nat]
UnrelateUnits == [op : {"unrelate"}, pc : Stages, row : Hanging, gone : SUBSET Hanging]
Tables    == {"comments", "card_events", "card_relations", "cards"}
DiscardUnits  == [op : {"discard"}, pc : {"find", "commit"} \cup Tables,
              on : Numbers, seen : Shows, gone : SUBSET Hanging]
EndedUnits     == [op : {None, "edit", "comment", "relate", "unrelate", "discard"}, pc : {"done"},
              result : {None, "ok", "missing", "conflict", "error"}]
Units     == EditUnits \cup CommentUnits \cup RelateUnits \cup UnrelateUnits \cup DiscardUnits
             \cup EndedUnits

TicketTypes ==
    /\ card \in [Numbers -> CardRows \cup {None}]
    /\ rows \subseteq Hanging
    /\ next \in Nat /\ calls \in Nat
    /\ shown \subseteq Shows
    /\ tx \in [Requests -> Units]

LEMMA UnitIs ==
    ASSUME NEW v \in Units
    PROVE  /\ v.pc = "done" => v \in EndedUnits
           /\ v.pc # "done" /\ v.op = "edit" => v \in EditUnits
           /\ v.pc # "done" /\ v.op = "comment" => v \in CommentUnits
           /\ v.pc # "done" /\ v.op = "relate" => v \in RelateUnits
           /\ v.pc # "done" /\ v.op = "unrelate" => v \in UnrelateUnits
           /\ v.pc # "done" /\ v.op = "discard" => v \in DiscardUnits
           /\ v.pc # "done" => v.op \in {"edit", "comment", "relate", "unrelate", "discard"}
  BY DEF Units, EndedUnits, EditUnits, CommentUnits, RelateUnits, UnrelateUnits, DiscardUnits, Stages, Tables

\* A unit of work goes on alone: the others, and what they hold, stay.
LEMMA TicketFrame ==
    ASSUME TicketTypes, NEW r \in Requests, NEW v \in Units, tx' = [tx EXCEPT ![r] = v]
    PROVE  /\ tx'[r] = v /\ \A s \in Requests : s # r => tx'[s] = tx[s]
           /\ tx' \in [Requests -> Units]
  BY DEF TicketTypes

\* The result of a unit of work.
LEMMA DoneIs ==
    ASSUME TicketTypes, NEW r \in Requests, tx[r].pc # "done",
           NEW result \in {"ok", "missing", "conflict", "error"}, D!Done(r, result)
    PROVE  /\ [op |-> tx[r].op, pc |-> "done", result |-> result] \in Units
           /\ tx' = [tx EXCEPT ![r] = [op |-> tx[r].op, pc |-> "done", result |-> result]]
  <1>1. tx[r] \in Units
    BY DEF TicketTypes
  <1>2. tx[r].op \in {"edit", "comment", "relate", "unrelate", "discard"}
    BY <1>1, UnitIs
  <1> QED
    BY <1>2 DEF D!Done, Units, EndedUnits

\* What a unit of work may hold, by where it is: the rows it found are still
\* there when it is about to commit, and with the birth it saw.
OnCard(n) == {x \in rows : \E i \in DOMAIN x.on : x.on[i] = n}
EditOK(v) ==
    /\ v.seen \in shown /\ v.seen.on = v.on
    /\ v.pc \in {"write", "commit"} =>
          v.copy \in CardRows /\ (card[v.on] # None => card[v.on].born = v.copy.born)
    /\ v.pc = "commit" => card[v.on] # None
CommentOK(v) ==
    v.seen \in shown /\ v.seen.on = v.on /\ (v.pc = "commit" => card[v.on] # None)
Entry(v, x) == x.on = <<v.on, v.to>> /\ x.type = v.type
RelateOK(v) ==
    /\ v.both[1] \in shown /\ v.both[1].on = v.on
    /\ v.both[2] \in shown /\ v.both[2].on = v.to
    /\ v.on # v.to
    /\ v.pc = "commit" =>
          /\ card[v.on] # None /\ card[v.to] # None
          /\ \A x \in rows : x.table = "card_relations" => ~Entry(v, x)
UnrelateOK(v) == v.row.table = "card_relations" /\ \A x \in v.gone : x.table = "card_relations"
DiscardOK(v) ==
    /\ v.seen \in shown /\ v.seen.on = v.on
    /\ \A x \in v.gone : \E i \in DOMAIN x.on : x.on[i] = v.on
    /\ v.pc = "commit" => OnCard(v.on) \subseteq v.gone
UnitOK(v) ==
    v.pc # "done" =>
       /\ v.op = "edit" => EditOK(v)
       /\ v.op = "comment" => CommentOK(v)
       /\ v.op = "relate" => RelateOK(v)
       /\ v.op = "unrelate" => UnrelateOK(v)
       /\ v.op = "discard" => DiscardOK(v)

\* Two that are about to commit do not touch one card, unless both only hang
\* something on it, and make no entry twice.
Writes(v) == IF v.op \in {"edit", "discard"} /\ v.pc = "commit" THEN {v.on} ELSE {}
Holds(v)  ==
    IF v.op = "comment" /\ v.pc = "commit" THEN {v.on}
    ELSE IF v.op = "relate" /\ v.pc = "commit" THEN {v.on, v.to} ELSE {}
Apart(v, w) ==
    /\ Writes(v) \cap Writes(w) = {}
    /\ v.op = "discard" => Writes(v) \cap Holds(w) = {}
    /\ w.op = "discard" => Writes(w) \cap Holds(v) = {}
    /\ ~(v.op = "relate" /\ w.op = "relate" /\ v.pc = "commit" /\ w.pc = "commit"
         /\ v.on = w.on /\ v.to = w.to /\ v.type = w.type)

\* Numbers that were given on Postgres are behind the sequence, with one birth
\* each; on SQLite only one unit of work is open.
Given ==
    Postgres =>
       /\ \A s \in shown : s.on < next /\ (card[s.on] # None => card[s.on].born = s.born)
       /\ \A n \in Numbers : card[n] # None => n < next
Alone == ~Postgres => \A r, s \in Requests : tx[r].pc # "done" /\ tx[s].pc # "done" => r = s

RowsStand == \A x \in rows : \A i \in DOMAIN x.on : card[x.on[i]] # None
RowsMeant == Postgres => \A x \in rows : \A i \in DOMAIN x.on : card[x.on[i]].born = x.meant[i]
TrailBegun ==
    \A n \in Numbers : card[n] # None =>
       \E x \in rows : x.table = "card_events" /\ x.on = <<n>> /\ x.id = card[n].born
EntriesOnce ==
    \A x, y \in rows :
        x.table = "card_relations" /\ y.table = "card_relations" /\ x # y =>
            x.type # y.type \/ x.on # y.on

TicketInv ==
    /\ TicketTypes
    /\ \A r \in Requests : UnitOK(tx[r])
    /\ \A r, s \in Requests : r # s => Apart(tx[r], tx[s])
    /\ Given /\ Alone
    /\ RowsStand /\ RowsMeant /\ TrailBegun /\ EntriesOnce

\* Rows by the cards they name.
LEMMA NamesOfRow ==
    ASSUME NEW x \in Hanging
    PROVE  /\ x.table # "card_relations" => DOMAIN x.on = {1} /\ x.on = <<x.on[1]>> /\ x.on[1] \in Numbers
           /\ x.table = "card_relations" => /\ DOMAIN x.on = {1, 2} /\ x.on = <<x.on[1], x.on[2]>>
                                            /\ x.on[1] \in Numbers /\ x.on[2] \in Numbers
                                            /\ x.type \in Types
  <1>1. CASE x \in Singles
    <2>1. PICK n \in Numbers : x.on = <<n>>
      BY <1>1 DEF Singles, OneNumber
    <2>2. DOMAIN <<n>> = {1} /\ <<n>>[1] = n
      OBVIOUS
    <2>3. x.table # "card_relations"
      BY <1>1 DEF Singles
    <2> QED
      BY <2>1, <2>2, <2>3
  <1>2. CASE x \in Relations
    <2>1. x.on \in Numbers \X Numbers /\ x.table = "card_relations" /\ x.type \in Types
      BY <1>2 DEF Relations
    <2>2. PICK a \in Numbers, b \in Numbers : x.on = <<a, b>>
      BY <2>1
    <2>3. DOMAIN <<a, b>> = {1, 2} /\ <<a, b>>[1] = a /\ <<a, b>>[2] = b
      OBVIOUS
    <2> QED
      BY <2>1, <2>2, <2>3
  <1> QED
    BY <1>1, <1>2 DEF Hanging

\* A step in which one unit of work goes on and nothing is committed.
Quiet(r) ==
    /\ UNCHANGED <<card, rows, next, shown>> /\ calls' \in Nat
    /\ \E v \in Units :
          /\ tx' = [tx EXCEPT ![r] = v]
          /\ UnitOK(v)
          /\ v.pc = "commit" => \A s \in Requests \ {r} : Apart(v, tx[s])
          /\ ~Postgres /\ v.pc # "done" => \A s \in Requests \ {r} : tx[s].pc = "done"

LEMMA NotYetIsApart ==
    ASSUME NEW v, NEW w, v.pc # "commit"
    PROVE  Apart(v, w) /\ Apart(w, v)
  BY DEF Apart, Writes, Holds

LEMMA ApartBothWays ==
    ASSUME NEW v, NEW w, Apart(v, w)
    PROVE  Apart(w, v)
  BY DEF Apart

LEMMA QuietStep ==
    ASSUME TicketInv, NEW r \in Requests, Quiet(r)
    PROVE  TicketInv'
  <1>1. PICK v \in Units :
           /\ tx' = [tx EXCEPT ![r] = v]
           /\ UnitOK(v)
           /\ v.pc = "commit" => \A s \in Requests \ {r} : Apart(v, tx[s])
           /\ ~Postgres /\ v.pc # "done" => \A s \in Requests \ {r} : tx[s].pc = "done"
    BY DEF Quiet
  <1>2. TicketTypes /\ UNCHANGED <<card, rows, next, shown>> /\ calls' \in Nat
    BY DEF Quiet, TicketInv
  <1>3. /\ tx'[r] = v /\ \A s \in Requests : s # r => tx'[s] = tx[s]
        /\ tx' \in [Requests -> Units]
    BY <1>1, <1>2, TicketFrame
  <1>4. TicketTypes'
    BY <1>2, <1>3 DEF TicketTypes
  <1>5. ASSUME NEW s \in Requests PROVE UnitOK(tx[s])'
    <2>1. UnitOK(tx'[s])
      BY <1>1, <1>3 DEF TicketInv
    <2> QED
      BY <1>2, <2>1 DEF UnitOK, EditOK, CommentOK, RelateOK, UnrelateOK, DiscardOK, OnCard, Entry
  <1>6. ASSUME NEW s \in Requests, NEW w \in Requests, s # w PROVE Apart(tx[s], tx[w])'
    <2>1. Apart(tx'[s], tx'[w])
      <3>1. \A g \in Requests : g # r => Apart(v, tx[g]) /\ Apart(tx[g], v)
        BY <1>1, NotYetIsApart, ApartBothWays
      <3>2. s # r /\ w # r => Apart(tx[s], tx[w])
        BY <1>6 DEF TicketInv
      <3> QED
        BY <1>3, <1>6, <3>1, <3>2
    <2> QED
      BY <2>1 DEF Apart, Writes, Holds
  <1>7. Given' /\ RowsStand' /\ RowsMeant' /\ TrailBegun' /\ EntriesOnce'
    BY <1>2 DEF TicketInv, Given, RowsStand, RowsMeant, TrailBegun, EntriesOnce
  <1>8. Alone'
    BY <1>1, <1>3 DEF TicketInv, Alone
  <1> QED
    BY <1>4, <1>5, <1>6, <1>7, <1>8 DEF TicketInv

\* On SQLite an open unit of work is the only one.
LEMMA OthersDone ==
    ASSUME TicketInv, NEW r \in Requests, tx[r].pc # "done"
    PROVE  ~Postgres => \A s \in Requests \ {r} : tx[s].pc = "done"
  BY DEF TicketInv, Alone

LEMMA UnitNow ==
    ASSUME TicketInv, NEW r \in Requests
    PROVE  tx[r] \in Units /\ UnitOK(tx[r])
  BY DEF TicketInv, TicketTypes

\* A unit of work that does not commit yet, or that ends without committing.
LEMMA GoesOn ==
    ASSUME TicketInv, NEW r \in Requests, tx[r].pc # "done", D!Unchanged,
           NEW v \in Units, tx' = [tx EXCEPT ![r] = v], UnitOK(v), v.pc # "commit"
    PROVE  Quiet(r)
  <1>1. calls' \in Nat
    BY DEF TicketInv, TicketTypes, D!Unchanged
  <1>2. ~Postgres => \A s \in Requests \ {r} : tx[s].pc = "done"
    BY OthersDone
  <1> QED
    BY <1>1, <1>2 DEF Quiet, D!Unchanged

LEMMA Commits ==
    ASSUME TicketInv, NEW r \in Requests, tx[r].pc # "done", D!Unchanged,
           NEW v \in Units, tx' = [tx EXCEPT ![r] = v], UnitOK(v),
           \A s \in Requests \ {r} : Apart(v, tx[s])
    PROVE  Quiet(r)
  <1>1. calls' \in Nat
    BY DEF TicketInv, TicketTypes, D!Unchanged
  <1>2. ~Postgres => \A s \in Requests \ {r} : tx[s].pc = "done"
    BY OthersDone
  <1> QED
    BY <1>1, <1>2 DEF Quiet, D!Unchanged

LEMMA DoneQuiet ==
    ASSUME TicketInv, NEW r \in Requests, tx[r].pc # "done", D!Unchanged,
           NEW result \in {"ok", "missing", "conflict", "error"}, D!Done(r, result)
    PROVE  Quiet(r)
  <1> PICK v : v = [op |-> tx[r].op, pc |-> "done", result |-> result]
    OBVIOUS
  <1>1. v \in Units /\ tx' = [tx EXCEPT ![r] = v]
    BY DoneIs DEF TicketInv
  <1>2. v.pc = "done"
    OBVIOUS
  <1>3. UnitOK(v)
    BY <1>2 DEF UnitOK
  <1> QED
    BY <1>1, <1>2, <1>3, GoesOn

LEMMA BeginQuiet ==
    ASSUME TicketInv, NEW r \in Requests, NEW v \in Units, D!Begin(r, v),
           UnitOK(v), v.pc = "find"
    PROVE  Quiet(r)
  <1>1. calls' \in Nat
    BY DEF TicketInv, TicketTypes, D!Begin
  <1>2. ~Postgres => \A s \in Requests \ {r} : tx[s].pc = "done"
    BY DEF D!Begin, D!Others, D!Open
  <1> QED
    BY <1>1, <1>2 DEF Quiet, D!Begin

-----------------------------------------------------------------------------
\* The five calls begin.
LEMMA BeginsAreQuiet ==
    ASSUME TicketInv, NEW r \in Requests,
           D!Edit(r) \/ D!Comment(r) \/ D!Relate(r) \/ D!Unrelate(r) \/ D!Discard(r)
    PROVE  Quiet(r)
  <1>0. shown \subseteq Shows /\ calls \in Nat /\ rows \subseteq Hanging
    BY DEF TicketInv, TicketTypes
  <1>1. CASE D!Edit(r)
    <2>1. PICK s \in shown, draft \in BOOLEAN :
             D!Begin(r, [op |-> "edit", pc |-> "find", on |-> s.on, seen |-> s, copy |-> None,
                         draft |-> draft, id |-> calls])
      BY <1>1 DEF D!Edit
    <2> PICK v : v = [op |-> "edit", pc |-> "find", on |-> s.on, seen |-> s, copy |-> None,
                      draft |-> draft, id |-> calls]
      OBVIOUS
    <2>2. s \in Shows /\ s.on \in Numbers
      BY <1>0 DEF Shows
    <2>3. v \in EditUnits
      BY <1>0, <2>2 DEF EditUnits, Stages
    <2>4. UnitOK(v)
      BY DEF UnitOK, EditOK
    <2> QED
      BY <2>1, <2>3, <2>4, BeginQuiet DEF Units
  <1>2. CASE D!Comment(r)
    <2>1. PICK s \in shown :
             D!Begin(r, [op |-> "comment", pc |-> "find", on |-> s.on, seen |-> s, id |-> calls])
      BY <1>2 DEF D!Comment
    <2> PICK v : v = [op |-> "comment", pc |-> "find", on |-> s.on, seen |-> s, id |-> calls]
      OBVIOUS
    <2>2. s \in Shows /\ s.on \in Numbers
      BY <1>0 DEF Shows
    <2>3. v \in CommentUnits
      BY <1>0, <2>2 DEF CommentUnits, Stages
    <2>4. UnitOK(v)
      BY DEF UnitOK, CommentOK
    <2> QED
      BY <2>1, <2>3, <2>4, BeginQuiet DEF Units
  <1>3. CASE D!Relate(r)
    <2>1. PICK s \in shown, t \in shown, type \in Types :
             /\ s.on # t.on
             /\ D!Begin(r, [op |-> "relate", pc |-> "find", on |-> s.on, to |-> t.on,
                            both |-> <<s, t>>, type |-> type, id |-> calls])
      BY <1>3 DEF D!Relate
    <2> PICK v : v = [op |-> "relate", pc |-> "find", on |-> s.on, to |-> t.on,
                      both |-> <<s, t>>, type |-> type, id |-> calls]
      OBVIOUS
    <2>2. s \in Shows /\ s.on \in Numbers /\ t \in Shows /\ t.on \in Numbers
      BY <1>0 DEF Shows
    <2>3. v \in RelateUnits
      BY <1>0, <2>2 DEF RelateUnits, Stages
    <2>4. UnitOK(v)
      BY <2>1 DEF UnitOK, RelateOK
    <2> QED
      BY <2>1, <2>3, <2>4, BeginQuiet DEF Units
  <1>4. CASE D!Unrelate(r)
    <2>1. PICK x \in rows :
             /\ x.table = "card_relations"
             /\ D!Begin(r, [op |-> "unrelate", pc |-> "find", row |-> x, gone |-> {}])
      BY <1>4 DEF D!Unrelate, D!TableRows
    <2> PICK v : v = [op |-> "unrelate", pc |-> "find", row |-> x, gone |-> {}]
      OBVIOUS
    <2>3. v \in UnrelateUnits
      BY <1>0 DEF UnrelateUnits, Stages
    <2>4. UnitOK(v)
      BY <2>1 DEF UnitOK, UnrelateOK
    <2> QED
      BY <2>1, <2>3, <2>4, BeginQuiet DEF Units
  <1>5. CASE D!Discard(r)
    <2>1. PICK s \in shown :
             D!Begin(r, [op |-> "discard", pc |-> "find", on |-> s.on, seen |-> s, gone |-> {}])
      BY <1>5 DEF D!Discard
    <2> PICK v : v = [op |-> "discard", pc |-> "find", on |-> s.on, seen |-> s, gone |-> {}]
      OBVIOUS
    <2>2. s \in Shows /\ s.on \in Numbers
      BY <1>0 DEF Shows
    <2>3. v \in DiscardUnits
      BY <1>0, <2>2 DEF DiscardUnits
    <2>4. UnitOK(v)
      BY DEF UnitOK, DiscardOK
    <2> QED
      BY <2>1, <2>3, <2>4, BeginQuiet DEF Units
  <1> QED
    BY <1>1, <1>2, <1>3, <1>4, <1>5

-----------------------------------------------------------------------------
\* The finds, and the writes that do not take anything yet.

\* A unit of work by its kind.
LEMMA Kinds ==
    ASSUME TicketInv, NEW r \in Requests, tx[r].pc # "done"
    PROVE  /\ tx[r].op = "edit" => tx[r] \in EditUnits /\ EditOK(tx[r])
           /\ tx[r].op = "comment" => tx[r] \in CommentUnits /\ CommentOK(tx[r])
           /\ tx[r].op = "relate" => tx[r] \in RelateUnits /\ RelateOK(tx[r])
           /\ tx[r].op = "unrelate" => tx[r] \in UnrelateUnits /\ UnrelateOK(tx[r])
           /\ tx[r].op = "discard" => tx[r] \in DiscardUnits /\ DiscardOK(tx[r])
  <1>1. tx[r] \in Units /\ UnitOK(tx[r])
    BY UnitNow
  <1> QED
    BY <1>1, UnitIs DEF UnitOK

LEMMA FindsAreQuiet ==
    ASSUME TicketInv, NEW r \in Requests,
           D!EditFind(r) \/ D!CommentFind(r) \/ D!RelateFind(r) \/ D!UnrelateFind(r)
           \/ D!DiscardFind(r)
    PROVE  Quiet(r)
  <1>1. tx[r].pc = "find" /\ D!Unchanged
    BY DEF D!EditFind, D!CommentFind, D!RelateFind, D!UnrelateFind, D!DiscardFind, D!At
  <1>2. tx[r].pc # "done"
    BY <1>1
  <1>3. \A result \in {"ok", "missing", "conflict", "error"} : D!Done(r, result) => Quiet(r)
    BY <1>1, <1>2, DoneQuiet
  <1>4. tx \in [Requests -> Units] /\ card \in [Numbers -> CardRows \cup {None}]
    BY DEF TicketInv, TicketTypes
  <1>5. CASE D!EditFind(r)
    <2>1. tx[r] \in EditUnits /\ EditOK(tx[r])
      BY <1>2, <1>5, Kinds DEF D!EditFind, D!At
    <2>2. CASE D!Done(r, "missing") \/ D!Done(r, "conflict")
      BY <2>2, <1>3
    <2>3. CASE card[tx[r].on] # None /\ tx' = [tx EXCEPT ![r].pc = "write", ![r].copy = card[tx[r].on]]
      <3> PICK v : v = [tx[r] EXCEPT !.pc = "write", !.copy = card[tx[r].on]]
        OBVIOUS
      <3>1. tx[r].on \in Numbers
        BY <2>1 DEF EditUnits
      <3>2. card[tx[r].on] \in CardRows
        BY <1>4, <2>3, <3>1
      <3>3. v \in EditUnits /\ v.pc = "write" /\ v.op = "edit" /\ v.on = tx[r].on /\ v.seen = tx[r].seen
            /\ v.copy = card[tx[r].on]
        BY <2>1, <3>2 DEF EditUnits, Stages
      <3>4. UnitOK(v)
        BY <2>1, <3>2, <3>3 DEF UnitOK, EditOK
      <3>5. tx' = [tx EXCEPT ![r] = v]
        BY <2>3, <1>4
      <3> QED
        BY <1>1, <1>2, <3>3, <3>4, <3>5, GoesOn DEF Units
    <2> QED
      BY <1>5, <2>2, <2>3 DEF D!EditFind, D!Exists
  <1>6. CASE D!CommentFind(r)
    <2>1. tx[r] \in CommentUnits /\ CommentOK(tx[r])
      BY <1>2, <1>6, Kinds DEF D!CommentFind, D!At
    <2>2. CASE D!Done(r, "missing")
      BY <2>2, <1>3
    <2>3. CASE D!Go(r, "write")
      <3> PICK v : v = [tx[r] EXCEPT !.pc = "write"]
        OBVIOUS
      <3>1. v \in CommentUnits /\ v.pc = "write" /\ v.op = "comment" /\ v.on = tx[r].on /\ v.seen = tx[r].seen
        BY <2>1 DEF CommentUnits, Stages
      <3>2. UnitOK(v)
        BY <2>1, <3>1 DEF UnitOK, CommentOK
      <3>3. tx' = [tx EXCEPT ![r] = v]
        BY <2>3, <1>4 DEF D!Go
      <3> QED
        BY <1>1, <1>2, <3>1, <3>2, <3>3, GoesOn DEF Units
    <2> QED
      BY <1>6, <2>2, <2>3 DEF D!CommentFind
  <1>7. CASE D!RelateFind(r)
    <2>1. tx[r] \in RelateUnits /\ RelateOK(tx[r])
      BY <1>2, <1>7, Kinds DEF D!RelateFind, D!At
    <2>2. CASE D!Done(r, "missing") \/ D!Done(r, "conflict")
      BY <2>2, <1>3
    <2>3. CASE D!Go(r, "write")
      <3> PICK v : v = [tx[r] EXCEPT !.pc = "write"]
        OBVIOUS
      <3>1. v \in RelateUnits /\ v.pc = "write" /\ v.op = "relate" /\ v.on = tx[r].on /\ v.to = tx[r].to
            /\ v.both = tx[r].both
        BY <2>1 DEF RelateUnits, Stages
      <3>2. UnitOK(v)
        BY <2>1, <3>1 DEF UnitOK, RelateOK
      <3>3. tx' = [tx EXCEPT ![r] = v]
        BY <2>3, <1>4 DEF D!Go
      <3> QED
        BY <1>1, <1>2, <3>1, <3>2, <3>3, GoesOn DEF Units
    <2> QED
      BY <1>7, <2>2, <2>3 DEF D!RelateFind
  <1>8. CASE D!UnrelateFind(r)
    <2>1. tx[r] \in UnrelateUnits /\ UnrelateOK(tx[r])
      BY <1>2, <1>8, Kinds DEF D!UnrelateFind, D!At
    <2>2. CASE D!Done(r, "missing")
      BY <2>2, <1>3
    <2>3. CASE D!Go(r, "write")
      <3> PICK v : v = [tx[r] EXCEPT !.pc = "write"]
        OBVIOUS
      <3>1. v \in UnrelateUnits /\ v.pc = "write" /\ v.op = "unrelate" /\ v.gone = tx[r].gone
            /\ v.row = tx[r].row
        BY <2>1 DEF UnrelateUnits, Stages
      <3>2. UnitOK(v)
        BY <2>1, <3>1 DEF UnitOK, UnrelateOK
      <3>3. tx' = [tx EXCEPT ![r] = v]
        BY <2>3, <1>4 DEF D!Go
      <3> QED
        BY <1>1, <1>2, <3>1, <3>2, <3>3, GoesOn DEF Units
    <2> QED
      BY <1>8, <2>2, <2>3 DEF D!UnrelateFind
  <1>9. CASE D!DiscardFind(r)
    <2>1. tx[r] \in DiscardUnits /\ DiscardOK(tx[r])
      BY <1>2, <1>9, Kinds DEF D!DiscardFind, D!At
    <2>2. CASE D!Done(r, "missing") \/ D!Done(r, "conflict")
      BY <2>2, <1>3
    <2>3. CASE D!Go(r, "comments")
      <3> PICK v : v = [tx[r] EXCEPT !.pc = "comments"]
        OBVIOUS
      <3>1. v \in DiscardUnits /\ v.pc = "comments" /\ v.op = "discard" /\ v.gone = tx[r].gone
            /\ v.on = tx[r].on /\ v.seen = tx[r].seen
        BY <2>1 DEF DiscardUnits, Tables
      <3>2. UnitOK(v)
        BY <2>1, <3>1 DEF UnitOK, DiscardOK
      <3>3. tx' = [tx EXCEPT ![r] = v]
        BY <2>3, <1>4 DEF D!Go
      <3> QED
        BY <1>1, <1>2, <3>1, <3>2, <3>3, GoesOn DEF Units
    <2> QED
      BY <1>9, <2>2, <2>3 DEF D!DiscardFind
  <1> QED
    BY <1>5, <1>6, <1>7, <1>8, <1>9

LEMMA DiscardTableQuiet ==
    ASSUME TicketInv, NEW r \in Requests, D!DiscardTable(r)
    PROVE  Quiet(r)
  <1>1. tx[r].op = "discard" /\ tx[r].pc \in {"comments", "card_events", "card_relations"}
        /\ D!Unchanged
    BY DEF D!DiscardTable, D!NextTable
  <1>2. tx[r].pc # "done"
    BY <1>1
  <1>3. tx[r] \in DiscardUnits /\ DiscardOK(tx[r])
    BY <1>1, <1>2, Kinds
  <1>4. tx \in [Requests -> Units] /\ rows \subseteq Hanging
    BY DEF TicketInv, TicketTypes
  <1> PICK due : due = D!RowsToGo(tx[r].pc, tx[r].on)
    OBVIOUS
  <1> PICK p : p = D!NextTable[tx[r].pc]
    OBVIOUS
  <1>5. due \subseteq OnCard(tx[r].on)
    BY DEF D!RowsToGo, D!RowsOn, OnCard
  <1>6. p \in {"card_events", "card_relations", "cards"}
    BY <1>1 DEF D!NextTable
  <1> PICK v : v = [tx[r] EXCEPT !.pc = p, !.gone = tx[r].gone \cup due]
    OBVIOUS
  <1>7. v \in DiscardUnits /\ v.pc = p /\ v.op = "discard" /\ v.gone = tx[r].gone \cup due
        /\ v.on = tx[r].on /\ v.seen = tx[r].seen
    BY <1>3, <1>4, <1>5, <1>6 DEF DiscardUnits, Tables, OnCard
  <1>8. UnitOK(v)
    BY <1>3, <1>5, <1>6, <1>7 DEF UnitOK, DiscardOK, OnCard
  <1>9. tx' = [tx EXCEPT ![r] = v]
    BY <1>4 DEF D!DiscardTable
  <1> QED
    BY <1>1, <1>2, <1>6, <1>7, <1>8, <1>9, GoesOn DEF Units

-----------------------------------------------------------------------------
\* The statement that takes a row: it waits for whoever touches the same.

\* What the others hold, as the guards of the statements name it.
LEMMA HeldByOthers ==
    ASSUME NEW r \in Requests, NEW s \in Requests \ {r}
    PROVE  /\ s \in D!Others(r) => Writes(tx[s]) = D!Updating(s) \cup D!Deleting(s)
           /\ s \in D!Others(r) => Holds(tx[s]) = D!Holding(s)
           /\ s \in D!Others(r) /\ tx[s].op = "discard" => Writes(tx[s]) = D!Deleting(s)
           /\ s \notin D!Others(r) => Writes(tx[s]) = {} /\ Holds(tx[s]) = {} /\ tx[s].pc = "done"
  <1>1. s \in D!Others(r) <=> tx[s].pc # "done"
    BY DEF D!Others, D!Open
  <1>2. s \notin D!Others(r) => Writes(tx[s]) = {} /\ Holds(tx[s]) = {} /\ tx[s].pc = "done"
    BY <1>1 DEF Writes, Holds
  <1>3. Writes(tx[s]) = D!Updating(s) \cup D!Deleting(s)
    BY DEF Writes, D!Updating, D!Deleting, D!At
  <1>4. Holds(tx[s]) = D!Holding(s)
    BY DEF Holds, D!Holding, D!At
  <1>5. tx[s].op = "discard" => Writes(tx[s]) = D!Deleting(s)
    BY DEF Writes, D!Deleting, D!At
  <1> QED
    BY <1>2, <1>3, <1>4, <1>5

LEMMA EditWriteQuiet ==
    ASSUME TicketInv, NEW r \in Requests, D!EditWrite(r)
    PROVE  Quiet(r)
  <1>1. tx[r].pc = "write" /\ tx[r].op = "edit" /\ D!Unchanged
    BY DEF D!EditWrite, D!At
  <1>2. tx[r].pc # "done" /\ tx \in [Requests -> Units]
    BY <1>1 DEF TicketInv, TicketTypes
  <1>3. tx[r] \in EditUnits /\ EditOK(tx[r])
    BY <1>1, <1>2, Kinds
  <1>4. CASE D!Done(r, "missing")
    BY <1>1, <1>2, <1>4, DoneQuiet
  <1>5. CASE card[tx[r].on] # None /\ D!Go(r, "commit")
    <2> PICK v : v = [tx[r] EXCEPT !.pc = "commit"]
      OBVIOUS
    <2>1. v \in EditUnits /\ v.pc = "commit" /\ v.op = "edit" /\ v.on = tx[r].on /\ v.seen = tx[r].seen
          /\ v.copy = tx[r].copy
      BY <1>3 DEF EditUnits, Stages
    <2>2. UnitOK(v)
      BY <1>1, <1>3, <1>5, <2>1 DEF UnitOK, EditOK
    <2>3. tx' = [tx EXCEPT ![r] = v]
      BY <1>2, <1>5 DEF D!Go
    <2>4. ASSUME NEW s \in Requests \ {r} PROVE Apart(v, tx[s])
      <3>1. v.on \notin Writes(tx[s])
        BY <2>1, HeldByOthers DEF D!EditWrite
      <3>2. Writes(v) = {v.on} /\ Holds(v) = {}
        BY <2>1 DEF Writes, Holds
      <3> QED
        BY <2>1, <3>1, <3>2 DEF Apart
    <2> QED
      BY <1>1, <1>2, <2>1, <2>2, <2>3, <2>4, Commits DEF Units
  <1> QED
    BY <1>4, <1>5 DEF D!EditWrite, D!Exists

LEMMA CommentWriteQuiet ==
    ASSUME TicketInv, NEW r \in Requests, D!CommentWrite(r)
    PROVE  Quiet(r)
  <1>1. tx[r].pc = "write" /\ tx[r].op = "comment" /\ D!Unchanged
    BY DEF D!CommentWrite, D!At
  <1>2. tx[r].pc # "done" /\ tx \in [Requests -> Units]
    BY <1>1 DEF TicketInv, TicketTypes
  <1>3. tx[r] \in CommentUnits /\ CommentOK(tx[r])
    BY <1>1, <1>2, Kinds
  <1>4. CASE D!Done(r, "error")
    BY <1>1, <1>2, <1>4, DoneQuiet
  <1>5. CASE card[tx[r].on] # None /\ D!Go(r, "commit")
    <2> PICK v : v = [tx[r] EXCEPT !.pc = "commit"]
      OBVIOUS
    <2>1. v \in CommentUnits /\ v.pc = "commit" /\ v.op = "comment" /\ v.on = tx[r].on
          /\ v.seen = tx[r].seen
      BY <1>3 DEF CommentUnits, Stages
    <2>2. UnitOK(v)
      BY <1>1, <1>3, <1>5, <2>1 DEF UnitOK, CommentOK
    <2>3. tx' = [tx EXCEPT ![r] = v]
      BY <1>2, <1>5 DEF D!Go
    <2>4. ASSUME NEW s \in Requests \ {r} PROVE Apart(v, tx[s])
      <3>1. tx[s].op = "discard" => v.on \notin Writes(tx[s])
        BY <2>1, HeldByOthers DEF D!CommentWrite
      <3>2. Writes(v) = {} /\ Holds(v) = {v.on}
        BY <2>1 DEF Writes, Holds
      <3> QED
        BY <2>1, <3>1, <3>2 DEF Apart
    <2> QED
      BY <1>1, <1>2, <2>1, <2>2, <2>3, <2>4, Commits DEF Units
  <1> QED
    BY <1>4, <1>5 DEF D!CommentWrite, D!Exists

LEMMA RelateWriteQuiet ==
    ASSUME TicketInv, NEW r \in Requests, D!RelateWrite(r)
    PROVE  Quiet(r)
  <1>1. tx[r].pc = "write" /\ tx[r].op = "relate" /\ D!Unchanged
    BY DEF D!RelateWrite, D!At
  <1>2. tx[r].pc # "done" /\ tx \in [Requests -> Units]
    BY <1>1 DEF TicketInv, TicketTypes
  <1>3. tx[r] \in RelateUnits /\ RelateOK(tx[r])
    BY <1>1, <1>2, Kinds
  <1>4. CASE D!Done(r, "error")
    BY <1>1, <1>2, <1>4, DoneQuiet
  <1>5. CASE /\ card[tx[r].on] # None /\ card[tx[r].to] # None
             /\ ~D!Relation(tx[r].on, tx[r].to, tx[r].type) /\ D!Go(r, "commit")
    <2> PICK v : v = [tx[r] EXCEPT !.pc = "commit"]
      OBVIOUS
    <2>1. v \in RelateUnits /\ v.pc = "commit" /\ v.op = "relate" /\ v.on = tx[r].on /\ v.to = tx[r].to
          /\ v.both = tx[r].both /\ v.type = tx[r].type
      BY <1>3 DEF RelateUnits, Stages
    <2>2. \A x \in rows : x.table = "card_relations" => ~Entry(v, x)
      BY <1>5, <2>1 DEF D!Relation, D!TableRows, Entry
    <2>3. UnitOK(v)
      BY <1>1, <1>3, <1>5, <2>1, <2>2 DEF UnitOK, RelateOK
    <2>4. tx' = [tx EXCEPT ![r] = v]
      BY <1>2, <1>5 DEF D!Go
    <2>5. ASSUME NEW s \in Requests \ {r} PROVE Apart(v, tx[s])
      <3>1. tx[s].op = "discard" => {v.on, v.to} \cap Writes(tx[s]) = {}
        BY <2>1, HeldByOthers DEF D!RelateWrite
      <3>2. Writes(v) = {} /\ Holds(v) = {v.on, v.to}
        BY <2>1 DEF Writes, Holds
      <3>3. ~(tx[s].op = "relate" /\ tx[s].pc = "commit" /\ v.on = tx[s].on /\ v.to = tx[s].to
              /\ v.type = tx[s].type)
        BY <2>1, HeldByOthers DEF D!RelateWrite, D!SameEntry, D!At
      <3> QED
        BY <2>1, <3>1, <3>2, <3>3 DEF Apart
    <2> QED
      BY <1>1, <1>2, <2>1, <2>3, <2>4, <2>5, Commits DEF Units
  <1> QED
    BY <1>4, <1>5 DEF D!RelateWrite, D!Exists

LEMMA UnrelateWriteQuiet ==
    ASSUME TicketInv, NEW r \in Requests, D!UnrelateWrite(r)
    PROVE  Quiet(r)
  <1>1. tx[r].pc = "write" /\ tx[r].op = "unrelate" /\ D!Unchanged
    BY DEF D!UnrelateWrite, D!At
  <1>2. tx[r].pc # "done" /\ tx \in [Requests -> Units]
    BY <1>1 DEF TicketInv, TicketTypes
  <1>3. tx[r] \in UnrelateUnits /\ UnrelateOK(tx[r])
    BY <1>1, <1>2, Kinds
  <1> PICK v : v = [tx[r] EXCEPT !.pc = "commit", !.gone = {tx[r].row} \cap rows]
    OBVIOUS
  <1>4. v \in UnrelateUnits /\ v.op = "unrelate" /\ v.row = tx[r].row /\ v.gone = {tx[r].row} \cap rows
    BY <1>3 DEF UnrelateUnits, Stages
  <1>5. UnitOK(v)
    BY <1>3, <1>4 DEF UnitOK, UnrelateOK
  <1>6. tx' = [tx EXCEPT ![r] = v]
    BY <1>2 DEF D!UnrelateWrite
  <1>7. ASSUME NEW s \in Requests \ {r} PROVE Apart(v, tx[s])
    BY <1>4 DEF Apart, Writes, Holds
  <1> QED
    BY <1>1, <1>2, <1>4, <1>5, <1>6, <1>7, Commits DEF Units

LEMMA DiscardCardQuiet ==
    ASSUME TicketInv, NEW r \in Requests, D!DiscardCard(r)
    PROVE  Quiet(r)
  <1>1. tx[r].pc = "cards" /\ tx[r].op = "discard" /\ D!Unchanged
    BY DEF D!DiscardCard, D!At
  <1>2. tx[r].pc # "done" /\ tx \in [Requests -> Units]
    BY <1>1 DEF TicketInv, TicketTypes
  <1>3. tx[r] \in DiscardUnits /\ DiscardOK(tx[r])
    BY <1>1, <1>2, Kinds
  <1>4. CASE D!Done(r, "error")
    BY <1>1, <1>2, <1>4, DoneQuiet
  <1>5. CASE /\ card[tx[r].on] = None \/ D!RowsOn(tx[r].on) \ tx[r].gone = {}
             /\ D!Go(r, "commit")
    <2> PICK v : v = [tx[r] EXCEPT !.pc = "commit"]
      OBVIOUS
    <2>1. v \in DiscardUnits /\ v.pc = "commit" /\ v.op = "discard" /\ v.on = tx[r].on
          /\ v.seen = tx[r].seen /\ v.gone = tx[r].gone
      BY <1>3 DEF DiscardUnits
    <2>2. OnCard(v.on) \subseteq v.gone
      <3>1. CASE card[v.on] = None
        <4>1. RowsStand
          BY DEF TicketInv
        <4> QED
          BY <3>1, <4>1 DEF RowsStand, OnCard
      <3>2. CASE D!RowsOn(v.on) \ v.gone = {}
        BY <3>2 DEF D!RowsOn, OnCard
      <3> QED
        BY <1>5, <2>1, <3>1, <3>2
    <2>3. UnitOK(v)
      BY <1>3, <2>1, <2>2 DEF UnitOK, DiscardOK
    <2>4. tx' = [tx EXCEPT ![r] = v]
      BY <1>2, <1>5 DEF D!Go
    <2>5. ASSUME NEW s \in Requests \ {r} PROVE Apart(v, tx[s])
      <3>1. v.on \notin Writes(tx[s]) /\ v.on \notin Holds(tx[s])
        BY <2>1, HeldByOthers DEF D!DiscardCard
      <3>2. Writes(v) = {v.on} /\ Holds(v) = {}
        BY <2>1 DEF Writes, Holds
      <3> QED
        BY <2>1, <3>1, <3>2 DEF Apart
    <2> QED
      BY <1>1, <1>2, <2>1, <2>3, <2>4, <2>5, Commits DEF Units
  <1> QED
    BY <1>4, <1>5 DEF D!DiscardCard, D!Exists

-----------------------------------------------------------------------------
\* The commits.

\* A unit of work that committed is over, and the others did not move.
LEMMA Closes ==
    ASSUME TicketInv, NEW r \in Requests, tx[r].pc = "commit", D!Done(r, "ok")
    PROVE  /\ tx' \in [Requests -> Units] /\ tx'[r].pc = "done"
           /\ \A s \in Requests : s # r => tx'[s] = tx[s]
           /\ \A s, w \in Requests : s # w => Apart(tx[s], tx[w])'
           /\ Alone'
  <1> PICK v : v = [op |-> tx[r].op, pc |-> "done", result |-> "ok"]
    OBVIOUS
  <1>1. v \in Units /\ tx' = [tx EXCEPT ![r] = v]
    BY DoneIs DEF TicketInv
  <1>2. tx'[r] = v /\ \A s \in Requests : s # r => tx'[s] = tx[s]
    BY <1>1, TicketFrame DEF TicketInv
  <1>3. tx' \in [Requests -> Units]
    BY <1>1, TicketFrame DEF TicketInv
  <1>4. ASSUME NEW s \in Requests, NEW w \in Requests, s # w PROVE Apart(tx[s], tx[w])'
    <2>1. v.pc # "commit"
      OBVIOUS
    <2>2. s # r /\ w # r => Apart(tx[s], tx[w])
      BY <1>4 DEF TicketInv
    <2>3. Apart(tx'[s], tx'[w])
      BY <1>2, <1>4, <2>1, <2>2, NotYetIsApart
    <2> QED
      BY <2>3 DEF Apart, Writes, Holds
  <1>5. Alone'
    BY <1>2 DEF TicketInv, Alone
  <1> QED
    BY <1>2, <1>3, <1>4, <1>5

CardsStay ==
    /\ card' \in [Numbers -> CardRows \cup {None}]
    /\ \A n \in Numbers : /\ card'[n] = None <=> card[n] = None
                          /\ card'[n].born = card[n].born
ShownGrows ==
    /\ shown \subseteq shown' /\ shown' \subseteq Shows
    /\ \A t \in shown' \ shown : card[t.on] # None /\ card[t.on].born = t.born
RowsFit(r, new) ==
    \A x \in new : \A i \in DOMAIN x.on :
        /\ card[x.on[i]] # None
        /\ Postgres => card[x.on[i]].born = x.meant[i]
        /\ \A s \in Requests \ {r} :
              tx[s].op = "discard" /\ tx[s].pc = "commit" => tx[s].on # x.on[i]
NewEntry(r, new) ==
    \A x \in new : x.table = "card_relations" =>
        /\ \A s \in Requests \ {r} :
              tx[s].op = "relate" /\ tx[s].pc = "commit" => ~Entry(tx[s], x)
        /\ \A y \in new : y.table = "card_relations" => x = y
        /\ \A y \in rows : y.table = "card_relations" => x.on # y.on \/ x.type # y.type

\* A commit that adds rows, on cards that exist and no other unit of work is
\* about to remove; the cards keep their births.
LEMMA RowsAdded ==
    ASSUME None \notin CardRows,
           TicketInv, NEW r \in Requests, tx[r].pc = "commit", D!Done(r, "ok"),
           UNCHANGED <<next, calls>>, CardsStay, ShownGrows,
           NEW new \in SUBSET Hanging, rows' = rows \cup new, RowsFit(r, new), NewEntry(r, new)
    PROVE  TicketInv'
  <1>1. /\ tx' \in [Requests -> Units] /\ tx'[r].pc = "done"
        /\ \A s \in Requests : s # r => tx'[s] = tx[s]
        /\ \A s, w \in Requests : s # w => Apart(tx[s], tx[w])'
        /\ Alone'
    BY Closes
  <1> USE DEF CardsStay, ShownGrows, RowsFit, NewEntry
  <1>2. TicketTypes
    BY DEF TicketInv
  <1>3. TicketTypes'
    BY <1>1, <1>2 DEF TicketTypes
  <1>4. ASSUME NEW s \in Requests PROVE UnitOK(tx[s])'
    <2>1. CASE s = r
      BY <1>1, <2>1 DEF UnitOK
    <2>2. CASE s # r /\ tx[s].pc = "done"
      BY <1>1, <2>2 DEF UnitOK
    <2>3. CASE s # r /\ tx[s].pc # "done"
      <3>1. tx'[s] = tx[s]
        BY <1>1, <2>3
      <3>2. CASE tx[s].op = "edit"
        <4>1. tx[s] \in EditUnits /\ EditOK(tx[s])
          BY <2>3, <3>2, Kinds
        <4>2. tx[s].on \in Numbers
          BY <4>1 DEF EditUnits
        <4>3. EditOK(tx[s])'
          BY <3>1, <4>1, <4>2 DEF EditOK
        <4> QED
          BY <3>1, <3>2, <4>3 DEF UnitOK
      <3>3. CASE tx[s].op = "comment"
        <4>1. tx[s] \in CommentUnits /\ CommentOK(tx[s])
          BY <2>3, <3>3, Kinds
        <4>2. tx[s].on \in Numbers
          BY <4>1 DEF CommentUnits
        <4>3. CommentOK(tx[s])'
          BY <3>1, <4>1, <4>2 DEF CommentOK
        <4> QED
          BY <3>1, <3>3, <4>3 DEF UnitOK
      <3>4. CASE tx[s].op = "relate"
        <4>1. tx[s] \in RelateUnits /\ RelateOK(tx[s])
          BY <2>3, <3>4, Kinds
        <4>2. tx[s].on \in Numbers /\ tx[s].to \in Numbers
          BY <4>1 DEF RelateUnits
        <4>3. tx[s].pc = "commit" => \A x \in rows' : x.table = "card_relations" => ~Entry(tx[s], x)
          BY <2>3, <3>4, <4>1 DEF RelateOK
        <4>4. RelateOK(tx[s])'
          BY <3>1, <4>1, <4>2, <4>3 DEF RelateOK, Entry
        <4> QED
          BY <3>1, <3>4, <4>4 DEF UnitOK
      <3>5. CASE tx[s].op = "unrelate"
        BY <2>3, <3>1, <3>5, Kinds DEF UnitOK, UnrelateOK
      <3>6. CASE tx[s].op = "discard"
        <4>1. tx[s] \in DiscardUnits /\ DiscardOK(tx[s])
          BY <2>3, <3>6, Kinds
        <4>2. tx[s].pc = "commit" => OnCard(tx[s].on)' \subseteq tx[s].gone
          BY <2>3, <3>1, <3>6, <4>1 DEF DiscardOK, OnCard
        <4>3. DiscardOK(tx[s])'
          BY <3>1, <4>1, <4>2 DEF DiscardOK, OnCard
        <4> QED
          BY <3>1, <3>6, <4>3 DEF UnitOK
      <3>7. tx[s] \in Units
        BY UnitNow
      <3> QED
        BY <2>3, <3>2, <3>3, <3>4, <3>5, <3>6, <3>7, UnitIs
    <2> QED
      BY <2>1, <2>2, <2>3
  <1>5. \A x \in rows : \A i \in DOMAIN x.on : x.on[i] \in Numbers
    BY <1>2, NamesOfRow DEF TicketTypes
  <1>6. \A x \in new : \A i \in DOMAIN x.on : x.on[i] \in Numbers
    BY NamesOfRow
  <1>7. Given'
    <2>1. Given
      BY DEF TicketInv
    <2>2. \A s \in shown' : s.on \in Numbers
      BY DEF Shows
    <2> QED
      BY <2>1, <2>2 DEF Given
  <1>8. RowsStand'
    <2>1. RowsStand
      BY DEF TicketInv
    <2> QED
      BY <1>5, <1>6, <2>1 DEF RowsStand
  <1>9. RowsMeant'
    <2>1. RowsMeant
      BY DEF TicketInv
    <2> QED
      BY <1>5, <1>6, <2>1 DEF RowsMeant
  <1>10. TrailBegun'
    <2>1. TrailBegun
      BY DEF TicketInv
    <2>2. ASSUME NEW n \in Numbers, card'[n] # None
          PROVE  \E x \in rows' : x.table = "card_events" /\ x.on = <<n>> /\ x.id = card'[n].born
      <3>1. card[n] # None /\ card'[n].born = card[n].born
        BY <2>2
      <3>2. PICK x \in rows : x.table = "card_events" /\ x.on = <<n>> /\ x.id = card[n].born
        BY <2>1, <3>1 DEF TrailBegun
      <3> QED
        BY <3>1, <3>2
    <2> QED
      BY <2>2 DEF TrailBegun
  <1>11. EntriesOnce'
    <2>1. EntriesOnce
      BY DEF TicketInv
    <2>2. \A x \in new, y \in rows : x.table = "card_relations" /\ y.table = "card_relations" =>
             x.on # y.on \/ x.type # y.type
      OBVIOUS
    <2>3. \A x, y \in new : x.table = "card_relations" /\ y.table = "card_relations" => x = y
      OBVIOUS
    <2> QED
      BY <2>1, <2>2, <2>3 DEF EntriesOnce
  <1> QED
    BY <1>1, <1>3, <1>4, <1>7, <1>8, <1>9, <1>10, <1>11 DEF TicketInv

\* The event of a change, on the card it was made for.
EventOf(n, b, id) ==
    [table |-> "card_events", type |-> None, on |-> <<n>>, meant |-> <<b>>, id |-> id]

LEMMA EventIs ==
    ASSUME NEW n \in Numbers, NEW b \in Nat, NEW id \in Nat
    PROVE  LET ev == EventOf(n, b, id)
           IN  /\ ev \in Singles /\ ev.table = "card_events" /\ ev.on = <<n>> /\ ev.meant = <<b>>
               /\ ev.id = id
               /\ DOMAIN ev.on = {1} /\ ev.on[1] = n /\ ev.meant[1] = b
  <1> PICK ev : ev = EventOf(n, b, id)
    OBVIOUS
  <1>1. DOMAIN <<n>> = {1} /\ <<n>>[1] = n /\ <<b>>[1] = b
    OBVIOUS
  <1>2. ev.table = "card_events" /\ ev.type = None /\ ev.on = <<n>> /\ ev.meant = <<b>> /\ ev.id = id
    BY DEF EventOf
  <1>3. <<n>> \in OneNumber /\ <<b>> \in OneBirth
    BY DEF OneNumber, OneBirth
  <1>4. ev \in Singles
    BY <1>3 DEF Singles, EventOf
  <1> QED
    BY <1>1, <1>2, <1>4

LEMMA EventIsOf ==
    ASSUME NEW n, NEW b, NEW id
    PROVE  /\ [D!Event(n, b) EXCEPT !.id = id] = EventOf(n, b, id)
           /\ D!Event(n, b) = EventOf(n, b, calls)
  BY DEF D!Event, EventOf

\* On Postgres a card that exists under a number someone was shown is the one
\* he was shown.
LEMMA SeenIsTheCard ==
    ASSUME TicketInv, Postgres, NEW s \in shown, card[s.on] # None
    PROVE  card[s.on].born = s.born
  BY DEF TicketInv, Given

LEMMA EditCommitKeeps ==
    ASSUME None \notin CardRows, TicketInv, NEW r \in Requests, D!EditCommit(r)
    PROVE  TicketInv'
  <1>1. tx[r].pc = "commit" /\ tx[r].op = "edit" /\ D!Done(r, "ok") /\ UNCHANGED <<next, calls>>
    BY DEF D!EditCommit, D!At
  <1>2. tx[r].pc # "done" /\ TicketTypes
    BY <1>1 DEF TicketInv
  <1>3. tx[r] \in EditUnits /\ EditOK(tx[r])
    BY <1>1, <1>2, Kinds
  <1> PICK n : n = tx[r].on
    OBVIOUS
  <1> PICK kept : kept = tx[r].copy
    OBVIOUS
  <1>4. n \in Numbers /\ kept \in CardRows /\ card[n] # None /\ card[n].born = kept.born
        /\ tx[r].seen \in shown /\ tx[r].seen.on = n /\ tx[r].id \in Nat /\ tx[r].draft \in BOOLEAN
    BY <1>1, <1>3 DEF EditUnits, EditOK
  <1>17. PICK draft \in BOOLEAN : draft = (kept.draft /\ tx[r].draft)
    BY Zenon
  <1> PICK c : c = [born |-> kept.born, version |-> kept.version + 1, draft |-> draft]
    OBVIOUS
  <1>5. c \in CardRows /\ c.born = kept.born
    BY <1>4 DEF CardRows
  <1>6. card' = [card EXCEPT ![n] = c]
    <2>1. [kept EXCEPT !.version = kept.version + 1, !.draft = draft] = c
      <3>1. DOMAIN kept = {"born", "version", "draft"}
        BY <1>4 DEF CardRows
      <3>2. DOMAIN c = {"born", "version", "draft"}
        OBVIOUS
      <3>3. kept = [f \in DOMAIN kept |-> kept[f]]
        BY <1>4 DEF CardRows
      <3> PICK e : e = [kept EXCEPT !.version = kept.version + 1, !.draft = draft]
        OBVIOUS
      <3>4. e = [f \in DOMAIN e |-> e[f]] /\ DOMAIN e = DOMAIN kept
        OBVIOUS
      <3>5. e.born = c.born /\ e.version = c.version /\ e.draft = c.draft
        BY <3>1
      <3>6. c = [f \in DOMAIN c |-> c[f]]
        OBVIOUS
      <3> QED
        BY <3>1, <3>2, <3>4, <3>5, <3>6
    <2> QED
      BY <1>17, <2>1 DEF D!EditCommit
  <1>7. CardsStay
    BY <1>2, <1>4, <1>5, <1>6 DEF TicketTypes, CardsStay
  <1> PICK t : t = [on |-> n, born |-> kept.born, version |-> kept.version + 1]
    OBVIOUS
  <1>8. shown' = shown \cup {t} /\ t \in Shows /\ t.on = n /\ t.born = kept.born
    BY <1>4 DEF D!EditCommit, Shows, CardRows
  <1>9. shown' \subseteq Shows
    BY <1>2, <1>8 DEF TicketTypes
  <1> PICK ev : ev = EventOf(n, tx[r].seen.born, tx[r].id)
    OBVIOUS
  <1>10. tx[r].seen.born \in Nat
    BY <1>2, <1>4 DEF TicketTypes, Shows
  <1>11. /\ ev \in Singles /\ ev.table = "card_events" /\ DOMAIN ev.on = {1} /\ ev.on[1] = n
         /\ ev.meant[1] = tx[r].seen.born
    BY <1>4, <1>10, EventIs
  <1>12. rows' = rows \cup {ev} /\ {ev} \in SUBSET Hanging
    <2>1. rows' = rows \cup {[D!Event(n, tx[r].seen.born) EXCEPT !.id = tx[r].id]}
      BY Zenon DEF D!EditCommit
    <2>2. [D!Event(n, tx[r].seen.born) EXCEPT !.id = tx[r].id] = ev
      BY EventIsOf
    <2> QED
      BY <1>11, <2>1, <2>2 DEF Hanging
  <1>13. Postgres => card[n].born = tx[r].seen.born
    BY <1>4, SeenIsTheCard
  <1>14. ASSUME NEW s \in Requests \ {r}, tx[s].op = "discard", tx[s].pc = "commit"
         PROVE  tx[s].on # n
    <2>1. Apart(tx[s], tx[r])
      BY DEF TicketInv
    <2> QED
      BY <1>1, <1>14, <2>1 DEF Apart, Writes
  <1>15. ShownGrows
    BY <1>4, <1>8, <1>9 DEF ShownGrows
  <1>16. RowsFit(r, {ev})
    <2> SUFFICES ASSUME NEW x \in {ev}, NEW i \in DOMAIN x.on
                 PROVE  /\ card[x.on[i]] # None
                        /\ Postgres => card[x.on[i]].born = x.meant[i]
                        /\ \A s \in Requests \ {r} :
                              tx[s].op = "discard" /\ tx[s].pc = "commit" => tx[s].on # x.on[i]
      BY DEF RowsFit
    <2>1. x = ev
      OBVIOUS
    <2>2. i = 1
      BY <1>11, <2>1, Zenon
    <2>3. x.on[i] = n /\ x.meant[i] = tx[r].seen.born
      BY <1>11, <2>1, <2>2, Zenon
    <2> QED
      BY <1>4, <1>13, <1>14, <2>3
  <1>18. NewEntry(r, {ev})
    BY <1>11 DEF NewEntry
  <1> QED
    BY <1>1, <1>7, <1>12, <1>15, <1>16, <1>18, RowsAdded

LEMMA CommentCommitKeeps ==
    ASSUME None \notin CardRows, TicketInv, NEW r \in Requests, D!CommentCommit(r)
    PROVE  TicketInv'
  <1>1. tx[r].pc = "commit" /\ tx[r].op = "comment" /\ D!Done(r, "ok")
        /\ UNCHANGED <<card, shown, next, calls>>
    BY DEF D!CommentCommit, D!At
  <1>2. tx[r].pc # "done" /\ TicketTypes
    BY <1>1 DEF TicketInv
  <1>3. tx[r] \in CommentUnits /\ CommentOK(tx[r])
    BY <1>1, <1>2, Kinds
  <1> PICK n : n = tx[r].on
    OBVIOUS
  <1>4. n \in Numbers /\ card[n] # None
        /\ tx[r].seen \in shown /\ tx[r].seen.on = n /\ tx[r].id \in Nat
    BY <1>1, <1>3 DEF CommentUnits, CommentOK
  <1>5. CardsStay
    BY <1>1, <1>2 DEF TicketTypes, CardsStay
  <1>6. ShownGrows
    BY <1>1, <1>2 DEF TicketTypes, ShownGrows
  <1> PICK ev : ev = EventOf(n, tx[r].seen.born, tx[r].id)
    OBVIOUS
  <1> PICK com : com = [ev EXCEPT !.table = "comments"]
    OBVIOUS
  <1>7. tx[r].seen.born \in Nat
    BY <1>2, <1>4 DEF TicketTypes, Shows
  <1>8. /\ ev \in Singles /\ ev.table = "card_events" /\ DOMAIN ev.on = {1} /\ ev.on[1] = n
        /\ ev.meant[1] = tx[r].seen.born
    BY <1>4, <1>7, EventIs
  <1>9. com \in Singles /\ com.table = "comments" /\ com.on = ev.on /\ com.meant = ev.meant
    BY <1>8 DEF Singles
  <1> PICK new : new = {ev, com}
    OBVIOUS
  <1>10. rows' = rows \cup new /\ new \in SUBSET Hanging
    <2>1. [D!Event(tx[r].on, tx[r].seen.born) EXCEPT !.id = tx[r].id] = ev
      BY EventIsOf
    <2>2. rows' = rows \cup {ev, com}
      BY <2>1 DEF D!CommentCommit
    <2> QED
      BY <1>8, <1>9, <2>2 DEF Hanging
  <1>11. Postgres => card[n].born = tx[r].seen.born
    BY <1>4, SeenIsTheCard
  <1>12. ASSUME NEW s \in Requests \ {r}, tx[s].op = "discard", tx[s].pc = "commit"
         PROVE  tx[s].on # n
    <2>1. Apart(tx[s], tx[r])
      BY DEF TicketInv
    <2> QED
      BY <1>1, <1>12, <2>1 DEF Apart, Writes, Holds
  <1>13. \A x \in new : DOMAIN x.on = {1} /\ x.on[1] = n /\ x.meant[1] = tx[r].seen.born
                        /\ x.table # "card_relations"
    <2>1. TAKE x \in new
    <2>2. x = ev \/ x = com
      BY <2>1
    <2>3. CASE x = ev
      BY <1>8, <2>3
    <2>4. CASE x = com
      <3>1. x.on = ev.on /\ x.meant = ev.meant /\ x.table = "comments"
        BY <1>9, <2>4
      <3> QED
        BY <1>8, <3>1
    <2> QED
      BY <2>2, <2>3, <2>4
  <1>14. RowsFit(r, new)
    <2>1. ASSUME NEW x \in new, NEW i \in DOMAIN x.on
          PROVE  x.on[i] = n /\ x.meant[i] = tx[r].seen.born
      <3>1. DOMAIN x.on = {1} /\ x.on[1] = n /\ x.meant[1] = tx[r].seen.born
        BY <1>13, Zenon
      <3>2. i = 1
        BY <3>1, Zenon
      <3> QED
        BY <3>1, <3>2, Zenon
    <2> QED
      BY <1>4, <1>11, <1>12, <2>1, ZenonT(60) DEF RowsFit
  <1>15. NewEntry(r, new)
    BY <1>13 DEF NewEntry
  <1> QED
    BY <1>1, <1>5, <1>6, <1>10, <1>14, <1>15, RowsAdded

LEMMA RelateCommitKeeps ==
    ASSUME None \notin CardRows, TicketInv, NEW r \in Requests, D!RelateCommit(r)
    PROVE  TicketInv'
  <1>1. tx[r].pc = "commit" /\ tx[r].op = "relate" /\ D!Done(r, "ok")
        /\ UNCHANGED <<card, shown, next, calls>>
    BY DEF D!RelateCommit, D!At
  <1>2. tx[r].pc # "done" /\ TicketTypes
    BY <1>1 DEF TicketInv
  <1>3. tx[r] \in RelateUnits /\ RelateOK(tx[r])
    BY <1>1, <1>2, Kinds
  <1> PICK a : a = tx[r].on
    OBVIOUS
  <1> PICK b : b = tx[r].to
    OBVIOUS
  <1> PICK p : p = tx[r].both[1]
    OBVIOUS
  <1> PICK q : q = tx[r].both[2]
    OBVIOUS
  <1>4. /\ a \in Numbers /\ b \in Numbers /\ card[a] # None /\ card[b] # None
        /\ p \in shown /\ q \in shown /\ p.on = a /\ q.on = b
        /\ tx[r].id \in Nat /\ tx[r].type \in Types
        /\ \A y \in rows : y.table = "card_relations" => ~Entry(tx[r], y)
    BY <1>1, <1>3 DEF RelateUnits, RelateOK
  <1>5. CardsStay
    BY <1>1, <1>2 DEF TicketTypes, CardsStay
  <1>6. ShownGrows
    BY <1>1, <1>2 DEF TicketTypes, ShownGrows
  <1> PICK x : x = [table |-> "card_relations", type |-> tx[r].type, on |-> <<a, b>>,
                    meant |-> <<p.born, q.born>>, id |-> tx[r].id]
    OBVIOUS
  <1>7. p.born \in Nat /\ q.born \in Nat
    BY <1>2, <1>4 DEF TicketTypes, Shows
  <1>8. /\ x.table = "card_relations" /\ x.type = tx[r].type /\ x.on = <<a, b>>
        /\ DOMAIN x.on = {1, 2} /\ x.on[1] = a /\ x.on[2] = b
        /\ x.meant[1] = p.born /\ x.meant[2] = q.born
    OBVIOUS
  <1>9. x \in Hanging
    BY <1>4, <1>7 DEF Hanging, Relations
  <1>10. rows' = rows \cup {x} /\ {x} \in SUBSET Hanging
    BY <1>9 DEF D!RelateCommit
  <1>11. Postgres => card[a].born = p.born /\ card[b].born = q.born
    BY <1>4, SeenIsTheCard
  <1>12. ASSUME NEW s \in Requests \ {r}, tx[s].op = "discard", tx[s].pc = "commit"
         PROVE  tx[s].on # a /\ tx[s].on # b
    <2>1. Apart(tx[s], tx[r])
      BY DEF TicketInv
    <2> QED
      BY <1>1, <1>12, <2>1 DEF Apart, Writes, Holds
  <1>13. ASSUME NEW s \in Requests \ {r}, tx[s].op = "relate", tx[s].pc = "commit"
         PROVE  ~Entry(tx[s], x)
    <2>1. Apart(tx[s], tx[r])
      BY DEF TicketInv
    <2>2. ~(tx[s].on = a /\ tx[s].to = b /\ tx[s].type = tx[r].type)
      BY <1>1, <1>13, <2>1 DEF Apart
    <2>3. <<tx[s].on, tx[s].to>> = <<a, b>> => tx[s].on = a /\ tx[s].to = b
      OBVIOUS
    <2> QED
      BY <1>8, <2>2, <2>3 DEF Entry
  <1>14. \A y \in rows : y.table = "card_relations" => x.on # y.on \/ x.type # y.type
    BY <1>4, <1>8 DEF Entry
  <1>15. RowsFit(r, {x})
    BY <1>4, <1>8, <1>11, <1>12 DEF RowsFit
  <1>16. NewEntry(r, {x})
    BY <1>13, <1>14 DEF NewEntry
  <1> QED
    BY <1>1, <1>5, <1>6, <1>10, <1>15, <1>16, RowsAdded

\* A commit that removes rows: those of one entry between two cards, or all
\* that names a card that goes with them.
Goes(r) == IF tx[r].op = "discard" THEN {tx[r].on} ELSE {}
LEMMA RowsRemoved ==
    ASSUME None \notin CardRows, TicketInv, NEW r \in Requests,
           tx[r].pc = "commit", tx[r].op \in {"unrelate", "discard"}, D!Done(r, "ok"),
           UNCHANGED <<next, shown, calls>>, rows' = rows \ tx[r].gone,
           card' = [n \in Numbers |-> IF n \in Goes(r) THEN None ELSE card[n]]
    PROVE  TicketInv'
  <1>1. /\ tx' \in [Requests -> Units] /\ tx'[r].pc = "done"
        /\ \A s \in Requests : s # r => tx'[s] = tx[s]
        /\ \A s, w \in Requests : s # w => Apart(tx[s], tx[w])'
        /\ Alone'
    BY Closes
  <1>2. TicketTypes
    BY DEF TicketInv
  <1>3. TicketTypes'
    BY <1>1, <1>2 DEF TicketTypes
  <1>4. /\ tx[r].op = "unrelate" => tx[r] \in UnrelateUnits /\ UnrelateOK(tx[r])
        /\ tx[r].op = "discard" => tx[r] \in DiscardUnits /\ DiscardOK(tx[r])
    BY Kinds
  <1>5. ASSUME NEW n \in Numbers
        PROVE  /\ card'[n] # None => card[n] # None /\ card'[n] = card[n] /\ n \notin Goes(r)
               /\ n \notin Goes(r) => card'[n] = card[n]
    BY <1>5
  <1>6. ASSUME NEW s \in Requests \ {r} PROVE Goes(r) \cap (Writes(tx[s]) \cup Holds(tx[s])) = {}
    <2>1. Apart(tx[r], tx[s])
      BY DEF TicketInv
    <2> QED
      BY <2>1 DEF Apart, Writes, Goes
  <1>7. ASSUME NEW s \in Requests PROVE UnitOK(tx[s])'
    <2>1. CASE s = r
      BY <1>1, <2>1 DEF UnitOK
    <2>2. CASE s # r /\ tx[s].pc = "done"
      BY <1>1, <2>2 DEF UnitOK
    <2>3. CASE s # r /\ tx[s].pc # "done"
      <3>1. tx'[s] = tx[s]
        BY <1>1, <2>3
      <3>2. CASE tx[s].op = "edit"
        <4>1. tx[s] \in EditUnits /\ EditOK(tx[s])
          BY <2>3, <3>2, Kinds
        <4>2. tx[s].on \in Numbers
          BY <4>1 DEF EditUnits
        <4>3. tx[s].pc = "commit" => tx[s].on \notin Goes(r)
          BY <1>6, <2>3, <3>2 DEF Writes
        <4>4. EditOK(tx[s])'
          BY <1>5, <3>1, <4>1, <4>2, <4>3 DEF EditOK
        <4> QED
          BY <3>1, <3>2, <4>4 DEF UnitOK
      <3>3. CASE tx[s].op = "comment"
        <4>1. tx[s] \in CommentUnits /\ CommentOK(tx[s])
          BY <2>3, <3>3, Kinds
        <4>2. tx[s].on \in Numbers
          BY <4>1 DEF CommentUnits
        <4>3. tx[s].pc = "commit" => tx[s].on \notin Goes(r)
          BY <1>6, <2>3, <3>3 DEF Holds
        <4>4. CommentOK(tx[s])'
          BY <1>5, <3>1, <4>1, <4>2, <4>3 DEF CommentOK
        <4> QED
          BY <3>1, <3>3, <4>4 DEF UnitOK
      <3>4. CASE tx[s].op = "relate"
        <4>1. tx[s] \in RelateUnits /\ RelateOK(tx[s])
          BY <2>3, <3>4, Kinds
        <4>2. tx[s].on \in Numbers /\ tx[s].to \in Numbers
          BY <4>1 DEF RelateUnits
        <4>3. tx[s].pc = "commit" => tx[s].on \notin Goes(r) /\ tx[s].to \notin Goes(r)
          BY <1>6, <2>3, <3>4 DEF Holds
        <4>4. RelateOK(tx[s])'
          BY <1>5, <3>1, <4>1, <4>2, <4>3 DEF RelateOK, Entry
        <4> QED
          BY <3>1, <3>4, <4>4 DEF UnitOK
      <3>5. CASE tx[s].op = "unrelate"
        BY <2>3, <3>1, <3>5, Kinds DEF UnitOK, UnrelateOK
      <3>6. CASE tx[s].op = "discard"
        <4>1. tx[s] \in DiscardUnits /\ DiscardOK(tx[s])
          BY <2>3, <3>6, Kinds
        <4>2. DiscardOK(tx[s])'
          BY <3>1, <4>1 DEF DiscardOK, OnCard
        <4> QED
          BY <3>1, <3>6, <4>2 DEF UnitOK
      <3>7. tx[s] \in Units
        BY UnitNow
      <3> QED
        BY <2>3, <3>2, <3>3, <3>4, <3>5, <3>6, <3>7, UnitIs
    <2> QED
      BY <2>1, <2>2, <2>3
  <1>8. \A x \in rows : \A i \in DOMAIN x.on : x.on[i] \in Numbers
    BY <1>2, NamesOfRow DEF TicketTypes
  <1>9. \A x \in rows' : \A i \in DOMAIN x.on : x.on[i] \in Numbers /\ x.on[i] \notin Goes(r)
    <2>1. tx[r].op = "discard" => OnCard(tx[r].on) \subseteq tx[r].gone
      BY <1>4 DEF DiscardOK
    <2> QED
      BY <1>8, <2>1 DEF OnCard, Goes
  <1>10. Given'
    <2>1. Given
      BY DEF TicketInv
    <2>2. \A s \in shown : s.on \in Numbers
      BY <1>2 DEF TicketTypes, Shows
    <2> QED
      BY <1>5, <2>1, <2>2 DEF Given
  <1>11. RowsStand'
    <2>1. RowsStand
      BY DEF TicketInv
    <2> QED
      BY <1>5, <1>9, <2>1 DEF RowsStand
  <1>12. RowsMeant'
    <2>1. RowsMeant
      BY DEF TicketInv
    <2> QED
      BY <1>5, <1>9, <2>1 DEF RowsMeant
  <1>13. TrailBegun'
    <2>1. TrailBegun
      BY DEF TicketInv
    <2>2. ASSUME NEW n \in Numbers, card'[n] # None
          PROVE  \E x \in rows' : x.table = "card_events" /\ x.on = <<n>> /\ x.id = card'[n].born
      <3>1. card[n] # None /\ card'[n] = card[n] /\ n \notin Goes(r)
        BY <1>5, <2>2
      <3>2. PICK x \in rows : x.table = "card_events" /\ x.on = <<n>> /\ x.id = card[n].born
        BY <2>1, <3>1 DEF TrailBegun
      <3>3. x \notin tx[r].gone
        <4>1. CASE tx[r].op = "unrelate"
          BY <1>4, <3>2, <4>1 DEF UnrelateOK
        <4>2. CASE tx[r].op = "discard"
          <5>1. n # tx[r].on
            BY <3>1, <4>2 DEF Goes
          <5>2. DOMAIN <<n>> = {1} /\ <<n>>[1] = n
            OBVIOUS
          <5> QED
            BY <1>4, <3>2, <4>2, <5>1, <5>2 DEF DiscardOK
        <4> QED
          BY <4>1, <4>2
      <3> QED
        BY <3>1, <3>2, <3>3
    <2> QED
      BY <2>2 DEF TrailBegun
  <1>14. EntriesOnce'
    <2>1. EntriesOnce
      BY DEF TicketInv
    <2> QED
      BY <2>1 DEF EntriesOnce
  <1> QED
    BY <1>1, <1>3, <1>7, <1>10, <1>11, <1>12, <1>13, <1>14 DEF TicketInv

LEMMA RemovalsKeep ==
    ASSUME None \notin CardRows, TicketInv, NEW r \in Requests,
           D!UnrelateCommit(r) \/ D!DiscardCommit(r)
    PROVE  TicketInv'
  <1>1. card \in [Numbers -> CardRows \cup {None}]
    BY DEF TicketInv, TicketTypes
  <1>2. CASE D!UnrelateCommit(r)
    <2>1. /\ tx[r].pc = "commit" /\ tx[r].op = "unrelate" /\ D!Done(r, "ok")
          /\ UNCHANGED <<next, shown, calls>> /\ rows' = rows \ tx[r].gone /\ card' = card
      BY <1>2 DEF D!UnrelateCommit, D!At
    <2>2. Goes(r) = {}
      BY <2>1 DEF Goes
    <2>3. card' = [n \in Numbers |-> IF n \in Goes(r) THEN None ELSE card[n]]
      BY <1>1, <2>1, <2>2
    <2> QED
      BY <2>1, <2>3, RowsRemoved
  <1>3. CASE D!DiscardCommit(r)
    <2>1. /\ tx[r].pc = "commit" /\ tx[r].op = "discard" /\ D!Done(r, "ok")
          /\ UNCHANGED <<next, shown, calls>> /\ rows' = rows \ tx[r].gone
          /\ card' = [card EXCEPT ![tx[r].on] = None]
      BY <1>3 DEF D!DiscardCommit, D!At
    <2>2. Goes(r) = {tx[r].on}
      BY <2>1 DEF Goes
    <2>3. card' = [n \in Numbers |-> IF n \in Goes(r) THEN None ELSE card[n]]
      BY <1>1, <2>1, <2>2
    <2> QED
      BY <2>1, <2>3, RowsRemoved
  <1> QED
    BY <1>2, <1>3

\* A card is made under a number nobody on Postgres was shown, and on SQLite
\* while no unit of work is open.
LEMMA CreateKeeps ==
    ASSUME None \notin CardRows, Numbers \subseteq Nat, TicketInv, D!Create
    PROVE  TicketInv'
  <1> PICK n : n = D!NextNumber
    OBVIOUS
  <1> PICK c : c = [born |-> calls, version |-> 1, draft |-> TRUE]
    OBVIOUS
  <1> PICK t : t = [on |-> n, born |-> calls, version |-> 1]
    OBVIOUS
  <1> PICK ev : ev = EventOf(n, calls, calls)
    OBVIOUS
  <1>1. /\ n \in Numbers /\ tx' = tx /\ next' = next + 1 /\ calls' = calls + 1
        /\ card' = [card EXCEPT ![n] = c] /\ shown' = shown \cup {t}
        /\ ~Postgres => \A r \in Requests : tx[r].pc = "done"
    BY DEF D!Create, D!Open
  <1>2. rows' = rows \cup {ev}
    BY EventIsOf DEF D!Create
  <1>3. TicketTypes
    BY DEF TicketInv
  <1>4. calls \in Nat /\ next \in Nat /\ card \in [Numbers -> CardRows \cup {None}]
        /\ shown \subseteq Shows /\ rows \subseteq Hanging
    BY <1>3 DEF TicketTypes
  <1>5. c \in CardRows /\ c.born = calls /\ c # None
    <2>1. c \in CardRows
      <3>1. calls \in Nat /\ 1 \in Nat /\ TRUE \in BOOLEAN
        BY <1>4
      <3> QED
        BY <3>1, Zenon DEF CardRows
    <2>2. c.born = calls
      OBVIOUS
    <2> QED
      BY <2>1, <2>2
  <1>6. t \in Shows /\ t.on = n /\ t.born = calls
    BY <1>1, <1>4 DEF Shows
  <1>7. /\ ev \in Singles /\ ev.table = "card_events" /\ ev.on = <<n>> /\ ev.id = calls
        /\ DOMAIN ev.on = {1} /\ ev.on[1] = n /\ ev.meant[1] = calls
    <2>1. n \in Numbers /\ calls \in Nat
      BY <1>1, <1>4
    <2> HIDE DEF EventOf
    <2> QED
      BY <2>1, EventIs
  <1>8. TicketTypes'
    BY <1>1, <1>2, <1>3, <1>5, <1>6, <1>7 DEF TicketTypes, Hanging
  <1>9. card'[n] = c /\ \A m \in Numbers : m # n => card'[m] = card[m]
    BY <1>1, <1>4
  <1>10. Postgres => n = next /\ card[n] = None /\ \A s \in shown : s.on # n /\ s.on < next
    <2>1. Given
      BY DEF TicketInv
    <2>2. Postgres => n = next
      BY DEF D!NextNumber
    <2> QED
      BY <1>1, <1>4, <2>1, <2>2 DEF Given
  <1>11. ASSUME NEW r \in Requests PROVE UnitOK(tx[r])'
    <2>1. CASE tx[r].pc = "done"
      BY <1>1, <2>1 DEF UnitOK
    <2>2. CASE tx[r].pc # "done"
      <3>0. Postgres /\ \A s \in shown : s.on # n
        BY <1>1, <1>10, <2>2
      <3>1. tx'[r] = tx[r]
        BY <1>1
      <3>2. CASE tx[r].op = "edit"
        <4>1. tx[r] \in EditUnits /\ EditOK(tx[r])
          BY <2>2, <3>2, Kinds
        <4>2. tx[r].on \in Numbers /\ tx[r].on # n
          BY <3>0, <4>1 DEF EditUnits, EditOK
        <4>3. EditOK(tx[r])'
          BY <1>1, <1>9, <3>1, <4>1, <4>2 DEF EditOK
        <4> QED
          BY <3>1, <3>2, <4>3 DEF UnitOK
      <3>3. CASE tx[r].op = "comment"
        <4>1. tx[r] \in CommentUnits /\ CommentOK(tx[r])
          BY <2>2, <3>3, Kinds
        <4>2. tx[r].on \in Numbers /\ tx[r].on # n
          BY <3>0, <4>1 DEF CommentUnits, CommentOK
        <4>3. CommentOK(tx[r])'
          BY <1>1, <1>9, <3>1, <4>1, <4>2 DEF CommentOK
        <4> QED
          BY <3>1, <3>3, <4>3 DEF UnitOK
      <3>4. CASE tx[r].op = "relate"
        <4>1. tx[r] \in RelateUnits /\ RelateOK(tx[r])
          BY <2>2, <3>4, Kinds
        <4>2. tx[r].on \in Numbers /\ tx[r].on # n /\ tx[r].to \in Numbers /\ tx[r].to # n
          BY <3>0, <4>1 DEF RelateUnits, RelateOK
        <4>3. tx[r].pc = "commit" => \A x \in rows' : x.table = "card_relations" => ~Entry(tx[r], x)
          BY <1>2, <1>7, <4>1 DEF RelateOK
        <4>4. RelateOK(tx[r])'
          BY <1>1, <1>9, <3>1, <4>1, <4>2, <4>3 DEF RelateOK, Entry
        <4> QED
          BY <3>1, <3>4, <4>4 DEF UnitOK
      <3>5. CASE tx[r].op = "unrelate"
        BY <2>2, <3>1, <3>5, Kinds DEF UnitOK, UnrelateOK
      <3>6. CASE tx[r].op = "discard"
        <4>1. tx[r] \in DiscardUnits /\ DiscardOK(tx[r])
          BY <2>2, <3>6, Kinds
        <4>2. tx[r].on # n
          BY <3>0, <4>1 DEF DiscardOK
        <4>3. tx[r].pc = "commit" => OnCard(tx[r].on)' \subseteq tx[r].gone
          BY <1>2, <1>7, <3>1, <4>1, <4>2 DEF DiscardOK, OnCard
        <4>4. DiscardOK(tx[r])'
          BY <1>1, <3>1, <4>1, <4>3 DEF DiscardOK, OnCard
        <4> QED
          BY <3>1, <3>6, <4>4 DEF UnitOK
      <3>7. tx[r] \in Units
        BY UnitNow
      <3> QED
        BY <2>2, <3>2, <3>3, <3>4, <3>5, <3>6, <3>7, UnitIs
    <2> QED
      BY <2>1, <2>2
  <1>12. \A r, s \in Requests : r # s => Apart(tx[r], tx[s])'
    BY <1>1 DEF TicketInv, Apart, Writes, Holds
  <1>13. Alone'
    BY <1>1 DEF TicketInv, Alone
  <1>14. Given'
    <2>1. Given
      BY DEF TicketInv
    <2>2. \A s \in shown : s.on \in Numbers
      BY <1>4 DEF Shows
    <2>3. ASSUME Postgres, NEW s \in shown'
          PROVE  s.on < next' /\ (card'[s.on] # None => card'[s.on].born = s.born)
      <3>1. CASE s \in shown
        <4>1. s.on < next /\ s.on # n /\ s.on \in Nat
          BY <1>10, <2>2, <2>3, <3>1
        <4> QED
          BY <1>1, <1>4, <1>9, <2>1, <2>2, <2>3, <3>1, <4>1 DEF Given
      <3>2. CASE s = t
        BY <1>1, <1>4, <1>5, <1>6, <1>9, <1>10, <2>3, <3>2
      <3> QED
        BY <1>1, <3>1, <3>2
    <2>4. ASSUME Postgres, NEW m \in Numbers, card'[m] # None PROVE m < next'
      <3>1. CASE m = n
        BY <1>1, <1>4, <1>10, <2>4, <3>1
      <3>2. CASE m # n
        BY <1>1, <1>4, <1>9, <2>1, <2>4, <3>2 DEF Given
      <3> QED
        BY <3>1, <3>2
    <2> QED
      BY <2>3, <2>4 DEF Given
  <1>15. \A x \in rows : \A i \in DOMAIN x.on : x.on[i] \in Numbers
    BY <1>4, NamesOfRow
  <1>16. RowsStand'
    <2>1. RowsStand
      BY DEF TicketInv
    <2>2. ASSUME NEW x \in rows', NEW i \in DOMAIN x.on PROVE card'[x.on[i]] # None
      <3>1. CASE x \in rows
        BY <1>5, <1>9, <1>15, <2>1, <2>2, <3>1 DEF RowsStand
      <3>2. CASE x = ev
        BY <1>5, <1>7, <1>9, <2>2, <3>2
      <3> QED
        BY <1>2, <3>1, <3>2
    <2> QED
      BY <2>2 DEF RowsStand
  <1>17. RowsMeant'
    <2>1. RowsMeant /\ RowsStand
      BY DEF TicketInv
    <2>2. ASSUME Postgres, NEW x \in rows', NEW i \in DOMAIN x.on
          PROVE  card'[x.on[i]].born = x.meant[i]
      <3>1. CASE x \in rows
        <4>1. card[x.on[i]] # None /\ x.on[i] \in Numbers
          BY <1>15, <2>1, <2>2, <3>1 DEF RowsStand
        <4>2. x.on[i] # n
          BY <1>10, <2>2, <4>1
        <4> QED
          BY <1>9, <2>1, <2>2, <3>1, <4>1, <4>2 DEF RowsMeant
      <3>2. CASE x = ev
        BY <1>5, <1>7, <1>9, <2>2, <3>2
      <3> QED
        BY <1>2, <3>1, <3>2
    <2> QED
      BY <2>2 DEF RowsMeant
  <1>18. TrailBegun'
    <2>1. TrailBegun
      BY DEF TicketInv
    <2>2. ASSUME NEW m \in Numbers, card'[m] # None
          PROVE  \E x \in rows' : x.table = "card_events" /\ x.on = <<m>> /\ x.id = card'[m].born
      <3>1. CASE m = n
        BY <1>2, <1>5, <1>7, <1>9, <3>1
      <3>2. CASE m # n
        <4>1. card'[m] = card[m]
          BY <1>9, <3>2
        <4>2. PICK x \in rows : x.table = "card_events" /\ x.on = <<m>> /\ x.id = card[m].born
          BY <2>1, <2>2, <4>1 DEF TrailBegun
        <4> QED
          BY <1>2, <4>1, <4>2
      <3> QED
        BY <3>1, <3>2
    <2> QED
      BY <2>2 DEF TrailBegun
  <1>19. EntriesOnce'
    <2>1. EntriesOnce
      BY DEF TicketInv
    <2> QED
      BY <1>2, <1>7, <2>1 DEF EntriesOnce
  <1> QED
    BY <1>8, <1>11, <1>12, <1>13, <1>14, <1>16, <1>17, <1>18, <1>19 DEF TicketInv

LEMMA TicketInit ==
    ASSUME D!Init
    PROVE  TicketInv
  <1>1. card = [n \in Numbers |-> None] /\ rows = {} /\ next = 1 /\ shown = {} /\ calls = 0
        /\ tx = [r \in Requests |-> D!Idle]
    BY DEF D!Init
  <1>2. D!Idle \in Units /\ D!Idle.pc = "done" /\ D!Idle.op = None
    BY DEF D!Idle, Units, EndedUnits
  <1>3. TicketTypes
    BY <1>1, <1>2 DEF TicketTypes
  <1>4. \A r \in Requests : tx[r].pc = "done" /\ tx[r] = D!Idle
    BY <1>1, <1>2
  <1>5. \A r \in Requests : UnitOK(tx[r])
    BY <1>4 DEF UnitOK
  <1>6. \A r, s \in Requests : Apart(tx[r], tx[s])
    BY <1>4, NotYetIsApart
  <1>7. Given /\ RowsStand /\ RowsMeant /\ TrailBegun /\ EntriesOnce
    BY <1>1 DEF Given, RowsStand, RowsMeant, TrailBegun, EntriesOnce
  <1>8. Alone
    BY <1>4 DEF Alone
  <1> QED
    BY <1>3, <1>5, <1>6, <1>7, <1>8 DEF TicketInv

LEMMA TicketNext ==
    ASSUME None \notin CardRows, Numbers \subseteq Nat, TicketInv, [D!Next]_(D!vars)
    PROVE  TicketInv'
  <1>1. CASE D!Create
    BY <1>1, CreateKeeps
  <1>2. ASSUME NEW r \in Requests,
               D!Edit(r) \/ D!Comment(r) \/ D!Relate(r) \/ D!Unrelate(r) \/ D!Discard(r)
        PROVE  TicketInv'
    BY <1>2, BeginsAreQuiet, QuietStep
  <1>3. ASSUME NEW r \in Requests, D!Step(r) PROVE TicketInv'
    <2>1. CASE D!EditFind(r) \/ D!CommentFind(r) \/ D!RelateFind(r) \/ D!UnrelateFind(r)
               \/ D!DiscardFind(r)
      BY <2>1, FindsAreQuiet, QuietStep
    <2>2. CASE D!EditWrite(r)
      BY <2>2, EditWriteQuiet, QuietStep
    <2>3. CASE D!CommentWrite(r)
      BY <2>3, CommentWriteQuiet, QuietStep
    <2>4. CASE D!RelateWrite(r)
      BY <2>4, RelateWriteQuiet, QuietStep
    <2>5. CASE D!UnrelateWrite(r)
      BY <2>5, UnrelateWriteQuiet, QuietStep
    <2>6. CASE D!DiscardTable(r)
      BY <2>6, DiscardTableQuiet, QuietStep
    <2>7. CASE D!DiscardCard(r)
      BY <2>7, DiscardCardQuiet, QuietStep
    <2>8. CASE D!EditCommit(r)
      BY <2>8, EditCommitKeeps
    <2>9. CASE D!CommentCommit(r)
      BY <2>9, CommentCommitKeeps
    <2>10. CASE D!RelateCommit(r)
      BY <2>10, RelateCommitKeeps
    <2>11. CASE D!UnrelateCommit(r) \/ D!DiscardCommit(r)
      BY <2>11, RemovalsKeep
    <2> QED
      BY <1>3, <2>1, <2>2, <2>3, <2>4, <2>5, <2>6, <2>7, <2>8, <2>9, <2>10, <2>11, Zenon
         DEF D!Step
  <1>4. CASE UNCHANGED D!vars
    BY <1>4 DEF D!vars, TicketInv, TicketTypes, UnitOK, EditOK, CommentOK, RelateOK, UnrelateOK,
         DiscardOK, OnCard, Entry, Apart, Writes, Holds, Given, Alone, RowsStand, RowsMeant,
         TrailBegun, EntriesOnce
  <1> QED
    BY <1>1, <1>2, <1>3, <1>4, Zenon DEF D!Next

\* Whatever the order in which the statements of several units of work come:
\* what hangs on a card names cards that exist, a card has the event of its
\* creation, the unique index is never violated, and on Postgres what someone
\* did to a card is on the card he saw (CardService, CommentService,
\* CardRelationService, hardDelete, card_ids).
THEOREM TicketsHoldTogether ==
    None \notin CardRows /\ Numbers \subseteq Nat /\ D!Spec =>
        [](/\ RowsStand /\ D!TrailBeginsAtCreation /\ D!RelatedOnceEachWay
           /\ Postgres => D!MeantForThisCard)
  <1> SUFFICES ASSUME None \notin CardRows, Numbers \subseteq Nat
               PROVE  D!Spec =>
                        [](/\ RowsStand /\ D!TrailBeginsAtCreation /\ D!RelatedOnceEachWay
                           /\ Postgres => D!MeantForThisCard)
    OBVIOUS
  <1>1. D!Init => TicketInv
    BY TicketInit
  <1>2. TicketInv /\ [D!Next]_(D!vars) => TicketInv'
    BY TicketNext
  <1>3. TicketInv =>
           /\ RowsStand /\ D!TrailBeginsAtCreation /\ D!RelatedOnceEachWay
           /\ Postgres => D!MeantForThisCard
    <2> SUFFICES ASSUME TicketInv
                 PROVE  /\ RowsStand /\ D!TrailBeginsAtCreation /\ D!RelatedOnceEachWay
                        /\ Postgres => D!MeantForThisCard
      OBVIOUS
    <2>1. RowsStand /\ TrailBegun /\ EntriesOnce /\ RowsMeant
      BY DEF TicketInv
    <2>2. D!TrailBeginsAtCreation
      BY <2>1 DEF TrailBegun, D!TrailBeginsAtCreation, D!Exists, D!TableRows
    <2>3. D!RelatedOnceEachWay
      BY <2>1 DEF EntriesOnce, D!RelatedOnceEachWay, D!TableRows
    <2>4. Postgres => D!MeantForThisCard
      BY <2>1 DEF RowsMeant, D!MeantForThisCard
    <2> QED
      BY <2>1, <2>2, <2>3, <2>4
  <1> QED
    BY <1>1, <1>2, <1>3, PTL DEF D!Spec

-----------------------------------------------------------------------------
(* One unit of work at a time: the SQLite adapter.                           *)

\* What a find saw still holds at the end: nobody else was open in between.
NoDuplicate(v) ==
    \A x \in rows : x.table = "card_relations" /\ x.type = v.type =>
        x.on # <<v.on, v.to>> /\ (v.type \in Symmetric => x.on # <<v.to, v.on>>)
Collected(v, table) == \A x \in rows : x.table = table /\ x \in OnCard(v.on) => x \in v.gone
Discarding(v) ==
    /\ card[v.on] # None /\ card[v.on].version = v.seen.version /\ card[v.on].draft
    /\ v.pc \in {"card_events", "card_relations", "cards", "commit"} => Collected(v, "comments")
    /\ v.pc \in {"card_relations", "cards", "commit"} => Collected(v, "card_events")
    /\ v.pc \in {"cards", "commit"} => Collected(v, "card_relations")
UnitAlone(v) ==
    /\ v.op = "relate" /\ v.pc \in {"write", "commit"} => NoDuplicate(v)
    /\ v.op = "discard" /\ v.pc \notin {"find", "done"} => Discarding(v)
    /\ v.op = "discard" /\ v.pc = "done" => v.result # "error"
AloneInv == TicketInv /\ (\A r \in Requests : UnitAlone(tx[r])) /\ D!RelatedOnce

\* A step that commits nothing, of the one that is open.
LEMMA AloneQuiet ==
    ASSUME AloneInv, NEW r \in Requests, NEW v \in Units, UnitAlone(v),
           tx' = [tx EXCEPT ![r] = v], UNCHANGED <<card, rows>>
    PROVE  (\A s \in Requests : UnitAlone(tx[s])') /\ D!RelatedOnce'
  <1>1. tx'[r] = v /\ \A s \in Requests : s # r => tx'[s] = tx[s]
    BY TicketFrame DEF AloneInv, TicketInv
  <1>2. ASSUME NEW s \in Requests PROVE UnitAlone(tx[s])'
    <2>1. UnitAlone(tx'[s])
      BY <1>1 DEF AloneInv
    <2> QED
      BY <2>1 DEF UnitAlone, NoDuplicate, Discarding, Collected, OnCard
  <1>3. D!RelatedOnce'
    BY DEF AloneInv, D!RelatedOnce, D!TableRows
  <1> QED
    BY <1>2, <1>3

\* A commit of the one that is open.
LEMMA AloneCommit ==
    ASSUME AloneInv, ~Postgres, NEW r \in Requests, tx[r].pc = "commit", D!Done(r, "ok")
    PROVE  \A s \in Requests : UnitAlone(tx[s])'
  <1>1. tx[r].pc # "done"
    OBVIOUS
  <1>2. \A s \in Requests \ {r} : tx[s].pc = "done"
    BY <1>1, OthersDone DEF AloneInv
  <1> PICK v : v = [op |-> tx[r].op, pc |-> "done", result |-> "ok"]
    OBVIOUS
  <1>3. v \in Units /\ tx' = [tx EXCEPT ![r] = v]
    BY <1>1, DoneIs DEF AloneInv, TicketInv
  <1>4. tx'[r] = v /\ \A s \in Requests : s # r => tx'[s] = tx[s]
    BY <1>3, TicketFrame DEF AloneInv, TicketInv
  <1>5. v.pc = "done" /\ v.result = "ok"
    OBVIOUS
  <1> QED
    BY <1>2, <1>4, <1>5 DEF AloneInv, UnitAlone

LEMMA AloneDone ==
    ASSUME AloneInv, NEW r \in Requests, tx[r].pc # "done", D!Unchanged,
           NEW result \in {"ok", "missing", "conflict", "error"}, D!Done(r, result),
           tx[r].op = "discard" => result # "error"
    PROVE  (\A s \in Requests : UnitAlone(tx[s])') /\ D!RelatedOnce'
  <1> PICK v : v = [op |-> tx[r].op, pc |-> "done", result |-> result]
    OBVIOUS
  <1>1. v \in Units /\ tx' = [tx EXCEPT ![r] = v]
    BY DoneIs DEF AloneInv, TicketInv
  <1>2. v.pc = "done" /\ v.op = tx[r].op /\ v.result = result
    OBVIOUS
  <1>3. UnitAlone(v)
    BY <1>2 DEF UnitAlone
  <1> QED
    BY <1>1, <1>3, AloneQuiet DEF D!Unchanged

LEMMA NoNewEntry ==
    ASSUME D!RelatedOnce, \A x \in rows' : x.table = "card_relations" => x \in rows
    PROVE  D!RelatedOnce'
  BY DEF D!RelatedOnce, D!TableRows

\* Where a call begins, and the steps that only move on.
LEMMA AloneGo ==
    ASSUME AloneInv, NEW r \in Requests, tx[r].pc # "done", D!Unchanged,
           NEW stage, D!Go(r, stage), NEW v, v = [tx[r] EXCEPT !.pc = stage], v \in Units, UnitAlone(v)
    PROVE  (\A s \in Requests : UnitAlone(tx[s])') /\ D!RelatedOnce'
  <1>1. tx' = [tx EXCEPT ![r] = v]
    BY DEF D!Go, AloneInv, TicketInv, TicketTypes
  <1> QED
    BY <1>1, AloneQuiet DEF D!Unchanged

LEMMA AloneBegins ==
    ASSUME AloneInv, NEW r \in Requests,
           D!Edit(r) \/ D!Comment(r) \/ D!Relate(r) \/ D!Unrelate(r) \/ D!Discard(r), TicketInv'
    PROVE  (\A s \in Requests : UnitAlone(tx[s])') /\ D!RelatedOnce'
  <1>1. PICK v : D!Begin(r, v) /\ v.pc = "find"
    <2>1. CASE D!Edit(r)
      BY <2>1 DEF D!Edit
    <2>2. CASE D!Comment(r)
      BY <2>2 DEF D!Comment
    <2>3. CASE D!Relate(r)
      BY <2>3 DEF D!Relate
    <2>4. CASE D!Unrelate(r)
      BY <2>4 DEF D!Unrelate
    <2>5. CASE D!Discard(r)
      BY <2>5 DEF D!Discard
    <2> QED
      BY <2>1, <2>2, <2>3, <2>4, <2>5
  <1>2. tx' = [tx EXCEPT ![r] = v] /\ UNCHANGED <<card, rows>>
    BY <1>1 DEF D!Begin
  <1>3. v \in Units
    BY <1>2 DEF AloneInv, TicketInv, TicketTypes
  <1>4. UnitAlone(v)
    BY <1>1 DEF UnitAlone
  <1> QED
    BY <1>2, <1>3, <1>4, AloneQuiet

LEMMA AloneFinds ==
    ASSUME AloneInv, NEW r \in Requests,
           D!EditFind(r) \/ D!CommentFind(r) \/ D!RelateFind(r) \/ D!UnrelateFind(r)
           \/ D!DiscardFind(r)
    PROVE  (\A s \in Requests : UnitAlone(tx[s])') /\ D!RelatedOnce'
  <1>1. tx[r].pc = "find" /\ D!Unchanged
    BY DEF D!EditFind, D!CommentFind, D!RelateFind, D!UnrelateFind, D!DiscardFind, D!At
  <1>2. tx[r].pc # "done" /\ TicketInv
    BY <1>1 DEF AloneInv
  <1>3. CASE D!Done(r, "missing") \/ D!Done(r, "conflict")
    BY <1>1, <1>2, <1>3, AloneDone
  <1>4. tx \in [Requests -> Units] /\ UNCHANGED <<card, rows>>
    BY <1>1, <1>2 DEF TicketInv, TicketTypes, D!Unchanged
  <1>5. CASE D!EditFind(r) /\ tx' = [tx EXCEPT ![r].pc = "write", ![r].copy = card[tx[r].on]]
             /\ card[tx[r].on] # None
    <2>1. tx[r] \in EditUnits
      BY <1>2, <1>5, Kinds DEF D!EditFind, D!At
    <2> PICK v : v = [tx[r] EXCEPT !.pc = "write", !.copy = card[tx[r].on]]
      OBVIOUS
    <2>2. tx[r].on \in Numbers
      BY <2>1 DEF EditUnits
    <2>3. card[tx[r].on] \in CardRows
      BY <1>2, <1>5, <2>2 DEF TicketInv, TicketTypes
    <2>4. v \in EditUnits /\ v.op = "edit"
      BY <2>1, <2>3 DEF EditUnits, Stages
    <2>5. UnitAlone(v)
      BY <2>4 DEF UnitAlone
    <2>6. tx' = [tx EXCEPT ![r] = v]
      BY <1>4, <1>5
    <2> QED
      BY <1>4, <2>4, <2>5, <2>6, AloneQuiet DEF Units
  <1>6. CASE D!CommentFind(r) /\ D!Go(r, "write")
    <2>1. tx[r] \in CommentUnits
      BY <1>2, <1>6, Kinds DEF D!CommentFind, D!At
    <2> PICK v : v = [tx[r] EXCEPT !.pc = "write"]
      OBVIOUS
    <2>2. v \in CommentUnits /\ v.op = "comment"
      BY <2>1 DEF CommentUnits, Stages
    <2>3. UnitAlone(v)
      BY <2>2 DEF UnitAlone
    <2> QED
      BY <1>1, <1>2, <1>6, <2>2, <2>3, AloneGo DEF Units
  <1>7. CASE D!RelateFind(r) /\ D!Go(r, "write") /\ ~D!Duplicate(tx[r].on, tx[r].to, tx[r].type)
    <2>1. tx[r] \in RelateUnits
      BY <1>2, <1>7, Kinds DEF D!RelateFind, D!At
    <2> PICK v : v = [tx[r] EXCEPT !.pc = "write"]
      OBVIOUS
    <2>2. v \in RelateUnits /\ v.op = "relate" /\ v.on = tx[r].on /\ v.to = tx[r].to
          /\ v.type = tx[r].type
      BY <2>1 DEF RelateUnits, Stages
    <2>3. NoDuplicate(v)
      BY <1>7, <2>2 DEF NoDuplicate, D!Duplicate, D!Relation, D!TableRows
    <2>4. UnitAlone(v)
      BY <2>2, <2>3 DEF UnitAlone
    <2> QED
      BY <1>1, <1>2, <1>7, <2>2, <2>4, AloneGo DEF Units
  <1>8. CASE D!UnrelateFind(r) /\ D!Go(r, "write")
    <2>1. tx[r] \in UnrelateUnits
      BY <1>2, <1>8, Kinds DEF D!UnrelateFind, D!At
    <2> PICK v : v = [tx[r] EXCEPT !.pc = "write"]
      OBVIOUS
    <2>2. v \in UnrelateUnits /\ v.op = "unrelate"
      BY <2>1 DEF UnrelateUnits, Stages
    <2>3. UnitAlone(v)
      BY <2>2 DEF UnitAlone
    <2> QED
      BY <1>1, <1>2, <1>8, <2>2, <2>3, AloneGo DEF Units
  <1>9. CASE /\ D!DiscardFind(r) /\ D!Go(r, "comments") /\ card[tx[r].on] # None
             /\ card[tx[r].on].version = tx[r].seen.version /\ card[tx[r].on].draft
    <2>1. tx[r] \in DiscardUnits
      BY <1>2, <1>9, Kinds DEF D!DiscardFind, D!At
    <2> PICK v : v = [tx[r] EXCEPT !.pc = "comments"]
      OBVIOUS
    <2>2. v \in DiscardUnits /\ v.op = "discard" /\ v.on = tx[r].on /\ v.pc = "comments"
          /\ v.seen = tx[r].seen
      BY <2>1 DEF DiscardUnits, Tables
    <2>3. UnitAlone(v)
      BY <1>9, <2>2 DEF UnitAlone, Discarding
    <2> QED
      BY <1>1, <1>2, <1>9, <2>2, <2>3, AloneGo DEF Units
  <1>10. D!EditFind(r) => \/ D!Done(r, "missing") \/ D!Done(r, "conflict")
                          \/ (tx' = [tx EXCEPT ![r].pc = "write", ![r].copy = card[tx[r].on]]
                              /\ card[tx[r].on] # None)
    BY DEF D!EditFind, D!Exists
  <1>11. D!RelateFind(r) => \/ D!Done(r, "missing") \/ D!Done(r, "conflict")
                            \/ (D!Go(r, "write") /\ ~D!Duplicate(tx[r].on, tx[r].to, tx[r].type))
    BY DEF D!RelateFind
  <1>12. D!DiscardFind(r) => \/ D!Done(r, "missing") \/ D!Done(r, "conflict")
                             \/ (D!Go(r, "comments") /\ card[tx[r].on] # None
                                 /\ card[tx[r].on].version = tx[r].seen.version
                                 /\ card[tx[r].on].draft)
    BY Zenon DEF D!DiscardFind, D!Exists
  <1>13. D!CommentFind(r) \/ D!UnrelateFind(r) => D!Done(r, "missing") \/ D!Go(r, "write")
    BY DEF D!CommentFind, D!UnrelateFind
  <1> QED
    BY <1>3, <1>5, <1>6, <1>7, <1>8, <1>9, <1>10, <1>11, <1>12, <1>13, Zenon

LEMMA AloneWrites ==
    ASSUME AloneInv, NEW r \in Requests,
           D!EditWrite(r) \/ D!CommentWrite(r) \/ D!RelateWrite(r) \/ D!UnrelateWrite(r)
    PROVE  (\A s \in Requests : UnitAlone(tx[s])') /\ D!RelatedOnce'
  <1>1. tx[r].pc = "write" /\ tx[r].op # "discard" /\ D!Unchanged
    BY DEF D!EditWrite, D!CommentWrite, D!RelateWrite, D!UnrelateWrite, D!At
  <1>2. tx[r].pc # "done" /\ TicketInv /\ UnitAlone(tx[r])
    BY <1>1 DEF AloneInv
  <1>3. CASE D!Done(r, "missing") \/ D!Done(r, "error")
    BY <1>1, <1>2, <1>3, AloneDone
  <1>4. CASE D!EditWrite(r) /\ D!Go(r, "commit")
    <2>1. tx[r] \in EditUnits /\ EditOK(tx[r])
      BY <1>2, <1>4, Kinds DEF D!EditWrite, D!At
    <2> PICK v : v = [tx[r] EXCEPT !.pc = "commit"]
      OBVIOUS
    <2>2. v \in EditUnits /\ v.op = "edit"
      BY <2>1 DEF EditUnits, Stages
    <2>3. UnitAlone(v)
      BY <2>2 DEF UnitAlone
    <2> QED
      BY <1>1, <1>2, <1>4, <2>2, <2>3, AloneGo DEF Units
  <1>5. CASE D!CommentWrite(r) /\ D!Go(r, "commit")
    <2>1. tx[r] \in CommentUnits
      BY <1>2, <1>5, Kinds DEF D!CommentWrite, D!At
    <2> PICK v : v = [tx[r] EXCEPT !.pc = "commit"]
      OBVIOUS
    <2>2. v \in CommentUnits /\ v.op = "comment"
      BY <2>1 DEF CommentUnits, Stages
    <2>3. UnitAlone(v)
      BY <2>2 DEF UnitAlone
    <2> QED
      BY <1>1, <1>2, <1>5, <2>2, <2>3, AloneGo DEF Units
  <1>6. CASE D!RelateWrite(r) /\ D!Go(r, "commit")
    <2>1. tx[r] \in RelateUnits /\ tx[r].op = "relate"
      BY <1>2, <1>6, Kinds DEF D!RelateWrite, D!At
    <2>2. NoDuplicate(tx[r])
      BY <1>1, <1>2, <2>1 DEF UnitAlone
    <2> PICK v : v = [tx[r] EXCEPT !.pc = "commit"]
      OBVIOUS
    <2>3. v \in RelateUnits /\ v.op = "relate" /\ v.on = tx[r].on /\ v.to = tx[r].to
          /\ v.type = tx[r].type
      BY <2>1 DEF RelateUnits, Stages
    <2>4. NoDuplicate(v)
      BY <2>2, <2>3 DEF NoDuplicate
    <2>5. UnitAlone(v)
      BY <2>3, <2>4 DEF UnitAlone
    <2> QED
      BY <1>1, <1>2, <1>6, <2>3, <2>5, AloneGo DEF Units
  <1>7. CASE D!UnrelateWrite(r)
    <2>1. tx[r] \in UnrelateUnits
      BY <1>2, <1>7, Kinds DEF D!UnrelateWrite, D!At
    <2> PICK v : v = [tx[r] EXCEPT !.pc = "commit", !.gone = {tx[r].row} \cap rows]
      OBVIOUS
    <2>2. v \in UnrelateUnits /\ v.op = "unrelate"
      BY <2>1 DEF UnrelateUnits, Stages
    <2>3. UnitAlone(v)
      BY <2>2 DEF UnitAlone
    <2>4. tx' = [tx EXCEPT ![r] = v]
      BY <1>2, <1>7 DEF D!UnrelateWrite, TicketInv, TicketTypes
    <2> QED
      BY <1>1, <2>2, <2>3, <2>4, AloneQuiet DEF Units, D!Unchanged
  <1>8. D!EditWrite(r) => D!Done(r, "missing") \/ D!Go(r, "commit")
    BY DEF D!EditWrite
  <1>9. D!CommentWrite(r) => D!Done(r, "error") \/ D!Go(r, "commit")
    BY DEF D!CommentWrite
  <1>10. D!RelateWrite(r) => D!Done(r, "error") \/ D!Go(r, "commit")
    BY DEF D!RelateWrite
  <1> QED
    BY <1>3, <1>4, <1>5, <1>6, <1>7, <1>8, <1>9, <1>10, Zenon

LEMMA AloneCollects ==
    ASSUME AloneInv, NEW r \in Requests, D!DiscardTable(r)
    PROVE  (\A s \in Requests : UnitAlone(tx[s])') /\ D!RelatedOnce'
  <1>1. tx[r].op = "discard" /\ tx[r].pc \in {"comments", "card_events", "card_relations"}
        /\ D!Unchanged
    BY DEF D!DiscardTable, D!NextTable
  <1>2. tx[r].pc # "done" /\ TicketInv
    BY <1>1 DEF AloneInv
  <1>3. tx[r] \in DiscardUnits
    BY <1>1, <1>2, Kinds
  <1>4. Discarding(tx[r])
    <2>1. UnitAlone(tx[r])
      BY DEF AloneInv
    <2> QED
      BY <1>1, <2>1 DEF UnitAlone
  <1>5. tx \in [Requests -> Units] /\ rows \subseteq Hanging
    BY <1>2 DEF TicketInv, TicketTypes
  <1> PICK table : table = tx[r].pc
    OBVIOUS
  <1> PICK due : due = D!RowsToGo(table, tx[r].on)
    OBVIOUS
  <1> PICK p : p = D!NextTable[table]
    OBVIOUS
  <1>6. due = {x \in rows : x.table = table /\ x \in OnCard(tx[r].on)}
    BY DEF D!RowsToGo, D!RowsOn, D!TableRows, OnCard
  <1>7. /\ table = "comments" => p = "card_events"
        /\ table = "card_events" => p = "card_relations"
        /\ table = "card_relations" => p = "cards"
    BY DEF D!NextTable
  <1> PICK v : v = [tx[r] EXCEPT !.pc = p, !.gone = tx[r].gone \cup due]
    OBVIOUS
  <1>8. v.pc = p /\ v.op = "discard" /\ v.gone = tx[r].gone \cup due
        /\ v.on = tx[r].on /\ v.seen = tx[r].seen
    BY <1>1, <1>3 DEF DiscardUnits
  <1>9. v \in DiscardUnits
    BY <1>1, <1>3, <1>5, <1>6, <1>7 DEF DiscardUnits, Tables
  <1>10. \A t : Collected(tx[r], t) => Collected(v, t)
    BY <1>8 DEF Collected
  <1>11. Collected(v, table)
    BY <1>6, <1>8 DEF Collected
  <1>12. Discarding(v)
    <2>1. card[v.on] # None /\ card[v.on].version = v.seen.version /\ card[v.on].draft
      BY <1>4, <1>8 DEF Discarding
    <2>2. CASE table = "comments"
      BY <1>7, <1>8, <1>11, <2>1, <2>2 DEF Discarding
    <2>3. CASE table = "card_events"
      <3>1. Collected(v, "comments")
        BY <1>4, <1>10, <2>3 DEF Discarding
      <3> QED
        BY <1>7, <1>8, <1>11, <2>1, <2>3, <3>1 DEF Discarding
    <2>4. CASE table = "card_relations"
      <3>1. Collected(v, "comments") /\ Collected(v, "card_events")
        BY <1>4, <1>10, <2>4 DEF Discarding
      <3> QED
        BY <1>7, <1>8, <1>11, <2>1, <2>4, <3>1 DEF Discarding
    <2> QED
      BY <1>1, <2>2, <2>3, <2>4
  <1>13. UnitAlone(v)
    BY <1>1, <1>7, <1>8, <1>12 DEF UnitAlone
  <1>14. tx' = [tx EXCEPT ![r] = v]
    BY <1>5 DEF D!DiscardTable
  <1> QED
    BY <1>1, <1>9, <1>13, <1>14, AloneQuiet DEF Units, D!Unchanged

\* The last statement of a discard finds nothing left that names the card.
LEMMA AloneDiscardCard ==
    ASSUME AloneInv, NEW r \in Requests, D!DiscardCard(r)
    PROVE  (\A s \in Requests : UnitAlone(tx[s])') /\ D!RelatedOnce'
  <1>1. tx[r].op = "discard" /\ tx[r].pc = "cards" /\ D!Unchanged
    BY DEF D!DiscardCard, D!At
  <1>2. tx[r].pc # "done" /\ TicketInv
    BY <1>1 DEF AloneInv
  <1>3. tx[r] \in DiscardUnits
    BY <1>1, <1>2, Kinds
  <1>4. Discarding(tx[r])
    <2>1. UnitAlone(tx[r])
      BY DEF AloneInv
    <2> QED
      BY <1>1, <2>1 DEF UnitAlone
  <1>5. \A x \in rows : x.table \in {"comments", "card_events", "card_relations"}
    BY <1>2 DEF TicketInv, TicketTypes, Hanging, Singles, Relations
  <1>6. D!RowsOn(tx[r].on) \ tx[r].gone = {}
    BY <1>1, <1>4, <1>5 DEF Discarding, Collected, D!RowsOn, OnCard
  <1>7. D!Go(r, "commit")
    BY <1>6 DEF D!DiscardCard
  <1> PICK v : v = [tx[r] EXCEPT !.pc = "commit"]
    OBVIOUS
  <1>8. v \in DiscardUnits /\ v.op = "discard" /\ v.on = tx[r].on /\ v.pc = "commit"
        /\ v.seen = tx[r].seen /\ v.gone = tx[r].gone
    BY <1>3 DEF DiscardUnits
  <1>9. Discarding(v)
    BY <1>1, <1>4, <1>8 DEF Discarding, Collected
  <1>10. UnitAlone(v)
    BY <1>8, <1>9 DEF UnitAlone
  <1> QED
    BY <1>1, <1>2, <1>7, <1>8, <1>10, AloneGo DEF Units

LEMMA AloneCommits ==
    ASSUME AloneInv, ~Postgres, NEW r \in Requests,
           D!EditCommit(r) \/ D!CommentCommit(r) \/ D!RelateCommit(r) \/ D!UnrelateCommit(r)
           \/ D!DiscardCommit(r)
    PROVE  (\A s \in Requests : UnitAlone(tx[s])') /\ D!RelatedOnce'
  <1>1. tx[r].pc = "commit" /\ D!Done(r, "ok")
    BY DEF D!EditCommit, D!CommentCommit, D!RelateCommit, D!UnrelateCommit, D!DiscardCommit, D!At
  <1>2. \A s \in Requests : UnitAlone(tx[s])'
    BY <1>1, AloneCommit
  <1>3. D!RelatedOnce /\ TicketInv
    BY DEF AloneInv
  <1>4. CASE D!EditCommit(r)
    <2>1. \A x \in rows' : x.table = "card_relations" => x \in rows
      <3> PICK ev : ev = EventOf(tx[r].on, tx[r].seen.born, tx[r].id)
        OBVIOUS
      <3>1. ev.table = "card_events"
        BY DEF EventOf
      <3>2. rows' = rows \cup {ev}
        BY <1>4, EventIsOf DEF D!EditCommit
      <3> QED
        BY <3>1, <3>2
    <2> QED
      BY <1>2, <1>3, <2>1, NoNewEntry
  <1>5. CASE D!CommentCommit(r)
    <2>1. \A x \in rows' : x.table = "card_relations" => x \in rows
      <3> PICK ev : ev = EventOf(tx[r].on, tx[r].seen.born, tx[r].id)
        OBVIOUS
      <3>1. ev.table = "card_events" /\ [ev EXCEPT !.table = "comments"].table = "comments"
        BY DEF EventOf
      <3>2. [D!Event(tx[r].on, tx[r].seen.born) EXCEPT !.id = tx[r].id] = ev
        BY EventIsOf
      <3>3. rows' = rows \cup {ev, [ev EXCEPT !.table = "comments"]}
        BY <1>5, <3>2 DEF D!CommentCommit
      <3> QED
        BY <3>1, <3>3
    <2> QED
      BY <1>2, <1>3, <2>1, NoNewEntry
  <1>6. CASE D!UnrelateCommit(r) \/ D!DiscardCommit(r)
    <2>1. rows' \subseteq rows
      BY <1>6 DEF D!UnrelateCommit, D!DiscardCommit
    <2> QED
      BY <1>2, <1>3, <2>1, NoNewEntry
  <1>7. CASE D!RelateCommit(r)
    <2>1. tx[r].op = "relate" /\ tx[r] \in RelateUnits /\ NoDuplicate(tx[r])
      <3>1. tx[r].op = "relate"
        BY <1>7 DEF D!RelateCommit, D!At
      <3>2. tx[r] \in RelateUnits
        BY <1>1, <1>3, <3>1, Kinds
      <3> QED
        BY <1>1, <3>1, <3>2 DEF AloneInv, UnitAlone
    <2> PICK a : a = tx[r].on
      OBVIOUS
    <2> PICK b : b = tx[r].to
      OBVIOUS
    <2> PICK x : x = [table |-> "card_relations", type |-> tx[r].type, on |-> <<a, b>>,
                      meant |-> <<tx[r].both[1].born, tx[r].both[2].born>>, id |-> tx[r].id]
      OBVIOUS
    <2>2. rows' = rows \cup {x}
      BY <1>7 DEF D!RelateCommit
    <2>3. x.table = "card_relations" /\ x.type = tx[r].type /\ x.on = <<a, b>>
      OBVIOUS
    <2>4. x.on[1] = a /\ x.on[2] = b
      BY <2>3
    <2>5. ASSUME NEW y \in rows, y.table = "card_relations", y.type = x.type
          PROVE  /\ y.on # <<a, b>> /\ (x.type \in Symmetric => y.on # <<b, a>>)
                 /\ y.on = <<y.on[1], y.on[2]>>
      <3>1. y.on # <<a, b>> /\ (x.type \in Symmetric => y.on # <<b, a>>)
        BY <2>1, <2>3, <2>5 DEF NoDuplicate
      <3>2. y \in Hanging
        BY <1>3 DEF TicketInv, TicketTypes
      <3> QED
        BY <2>5, <3>1, <3>2, NamesOfRow
    <2>6. ASSUME NEW y \in rows, y.table = "card_relations", y.type = x.type
          PROVE  /\ x.on # y.on /\ (x.type \in Symmetric => x.on # <<y.on[2], y.on[1]>>)
                 /\ y.on # x.on /\ (x.type \in Symmetric => y.on # <<x.on[2], x.on[1]>>)
      <3>1. y.on # <<a, b>> /\ (x.type \in Symmetric => y.on # <<b, a>>)
            /\ y.on = <<y.on[1], y.on[2]>>
        BY <2>5, <2>6
      <3>2. <<a, b>> = <<y.on[2], y.on[1]>> => <<y.on[1], y.on[2]>> = <<b, a>>
        OBVIOUS
      <3> QED
        BY <2>3, <2>4, <3>1, <3>2
    <2>7. D!RelatedOnce'
      BY <1>3, <2>2, <2>6 DEF D!RelatedOnce, D!TableRows
    <2> QED
      BY <1>2, <2>7
  <1> QED
    BY <1>4, <1>5, <1>6, <1>7

LEMMA AloneCreate ==
    ASSUME AloneInv, ~Postgres, D!Create
    PROVE  (\A s \in Requests : UnitAlone(tx[s])') /\ D!RelatedOnce'
  <1>1. tx' = tx /\ \A s \in Requests : tx[s].pc = "done"
    BY DEF D!Create, D!Open
  <1>2. \A s \in Requests : UnitAlone(tx[s])'
    BY <1>1 DEF AloneInv, UnitAlone
  <1> PICK ev : ev = EventOf(D!NextNumber, calls, calls)
    OBVIOUS
  <1>3. ev.table = "card_events"
    BY DEF EventOf
  <1>4. rows' = rows \cup {ev}
    BY EventIsOf DEF D!Create
  <1> QED
    BY <1>2, <1>3, <1>4, NoNewEntry DEF AloneInv

LEMMA AloneNext ==
    ASSUME None \notin CardRows, Numbers \subseteq Nat, ~Postgres, AloneInv, [D!Next]_(D!vars)
    PROVE  AloneInv'
  <1>1. TicketInv'
    BY TicketNext DEF AloneInv
  <1>2. (\A s \in Requests : UnitAlone(tx[s])') /\ D!RelatedOnce'
    <2>1. CASE D!Create
      BY <2>1, AloneCreate
    <2>2. ASSUME NEW r \in Requests,
                 D!Edit(r) \/ D!Comment(r) \/ D!Relate(r) \/ D!Unrelate(r) \/ D!Discard(r)
          PROVE  (\A s \in Requests : UnitAlone(tx[s])') /\ D!RelatedOnce'
      BY <1>1, <2>2, AloneBegins
    <2>3. ASSUME NEW r \in Requests, D!Step(r)
          PROVE  (\A s \in Requests : UnitAlone(tx[s])') /\ D!RelatedOnce'
      <3>1. CASE D!EditFind(r) \/ D!CommentFind(r) \/ D!RelateFind(r) \/ D!UnrelateFind(r)
                 \/ D!DiscardFind(r)
        BY <3>1, AloneFinds
      <3>2. CASE D!EditWrite(r) \/ D!CommentWrite(r) \/ D!RelateWrite(r) \/ D!UnrelateWrite(r)
        BY <3>2, AloneWrites
      <3>3. CASE D!DiscardTable(r)
        BY <3>3, AloneCollects
      <3>4. CASE D!DiscardCard(r)
        BY <3>4, AloneDiscardCard
      <3>5. CASE D!EditCommit(r) \/ D!CommentCommit(r) \/ D!RelateCommit(r) \/ D!UnrelateCommit(r)
                 \/ D!DiscardCommit(r)
        BY <3>5, AloneCommits
      <3> QED
        BY <2>3, <3>1, <3>2, <3>3, <3>4, <3>5, Zenon DEF D!Step
    <2>4. CASE UNCHANGED D!vars
      BY <2>4 DEF D!vars, AloneInv, UnitAlone, NoDuplicate, Discarding, Collected, OnCard,
           D!RelatedOnce, D!TableRows
    <2> QED
      BY <2>1, <2>2, <2>3, <2>4, Zenon DEF D!Next
  <1> QED
    BY <1>1, <1>2 DEF AloneInv

\* Who removes a card.
LEMMA RemovalIsADiscard ==
    ASSUME None \notin CardRows, ~Postgres, AloneInv, [D!Next]_(D!vars),
           NEW n \in Numbers, card[n] # None, card'[n] = None
    PROVE  card[n].draft /\ \E r \in Requests : D!DiscardCommit(r) /\ tx[r].seen.version = card[n].version
  <1>0. TicketInv /\ card \in [Numbers -> CardRows \cup {None}]
    BY DEF AloneInv, TicketInv, TicketTypes
  <1>1. ~(UNCHANGED card)
    OBVIOUS
  <1>2. ASSUME D!Create PROVE FALSE
    <2> PICK c : c = [born |-> calls, version |-> 1, draft |-> TRUE]
      OBVIOUS
    <2> PICK m : m = D!NextNumber
      OBVIOUS
    <2>1. card' = [card EXCEPT ![m] = c]
      BY <1>2 DEF D!Create
    <2>2. c \in CardRows
      <3>1. calls \in Nat /\ 1 \in Nat /\ TRUE \in BOOLEAN
        BY <1>0 DEF TicketInv, TicketTypes
      <3> QED
        BY <3>1, Zenon DEF CardRows
    <2> QED
      BY <1>0, <2>1, <2>2
  <1>3. ASSUME NEW r \in Requests, D!EditCommit(r) PROVE FALSE
    <2>1. tx[r].pc = "commit" /\ tx[r].op = "edit"
      BY <1>3 DEF D!EditCommit, D!At
    <2>2. tx[r] \in EditUnits /\ EditOK(tx[r])
      BY <1>0, <2>1, Kinds
    <2>3. tx[r].copy \in CardRows /\ tx[r].draft \in BOOLEAN
      BY <2>1, <2>2 DEF EditUnits, EditOK
    <2> PICK kept : kept = tx[r].copy
      OBVIOUS
    <2>4. PICK draft \in BOOLEAN : draft = (kept.draft /\ tx[r].draft)
      BY Zenon
    <2> PICK c : c = [kept EXCEPT !.version = kept.version + 1, !.draft = draft]
      OBVIOUS
    <2>5. c # None
      <3>1. DOMAIN c = {"born", "version", "draft"}
        BY <2>3 DEF CardRows
      <3>2. c = [f \in DOMAIN c |-> c[f]]
        OBVIOUS
      <3>3. c.born \in Nat /\ c.version \in Nat /\ c.draft \in BOOLEAN
        BY <2>3 DEF CardRows
      <3>4. c \in CardRows
        BY <3>1, <3>2, <3>3 DEF CardRows
      <3> QED
        BY <3>4
    <2>6. card' = [card EXCEPT ![tx[r].on] = c]
      BY <1>3, <2>4 DEF D!EditCommit
    <2> QED
      BY <1>0, <2>5, <2>6
  <1>4. ASSUME NEW r \in Requests, D!DiscardCommit(r)
        PROVE  card[n].draft /\ D!DiscardCommit(r) /\ tx[r].seen.version = card[n].version
    <2>1. tx[r].pc = "commit" /\ tx[r].op = "discard" /\ card' = [card EXCEPT ![tx[r].on] = None]
      BY <1>4 DEF D!DiscardCommit, D!At
    <2>2. n = tx[r].on
      BY <1>0, <2>1
    <2>3. Discarding(tx[r])
      BY <2>1 DEF AloneInv, UnitAlone
    <2> QED
      BY <1>4, <2>2, <2>3 DEF Discarding
  <1>5. ASSUME NEW r \in Requests,
               D!Edit(r) \/ D!Comment(r) \/ D!Relate(r) \/ D!Unrelate(r) \/ D!Discard(r)
        PROVE  FALSE
    BY <1>1, <1>5 DEF D!Edit, D!Comment, D!Relate, D!Unrelate, D!Discard, D!Begin
  <1>6. ASSUME NEW r \in Requests, D!Step(r)
        PROVE  D!DiscardCommit(r)
    <2>1. ~D!EditCommit(r)
      BY <1>3
    <2>2. ~D!Unchanged
      BY <1>1 DEF D!Unchanged
    <2>3. ~(D!CommentCommit(r) \/ D!RelateCommit(r) \/ D!UnrelateCommit(r))
      BY <1>1 DEF D!CommentCommit, D!RelateCommit, D!UnrelateCommit
    <2> QED
      BY <1>6, <2>1, <2>2, <2>3 DEF D!Step, D!EditFind, D!EditWrite, D!CommentFind, D!CommentWrite,
         D!RelateFind, D!RelateWrite, D!UnrelateFind, D!UnrelateWrite, D!DiscardFind, D!DiscardTable,
         D!DiscardCard
  <1>7. ~(UNCHANGED D!vars)
    BY <1>1 DEF D!vars
  <1> QED
    BY <1>2, <1>4, <1>5, <1>6, <1>7 DEF D!Next

\* On SQLite no relation is entered twice, whichever way round, a discard that
\* found the card removes it, and only a draft as its creator last saw it goes
\* (CardRelationService.create, CardService.delete, CardRepository.hardDelete).
THEOREM OneAtATime ==
    None \notin CardRows /\ Numbers \subseteq Nat /\ ~Postgres /\ D!Spec =>
        [](D!RelatedOnce /\ D!DiscardsSucceed) /\ [][D!DiscardsDrafts]_(D!vars)
  <1> SUFFICES ASSUME None \notin CardRows, Numbers \subseteq Nat, ~Postgres
               PROVE  D!Spec => [](D!RelatedOnce /\ D!DiscardsSucceed)
                                /\ [][D!DiscardsDrafts]_(D!vars)
    OBVIOUS
  <1>1. D!Init => AloneInv
    <2> SUFFICES ASSUME D!Init PROVE AloneInv
      OBVIOUS
    <2>1. TicketInv
      BY TicketInit
    <2>2. rows = {} /\ \A r \in Requests : tx[r] = D!Idle
      BY DEF D!Init
    <2>3. D!Idle.pc = "done" /\ D!Idle.result = None /\ D!Idle.op = None
      BY DEF D!Idle
    <2> QED
      BY <2>1, <2>2, <2>3 DEF AloneInv, UnitAlone, D!RelatedOnce, D!TableRows
  <1>2. AloneInv /\ [D!Next]_(D!vars) => AloneInv'
    BY AloneNext
  <1>3. AloneInv => D!RelatedOnce /\ D!DiscardsSucceed
    BY DEF AloneInv, UnitAlone, D!DiscardsSucceed, D!At
  <1>4. AloneInv /\ [D!Next]_(D!vars) => [D!DiscardsDrafts]_(D!vars)
    BY RemovalIsADiscard DEF D!DiscardsDrafts, D!Exists
  <1> QED
    BY <1>1, <1>2, <1>3, <1>4, PTL DEF D!Spec

-----------------------------------------------------------------------------
(* The daily quota: the counter is what is reserved on its day.             *)

CONSTANTS Uploads, Sizes, LimitBytes, SpansMidnight    \* of UploadQuota, with MaxDay
VARIABLES today, counted, used, uploads                \* of UploadQuota, with counted for day

Q == INSTANCE UploadQuota WITH day <- counted

UploadStates == [state : {"new", "sent", "stored", "failed"}, size : Nat, on : Nat]

QuotaConstants == Sizes \subseteq Nat /\ LimitBytes \in Nat /\ ~SpansMidnight

QuotaIInv ==
    /\ today \in Nat /\ counted \in Nat /\ counted <= today
    /\ uploads \in [Uploads -> UploadStates]
    /\ used = Q!Bytes(Q!Reserved(counted))
    /\ \A d \in Nat : /\ IsFiniteSet(Q!BytesOf(Q!Reserved(d)))
                      /\ Q!Bytes(Q!Reserved(d)) <= LimitBytes
    /\ \A u \in Uploads :
          /\ uploads[u].state = "sent" => uploads[u].on = today
          /\ uploads[u].state \in {"sent", "stored"} => uploads[u].on <= counted

\* The bytes of one more upload.
LEMMA OneMoreUpload ==
    ASSUME NEW S, IsFiniteSet(S), NEW u, NEW n \in Nat, \A b \in S : b[1] # u
    PROVE  /\ IsFiniteSet(S \cup ({u} \X (1 .. n)))
           /\ Cardinality(S \cup ({u} \X (1 .. n))) = Cardinality(S) + n
  <1>1. PICK T : T = {u} \X (1 .. n)
    OBVIOUS
  <1>2. IsFiniteSet(1 .. n) /\ Cardinality(1 .. n) = n
    BY FS_Interval
  <1>3. IsFiniteSet({u}) /\ Cardinality({u}) = 1
    BY FS_Singleton
  <1>4. IsFiniteSet(T) /\ Cardinality(T) = 1 * n
    BY <1>1, <1>2, <1>3, FS_Product
  <1>5. S \cap T = {}
    BY <1>1
  <1>6. Cardinality(S \cap T) = 0 /\ Cardinality(S) \in Nat
    BY <1>5, FS_EmptySet, FS_CardinalityType
  <1>7. IsFiniteSet(S \cup T) /\ Cardinality(S \cup T) = Cardinality(S) + n - 0
    BY <1>4, <1>6, FS_Union
  <1> QED BY <1>1, <1>6, <1>7

\* Where the uploads of a day are as they were, so are their bytes.
LEMMA SameBytes ==
    ASSUME NEW d, Q!Reserved(d)' = Q!Reserved(d),
           \A u \in Q!Reserved(d) : uploads'[u].size = uploads[u].size
    PROVE  Q!BytesOf(Q!Reserved(d))' = Q!BytesOf(Q!Reserved(d))
  BY DEF Q!BytesOf

LEMMA InBytes == ASSUME NEW set, NEW b \in Q!BytesOf(set) PROVE b[1] \in set
  BY DEF Q!BytesOf

\* What the clock makes of the counter.
LEMMA RolledIs ==
    ASSUME QuotaIInv
    PROVE  Q!Rolled = Q!Bytes(Q!Reserved(today)) /\ Q!Rolled \in Nat
  <1>1. Q!Bytes(Q!Reserved(today)) \in Nat
    BY FS_CardinalityType DEF QuotaIInv, Q!Bytes, Q!Cardinality, Cardinality
  <1>2. CASE today = counted
    BY <1>1, <1>2 DEF Q!Rolled, QuotaIInv
  <1>3. CASE today # counted
    <2>1. Q!Reserved(today) = {}
      BY <1>3 DEF QuotaIInv, Q!Reserved, UploadStates
    <2>2. Q!BytesOf(Q!Reserved(today)) = {}
      BY <2>1 DEF Q!BytesOf
    <2>3. Q!Bytes(Q!Reserved(today)) = 0
      BY <2>2, FS_EmptySet DEF Q!Bytes, Q!Cardinality, Cardinality
    <2> QED BY <1>3, <2>3 DEF Q!Rolled
  <1> QED BY <1>2, <1>3

LEMMA QuotaBegins == QuotaConstants /\ Q!Init => QuotaIInv
  <1> SUFFICES ASSUME QuotaConstants, Q!Init PROVE QuotaIInv
    OBVIOUS
  <1>1. /\ today = 0 /\ counted = 0 /\ used = 0
        /\ uploads = [u \in Uploads |-> [state |-> "new", size |-> 0, on |-> 0]]
    BY DEF Q!Init
  <1>2. \A d : Q!Reserved(d) = {}
    BY <1>1 DEF Q!Reserved
  <1>3. \A d : Q!BytesOf(Q!Reserved(d)) = {}
    BY <1>2 DEF Q!BytesOf
  <1>4. \A d : IsFiniteSet(Q!BytesOf(Q!Reserved(d))) /\ Q!Bytes(Q!Reserved(d)) = 0
    BY <1>3, FS_EmptySet DEF Q!Bytes, Q!Cardinality, Cardinality
  <1> QED BY <1>1, <1>4 DEF QuotaIInv, UploadStates, QuotaConstants

LEMMA QuotaStep == QuotaConstants /\ QuotaIInv /\ [Q!Next]_(Q!vars) => QuotaIInv'
  <1> SUFFICES ASSUME QuotaConstants, QuotaIInv, [Q!Next]_(Q!vars) PROVE QuotaIInv'
    OBVIOUS
  <1>0. /\ today \in Nat /\ counted \in Nat /\ counted <= today
        /\ uploads \in [Uploads -> UploadStates]
    BY DEF QuotaIInv
  <1>1. ASSUME NEW u \in Uploads, NEW size \in Sizes, Q!Reserve(u, size) PROVE QuotaIInv'
    <2>1. PICK new : new = [state |-> "sent", size |-> size, on |-> today]
      OBVIOUS
    <2>2. /\ uploads[u].state = "new" /\ Q!Rolled + size <= LimitBytes
          /\ counted' = today /\ used' = Q!Rolled + size /\ today' = today
          /\ uploads' = [uploads EXCEPT ![u] = new]
      BY <1>1, <2>1 DEF Q!Reserve, Q!Within
    <2>3. /\ uploads'[u] = new /\ \A v \in Uploads : v # u => uploads'[v] = uploads[v]
          /\ new.state = "sent" /\ new.size = size /\ new.on = today /\ size \in Nat
      BY <1>0, <2>1, <2>2 DEF QuotaConstants
    <2>4. uploads' \in [Uploads -> UploadStates]
      <3>1. new \in UploadStates
        BY <1>0, <2>1, <2>3 DEF UploadStates
      <3> QED BY <1>0, <2>2, <3>1
    <2>5. \A d \in Nat : u \notin Q!Reserved(d)
      BY <2>2 DEF Q!Reserved
    <2>6. ASSUME NEW d \in Nat, d # today
          PROVE  Q!BytesOf(Q!Reserved(d))' = Q!BytesOf(Q!Reserved(d))
      <3>1. Q!Reserved(d)' = Q!Reserved(d)
        BY <2>2, <2>3, <2>6 DEF Q!Reserved
      <3>2. \A v \in Q!Reserved(d) : uploads'[v] = uploads[v]
        BY <2>3, <2>5 DEF Q!Reserved
      <3> QED BY <3>1, <3>2, SameBytes
    <2>7. Q!BytesOf(Q!Reserved(today))' = Q!BytesOf(Q!Reserved(today)) \cup ({u} \X (1 .. size))
      <3>1. Q!Reserved(today)' = Q!Reserved(today) \cup {u}
        BY <2>2, <2>3 DEF Q!Reserved
      <3>2. \A v \in Q!Reserved(today) : uploads'[v] = uploads[v]
        BY <1>0, <2>3, <2>5 DEF Q!Reserved
      <3> QED BY <2>3, <3>1, <3>2 DEF Q!BytesOf
    <2>8. /\ IsFiniteSet(Q!BytesOf(Q!Reserved(today)))'
          /\ Q!Bytes(Q!Reserved(today))' = Q!Bytes(Q!Reserved(today)) + size
      <3>1. IsFiniteSet(Q!BytesOf(Q!Reserved(today)))
        BY <1>0 DEF QuotaIInv
      <3>2. \A b \in Q!BytesOf(Q!Reserved(today)) : b[1] # u
        BY <1>0, <2>5, InBytes
      <3>3. PICK S : S = Q!BytesOf(Q!Reserved(today))
        OBVIOUS
      <3>4. /\ IsFiniteSet(S \cup ({u} \X (1 .. size)))
            /\ Cardinality(S \cup ({u} \X (1 .. size))) = Cardinality(S) + size
        BY <2>3, <3>1, <3>2, <3>3, OneMoreUpload
      <3> QED BY <2>2, <2>7, <3>3, <3>4 DEF Q!Bytes, Q!Cardinality, Cardinality
    <2>9. used' = Q!Bytes(Q!Reserved(counted))' /\ used' <= LimitBytes
      BY <2>2, <2>8, RolledIs
    <2>10. ASSUME NEW d \in Nat
           PROVE  /\ IsFiniteSet(Q!BytesOf(Q!Reserved(d)))'
                  /\ Q!Bytes(Q!Reserved(d))' <= LimitBytes
      <3>1. CASE d = today
        BY <2>2, <2>8, <2>9, <3>1
      <3>2. CASE d # today
        BY <2>6, <3>2 DEF QuotaIInv, Q!Bytes
      <3> QED BY <3>1, <3>2
    <2>11. ASSUME NEW v \in Uploads
           PROVE  /\ uploads'[v].state = "sent" => uploads'[v].on = today'
                  /\ uploads'[v].state \in {"sent", "stored"} => uploads'[v].on <= counted'
      <3>1. CASE v = u
        BY <1>0, <2>2, <2>3, <3>1
      <3>2. CASE v # u
        <4>1. uploads'[v] = uploads[v] /\ uploads[v].on \in Nat
          BY <1>0, <2>3, <3>2 DEF UploadStates
        <4> QED BY <1>0, <2>2, <4>1 DEF QuotaIInv
      <3> QED BY <3>1, <3>2
    <2> QED BY <1>0, <2>2, <2>4, <2>9, <2>10, <2>11 DEF QuotaIInv
  <1>2. ASSUME NEW u \in Uploads, NEW size \in Sizes, Q!Refuse(u, size) PROVE QuotaIInv'
    <2>1. counted' = today /\ used' = Q!Rolled /\ UNCHANGED <<today, uploads>>
      BY <1>2 DEF Q!Refuse
    <2>2. \A d : Q!Reserved(d)' = Q!Reserved(d)
      BY <2>1 DEF Q!Reserved
    <2>3. \A d : Q!BytesOf(Q!Reserved(d))' = Q!BytesOf(Q!Reserved(d))
      BY <2>1, <2>2 DEF Q!BytesOf
    <2>4. used' = Q!Bytes(Q!Reserved(counted))'
      BY <2>1, <2>3, RolledIs DEF Q!Bytes
    <2>5. \A v \in Uploads : uploads[v].on \in Nat
      BY <1>0 DEF UploadStates
    <2>6. \A v \in Uploads : uploads[v].state \in {"sent", "stored"} => uploads[v].on <= today
      BY <1>0, <2>5 DEF QuotaIInv
    <2> QED BY <1>0, <2>1, <2>3, <2>4, <2>6 DEF QuotaIInv, Q!Bytes
  <1>3. ASSUME NEW u \in Uploads, Q!Store(u) PROVE QuotaIInv'
    <2>1. PICK new : new = [uploads[u] EXCEPT !.state = "stored"]
      OBVIOUS
    <2>2. /\ uploads[u].state = "sent" /\ uploads' = [uploads EXCEPT ![u] = new]
          /\ UNCHANGED <<today, counted, used>>
      BY <1>3, <2>1 DEF Q!Store
    <2>3. /\ new \in UploadStates /\ new.state = "stored" /\ new.size = uploads[u].size
          /\ new.on = uploads[u].on
      BY <1>0, <2>1 DEF UploadStates
    <2>4. /\ uploads'[u] = new /\ \A v \in Uploads : v # u => uploads'[v] = uploads[v]
          /\ uploads' \in [Uploads -> UploadStates]
      BY <1>0, <2>2, <2>3
    <2>5. ASSUME NEW d PROVE Q!BytesOf(Q!Reserved(d))' = Q!BytesOf(Q!Reserved(d))
      <3>1. Q!Reserved(d)' = Q!Reserved(d)
        BY <2>2, <2>3, <2>4 DEF Q!Reserved
      <3>2. \A v \in Q!Reserved(d) : uploads'[v].size = uploads[v].size
        BY <2>3, <2>4 DEF Q!Reserved
      <3> QED BY <3>1, <3>2, SameBytes
    <2>6. ASSUME NEW v \in Uploads
          PROVE  /\ uploads'[v].state = "sent" => uploads'[v].on = today
                 /\ uploads'[v].state \in {"sent", "stored"} => uploads'[v].on <= counted
      BY <2>2, <2>3, <2>4 DEF QuotaIInv
    <2> QED BY <1>0, <2>2, <2>4, <2>5, <2>6 DEF QuotaIInv, Q!Bytes
  <1>4. ASSUME NEW u \in Uploads, Q!Fail(u) PROVE QuotaIInv'
    <2>1. PICK new : new = [uploads[u] EXCEPT !.state = "failed"]
      OBVIOUS
    <2>2. /\ uploads[u].state = "sent" /\ uploads' = [uploads EXCEPT ![u] = new]
          /\ counted' = today /\ today' = today
          /\ used' = Q!NotNegative(Q!Rolled - uploads[u].size)
      BY <1>4, <2>1 DEF Q!Fail, Q!Refunded
    <2>3. new \in UploadStates /\ new.state = "failed"
      BY <1>0, <2>1 DEF UploadStates
    <2>4. /\ uploads'[u] = new /\ \A v \in Uploads : v # u => uploads'[v] = uploads[v]
          /\ uploads' \in [Uploads -> UploadStates]
      BY <1>0, <2>2, <2>3
    <2>5. /\ uploads[u].on = today /\ counted = today /\ uploads[u].size \in Nat
          /\ u \in Q!Reserved(today)
      BY <1>0, <2>2 DEF QuotaIInv, UploadStates, Q!Reserved
    <2>6. ASSUME NEW d \in Nat, d # today
          PROVE  Q!BytesOf(Q!Reserved(d))' = Q!BytesOf(Q!Reserved(d))
      <3>1. Q!Reserved(d)' = Q!Reserved(d) /\ u \notin Q!Reserved(d)
        BY <2>3, <2>4, <2>5, <2>6 DEF Q!Reserved
      <3>2. \A v \in Q!Reserved(d) : uploads'[v] = uploads[v]
        BY <2>4, <3>1 DEF Q!Reserved
      <3> QED BY <3>1, <3>2, SameBytes
    <2>7. PICK n, S : n = uploads[u].size /\ S = Q!BytesOf(Q!Reserved(today))'
      OBVIOUS
    <2>8. Q!BytesOf(Q!Reserved(today)) = S \cup ({u} \X (1 .. n)) /\ \A b \in S : b[1] # u
      <3>1. Q!Reserved(today)' = Q!Reserved(today) \ {u}
        BY <2>2, <2>3, <2>4 DEF Q!Reserved
      <3>2. \A v \in Q!Reserved(today) \ {u} : uploads'[v] = uploads[v]
        BY <2>4 DEF Q!Reserved
      <3>3. S = UNION {{v} \X (1 .. uploads[v].size) : v \in Q!Reserved(today) \ {u}}
        BY <2>7, <3>1, <3>2 DEF Q!BytesOf
      <3>4. Q!BytesOf(Q!Reserved(today)) = UNION {{v} \X (1 .. uploads[v].size) : v \in Q!Reserved(today)}
        BY DEF Q!BytesOf
      <3> QED BY <2>5, <2>7, <3>3, <3>4
    <2>9. IsFiniteSet(S) /\ Cardinality(S) \in Nat
      <3>1. IsFiniteSet(Q!BytesOf(Q!Reserved(today))) /\ S \subseteq Q!BytesOf(Q!Reserved(today))
        BY <1>0, <2>8 DEF QuotaIInv
      <3> QED BY <3>1, FS_Subset, FS_CardinalityType
    <2>10. Q!Bytes(Q!Reserved(today)) = Cardinality(S) + n
      <3>1. n \in Nat
        BY <2>5, <2>7
      <3>2. Cardinality(S \cup ({u} \X (1 .. n))) = Cardinality(S) + n
        BY <2>8, <2>9, <3>1, OneMoreUpload
      <3>3. Q!Bytes(Q!Reserved(today)) = Cardinality(Q!BytesOf(Q!Reserved(today)))
        BY DEF Q!Bytes, Q!Cardinality, Cardinality
      <3> QED BY <2>8, <3>2, <3>3
    <2>11. used' = Cardinality(S)
      BY <2>2, <2>5, <2>7, <2>9, <2>10, RolledIs DEF Q!NotNegative
    <2>12. Q!Bytes(Q!Reserved(today))' = Cardinality(S)
      BY <2>2, <2>7 DEF Q!Bytes, Q!Cardinality, Cardinality
    <2>13. Cardinality(S) <= LimitBytes
      <3>1. Cardinality(S) + n <= LimitBytes
        BY <1>0, <2>10 DEF QuotaIInv
      <3> QED BY <2>5, <2>7, <2>9, <3>1 DEF QuotaConstants
    <2>14. ASSUME NEW d \in Nat
           PROVE  /\ IsFiniteSet(Q!BytesOf(Q!Reserved(d)))'
                  /\ Q!Bytes(Q!Reserved(d))' <= LimitBytes
      <3>1. CASE d = today
        BY <2>2, <2>7, <2>9, <2>12, <2>13, <3>1
      <3>2. CASE d # today
        BY <2>6, <3>2 DEF QuotaIInv, Q!Bytes
      <3> QED BY <3>1, <3>2
    <2>15. ASSUME NEW v \in Uploads
           PROVE  /\ uploads'[v].state = "sent" => uploads'[v].on = today'
                  /\ uploads'[v].state \in {"sent", "stored"} => uploads'[v].on <= counted'
      BY <2>2, <2>3, <2>4, <2>5 DEF QuotaIInv
    <2>16. used' = Q!Bytes(Q!Reserved(counted))'
      BY <2>2, <2>11, <2>12
    <2> QED BY <1>0, <2>2, <2>4, <2>14, <2>15, <2>16 DEF QuotaIInv
  <1>5. CASE Q!Midnight
    <2>1. /\ \A u \in Uploads : uploads[u].state # "sent"
          /\ today' = today + 1 /\ UNCHANGED <<counted, used, uploads>>
      BY <1>5 DEF Q!Midnight, QuotaConstants
    <2>2. \A d : Q!Reserved(d)' = Q!Reserved(d)
      BY <2>1 DEF Q!Reserved
    <2>3. \A d : Q!BytesOf(Q!Reserved(d))' = Q!BytesOf(Q!Reserved(d))
      BY <2>1, <2>2 DEF Q!BytesOf
    <2>4. \A d : Q!Bytes(Q!Reserved(d))' = Q!Bytes(Q!Reserved(d))
      BY <2>3 DEF Q!Bytes
    <2>5. counted <= today'
      BY <1>0, <2>1
    <2> QED BY <1>0, <2>1, <2>3, <2>4, <2>5 DEF QuotaIInv
  <1>6. CASE UNCHANGED Q!vars
    <2>1. UNCHANGED <<today, counted, used, uploads>>
      BY <1>6 DEF Q!vars
    <2>2. \A d : Q!Reserved(d)' = Q!Reserved(d)
      BY <2>1 DEF Q!Reserved
    <2>3. \A d : Q!BytesOf(Q!Reserved(d))' = Q!BytesOf(Q!Reserved(d))
      BY <2>1, <2>2 DEF Q!BytesOf
    <2> QED BY <2>1, <2>3 DEF QuotaIInv, Q!Bytes
  <1> QED BY <1>1, <1>2, <1>3, <1>4, <1>5, <1>6 DEF Q!Next

\* For any uploads, however many at once and failing: what a user is admitted in
\* a day is within the quota, and the counter is what was admitted on its day, a
\* failed upload costing nothing (upload-quota.ts), if none spans midnight.
THEOREM DailyQuotaHolds ==
    QuotaConstants /\ Q!Spec => [](Q!DailyLimit /\ Q!CountsWhatWasAdmitted)
  <1> SUFFICES ASSUME QuotaConstants PROVE Q!Spec => [](Q!DailyLimit /\ Q!CountsWhatWasAdmitted)
    OBVIOUS
  <1>1. Q!Init => QuotaIInv
    BY QuotaBegins
  <1>2. QuotaIInv /\ [Q!Next]_(Q!vars) => QuotaIInv'
    BY QuotaStep
  <1>3. QuotaIInv => Q!DailyLimit /\ Q!CountsWhatWasAdmitted
    <2> SUFFICES ASSUME QuotaIInv PROVE Q!DailyLimit /\ Q!CountsWhatWasAdmitted
      OBVIOUS
    <2>1. \A d \in 0 .. today : d \in Nat
      BY DEF QuotaIInv
    <2> QED BY <2>1 DEF QuotaIInv, Q!DailyLimit, Q!CountsWhatWasAdmitted
  <1> QED BY <1>1, <1>2, <1>3, PTL DEF Q!Spec
=============================================================================
