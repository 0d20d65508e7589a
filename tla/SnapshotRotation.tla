--------------------------- MODULE SnapshotRotation ---------------------------
(***************************************************************************)
(* The nightly snapshot of a SQLite database (jobs/sqlite-snapshot.ts) and  *)
(* its store (wiring/sqlite-snapshot-store.ts): a copy is written to a      *)
(* partial file, published under its date by a rename, and dated files      *)
(* beyond the newest Retain are removed, one by one.  The process may end   *)
(* between any two of these, a copy may fail, an operator tidies up.        *)
(***************************************************************************)
EXTENDS Integers, FiniteSetsExt

CONSTANTS
    Retain,         \* SNAPSHOT_RETAIN_COUNT
    MaxDay,         \* bound: nights 1 .. MaxDay
    Operator        \* dated files are removed by hand

VARIABLES
    day,        \* the clock's
    dated,      \* the dated files
    partial,    \* the .tmp files
    whole,      \* those dated files that are a complete copy
    job,        \* [at, name: the run's file, copied, left: to remove]
    succeeded   \* the last run ended without an error

vars == <<day, dated, partial, whole, job, succeeded>>

Idle == [at |-> "idle"]

Init ==
    /\ day = 1
    /\ dated = {} /\ partial = {} /\ whole = {}
    /\ job = Idle
    /\ succeeded = FALSE

\* Hours pass, during a run as well.
Midnight ==
    /\ day < MaxDay
    /\ day' = day + 1
    /\ UNCHANGED <<dated, partial, whole, job, succeeded>>

\* Sorted, reversed, sliced.
BeyondRetain(files) == {d \in files : Cardinality({e \in files : e > d}) >= Retain}

\* The list that is read here also says, later, what is removed.
Begin ==
    /\ job = Idle
    /\ job' = [at |-> IF day \in dated THEN "prune" ELSE "reclaim",
               name |-> day, copied |-> FALSE,
               left |-> BeyondRetain(dated \cup {day})]
    /\ succeeded' = FALSE
    /\ UNCHANGED <<day, dated, partial, whole>>

\* Partials of interrupted runs go, and the copy begins in a new one.
Reclaim ==
    /\ job.at = "reclaim"
    /\ partial' = {job.name}
    /\ job' = [job EXCEPT !.at = "copy"]
    /\ UNCHANGED <<day, dated, whole, succeeded>>

\* Page batches, with the event loop between them.
CopyEnds ==
    /\ job.at = "copy" /\ ~job.copied
    /\ job' = [job EXCEPT !.copied = TRUE]
    /\ UNCHANGED <<day, dated, partial, whole, succeeded>>

\* The rename.
Publish ==
    /\ job.at = "copy" /\ job.copied
    /\ partial' = partial \ {job.name}
    /\ dated' = dated \cup {job.name}
    /\ whole' = whole \cup {job.name}
    /\ job' = [job EXCEPT !.at = "prune"]
    /\ UNCHANGED <<day, succeeded>>

CopyFailsAndPrunes ==
    /\ job.at \in {"reclaim", "copy"}
    /\ partial' = partial \ {job.name}
    /\ job' = [job EXCEPT !.at = "prune"]
    /\ UNCHANGED <<day, dated, whole, succeeded>>
\* A full disk: the partial is removed, the error ends the run, nothing is pruned.
CopyFails ==
    /\ job.at \in {"reclaim", "copy"}
    /\ partial' = partial \ {job.name}
    /\ job' = Idle
    /\ UNCHANGED <<day, dated, whole, succeeded>>

\* Oldest last; rm has no `force`, so one that is gone ends the run.
Remove ==
    /\ job.at = "prune" /\ job.left # {}
    /\ LET d == Max(job.left)
       IN  /\ dated' = dated \ {d}
           /\ whole' = whole \ {d}
           /\ job' = IF d \in dated THEN [job EXCEPT !.left = @ \ {d}] ELSE Idle
    /\ UNCHANGED <<day, partial, succeeded>>

End ==
    /\ job.at = "prune" /\ job.left = {}
    /\ job' = Idle
    /\ succeeded' = TRUE
    /\ UNCHANGED <<day, dated, partial, whole>>

\* The process ends: files stay as they are.
Crash ==
    /\ job # Idle
    /\ job' = Idle
    /\ UNCHANGED <<day, dated, partial, whole, succeeded>>

TidiedUp(d) ==
    /\ Operator /\ d \in dated
    /\ dated' = dated \ {d} /\ whole' = whole \ {d}
    /\ UNCHANGED <<day, partial, job, succeeded>>

Next ==
    \/ Midnight \/ Begin \/ Reclaim \/ CopyEnds \/ Publish \/ CopyFails
    \/ Remove \/ End \/ Crash
    \/ \E d \in 1 .. MaxDay : TidiedUp(d)

Spec == Init /\ [][Next]_vars

-----------------------------------------------------------------------------

SnapshotTypeOK ==
    /\ day \in 1 .. MaxDay
    /\ dated \subseteq 1 .. day /\ partial \subseteq 1 .. day
    /\ Cardinality(partial) <= 1
    /\ job.at \in {"idle", "reclaim", "copy", "prune"}

\* sqlite-snapshot.ts: a dated file is always a completed snapshot, whenever
\* the process ended and whatever failed.
DatedIsWhole == dated \subseteq whole

\* A snapshot is removed only when Retain newer complete ones are there: no
\* sequence of interrupted and failed nights eats the backups.
RemovalHasSuccessors ==
    \A d \in dated \ dated' : Cardinality({e \in whole' : e > d}) >= Retain

\* What interrupted nights left over is gone after the next one that succeeds,
\* unless nights passed since.
WithinRetention == succeeded => Cardinality(dated) <= Retain
=============================================================================
