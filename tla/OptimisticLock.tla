---------------------------- MODULE OptimisticLock ----------------------------
(***************************************************************************)
(* What ADR-012 promises of one card: every accepted edit was made against  *)
(* the newest version, takes the next version, and is never silently lost.  *)
(* CardTransactions.tla is shown to implement it on SQLite.                 *)
(***************************************************************************)
EXTENDS Naturals, Sequences

CONSTANT Edits

VARIABLES
    version,   \* of the card
    content,   \* the edits its fields still show
    log,       \* the accepted edits, in order
    seen       \* edit -> the version its author looked at

vars == <<version, content, log, seen>>

Init ==
    /\ version = 1
    /\ content = {}
    /\ log = << >>
    /\ seen \in [Edits -> {0}]

\* An author looks at the card.
Look(e) ==
    /\ seen' = [seen EXCEPT ![e] = version]
    /\ UNCHANGED <<version, content, log>>

\* Anything not made against the newest version is refused, a stuttering step.
Accept(e) ==
    /\ seen[e] = version
    /\ version' = version + 1
    /\ content' = content \cup {e}
    /\ log' = Append(log, e)
    /\ UNCHANGED seen

Next == \E e \in Edits : Look(e) \/ Accept(e)

Spec == Init /\ [][Next]_vars
=============================================================================
