----------------------------- MODULE UndoStack -----------------------------
(***************************************************************************)
(* Undo and redo of board actions in one browser tab (web/src/undo).  An    *)
(* action that succeeds records an entry; a key press pops the newest and   *)
(* sends its inverse, and nothing keeps a second press, a new action or a   *)
(* switch of boards from happening before the answer.                       *)
(***************************************************************************)
EXTENDS Integers, FiniteSets, SequencesExt

CONSTANTS
    Cards,
    Kinds,          \* what is done to them: "move", "cancel", "archive"
    Overlapping,    \* something is done while a request is under way
    Others,         \* other people archive and reopen cards
    MaxActions, MaxPresses, MaxSwitches,    \* bounds
    None

VARIABLES
    board,      \* the number of switches: boards are told apart by it
    undo, redo, \* the stacks, the newest entry last
    requests,   \* actions sent
    latest,     \* the last action of each mutation hook
    running,    \* the undos and redos sent
    off,        \* cards that are not on the board the tab shows
    acted, presses,     \* counters
    performed, recorded \* history: actions that succeeded, actions recorded

vars == <<board, undo, redo, requests, latest, running, off, acted, presses, performed, recorded>>

Init ==
    /\ board = 0 /\ acted = 0 /\ presses = 0
    /\ undo = <<>> /\ redo = <<>>
    /\ requests = {} /\ running = {} /\ off = {}
    /\ latest = [hook \in {"move", "action"} |-> None]
    /\ performed = {} /\ recorded = {}

Busy == requests # {} \/ running # {}
Allowed == Overlapping \/ ~Busy

Hook(kind) == IF kind = "move" THEN "move" ELSE "action"

\* A hook follows the last call only; `mutate` again drops the callbacks of the
\* one before.
Act(c, kind) ==
    /\ Allowed /\ acted < MaxActions
    /\ c \notin off
    /\ acted' = acted + 1
    /\ requests' = requests \cup {[n |-> acted', card |-> c, kind |-> kind, board |-> board]}
    /\ latest' = [latest EXCEPT ![Hook(kind)] = acted']
    /\ UNCHANGED <<board, undo, redo, running, off, presses, performed, recorded>>

OffAfter(e) == IF e.kind = "archive" THEN off \cup {e.card} ELSE off

\* pushAction
Pushed(e) == undo' = Append(undo, e) /\ redo' = <<>>

\* The view that sent the action must still be there to record it.
Followed(r) == r.n = latest[Hook(r.kind)] /\ r.board = board

Succeed(r) ==
    /\ requests' = requests \ {r}
    /\ performed' = performed \cup {r}
    /\ off' = OffAfter(r)
    /\ IF Followed(r) THEN Pushed(r) /\ recorded' = recorded \cup {r}
       ELSE UNCHANGED <<undo, redo, recorded>>
    /\ UNCHANGED <<board, latest, running, acted, presses>>

Reject(r) ==
    /\ requests' = requests \ {r}
    /\ UNCHANGED <<board, undo, redo, latest, running, off, acted, presses, performed, recorded>>

(***************************************************************************)
(* Key presses                                                             *)
(***************************************************************************)

\* A card the board does not show raises NotPermittedError, and the entry is
\* put back at once: nothing changes.
Runs(e) == e.card \notin off

Sent(e, way) == running' = running \cup {[entry |-> e, way |-> way, press |-> presses']}

UndoWithoutPop ==
    /\ Allowed /\ presses < MaxPresses
    /\ undo # <<>> /\ Runs(Last(undo))
    /\ presses' = presses + 1
    /\ Sent(Last(undo), "undo")
    /\ UNCHANGED <<board, undo, redo, requests, latest, off, acted, performed, recorded>>
UndoLast ==
    /\ Allowed /\ presses < MaxPresses
    /\ undo # <<>> /\ Runs(Last(undo))
    /\ presses' = presses + 1
    /\ Sent(Last(undo), "undo")
    /\ undo' = Front(undo)
    /\ UNCHANGED <<board, redo, requests, latest, off, acted, performed, recorded>>

RedoLast ==
    /\ Allowed /\ presses < MaxPresses
    /\ redo # <<>> /\ Runs(Last(redo))
    /\ presses' = presses + 1
    /\ Sent(Last(redo), "redo")
    /\ redo' = Front(redo)
    /\ UNCHANGED <<board, undo, requests, latest, off, acted, performed, recorded>>

PutOn(stack, e) ==
    IF stack = "undo" THEN undo' = Append(undo, e) /\ UNCHANGED redo
    ELSE redo' = Append(redo, e) /\ UNCHANGED undo

Other(way) == IF way = "undo" THEN "redo" ELSE "undo"

\* The entry moves to the other stack: the inverse of archive brings a card
\* back, its repetition takes it away.
Done(x) ==
    /\ running' = running \ {x}
    /\ PutOn(Other(x.way), x.entry)
    /\ off' = IF x.way = "redo" THEN OffAfter(x.entry) ELSE off
    /\ UNCHANGED <<board, requests, latest, acted, presses, performed, recorded>>

\* A conflict or a lost answer: back on the stack it came from.
Failed(x) ==
    /\ running' = running \ {x}
    /\ PutOn(x.way, x.entry)
    /\ UNCHANGED <<board, requests, latest, off, acted, presses, performed, recorded>>

(***************************************************************************)
(* Other boards, other people                                              *)
(***************************************************************************)

Switch ==
    /\ Allowed /\ board < MaxSwitches
    /\ board' = board + 1
    /\ undo' = <<>> /\ redo' = <<>>
    /\ off' = {}
    /\ UNCHANGED <<requests, latest, running, acted, presses, performed, recorded>>

Comes(c) == c \in off /\ off' = off \ {c}
Leaves(c) == c \notin off /\ off' = off \cup {c}

Elsewhere ==
    /\ Others
    /\ \E c \in Cards : Comes(c) \/ Leaves(c)
    /\ UNCHANGED <<board, undo, redo, requests, latest, running, acted, presses, performed, recorded>>

Next ==
    \/ \E c \in Cards, kind \in Kinds : Act(c, kind)
    \/ \E r \in requests : Succeed(r) \/ Reject(r)
    \/ UndoLast \/ RedoLast
    \/ \E x \in running : Done(x) \/ Failed(x)
    \/ Switch \/ Elsewhere

\* A patient user: undo is pressed again, and what is sent again and again is
\* accepted in the end.
Spec ==
    /\ Init /\ [][Next]_vars
    /\ WF_vars(\E r \in requests : Succeed(r))
    /\ WF_vars(UndoLast)
    /\ SF_vars(\E x \in running : x.way = "undo" /\ Done(x))

(***************************************************************************)
(* Properties                                                              *)
(***************************************************************************)

Entries == ToSet(undo) \cup ToSet(redo) \cup {x.entry : x \in running}

\* However fast the keys are pressed, an entry is in one place: nothing is
\* undone twice.
NothingTwice ==
    /\ Entries \subseteq recorded /\ recorded \subseteq performed
    /\ Len(undo) + Len(redo) + Cardinality(running) = Cardinality(Entries)

\* A failure never costs an entry: what was recorded and not forked away can
\* still be undone or redone.
NothingLost ==
    \A r \in recorded : r.board = board =>
        r \in Entries \/ \E f \in recorded : f.board = board /\ f.n > r.n

\* A new action forks history: what was undone before it is never redone.
NoRedoAcrossFork == \A e \in ToSet(redo), f \in ToSet(undo) : f.n < e.n

\* Every action performed records its inverse.
EveryActionRecorded == \A r \in performed : r.board = board => r \in recorded

\* The history of a board is gone once it is left.
OnlyThisBoard == \A e \in Entries : e.board = board \/ \E x \in running : x.entry = e

\* The inverse of archive is reopen: an archived card comes back when undo is
\* pressed.
ArchiveCanBeUndone ==
    (undo # <<>> /\ Last(undo).kind = "archive") ~> (undo = <<>> \/ Last(undo).kind # "archive")
=============================================================================
