--------------------------- MODULE CommentComposer ---------------------------
(***************************************************************************)
(* The composers of a card's comments (CommentsThread.tsx): the one below   *)
(* the thread and the replies.  They share one mutation hook, which follows *)
(* its newest request alone: `pending` is that request's, and only its      *)
(* callback is run.  Each composer keeps its own text and whether it was    *)
(* the one that submitted.  The editors of comments work the same way.      *)
(***************************************************************************)
EXTENDS Naturals

CONSTANTS
    Composers,
    MaxText,        \* bound: texts 1 .. MaxText are written, 0 is none
    EditsInFlight,  \* texts are edited while they are posted
    None

VARIABLES
    text,       \* composer -> its text
    submitted,  \* composer -> it was the one that submitted
    written,    \* how many texts there have been
    flights,    \* requests under way: [by, text, try]
    newest,     \* the request that the hook follows, or None once it settled
    posted      \* text -> how many comments of the card have it; 2: or more

vars == <<text, submitted, written, flights, newest, posted>>

Texts == 1 .. MaxText
pending == newest # None

Init ==
    /\ text = [c \in Composers |-> 0]
    /\ submitted = [c \in Composers |-> FALSE]
    /\ written = 0
    /\ flights = {}
    /\ newest = None
    /\ posted = [t \in Texts |-> 0]

\* An edited text counts as another one.
Write(c) ==
    /\ written < MaxText
    /\ EditsInFlight \/ \A f \in flights : f.by # c
    /\ written' = written + 1
    /\ text' = [text EXCEPT ![c] = written + 1]
    /\ UNCHANGED <<submitted, flights, newest, posted>>

\* A button that spins cannot be pressed.
Spins(c) == submitted[c] /\ pending
MayPress(c)    == text[c] # 0 /\ ~Spins(c)

Submit(c) ==
    /\ MayPress(c)
    /\ \E try \in 1 .. 2 :
          LET f == [by |-> c, text |-> text[c], try |-> try]
          IN  /\ f \notin flights
              /\ flights' = flights \cup {f}
              /\ newest' = f
    /\ submitted' = [submitted EXCEPT ![c] = TRUE]
    /\ UNCHANGED <<text, written, posted>>

\* On the edge of `pending` no composer counts as the submitter any more.
FollowNobody(f) == UNCHANGED <<newest, submitted>>
Follow(f) ==
    /\ newest' = IF newest = f THEN None ELSE newest
    /\ submitted' = IF newest = f THEN [c \in Composers |-> FALSE] ELSE submitted

\* The callback of a success: onPosted.
Cleared(f) == IF newest = f THEN [text EXCEPT ![f.by] = 0] ELSE text

Posted(f) ==
    /\ f \in flights
    /\ flights' = flights \ {f}
    /\ posted' = [posted EXCEPT ![f.text] = IF @ = 2 THEN 2 ELSE @ + 1]
    /\ text' = Cleared(f)
    /\ Follow(f)
    /\ UNCHANGED written

Failed(f) ==
    /\ f \in flights
    /\ flights' = flights \ {f}
    /\ Follow(f)
    /\ UNCHANGED <<text, written, posted>>

Next == \/ \E c \in Composers : Write(c) \/ Submit(c)
        \/ \E f \in flights : Posted(f) \/ Failed(f)

Spec == Init /\ [][Next]_vars

-----------------------------------------------------------------------------

ComposerTypeOK ==
    /\ \A c \in Composers : text[c] \in 0 .. written
    /\ submitted \in [Composers -> BOOLEAN]
    /\ \A f \in flights : f.by \in Composers /\ f.text \in 1 .. written
    /\ newest \in flights \cup {None}

\* A failed post keeps its draft, and what is cleared was posted.
ClearedWasPosted ==
    \A c \in Composers : text[c] # 0 /\ text'[c] = 0 => posted'[text[c]] > 0

\* A composer whose request has not settled spins: `submitted` scopes the
\* spinner to the composer that fired, until the request settled.
SpinsUntilSettled ==
    \A f \in flights : submitted[f.by] /\ pending

\* However often its button is pressed, a text becomes one comment.
PostedOnce == \A t \in Texts : posted[t] <= 1
=============================================================================
