------------------------------- MODULE NewCard -------------------------------
(***************************************************************************)
(* Creating a card from the browser (shell/NewCardButton.tsx,               *)
(* card/CreateCardModal.tsx).  A button opens a form in a modal; relations  *)
(* and files are staged in it.  Create posts the fields; the answer's       *)
(* callback posts what was staged, one by one, to the new card, and closes  *)
(* the modal.  There is a button in the header and one in the page of an    *)
(* empty board, which is gone as soon as the board shows a card; a switch   *)
(* of boards mounts everything anew.                                        *)
(***************************************************************************)
EXTENDS Naturals

CONSTANTS
    Buttons,        \* of the header, and Cta
    Cta,            \* the button of an empty board
    Relations, Files,
    MaxForms,       \* bound: forms 1 .. MaxForms are opened
    Patient,        \* nobody cancels or goes on staging while Create spins
    Switches,       \* boards are switched
    None

VARIABLES
    modal,      \* button -> [form, staged], or None
    form,       \* forms opened so far
    post,       \* button -> the POST its hook follows: [form, staged], or None
    lost,       \* POSTs whose button was unmounted: nobody follows them
    loop,       \* button -> what is being applied: [form, left, mounted], or None
    created,    \* forms that became a card
    taken,      \* form -> what was staged when Create was pressed
    settled,    \* form -> what was attached to its card, or reported as failed
    shows       \* the board that is shown has a card

vars == <<modal, form, post, lost, loop, created, taken, settled, shows>>

Forms == 1 .. MaxForms
Items == Relations \cup Files
Mounted(b) == b = Cta => ~shows
Submitting(b) == post[b] # None \/ (loop[b] # None /\ loop[b].mounted)

Init ==
    /\ modal = [b \in Buttons |-> None]
    /\ form = 0
    /\ post = [b \in Buttons |-> None]
    /\ lost = {}
    /\ loop = [b \in Buttons |-> None]
    /\ created = {}
    /\ taken = [k \in Forms |-> {}]
    /\ settled = [k \in Forms |-> {}]
    /\ shows = FALSE

\* A modal covers both buttons.
Press(b) ==
    /\ Mounted(b) /\ \A c \in Buttons : modal[c] = None
    /\ Patient => ~Submitting(b)
    /\ form < MaxForms
    /\ form' = form + 1
    /\ modal' = [modal EXCEPT ![b] = [form |-> form + 1, staged |-> {}]]
    /\ UNCHANGED <<post, lost, loop, created, taken, settled, shows>>

\* The fields of a spinning form can still be used.
Stage(b, i) ==
    /\ modal[b] # None
    /\ Patient => ~Submitting(b)
    /\ modal' = [modal EXCEPT ![b].staged = @ \cup {i}]
    /\ UNCHANGED <<form, post, lost, loop, created, taken, settled, shows>>

Cancel(b) ==
    /\ modal[b] # None
    /\ Patient => ~Submitting(b)
    /\ modal' = [modal EXCEPT ![b] = None]
    /\ UNCHANGED <<form, post, lost, loop, created, taken, settled, shows>>

MayCreate(b) == modal[b] # None /\ ~Submitting(b)

Create(b) ==
    /\ MayCreate(b)
    /\ post' = [post EXCEPT ![b] = [form |-> modal[b].form, staged |-> modal[b].staged]]
    /\ taken' = [taken EXCEPT ![modal[b].form] = modal[b].staged]
    /\ UNCHANGED <<modal, form, lost, loop, created, settled, shows>>

\* The server creates the card; its hint may be there before its answer.
Commit(b) ==
    /\ post[b] # None /\ post[b].form \notin created
    /\ created' = created \cup {post[b].form}
    /\ UNCHANGED <<modal, form, post, lost, loop, taken, settled, shows>>

CommitLost(p) ==
    /\ p \in lost
    /\ created' = created \cup {p.form}
    /\ lost' = lost \ {p}
    /\ UNCHANGED <<modal, form, post, loop, taken, settled, shows>>

\* onSuccess with nothing staged, or the loop's last lines.
Closed(b) == [modal EXCEPT ![b] = None]

\* The answer, followed by the button that sent it.  (Only after a switch of
\* boards can a loop of the button that was there before be under way; this
\* one then begins after it.)
Answered(b) ==
    /\ post[b] # None /\ post[b].form \in created
    /\ IF post[b].staged = {}
       THEN /\ modal' = Closed(b)
            /\ loop' = loop
       ELSE /\ loop[b] = None
            /\ loop' = [loop EXCEPT ![b] = [form |-> post[b].form, left |-> post[b].staged,
                                            mounted |-> TRUE]]
            /\ modal' = modal
    /\ post' = [post EXCEPT ![b] = None]
    /\ UNCHANGED <<form, lost, created, taken, settled, shows>>

\* A toast; the modal stays, Create can be pressed again.
Failed(b) ==
    /\ post[b] # None /\ post[b].form \notin created
    /\ post' = [post EXCEPT ![b] = None]
    /\ UNCHANGED <<modal, form, lost, loop, created, taken, settled, shows>>

\* Relations first.
First(left) == IF left \cap Relations # {} THEN left \cap Relations ELSE left

\* Attached, or refused and reported: the next one follows either way.
Applied(b, i) ==
    /\ loop[b] # None /\ i \in First(loop[b].left)
    /\ settled' = [settled EXCEPT ![loop[b].form] = @ \cup {i}]
    /\ loop' = [loop EXCEPT ![b].left = @ \ {i}]
    /\ UNCHANGED <<modal, form, post, lost, created, taken, shows>>

\* setState on a component that is gone does nothing.
LoopEnds(b) ==
    /\ loop[b] # None /\ loop[b].left = {}
    /\ modal' = IF loop[b].mounted THEN Closed(b) ELSE modal
    /\ loop' = [loop EXCEPT ![b] = None]
    /\ UNCHANGED <<form, post, lost, created, taken, settled, shows>>

\* What a component that is unmounted leaves behind: its modal is gone, a POST
\* goes on without its callbacks, a loop goes on.
Unmounted(gone) ==
    /\ modal' = [b \in Buttons |-> IF b \in gone THEN None ELSE modal[b]]
    /\ lost' = lost \cup {post[b] : b \in {c \in gone : post[c] # None /\ post[c].form \notin created}}
    /\ post' = [b \in Buttons |-> IF b \in gone THEN None ELSE post[b]]
    /\ loop' = [b \in Buttons |-> IF b \in gone /\ loop[b] # None
                                  THEN [loop[b] EXCEPT !.mounted = FALSE] ELSE loop[b]]

\* The board is fetched after a hint, of this card or of another's, and is no
\* longer empty.
Refetched ==
    /\ ~shows
    /\ shows' = TRUE
    /\ Unmounted({Cta} \cap Buttons)
    /\ UNCHANGED <<form, created, taken, settled>>

\* To another board, which shows cards.
Switch ==
    /\ Switches
    /\ shows' = TRUE
    /\ Unmounted(Buttons)
    /\ UNCHANGED <<form, created, taken, settled>>

Next ==
    \/ \E b \in Buttons :
          \/ Press(b) \/ Cancel(b) \/ Create(b)
          \/ Commit(b) \/ Answered(b) \/ Failed(b) \/ LoopEnds(b)
          \/ \E i \in Items : Stage(b, i) \/ Applied(b, i)
    \/ \E p \in lost : CommitLost(p)
    \/ Refetched \/ Switch

Spec == Init /\ [][Next]_vars

-----------------------------------------------------------------------------

NewCardTypeOK ==
    /\ \A b \in Buttons :
          /\ modal[b] # None => modal[b].form \in 1 .. form /\ Mounted(b)
          /\ post[b] # None => post[b].staged = taken[post[b].form]
          /\ loop[b] # None => loop[b].left = taken[loop[b].form] \ settled[loop[b].form]
    /\ created \subseteq 1 .. form
    /\ \A k \in Forms : settled[k] \subseteq taken[k]

\* frontend.md: against the new id each staged relation is posted and each
\* staged file uploaded; one that fails blocks no other.  So when all is quiet
\* nothing that was staged is missing without a report.
StagedIsSettled ==
    (\A b \in Buttons : post[b] = None /\ loop[b] = None) =>
        \A k \in created : settled[k] = taken[k]

\* Once the first is applied the others follow, even if the button is gone.
NeverHalfApplied ==
    (\A b \in Buttons : loop[b] = None) =>
        \A k \in Forms : settled[k] # {} => settled[k] = taken[k]

\* What closes a modal, other than its user, is the card made from it: a form
\* that is being filled in is not thrown away with what was typed.
OnlyItsOwnModalCloses ==
    \A b \in Buttons :
         modal[b] # None /\ modal'[b] = None
         => \/ Cancel(b)
            \/ modal[b].form \in created /\ modal[b].staged = taken[modal[b].form]
=============================================================================
