------------------------------ MODULE MCBrowser ------------------------------
(***************************************************************************)
(* What is edited in the browser: policy drafts, the banner of a waiting    *)
(* card, the composers of comments, undo and redo, moves on the board and   *)
(* the form of a new card.  They share no state: a behaviour follows the    *)
(* one that `part` names, the others stay as they begin.                    *)
(***************************************************************************)
EXTENDS PolicyDrafts, Sequences

CONSTANTS
    cards, fields, values,              \* WaitingBanner, with one of the cards
    c, c1, c2, c3, c4, todo, done,      \* UndoStack, BoardMoves
    thread, reply,                      \* CommentComposer
    header, cta, relation, file, photo  \* NewCard

VARIABLES
    part,
    server, held, open, banner, save,
    text, submitted, written, flights, newest, posted,
    board, undo, redo, requests, latest, running, off, acted, presses, performed, recorded,
    lanes, archived, view, newer, entry, others,
    modal, opened, post, lost, loop, created, taken, settled, shows

bannerVars == <<server, held, open, banner, save>>
textVars   == <<text, submitted, written, flights, newest, posted>>
undoVars   == <<board, undo, redo, requests, latest, running, off, acted, presses,
                performed, recorded>>
moveVars   == <<lanes, archived, view, newer, entry, others>>
formVars   == <<modal, opened, post, lost, loop, created, taken, settled, shows>>
partVars   == <<part, vars, bannerVars, textVars, undoVars, moveVars, formVars>>

-----------------------------------------------------------------------------

Banner == INSTANCE WaitingBanner WITH
    Cards <- cards, Fields <- fields, Values <- values, MaxVersion <- 3, cache <- held

OneComposer == INSTANCE CommentComposer WITH
    Composers <- {thread}, MaxText <- 6, EditsInFlight <- FALSE
TwoComposers == INSTANCE CommentComposer WITH
    Composers <- {thread, reply}, MaxText <- 3, EditsInFlight <- FALSE

\* One thing at a time; and keys that are pressed before the answer.
Calm == INSTANCE UndoStack WITH
    Cards <- {c}, Kinds <- {"move", "archive"}, Overlapping <- FALSE, Others <- TRUE,
    MaxActions <- 3, MaxPresses <- 4, MaxSwitches <- 1
Fast == INSTANCE UndoStack WITH
    Cards <- {c}, Kinds <- {"move", "archive"}, Overlapping <- TRUE, Others <- TRUE,
    MaxActions <- 3, MaxPresses <- 3, MaxSwitches <- 1

\* A filter that hides one card of four; and a board shown whole.
Limits == [l \in {todo, done} |-> IF l = todo THEN 2 ELSE None]
Filter == INSTANCE BoardMoves WITH
    Cards <- {c1, c2, c3, c4}, Lanes <- {todo, done}, Filtered <- {c2}, Limit <- Limits,
    InitialLanes <- [l \in {todo, done} |-> IF l = todo THEN <<c1, c2, c3>> ELSE <<c4>>],
    MaxOthers <- 1
Whole == INSTANCE BoardMoves WITH
    Cards <- {c1, c2, c3}, Lanes <- {todo, done}, Filtered <- {}, Limit <- Limits,
    InitialLanes <- [l \in {todo, done} |-> IF l = todo THEN <<c1, c2>> ELSE <<c3>>],
    MaxOthers <- 1

\* A user who waits while Create spins; one who does not; and the page of an
\* empty board, whose button goes away, with switches of boards.
Header == INSTANCE NewCard WITH
    Buttons <- {header}, Cta <- cta, Relations <- {relation}, Files <- {file, photo},
    MaxForms <- 2, Patient <- TRUE, Switches <- FALSE, form <- opened
Hasty == INSTANCE NewCard WITH
    Buttons <- {header}, Cta <- cta, Relations <- {relation}, Files <- {file, photo},
    MaxForms <- 2, Patient <- FALSE, Switches <- FALSE, form <- opened
Gone == INSTANCE NewCard WITH
    Buttons <- {header, cta}, Cta <- cta, Relations <- {relation}, Files <- {file},
    MaxForms <- 2, Patient <- FALSE, Switches <- TRUE, form <- opened

-----------------------------------------------------------------------------

\* At rest: values that stand for parts that are not followed.
BannerInit ==
    IF part = "banner" THEN Banner!Init
    ELSE server = None /\ held = None /\ open = None /\ banner = None /\ save = None
TextInit == IF part = "two composers" THEN TwoComposers!Init ELSE OneComposer!Init
MovesInit == IF part = "whole" THEN Whole!Init ELSE Filter!Init
FormInit == IF part = "gone" THEN Gone!Init ELSE Header!Init

PartsInit ==
    /\ part \in {"drafts", "banner", "one composer", "two composers", "calm", "fast",
                 "filter", "whole", "header", "hasty", "gone"}
    /\ Init /\ BannerInit /\ TextInit /\ Calm!Init /\ MovesInit /\ FormInit

DraftsStep ==
    /\ part = "drafts" /\ Next
    /\ UNCHANGED <<part, bannerVars, textVars, undoVars, moveVars, formVars>>
BannerStep ==
    /\ part = "banner" /\ Banner!Next
    /\ UNCHANGED <<part, vars, textVars, undoVars, moveVars, formVars>>
TextStep ==
    /\ \/ part = "one composer" /\ OneComposer!Next
       \/ part = "two composers" /\ TwoComposers!Next
    /\ UNCHANGED <<part, vars, bannerVars, undoVars, moveVars, formVars>>
UndoStep ==
    /\ \/ part = "calm" /\ Calm!Next
       \/ part = "fast" /\ Fast!Next
    /\ UNCHANGED <<part, vars, bannerVars, textVars, moveVars, formVars>>
MoveStep ==
    /\ \/ part = "filter" /\ Filter!Next
       \/ part = "whole" /\ Whole!Next
    /\ UNCHANGED <<part, vars, bannerVars, textVars, undoVars, formVars>>
FormStep ==
    /\ \/ part = "header" /\ Header!Next
       \/ part = "hasty" /\ Hasty!Next
       \/ part = "gone" /\ Gone!Next
    /\ UNCHANGED <<part, vars, bannerVars, textVars, undoVars, moveVars>>

PartsSpec ==
    PartsInit
    /\ [][DraftsStep \/ BannerStep \/ TextStep \/ UndoStep \/ MoveStep \/ FormStep]_partVars

-----------------------------------------------------------------------------

\* What is typed into a banner, a comment or the form of a new card is neither
\* lost nor saved twice or to another card (WaitingBanner, CommentComposer,
\* NewCard).
NothingTypedIsLost ==
    /\ [](/\ part = "banner" => Banner!BannerTypeOK /\ Banner!ShowsTheServer
          /\ part = "one composer" => OneComposer!SpinsUntilSettled /\ OneComposer!PostedOnce
          /\ part = "two composers" => TwoComposers!ComposerTypeOK
          /\ part = "header" => Header!NewCardTypeOK
          /\ part \in {"header", "hasty"} => Header!StagedIsSettled
          /\ part = "hasty" => Hasty!NewCardTypeOK
          /\ part = "gone" => Gone!NewCardTypeOK /\ Gone!NeverHalfApplied)
    /\ [][/\ part = "banner" => Banner!EditsSurvive /\ Banner!SavesWhatWasTyped
          /\ part = "two composers" => TwoComposers!ClearedWasPosted
          /\ part = "header" => Header!OnlyItsOwnModalCloses]_partVars

\* A drop lands where it is shown, undo restores what was there, and an entry
\* is undone or redone once, on the board it was made on (BoardMoves, UndoStack).
MovesAndUndoAgree ==
    /\ [](/\ part = "filter" => Filter!OnePlaceOnServer /\ Filter!OnePlaceShown
                                /\ Filter!NeverRefusedWhenCurrent
          /\ part = "whole" => Whole!OnePlaceOnServer /\ Whole!OnePlaceShown
                               /\ Whole!NeverRefusedWhenCurrent /\ Whole!BreachShown
          /\ part = "calm" => Calm!NothingLost /\ Calm!NoRedoAcrossFork
                              /\ Calm!EveryActionRecorded /\ Calm!OnlyThisBoard
          /\ part = "fast" => Fast!NothingTwice)
    /\ [][/\ part = "filter" => Filter!ShownIsServed /\ Filter!LandsBetweenNeighbours
                                /\ Filter!UndoRestores
          /\ part = "whole" => Whole!ShownIsServed /\ Whole!LandsBetweenNeighbours
                               /\ Whole!UndoRestores /\ Whole!AnnouncedIsShown]_partVars
=============================================================================
