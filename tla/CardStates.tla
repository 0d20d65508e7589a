------------------------------ MODULE CardStates ------------------------------
(***************************************************************************)
(* What docs/product/workflow.md promises of a card, without columns,       *)
(* versions or policies: the stage it is in and how stages follow one       *)
(* another.  CardLifecycle.tla is shown to implement it.                    *)
(***************************************************************************)
CONSTANT Ids
VARIABLE stage

Stages == {"absent", "open", "completed", "cancelled",
           "archived completed", "archived cancelled"}

Init == stage = [c \in Ids |-> "absent"]

Step(c, from, to) == stage[c] = from /\ stage' = [stage EXCEPT ![c] = to]

File(c)     == Step(c, "absent", "open")
Withdraw(c) == Step(c, "open", "absent")
Complete(c) == Step(c, "open", "completed")
Abandon(c)  == Step(c, "open", "cancelled")
Retire(c)   == \/ Step(c, "completed", "archived completed")
               \/ Step(c, "cancelled", "archived cancelled")
Revive(c)   == \E from \in Stages \ {"absent", "open"} : Step(c, from, "open")

Next == \E c \in Ids : \/ File(c) \/ Withdraw(c) \/ Complete(c)
                       \/ Abandon(c) \/ Retire(c) \/ Revive(c)

Spec == Init /\ [][Next]_stage
=============================================================================
