---------------------------- MODULE PolicyDrafts ----------------------------
(***************************************************************************)
(* Administrators edit one policy document in four forms of the settings    *)
(* page (permissions, working hours, transitions, waiting reasons).  Every  *)
(* save PUTs the whole document; the forms are remounted on every refetch   *)
(* of the policy, which the policy.updated hint of a save asks for.         *)
(***************************************************************************)
EXTENDS Naturals, FiniteSets, TLAPS

CONSTANTS
    Admins,
    Plain,      \* forms of one part each: "roles", "hours", "transitions"
    Reasons,    \* keys of waiting reasons
    Seeded,     \* those of the first document
    Drops,      \* streams may drop
    MaxSaves,   \* bound: PUTs in all
    None

ASSUME PolicyDraftsAssumption == Seeded \subseteq Reasons /\ Drops \in BOOLEAN

VARIABLES
    doc,      \* the active policy
    cache,    \* admin -> the policy of the query cache
    form,     \* admin -> form -> its document
    fetch,    \* admin -> [at, doc]: "none", "asked", or the answer is "back"
    hint,     \* admin -> a hint is on its way or in the coalescing window
    stream,   \* admin -> "open", "dropped"
    put,      \* admin -> [at, doc]: "none", "sent", "answered"
    saves     \* PUTs so far; stamps what they write

vars == <<doc, cache, form, fetch, hint, stream, put, saves>>

Forms == Plain \cup {"reasons"}

\* reasons: the keys that are active and those that are retired.
First == [f \in Forms |-> IF f = "reasons" THEN [active |-> Seeded, retired |-> {}]
                          ELSE <<None, 0>>]
Nothing == [at |-> "none", doc |-> First]

Init ==
    /\ doc = First
    /\ cache = [a \in Admins |-> First]
    /\ form = [a \in Admins |-> [f \in Forms |-> First]]
    /\ fetch = [a \in Admins |-> Nothing]
    /\ hint = [a \in Admins |-> FALSE]
    /\ stream = [a \in Admins |-> "open"]
    /\ put = [a \in Admins |-> Nothing]
    /\ saves = 0

-----------------------------------------------------------------------------
\* The query cache.

\* invalidateQueries of a mounted query cancels a refetch under way.
JoinsTheFetch(a) ==
    IF fetch[a].at = "none" THEN [fetch EXCEPT ![a].at = "asked"] ELSE fetch
Invalidate(a) == [fetch EXCEPT ![a] = [Nothing EXCEPT !.at = "asked"]]

ServeGet(a) ==
    /\ fetch[a].at = "asked"
    /\ fetch' = [fetch EXCEPT ![a] = [at |-> "back", doc |-> doc]]
    /\ UNCHANGED <<doc, cache, form, hint, stream, put, saves>>

\* dataUpdatedAt changes, whatever came: the forms start anew.
Fetched(a) ==
    /\ fetch[a].at = "back"
    /\ cache' = [cache EXCEPT ![a] = fetch[a].doc]
    /\ form' = [form EXCEPT ![a] = [f \in Forms |-> fetch[a].doc]]
    /\ fetch' = [fetch EXCEPT ![a] = Nothing]
    /\ UNCHANGED <<doc, hint, stream, put, saves>>

\* The window gets the focus when the policy is older than staleTime.
Focus(a) ==
    /\ fetch[a].at = "none"
    /\ fetch' = Invalidate(a)
    /\ UNCHANGED <<doc, cache, form, hint, stream, put, saves>>

-----------------------------------------------------------------------------
\* The forms.

Edited(f, d, stamp) ==
    IF f # "reasons" THEN {[d EXCEPT ![f] = stamp]}
    ELSE {[d EXCEPT !.reasons.active = @ \cup {k}] :
             k \in Reasons \ (d.reasons.active \cup d.reasons.retired)}
         \cup {[d EXCEPT !.reasons.active = @ \ {k}, !.reasons.retired = @ \cup {k}] :
             k \in IF Cardinality(d.reasons.active) > 1 THEN d.reasons.active ELSE {}}

Edit(a, f) ==
    /\ saves < MaxSaves
    /\ form[a][f] = cache[a]
    /\ \E d \in Edited(f, form[a][f], <<a, saves + 1>>) : form' = [form EXCEPT ![a][f] = d]
    /\ UNCHANGED <<doc, cache, fetch, hint, stream, put, saves>>

Save(a, f) ==
    /\ saves < MaxSaves
    /\ put[a].at = "none"
    /\ form[a][f] # cache[a]
    /\ put' = [put EXCEPT ![a] = [at |-> "sent", doc |-> form[a][f]]]
    /\ saves' = saves + 1
    /\ UNCHANGED <<doc, cache, form, fetch, hint, stream>>

\* PolicyService.apply: a reason that the document leaves out is retired.
AsSent(d) == d.reasons
Merged(d) ==
    [d.reasons EXCEPT !.retired = @ \cup
        ((doc.reasons.active \cup doc.reasons.retired) \ (d.reasons.active \cup @))]

Told == [a \in Admins |-> hint[a] \/ stream[a] = "open"]

Apply(a) ==
    /\ put[a].at = "sent"
    /\ LET d == put[a].doc
       IN  doc' = [d EXCEPT !.reasons = Merged(d)]
    /\ put' = [put EXCEPT ![a].at = "answered"]
    /\ hint' = Told
    /\ UNCHANGED <<cache, form, fetch, stream, saves>>

Answered(a) ==
    /\ put[a].at = "answered"
    /\ put' = [put EXCEPT ![a] = Nothing]
    /\ fetch' = Invalidate(a)
    /\ UNCHANGED <<doc, cache, form, hint, stream, saves>>

-----------------------------------------------------------------------------
\* The stream.

Hinted(a) ==
    /\ hint[a]
    /\ hint' = [hint EXCEPT ![a] = FALSE]
    /\ fetch' = Invalidate(a)
    /\ UNCHANGED <<doc, cache, form, stream, put, saves>>

Drop(a) ==
    /\ Drops
    /\ stream[a] = "open"
    /\ stream' = [stream EXCEPT ![a] = "dropped"]
    /\ \E lost \in BOOLEAN : hint' = [hint EXCEPT ![a] = @ /\ ~lost]
    /\ UNCHANGED <<doc, cache, form, fetch, put, saves>>

\* onopen refetches the board, and only the board.
Reopen(a) ==
    /\ stream[a] = "dropped"
    /\ stream' = [stream EXCEPT ![a] = "open"]
    /\ UNCHANGED <<doc, cache, form, fetch, hint, put, saves>>

-----------------------------------------------------------------------------

Next ==
    \E a \in Admins :
        \/ \E f \in Forms : Edit(a, f) \/ Save(a, f)
        \/ Apply(a) \/ Answered(a)
        \/ ServeGet(a) \/ Fetched(a) \/ Focus(a)
        \/ Hinted(a) \/ Drop(a) \/ Reopen(a)

Spec == Init /\ [][Next]_vars

-----------------------------------------------------------------------------

\* Nothing is on its way to a, and its stream is open.
Quiet(a) ==
    stream[a] = "open" /\ ~hint[a] /\ fetch[a].at = "none" /\ put[a].at = "none"

\* A form has the parts that are not its own as they are, unless the news is
\* still on its way: its save then changes its own part alone (SettingsPage: `so the editor
\* never PUTs a stale snapshot over someone else's`).
QuietEditorsAreCurrent ==
    \A a \in Admins : Quiet(a) =>
        \A f \in Forms : \A g \in Forms \ {f} : form[a][f][g] = doc[g]

\* A waiting reason is never forgotten, whatever document is PUT: cards and
\* events go on naming it (PolicyService.apply).
ReasonsStay ==
    [][doc.reasons.active \cup doc.reasons.retired
         \subseteq doc'.reasons.active \cup doc'.reasons.retired]_vars

-----------------------------------------------------------------------------
(* Proofs, for any administrators, forms, reasons and number of saves: no   *)
(* waiting reason is ever forgotten and, while no stream drops, an editor   *)
(* that waits for nothing shows the active policy around its own part.      *)

ReasonSets == [active : SUBSET Reasons, retired : SUBSET Reasons]
Documents ==
    {d \in [Forms -> ReasonSets \cup ((Admins \cup {None}) \X Nat)] : d["reasons"] \in ReasonSets}

Requests == [at : {"none", "asked", "back", "sent", "answered"}, doc : Documents]

DraftsType ==
    /\ doc \in Documents
    /\ cache \in [Admins -> Documents]
    /\ form \in [Admins -> [Forms -> Documents]]
    /\ fetch \in [Admins -> Requests]
    /\ hint \in [Admins -> BOOLEAN]
    /\ stream \in [Admins -> {"open", "dropped"}]
    /\ put \in [Admins -> Requests]
    /\ saves \in Nat

-----------------------------------------------------------------------------

LEMMA DocumentsInit == First \in Documents
  BY PolicyDraftsAssumption DEF First, Documents, ReasonSets, Forms

LEMMA RequestFields ==
    ASSUME NEW r \in Requests, NEW at \in {"none", "asked", "back", "sent", "answered"}
    PROVE  /\ [r EXCEPT !.at = at] \in Requests
           /\ [r EXCEPT !.at = at].at = at
           /\ r.doc \in Documents
  BY DEF Requests

LEMMA NothingType ==
    Nothing \in Requests /\ Nothing.at = "none"
  BY DocumentsInit DEF Nothing, Requests

\* An edit of one form changes its own part of the document alone.
LEMMA EditedPart ==
    ASSUME NEW f \in Forms, NEW d \in Documents, NEW a \in Admins, NEW n \in Nat,
           NEW e \in Edited(f, d, <<a, n>>)
    PROVE  /\ e \in Documents
           /\ \A g \in Forms \ {f} : e[g] = d[g]
  <1>1. CASE f # "reasons"
    <2>1. e = [d EXCEPT ![f] = <<a, n>>]
      BY <1>1 DEF Edited
    <2> QED
      BY <1>1, <2>1 DEF Documents, Forms
  <1>2. CASE f = "reasons"
    <2>1. PICK k \in Reasons :
             \/ e = [d EXCEPT !.reasons.active = @ \cup {k}]
             \/ e = [d EXCEPT !.reasons.active = @ \ {k}, !.reasons.retired = @ \cup {k}]
      BY <1>2 DEF Edited, Documents, ReasonSets
    <2>2. CASE e = [d EXCEPT !.reasons.active = @ \cup {k}]
      BY <1>2, <2>2 DEF Documents, ReasonSets, Forms
    <2>3. CASE e = [d EXCEPT !.reasons.active = @ \ {k}, !.reasons.retired = @ \cup {k}]
      BY <1>2, <2>3 DEF Documents, ReasonSets, Forms
    <2> QED BY <2>1, <2>2, <2>3
  <1> QED BY <1>1, <1>2

\* The service merges: what the new document leaves out is retired.
LEMMA MergedReasons ==
    ASSUME doc \in Documents, NEW d \in Documents
    PROVE  /\ Merged(d) \in ReasonSets
           /\ doc.reasons.active \cup doc.reasons.retired
                \subseteq Merged(d).active \cup Merged(d).retired
  BY DEF Merged, Documents, ReasonSets, Forms

LEMMA AppliedDocument ==
    ASSUME doc \in Documents, NEW d \in Documents
    PROVE  /\ [d EXCEPT !.reasons = Merged(d)] \in Documents
           /\ [d EXCEPT !.reasons = Merged(d)].reasons = Merged(d)
  <1>1. Merged(d) \in ReasonSets
    BY MergedReasons
  <1> QED
    BY <1>1 DEF Documents, Forms

-----------------------------------------------------------------------------
(* Types.                                                                   *)

LEMMA DraftsInit == Init => DraftsType
  BY DocumentsInit, NothingType DEF Init, DraftsType

LEMMA AskedType ==
    ASSUME NEW a \in Admins, fetch \in [Admins -> Requests]
    PROVE  /\ Invalidate(a) \in [Admins -> Requests]
           /\ Invalidate(a)[a].at = "asked"
           /\ \A b \in Admins \ {a} : Invalidate(a)[b] = fetch[b]
  <1>1. /\ [Nothing EXCEPT !.at = "asked"] \in Requests
        /\ [Nothing EXCEPT !.at = "asked"].at = "asked"
    BY NothingType, RequestFields
  <1> QED
    BY <1>1 DEF Invalidate

LEMMA DraftsTyped ==
    ASSUME DraftsType, [Next]_vars
    PROVE  DraftsType'
  <1>1. ASSUME NEW a \in Admins, NEW f \in Forms, Edit(a, f) PROVE DraftsType'
    <2>1. PICK e \in Edited(f, form[a][f], <<a, saves + 1>>) :
             /\ form' = [form EXCEPT ![a][f] = e]
             /\ UNCHANGED <<doc, cache, fetch, hint, stream, put, saves>>
      BY <1>1 DEF Edit
    <2>2. form[a][f] \in Documents /\ saves + 1 \in Nat
      BY DEF DraftsType
    <2>3. e \in Documents
      BY <2>2, EditedPart
    <2> QED
      BY <2>1, <2>3 DEF DraftsType
  <1>2. ASSUME NEW a \in Admins, NEW f \in Forms, Save(a, f) PROVE DraftsType'
    <2>1. [at |-> "sent", doc |-> form[a][f]] \in Requests
      BY DEF DraftsType, Requests
    <2> QED
      BY <1>2, <2>1 DEF Save, DraftsType
  <1>3. ASSUME NEW a \in Admins, Apply(a) PROVE DraftsType'
    <2>1. put[a].doc \in Documents /\ [put[a] EXCEPT !.at = "answered"] \in Requests
      BY RequestFields DEF DraftsType
    <2>2. doc' = [put[a].doc EXCEPT !.reasons = Merged(put[a].doc)]
      BY <1>3 DEF Apply
    <2>3. doc' \in Documents
      BY <2>1, <2>2, AppliedDocument DEF DraftsType
    <2>4. put' \in [Admins -> Requests]
      BY <1>3, <2>1 DEF Apply, DraftsType
    <2>5. hint' \in [Admins -> BOOLEAN]
      BY <1>3 DEF Apply, Told, DraftsType
    <2> QED
      BY <1>3, <2>3, <2>4, <2>5 DEF Apply, DraftsType
  <1>4. ASSUME NEW a \in Admins, Answered(a) \/ Hinted(a) \/ Focus(a) PROVE DraftsType'
    BY <1>4, AskedType, NothingType DEF Answered, Hinted, Focus, DraftsType
  <1>5. ASSUME NEW a \in Admins, ServeGet(a) PROVE DraftsType'
    <2>1. [at |-> "back", doc |-> doc] \in Requests
      BY DEF DraftsType, Requests
    <2> QED
      BY <1>5, <2>1 DEF ServeGet, DraftsType
  <1>6. ASSUME NEW a \in Admins, Fetched(a) PROVE DraftsType'
    <2>1. fetch[a].doc \in Documents
      BY RequestFields DEF DraftsType
    <2> QED
      BY <1>6, <2>1, NothingType DEF Fetched, DraftsType
  <1>7. ASSUME NEW a \in Admins, Drop(a) \/ Reopen(a) PROVE DraftsType'
    BY <1>7 DEF Drop, Reopen, DraftsType
  <1>8. CASE UNCHANGED vars
    BY <1>8 DEF vars, DraftsType
  <1> QED
    BY <1>1, <1>2, <1>3, <1>4, <1>5, <1>6, <1>7, <1>8 DEF Next

-----------------------------------------------------------------------------

\* Whatever documents are saved over each other, no waiting reason is lost
\* (policy-service.ts apply: what a document leaves out is retired).
THEOREM ReasonsAreKept == Spec => ReasonsStay
  <1>1. ASSUME DraftsType, Next
        PROVE  doc.reasons.active \cup doc.reasons.retired
                 \subseteq doc'.reasons.active \cup doc'.reasons.retired
    <2>1. CASE \E a \in Admins : Apply(a)
      <3>1. PICK a \in Admins : Apply(a)
        BY <2>1
      <3>2. doc' = [put[a].doc EXCEPT !.reasons = Merged(put[a].doc)]
        BY <3>1 DEF Apply
      <3>3. doc \in Documents /\ put[a].doc \in Documents
        BY <1>1, RequestFields DEF DraftsType
      <3>4. doc'.reasons = Merged(put[a].doc)
        BY <3>2, <3>3, AppliedDocument
      <3> QED
        BY <3>3, <3>4, MergedReasons
    <2>2. CASE UNCHANGED doc
      BY <2>2
    <2> QED
      BY <1>1, <2>1, <2>2 DEF Next, Edit, Save, Answered, ServeGet, Fetched, Focus, Hinted,
         Drop, Reopen
  <1>2. DraftsType /\ [Next]_vars => DraftsType'
    BY DraftsTyped
  <1>3. DraftsType /\ [Next]_vars =>
          [doc.reasons.active \cup doc.reasons.retired
             \subseteq doc'.reasons.active \cup doc'.reasons.retired]_vars
    BY <1>1
  <1> QED
    BY <1>2, <1>3, DraftsInit, PTL DEF Spec, ReasonsStay

-----------------------------------------------------------------------------
(* The editors.                                                             *)

\* What an editor has, or is about to get, is the policy unless a hint is due.
InStep(a) ==
    /\ stream[a] = "open"
    /\ ~hint[a] /\ fetch[a].at = "back" => fetch[a].doc = doc
    /\ ~hint[a] /\ fetch[a].at = "none" =>
          /\ cache[a] = doc
          /\ \A f \in Forms : \A g \in Forms \ {f} : form[a][f][g] = doc[g]

EditorsInv == DraftsType /\ \A a \in Admins : InStep(a)

LEMMA EditorsInit == Init => EditorsInv
  BY DraftsInit DEF Init, EditorsInv, InStep, Nothing

\* Steps of a that concern nobody else.
LEMMA OnlyMine ==
    ASSUME EditorsInv, DraftsType', NEW a \in Admins, UNCHANGED <<doc, stream>>, InStep(a)',
           \A b \in Admins \ {a} :
              /\ hint'[b] = hint[b] /\ fetch'[b] = fetch[b]
              /\ cache'[b] = cache[b] /\ form'[b] = form[b]
    PROVE  EditorsInv'
  BY DEF EditorsInv, InStep

LEMMA EditorsStep ==
    ASSUME ~Drops, EditorsInv, [Next]_vars
    PROVE  EditorsInv'
  <1>0. DraftsType /\ DraftsType'
    BY DraftsTyped DEF EditorsInv
  <1>1. ASSUME NEW a \in Admins, NEW f \in Forms, Edit(a, f) PROVE EditorsInv'
    <2>1. PICK e \in Edited(f, form[a][f], <<a, saves + 1>>) :
             /\ form[a][f] = cache[a]
             /\ form' = [form EXCEPT ![a][f] = e]
             /\ UNCHANGED <<doc, cache, fetch, hint, stream, put, saves>>
      BY <1>1 DEF Edit
    <2>2. form[a][f] \in Documents /\ saves + 1 \in Nat
      BY <1>0 DEF DraftsType
    <2>3. \A g \in Forms \ {f} : e[g] = cache[a][g]
      BY <2>1, <2>2, EditedPart
    <2>4. /\ form'[a][f] = e
          /\ \A h \in Forms \ {f} : form'[a][h] = form[a][h]
          /\ \A b \in Admins \ {a} : form'[b] = form[b]
      BY <1>0, <2>1 DEF DraftsType
    <2>5. InStep(a)'
      BY <2>1, <2>3, <2>4 DEF EditorsInv, InStep
    <2> QED
      BY <1>0, <2>1, <2>4, <2>5, OnlyMine
  <1>2. ASSUME NEW a \in Admins, NEW f \in Forms, Save(a, f) PROVE EditorsInv'
    BY <1>0, <1>2 DEF Save, EditorsInv, InStep
  <1>3. ASSUME NEW a \in Admins, Apply(a) PROVE EditorsInv'
    <2>1. \A b \in Admins : hint'[b] /\ stream'[b] = "open"
      BY <1>3 DEF Apply, Told, EditorsInv, InStep
    <2> QED
      BY <1>0, <2>1 DEF EditorsInv, InStep
  <1>4. ASSUME NEW a \in Admins, Answered(a) \/ Hinted(a) \/ Focus(a) PROVE EditorsInv'
    <2>1. fetch' = Invalidate(a) /\ UNCHANGED <<doc, cache, form, stream>>
      BY <1>4 DEF Answered, Hinted, Focus
    <2>2. \A b \in Admins \ {a} : hint'[b] = hint[b]
      BY <1>0, <1>4 DEF Answered, Hinted, Focus, DraftsType
    <2>3. fetch'[a].at = "asked" /\ \A b \in Admins \ {a} : fetch'[b] = fetch[b]
      BY <1>0, <2>1, AskedType DEF DraftsType
    <2>4. InStep(a)'
      BY <2>1, <2>3 DEF EditorsInv, InStep
    <2> QED
      BY <1>0, <2>1, <2>2, <2>3, <2>4, OnlyMine
  <1>5. ASSUME NEW a \in Admins, ServeGet(a) PROVE EditorsInv'
    <2>1. /\ fetch' = [fetch EXCEPT ![a] = [at |-> "back", doc |-> doc]]
          /\ UNCHANGED <<doc, cache, form, hint, stream>>
      BY <1>5 DEF ServeGet
    <2>2. fetch'[a] = [at |-> "back", doc |-> doc]
          /\ \A b \in Admins \ {a} : fetch'[b] = fetch[b]
      BY <1>0, <2>1 DEF DraftsType
    <2>3. InStep(a)'
      BY <2>1, <2>2 DEF EditorsInv, InStep
    <2> QED
      BY <1>0, <2>1, <2>2, <2>3, OnlyMine
  <1>6. ASSUME NEW a \in Admins, Fetched(a) PROVE EditorsInv'
    <2>1. /\ fetch[a].at = "back"
          /\ cache' = [cache EXCEPT ![a] = fetch[a].doc]
          /\ form' = [form EXCEPT ![a] = [f \in Forms |-> fetch[a].doc]]
          /\ fetch' = [fetch EXCEPT ![a] = Nothing]
          /\ UNCHANGED <<doc, hint, stream>>
      BY <1>6 DEF Fetched
    <2>2. /\ cache'[a] = fetch[a].doc /\ \A f \in Forms : form'[a][f] = fetch[a].doc
          /\ fetch'[a].at = "none"
          /\ \A b \in Admins \ {a} :
                cache'[b] = cache[b] /\ form'[b] = form[b] /\ fetch'[b] = fetch[b]
      BY <1>0, <2>1, NothingType DEF DraftsType
    <2>3. InStep(a)'
      BY <2>1, <2>2 DEF EditorsInv, InStep
    <2> QED
      BY <1>0, <2>1, <2>2, <2>3, OnlyMine
  <1>7. ASSUME NEW a \in Admins, Drop(a) \/ Reopen(a) PROVE EditorsInv'
    BY <1>7 DEF Drop, Reopen, EditorsInv, InStep
  <1>8. CASE UNCHANGED vars
    BY <1>0, <1>8 DEF vars, EditorsInv, InStep
  <1> QED
    BY <1>1, <1>2, <1>3, <1>4, <1>5, <1>6, <1>7, <1>8 DEF Next

\* While no stream drops, a form whose editor has nothing on its way shows the
\* active policy around its own part, so that its save takes back nothing of
\* another form (SettingsPage.tsx: forms are mounted anew on every refetch).
THEOREM EditorsAreCurrent ==
    ASSUME ~Drops
    PROVE  Spec => []QuietEditorsAreCurrent
  <1>1. EditorsInv /\ [Next]_vars => EditorsInv'
    BY EditorsStep
  <1>2. EditorsInv => QuietEditorsAreCurrent
    BY DEF EditorsInv, InStep, QuietEditorsAreCurrent, Quiet
  <1> QED
    BY <1>1, <1>2, EditorsInit, PTL DEF Spec
=============================================================================
