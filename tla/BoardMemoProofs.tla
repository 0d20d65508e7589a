-------------------------- MODULE BoardMemoProofs --------------------------
(***************************************************************************)
(* Proofs about BoardMemo.tla, for any number of clients, lanes, changes    *)
(* and starts of the process: when every change is one of cards, a board    *)
(* never hides a change that was answered before it was asked for, and the  *)
(* memo is the board.  The reason is one relation: what is read for the     *)
(* current version is at least as new as the last change that was answered, *)
(* because a change is answered and the version bumped in one step.         *)
(*                                                                         *)
(* And about LiveBoard.tla, the board that a browser shows: it catches up   *)
(* with the server whatever moves, changes and broken connections come; and *)
(* about InboxView.tla, the bell: a user's own change shows.                *)
(*                                                                         *)
(* And about UndoStack.tla: an entry of a tab's history is on one stack or  *)
(* in one request; where one thing is done at a time, the stacks are the    *)
(* history in its order.                                                    *)
(*                                                                         *)
(* And about what is typed: WaitingBanner.tla, where edits survive what     *)
(* comes from the server and a save sends no more than them;                *)
(* CommentComposer.tla, where nothing is cleared that was not posted; and   *)
(* NewCard.tla, where what was staged goes to its card, wholly.             *)
(***************************************************************************)
EXTENDS BoardMemo, Sequences, FiniteSetTheorems, SequenceTheorems, TLAPS

\* Of LiveBoard: what is pending there is invalid here.
CONSTANTS
    CardChanges, FileChanges, Discards, Moves, StartsConnected, MaxDrops, Asked
VARIABLES
    server, stream, wire, dropped, drops, invalid, data, fetch, move

V == INSTANCE LiveBoard WITH pending <- invalid

\* Of InboxView: its version, hint and fetch under names of their own.
CONSTANTS Notices, Hasty
VARIABLES inbox, inboxVersion, bellHint, filter, cache, bellFetch, stale, act, own

Bell == INSTANCE InboxView WITH version <- inboxVersion, hint <- bellHint, fetch <- bellFetch

\* Of UndoStack.
CONSTANTS Cards, Acts, Overlapping, Others, MaxActions, MaxPresses, MaxSwitches
VARIABLES board, undo, redo, requests, latest, running, off, acted, presses, performed, recorded

U == INSTANCE UndoStack WITH Kinds <- Acts

\* Of WaitingBanner.
CONSTANTS PanelCards, Fields, Values, MaxVersion
VARIABLES remote, known, open, banner, save

W == INSTANCE WaitingBanner WITH Cards <- PanelCards, server <- remote, cache <- known

\* Of CommentComposer.
CONSTANTS Composers, MaxText, EditsInFlight
VARIABLES text, submitted, written, flights, newest, posted

Thread == INSTANCE CommentComposer

\* Of NewCard.
CONSTANTS Buttons, Cta, Relations, Files, MaxForms, Patient, Switches
VARIABLES modal, form, post, lost, loop, created, taken, settled, shows

N == INSTANCE NewCard

Versions == 0 .. MaxChanges

Requests ==
    [at : {"rest", "asked", "waiting", "shown"}, floor : Nat, on : Nat,
     held : [tag : [boot : Nat, version : Nat] \cup {None}, body : [Lanes -> Int]]]

MemoType ==
    /\ made \in Versions /\ answered \in Nat /\ answered <= made
    /\ \A h \in hints : h.kind \in Kinds /\ h.change \in Nat /\ h.change <= made
    /\ version \in Nat /\ boot \in Nat
    /\ pending \in [Versions -> [Lanes -> Int] \cup {None}]
    /\ memo # None => memo.version \in Nat /\ memo.body \in [Lanes -> Int]
    /\ client \in [Clients -> Requests]

AtLeast(body, n) == \A l \in Lanes : body[l] >= n
ReadAtLeast(body, n) == \A l \in Lanes : body[l] # Unread => body[l] >= n
ReadIsLatest(body) == \A l \in Lanes : body[l] # Unread => body[l] = made

\* Computations are for versions that have come.
VersionsCame ==
    /\ \A v \in Versions : pending[v] # None => v <= version
    /\ memo # None => memo.version <= version

\* What is read for this version shows what has been answered, and everything
\* once no change waits to be published.
ReadsCurrent ==
    /\ \A v \in Versions : v = version /\ pending[v] # None =>
          /\ ReadAtLeast(pending[v], answered)
          /\ hints = {} => ReadIsLatest(pending[v])
    /\ memo # None /\ memo.version = version =>
          /\ AtLeast(memo.body, answered)
          /\ hints = {} => memo.body = Latest

\* A body of this process and this version likewise.
TagsCurrent ==
    \A c \in Clients :
        LET held == client[c].held
        IN  held.tag # None =>
              /\ held.tag.boot <= boot
              /\ held.tag.boot = boot => held.tag.version <= version
              /\ held.tag = Tag(version) => AtLeast(held.body, answered)

\* A request waits for a computation that is new enough for it, and so is what
\* it may be told to keep.
WaitersServed ==
    \A c \in Clients :
        /\ client[c].floor <= answered
        /\ client[c].at = "waiting" =>
              /\ client[c].on <= version
              /\ client[c].held.tag = Tag(client[c].on)
                    => AtLeast(client[c].held.body, client[c].floor)
              /\ \A v \in Versions : client[c].on = v /\ pending[v] # None
                    => ReadAtLeast(pending[v], client[c].floor)

MemoInv == MemoType /\ VersionsCame /\ ReadsCurrent /\ TagsCurrent /\ WaitersServed
           /\ ReadYourWrites

-----------------------------------------------------------------------------

LEMMA MemoInit == Init => MemoInv
  <1> SUFFICES ASSUME Init PROVE MemoInv
    OBVIOUS
  <1>1. MaxChanges \in Nat /\ None \notin [boot : Nat, version : Nat]
    BY MemoAssumption
  <1>2. MemoType
    BY <1>1 DEF Init, MemoType, Versions, Requests, Blank, Unread
  <1>3. VersionsCame /\ ReadsCurrent
    BY DEF Init, VersionsCame, ReadsCurrent, Versions
  <1>4. TagsCurrent
    BY DEF Init, TagsCurrent
  <1>5. WaitersServed /\ ReadYourWrites
    BY DEF Init, WaitersServed, ReadYourWrites
  <1> QED
    BY <1>2, <1>3, <1>4, <1>5 DEF MemoInv

\* A change is there to be published before it is there to be missed.
LEMMA CommitKeepsMemo ==
    ASSUME MemoInv, NEW kind \in Kinds, Commit(kind)
    PROVE  MemoInv'
  <1>1. /\ made < MaxChanges /\ made' = made + 1
        /\ hints' = hints \cup {[kind |-> kind, change |-> made + 1]}
        /\ UNCHANGED <<answered, version, boot, memo, pending, client>>
    BY DEF Commit
  <1>2. MaxChanges \in Nat
    BY MemoAssumption
  <1>3. MemoType'
    BY <1>1, <1>2 DEF MemoInv, MemoType, Versions
  <1>4. hints' # {}
    BY <1>1
  <1>5. ReadsCurrent'
    BY <1>1, <1>4 DEF MemoInv, ReadsCurrent, ReadAtLeast, AtLeast
  <1> QED
    BY <1>1, <1>3, <1>5 DEF MemoInv, VersionsCame, TagsCurrent, WaitersServed,
       ReadYourWrites, ReadAtLeast, AtLeast, Tag

\* An answer and a new version are one step.
LEMMA PublishKeepsMemo ==
    ASSUME Kinds = {"card"}, MemoInv, NEW hint \in hints, Publish(hint)
    PROVE  MemoInv'
  <1>1. /\ version' = version + 1 /\ answered' = Highest(answered, hint.change)
        /\ hints' \subseteq hints
        /\ UNCHANGED <<made, boot, memo, pending, client>>
    BY DEF Publish, Affects, MemoInv, MemoType
  <1>2. answered' \in Nat /\ answered <= answered' /\ answered' <= made
    BY <1>1 DEF Highest, MemoInv, MemoType, Versions
  <1>3. MemoType'
    BY <1>1, <1>2 DEF MemoInv, MemoType
  <1>4. VersionsCame' /\ ReadsCurrent'
    BY <1>1, MemoAssumption DEF MemoInv, MemoType, VersionsCame, ReadsCurrent, Versions
  <1>5. TagsCurrent'
    <2>1. ASSUME NEW c \in Clients, client[c].held.tag # None
          PROVE  /\ client[c].held.tag.boot <= boot
                 /\ client[c].held.tag.boot = boot => client[c].held.tag.version <= version
      BY <2>1 DEF MemoInv, TagsCurrent
    <2>2. ASSUME NEW c \in Clients, client[c].held.tag # None
          PROVE  /\ client[c].held.tag.boot \in Nat /\ client[c].held.tag.version \in Nat
      BY <2>2 DEF MemoInv, MemoType, Requests
    <2> QED
      BY <1>1, <2>1, <2>2 DEF MemoInv, MemoType, TagsCurrent, Tag
  <1>6. WaitersServed'
    BY <1>1, <1>2 DEF MemoInv, MemoType, Requests, WaitersServed, Tag, ReadAtLeast, AtLeast
  <1>7. ReadYourWrites'
    BY <1>1 DEF MemoInv, ReadYourWrites
  <1> QED
    BY <1>3, <1>4, <1>5, <1>6, <1>7 DEF MemoInv

\* Steps of one client alone.
LEMMA ClientKeepsMemo ==
    ASSUME MemoInv, NEW c \in Clients, NEW r \in Requests,
           client' = [client EXCEPT ![c] = r],
           UNCHANGED <<made, hints, answered, version, boot, memo, pending>>,
           r.floor <= answered,
           r.at # "waiting",
           r.held.tag # None =>
              /\ r.held.tag.boot <= boot
              /\ r.held.tag.boot = boot => r.held.tag.version <= version
              /\ r.held.tag = Tag(version) => AtLeast(r.held.body, answered),
           r.at = "shown" => AtLeast(r.held.body, r.floor)
    PROVE  MemoInv'
  <1>1. /\ client'[c] = r
        /\ \A d \in Clients \ {c} : client'[d] = client[d]
        /\ client' \in [Clients -> Requests]
    BY DEF MemoInv, MemoType
  <1>2. MemoType' /\ VersionsCame'
    BY <1>1 DEF MemoInv, MemoType, VersionsCame
  <1>3. ReadsCurrent'
    BY DEF MemoInv, ReadsCurrent, ReadAtLeast, ReadIsLatest, AtLeast, Latest
  <1>4. TagsCurrent'
    BY <1>1 DEF MemoInv, TagsCurrent, Tag, AtLeast
  <1>5. WaitersServed'
    BY <1>1 DEF MemoInv, WaitersServed, Tag, AtLeast, ReadAtLeast
  <1>6. ReadYourWrites'
    BY <1>1 DEF MemoInv, ReadYourWrites, AtLeast
  <1> QED
    BY <1>2, <1>3, <1>4, <1>5, <1>6 DEF MemoInv

\* What the invariant says of one client.
LEMMA ClientAt ==
    ASSUME MemoInv, NEW c \in Clients
    PROVE  /\ client[c] \in Requests /\ answered \in Nat
           /\ client[c].floor <= answered
           /\ client[c].held.tag # None =>
                /\ client[c].held.tag.boot <= boot
                /\ client[c].held.tag.boot = boot => client[c].held.tag.version <= version
                /\ client[c].held.tag = Tag(version) => AtLeast(client[c].held.body, answered)
           /\ client[c].at = "shown" => AtLeast(client[c].held.body, client[c].floor)
  BY DEF MemoInv, MemoType, TagsCurrent, WaitersServed, ReadYourWrites, AtLeast

LEMMA AskKeepsMemo ==
    ASSUME MemoInv, NEW c \in Clients, Ask(c)
    PROVE  MemoInv'
  <1> DEFINE r == [client[c] EXCEPT !.at = "asked", !.floor = answered]
  <1>1. client' = [client EXCEPT ![c] = r]
    BY DEF Ask
  <1>2. r \in Requests /\ r.at = "asked" /\ r.floor = answered /\ r.held = client[c].held
    BY ClientAt DEF Requests
  <1> HIDE DEF r
  <1>3. UNCHANGED <<made, hints, answered, version, boot, memo, pending>>
    BY DEF Ask
  <1>4. r.floor <= answered
    BY <1>2, ClientAt
  <1> QED
    BY <1>1, <1>2, <1>3, <1>4, ClientAt, ClientKeepsMemo

LEMMA AgainKeepsMemo ==
    ASSUME MemoInv, NEW c \in Clients, Again(c)
    PROVE  MemoInv'
  <1> DEFINE r == [client[c] EXCEPT !.at = "rest", !.on = 0]
  <1>1. client' = [client EXCEPT ![c] = r]
    <2>1. client' = [client EXCEPT ![c].at = "rest", ![c].on = 0]
      BY DEF Again, Goes
    <2>2. client \in [Clients -> Requests]
      BY DEF MemoInv, MemoType
    <2>3. client' = [client EXCEPT ![c] = [[client[c] EXCEPT !.at = "rest"] EXCEPT !.on = 0]]
      BY <2>1, <2>2
    <2>4. r = [[client[c] EXCEPT !.at = "rest"] EXCEPT !.on = 0]
      BY ClientAt DEF Requests
    <2> QED
      BY <2>3, <2>4
  <1>2. r \in Requests /\ r.at = "rest" /\ r.floor = client[c].floor /\ r.held = client[c].held
    BY ClientAt DEF Requests
  <1> HIDE DEF r
  <1>3. UNCHANGED <<made, hints, answered, version, boot, memo, pending>>
    BY DEF Again
  <1> QED
    BY <1>1, <1>2, <1>3, ClientAt, ClientKeepsMemo

\* The memo of this version, or the body the client has for it.
LEMMA ServeMemoKeeps ==
    ASSUME MemoInv, NEW c \in Clients, ServeMemo(c)
    PROVE  MemoInv'
  <1> DEFINE h == Served(memo, client[c].held)
             r == [client[c] EXCEPT !.at = "shown", !.held = h]
  <1>1. client' = [client EXCEPT ![c] = r] /\ memo # None /\ memo.version = version
    BY DEF ServeMemo, Hit
  <1>2. /\ memo.body \in [Lanes -> Int] /\ AtLeast(memo.body, answered)
        /\ Tag(version) \in [boot : Nat, version : Nat]
        /\ Tag(version).boot = boot /\ Tag(version).version = version
        /\ boot \in Nat /\ version \in Nat
    BY <1>1 DEF MemoInv, MemoType, ReadsCurrent, Tag
  <1>3. Tag(version) # None
    BY <1>2, MemoAssumption
  <1>4. /\ h \in [tag : [boot : Nat, version : Nat] \cup {None}, body : [Lanes -> Int]]
        /\ h.tag = Tag(version) /\ AtLeast(h.body, answered)
    <2>1. CASE client[c].held.tag = Tag(version)
      BY <1>1, <1>3, <2>1, ClientAt DEF Served, Requests
    <2>2. CASE client[c].held.tag # Tag(version)
      <3>1. h = [tag |-> Tag(version), body |-> memo.body]
        BY <1>1, <2>2 DEF Served
      <3> QED BY <1>2, <3>1
    <2> QED BY <2>1, <2>2
  <1> HIDE DEF h
  <1>5. r \in Requests /\ r.at = "shown" /\ r.floor = client[c].floor /\ r.held = h
    BY <1>4, ClientAt DEF Requests
  <1> HIDE DEF r
  <1>6. AtLeast(h.body, client[c].floor)
    <2>1. \A l \in Lanes : h.body[l] \in Int
      BY <1>4
    <2>2. client[c].floor \in Nat /\ client[c].floor <= answered /\ answered \in Nat
      BY ClientAt DEF Requests
    <2> QED
      BY <1>4, <2>1, <2>2 DEF AtLeast
  <1>7. UNCHANGED <<made, hints, answered, version, boot, memo, pending>>
    BY DEF ServeMemo
  <1>8. /\ r.held.tag.boot <= boot
        /\ r.held.tag.boot = boot => r.held.tag.version <= version
        /\ r.held.tag = Tag(version) => AtLeast(r.held.body, answered)
    BY <1>2, <1>4, <1>5
  <1>9. r.floor <= answered /\ AtLeast(r.held.body, r.floor) /\ r.at # "waiting"
    BY <1>5, <1>6, ClientAt
  <1> QED
    BY <1>1, <1>5, <1>7, <1>8, <1>9, ClientKeepsMemo

\* A request joins the computation for the version of the moment: whatever that
\* has read is new enough for it.
LEMMA JoinKeepsMemo ==
    ASSUME MemoInv, NEW c \in Clients, Join(c)
    PROVE  MemoInv'
  <1> DEFINE started == IF pending[version] = None THEN Blank ELSE pending[version]
  <1>1. /\ client' = [client EXCEPT ![c].at = "waiting", ![c].on = version]
        /\ pending' = [pending EXCEPT ![version] = started]
        /\ UNCHANGED <<made, hints, answered, version, boot, memo>>
    BY DEF Join, Goes
  <1>2. Blank \in [Lanes -> Int] /\ \A l \in Lanes : Blank[l] = Unread
    BY DEF Blank, Unread
  <1>3. /\ pending \in [Versions -> [Lanes -> Int] \cup {None}]
        /\ client \in [Clients -> Requests] /\ version \in Nat
    BY DEF MemoInv, MemoType
  <1>4. /\ client' \in [Clients -> Requests]
        /\ client'[c].at = "waiting" /\ client'[c].on = version
        /\ client'[c].floor = client[c].floor /\ client'[c].held = client[c].held
        /\ \A d \in Clients \ {c} : client'[d] = client[d]
    BY <1>1, <1>3 DEF Requests
  <1>5. /\ pending' \in [Versions -> [Lanes -> Int] \cup {None}]
        /\ \A v \in Versions : v # version => pending'[v] = pending[v]
        /\ version \in Versions => pending'[version] = started
    <2>1. version \in Versions => started \in [Lanes -> Int] \cup {None}
      BY <1>2, <1>3
    <2> HIDE DEF started
    <2> QED BY <1>1, <1>3, <2>1
  <1>6. MemoType'
    BY <1>1, <1>4, <1>5 DEF MemoInv, MemoType
  <1>7. VersionsCame'
    BY <1>1, <1>3, <1>5 DEF MemoInv, VersionsCame
  <1>8. ASSUME version \in Versions
        PROVE  ReadAtLeast(started, answered) /\ (hints = {} => ReadIsLatest(started))
    BY <1>2, <1>8 DEF MemoInv, ReadsCurrent, ReadAtLeast, ReadIsLatest
  <1>9. ReadsCurrent'
    <2>1. ASSUME NEW v \in Versions, v = version, pending'[v] # None
          PROVE  ReadAtLeast(pending'[v], answered) /\ (hints = {} => ReadIsLatest(pending'[v]))
      BY <1>5, <1>8, <2>1
    <2> QED
      BY <1>1, <2>1 DEF MemoInv, ReadsCurrent, ReadAtLeast, ReadIsLatest, AtLeast, Latest
  <1>10. TagsCurrent'
    BY <1>1, <1>4 DEF MemoInv, TagsCurrent, Tag, AtLeast
  <1>11. WaitersServed'
    <2>1. client[c].floor \in Nat /\ client[c].floor <= answered /\ answered \in Nat
      BY ClientAt DEF Requests
    <2>2. ASSUME client[c].held.tag = Tag(version)
          PROVE  AtLeast(client[c].held.body, client[c].floor)
      <3>1. client[c].held.tag # None
        BY <2>2, <1>3, MemoAssumption DEF Tag, MemoInv, MemoType
      <3>2. AtLeast(client[c].held.body, answered)
        BY <2>2, <3>1, ClientAt
      <3>3. \A l \in Lanes : client[c].held.body[l] \in Int
        BY ClientAt DEF Requests
      <3> QED BY <2>1, <3>2, <3>3 DEF AtLeast
    <2>3. ASSUME version \in Versions, started # None
          PROVE  ReadAtLeast(started, client[c].floor)
      <3>1. \A l \in Lanes : started[l] \in Int
        BY <1>2, <1>3, <2>3
      <3> HIDE DEF started
      <3> QED BY <1>8, <2>1, <2>3, <3>1 DEF ReadAtLeast
    <2>4. ASSUME NEW d \in Clients, d # c, client[d].at = "waiting",
                 NEW v \in Versions, client[d].on = v, pending'[v] # None
          PROVE  ReadAtLeast(pending'[v], client[d].floor)
      <3>1. CASE pending'[v] = pending[v]
        BY <2>4, <3>1 DEF MemoInv, WaitersServed
      <3>2. CASE pending'[v] # pending[v]
        BY <1>2, <1>5, <3>2 DEF ReadAtLeast
      <3> QED BY <3>1, <3>2
    <2>5. ASSUME NEW v \in Versions, client'[c].on = v, pending'[v] # None
          PROVE  ReadAtLeast(pending'[v], client'[c].floor)
      BY <1>4, <1>5, <2>3, <2>5
    <2>6. /\ client'[c].floor <= answered /\ client'[c].on <= version
          /\ client'[c].held.tag = Tag(client'[c].on)
                => AtLeast(client'[c].held.body, client'[c].floor)
      BY <1>3, <1>4, <2>1, <2>2
    <2> QED
      BY <1>1, <1>4, <2>4, <2>5, <2>6
      DEF MemoInv, WaitersServed, Tag, ReadAtLeast, AtLeast
  <1>12. ReadYourWrites'
    BY <1>4 DEF MemoInv, ReadYourWrites
  <1> QED
    BY <1>6, <1>7, <1>9, <1>10, <1>11, <1>12 DEF MemoInv

\* Lanes are read as they are at the moment.
LEMMA ReadKeepsMemo ==
    ASSUME MemoInv, NEW v \in Versions, NEW lanes, ReadLanes(v, lanes)
    PROVE  MemoInv'
  <1> DEFINE read == [l \in Lanes |-> IF l \in lanes THEN made ELSE pending[v][l]]
  <1>1. /\ pending[v] # None
        /\ pending' = [pending EXCEPT ![v] = read]
        /\ UNCHANGED <<made, hints, answered, version, boot, memo, client>>
    BY DEF ReadLanes
  <1>2. /\ pending[v] \in [Lanes -> Int] /\ made \in Nat /\ answered \in Nat
        /\ answered <= made
    BY <1>1 DEF MemoInv, MemoType, Versions
  <1>3. read \in [Lanes -> Int] /\ \A l \in Lanes : read[l] = made \/ read[l] = pending[v][l]
    BY <1>2
  <1> HIDE DEF read
  <1>4. /\ pending' \in [Versions -> [Lanes -> Int] \cup {None}]
        /\ pending'[v] = read /\ \A w \in Versions \ {v} : pending'[w] = pending[w]
    BY <1>1, <1>3 DEF MemoInv, MemoType
  <1>5. MemoType' /\ VersionsCame'
    BY <1>1, <1>4 DEF MemoInv, MemoType, VersionsCame
  <1>6. v = version => ReadAtLeast(read, answered) /\ (hints = {} => ReadIsLatest(read))
    BY <1>1, <1>2, <1>3 DEF MemoInv, ReadsCurrent, ReadAtLeast, ReadIsLatest
  <1>7. ReadsCurrent'
    <2>1. ASSUME NEW w \in Versions, w = version, pending'[w] # None
          PROVE  ReadAtLeast(pending'[w], answered) /\ (hints = {} => ReadIsLatest(pending'[w]))
      BY <1>4, <1>6, <2>1 DEF MemoInv, ReadsCurrent
    <2> QED
      BY <1>1, <2>1 DEF MemoInv, ReadsCurrent, ReadAtLeast, ReadIsLatest, AtLeast, Latest
  <1>8. WaitersServed'
    <2>1. ASSUME NEW c \in Clients, client[c].at = "waiting", client[c].on = v
          PROVE  ReadAtLeast(read, client[c].floor)
      <3>1. client[c].floor \in Nat /\ client[c].floor <= answered
        BY ClientAt DEF Requests
      <3>2. ReadAtLeast(pending[v], client[c].floor)
        BY <1>1, <2>1 DEF MemoInv, WaitersServed
      <3> QED BY <1>2, <1>3, <3>1, <3>2 DEF ReadAtLeast
    <2> QED
      BY <1>1, <1>4, <2>1 DEF MemoInv, WaitersServed, ReadAtLeast, AtLeast, Tag
  <1>9. TagsCurrent' /\ ReadYourWrites'
    BY <1>1 DEF MemoInv, TagsCurrent, ReadYourWrites, AtLeast, Tag
  <1> QED
    BY <1>5, <1>7, <1>8, <1>9 DEF MemoInv

\* A computation that fails is forgotten, and its clients ask again.
LEMMA FailKeepsMemo ==
    ASSUME MemoInv, NEW v \in Versions, Fail(v)
    PROVE  MemoInv'
  <1>1. /\ client' = [c \in Clients |->
                        IF client[c].at = "waiting" /\ client[c].on = v
                        THEN [client[c] EXCEPT !.at = "rest"] ELSE client[c]]
        /\ pending' = [pending EXCEPT ![v] = None]
        /\ UNCHANGED <<made, hints, answered, version, boot, memo>>
    BY DEF Fail, Settled
  <1>2. /\ pending' \in [Versions -> [Lanes -> Int] \cup {None}]
        /\ \A w \in Versions : pending'[w] = None \/ pending'[w] = pending[w]
    BY <1>1 DEF MemoInv, MemoType
  <1>3. ASSUME NEW c \in Clients
        PROVE  /\ client'[c] \in Requests
               /\ client'[c].floor = client[c].floor /\ client'[c].held = client[c].held
               /\ client'[c].at = "rest" \/ client'[c] = client[c]
    BY <1>1, ClientAt DEF Requests
  <1>4. client' \in [Clients -> Requests]
    BY <1>1, <1>3
  <1>5. MemoType' /\ VersionsCame'
    BY <1>1, <1>2, <1>4 DEF MemoInv, MemoType, VersionsCame
  <1>6. ReadsCurrent'
    BY <1>1, <1>2 DEF MemoInv, ReadsCurrent, ReadAtLeast, ReadIsLatest, AtLeast, Latest
  <1>7. TagsCurrent'
    BY <1>1, <1>3 DEF MemoInv, TagsCurrent, Tag, AtLeast
  <1>8. WaitersServed' /\ ReadYourWrites'
    BY <1>1, <1>2, <1>3 DEF MemoInv, WaitersServed, ReadYourWrites, Tag, ReadAtLeast, AtLeast
  <1> QED
    BY <1>5, <1>6, <1>7, <1>8 DEF MemoInv

\* A computation that ends is kept if its version is still the one, and served
\* to everybody who waited for it.
LEMMA FinishKeepsMemo ==
    ASSUME MemoInv, NEW v \in Versions, Finish(v)
    PROVE  MemoInv'
  <1> DEFINE entry == [version |-> v, body |-> pending[v]]
  <1>1. /\ pending[v] # None /\ \A l \in Lanes : pending[v][l] # Unread
        /\ memo' = Keeps(entry)
        /\ client' = [c \in Clients |->
                        IF client[c].at = "waiting" /\ client[c].on = v
                        THEN [client[c] EXCEPT !.at = "shown",
                                               !.held = Served(entry, client[c].held)]
                        ELSE client[c]]
        /\ pending' = [pending EXCEPT ![v] = None]
        /\ UNCHANGED <<made, hints, answered, version, boot>>
    BY DEF Finish, Settled
  <1>2. /\ pending[v] \in [Lanes -> Int] /\ v \in Nat /\ v <= version
        /\ version \in Nat /\ boot \in Nat /\ answered \in Nat
    <2>1. pending[v] # None
      BY <1>1
    <2>2. v \in Nat
      BY MemoAssumption DEF Versions
    <2> QED
      BY <2>1, <2>2 DEF MemoInv, MemoType, VersionsCame
  <1>3. v = version => /\ AtLeast(pending[v], answered)
                       /\ hints = {} => pending[v] = Latest
    BY <1>1, <1>2 DEF MemoInv, ReadsCurrent, ReadAtLeast, ReadIsLatest, AtLeast, Latest
  <1>4. memo' = memo \/ (v = version /\ memo' = entry)
    BY <1>1 DEF Keeps
  <1>5. /\ pending' \in [Versions -> [Lanes -> Int] \cup {None}]
        /\ \A w \in Versions : pending'[w] = None \/ pending'[w] = pending[w]
    BY <1>1 DEF MemoInv, MemoType
  <1>6. ASSUME NEW c \in Clients, client[c].at = "waiting", client[c].on = v
        PROVE  /\ client'[c] \in Requests /\ client'[c].at = "shown"
               /\ client'[c].floor = client[c].floor
               /\ client'[c].held.tag = Tag(v)
               /\ AtLeast(client'[c].held.body, client[c].floor)
               /\ v = version => AtLeast(client'[c].held.body, answered)
    <2> DEFINE h == Served(entry, client[c].held)
    <2>1. Tag(v) \in [boot : Nat, version : Nat] /\ Tag(v) # None
      BY <1>2, MemoAssumption DEF Tag
    <2>2. /\ client[c].held \in [tag : [boot : Nat, version : Nat] \cup {None},
                                 body : [Lanes -> Int]]
          /\ client[c] \in Requests
      BY ClientAt DEF Requests
    <2>3. AtLeast(pending[v], client[c].floor)
      BY <1>1, <1>6 DEF MemoInv, WaitersServed, ReadAtLeast, AtLeast
    <2>4. /\ h \in [tag : [boot : Nat, version : Nat] \cup {None}, body : [Lanes -> Int]]
          /\ h.tag = Tag(v) /\ AtLeast(h.body, client[c].floor)
          /\ v = version => AtLeast(h.body, answered)
      <3>1. CASE client[c].held.tag = Tag(v)
        <4>1. h = client[c].held
          BY <3>1 DEF Served
        <4>2. AtLeast(client[c].held.body, client[c].floor)
          BY <1>6, <3>1 DEF MemoInv, WaitersServed
        <4>3. v = version => AtLeast(client[c].held.body, answered)
          BY <2>1, <3>1, ClientAt
        <4> QED BY <2>2, <3>1, <4>1, <4>2, <4>3
      <3>2. CASE client[c].held.tag # Tag(v)
        <4>1. h = [tag |-> Tag(v), body |-> pending[v]]
          BY <3>2 DEF Served
        <4> QED BY <1>2, <1>3, <2>1, <2>3, <4>1
      <3> QED BY <3>1, <3>2
    <2>5. client'[c] = [client[c] EXCEPT !.at = "shown", !.held = h]
      BY <1>1, <1>6
    <2> HIDE DEF h
    <2>6. /\ client'[c] \in Requests /\ client'[c].at = "shown"
          /\ client'[c].floor = client[c].floor /\ client'[c].held = h
      BY <2>2, <2>4, <2>5 DEF Requests
    <2> QED
      BY <2>4, <2>6
  <1>7. ASSUME NEW c \in Clients, ~(client[c].at = "waiting" /\ client[c].on = v)
        PROVE  client'[c] = client[c]
    BY <1>1, <1>7
  <1>8. client' \in [Clients -> Requests]
    BY <1>1, <1>6, <1>7, ClientAt
  <1>9. memo' # None => /\ memo'.version \in Nat /\ memo'.body \in [Lanes -> Int]
                        /\ memo'.version <= version
                        /\ memo'.version = version =>
                              /\ AtLeast(memo'.body, answered)
                              /\ hints = {} => memo'.body = Latest
    <2>1. CASE memo' = memo
      BY <2>1 DEF MemoInv, MemoType, VersionsCame, ReadsCurrent
    <2>2. CASE v = version /\ memo' = entry
      BY <1>2, <1>3, <2>2
    <2> QED BY <1>4, <2>1, <2>2
  <1> HIDE DEF entry
  <1>10. MemoType' /\ VersionsCame'
    BY <1>1, <1>5, <1>8, <1>9 DEF MemoInv, MemoType, VersionsCame
  <1>11. ReadsCurrent'
    BY <1>1, <1>5, <1>9 DEF MemoInv, ReadsCurrent, ReadAtLeast, ReadIsLatest, AtLeast, Latest
  <1>12. TagsCurrent'
    <2>1. ASSUME NEW c \in Clients, client'[c].held.tag # None
          PROVE  /\ client'[c].held.tag.boot <= boot
                 /\ client'[c].held.tag.boot = boot => client'[c].held.tag.version <= version
                 /\ client'[c].held.tag = Tag(version)
                       => AtLeast(client'[c].held.body, answered)
      <3>1. CASE client[c].at = "waiting" /\ client[c].on = v
        <4>1. Tag(v).boot = boot /\ Tag(v).version = v /\ Tag(version).version = version
          BY DEF Tag
        <4> QED BY <1>2, <1>6, <3>1, <4>1
      <3>2. CASE ~(client[c].at = "waiting" /\ client[c].on = v)
        BY <1>7, <2>1, <3>2, ClientAt
      <3> QED BY <3>1, <3>2
    <2> QED
      BY <1>1, <2>1 DEF TagsCurrent, Tag, AtLeast
  <1>13. WaitersServed'
    <2>1. ASSUME NEW c \in Clients
          PROVE  /\ client'[c].floor <= answered
                 /\ client'[c].at = "waiting" => client'[c] = client[c]
      BY <1>6, <1>7, ClientAt
    <2>2. ASSUME NEW c \in Clients, client'[c].at = "waiting"
          PROVE  /\ client'[c].on <= version
                 /\ client'[c].held.tag = Tag(client'[c].on)
                       => AtLeast(client'[c].held.body, client'[c].floor)
                 /\ \A w \in Versions : client'[c].on = w /\ pending'[w] # None
                       => ReadAtLeast(pending'[w], client'[c].floor)
      <3>1. client'[c] = client[c] /\ client[c].at = "waiting"
        BY <2>1, <2>2
      <3>2. /\ client[c].on <= version
            /\ client[c].held.tag = Tag(client[c].on)
                  => AtLeast(client[c].held.body, client[c].floor)
            /\ \A w \in Versions : client[c].on = w /\ pending[w] # None
                  => ReadAtLeast(pending[w], client[c].floor)
        BY <3>1 DEF MemoInv, WaitersServed
      <3> QED
        BY <1>5, <3>1, <3>2
    <2> QED
      BY <1>1, <2>1, <2>2 DEF WaitersServed, Tag, ReadAtLeast, AtLeast
  <1>14. ReadYourWrites'
    BY <1>6, <1>7 DEF MemoInv, ReadYourWrites, AtLeast
  <1> QED
    BY <1>10, <1>11, <1>12, <1>13, <1>14 DEF MemoInv

\* No tag of an earlier process is one of this process.
LEMMA RestartKeepsMemo ==
    ASSUME MemoInv, Restart
    PROVE  MemoInv'
  <1>1. /\ boot' = boot + 1 /\ version' = 0 /\ memo' = None /\ hints' = {}
        /\ pending' = [v \in DOMAIN pending |-> None]
        /\ client' = [c \in Clients |-> IF client[c].at = "shown" THEN client[c]
                                        ELSE [client[c] EXCEPT !.at = "rest"]]
        /\ UNCHANGED <<made, answered>>
    BY DEF Restart
  <1>2. boot \in Nat /\ \A v \in Versions : pending'[v] = None
    BY <1>1 DEF MemoInv, MemoType
  <1>3. ASSUME NEW c \in Clients
        PROVE  /\ client'[c] \in Requests
               /\ client'[c].floor = client[c].floor /\ client'[c].held = client[c].held
               /\ client'[c].at = "rest" \/ (client'[c] = client[c] /\ client[c].at = "shown")
    BY <1>1, ClientAt DEF Requests
  <1>4. client' \in [Clients -> Requests]
    BY <1>1, <1>3
  <1>5. pending' \in [Versions -> [Lanes -> Int] \cup {None}]
    BY <1>1 DEF MemoInv, MemoType
  <1>6. MemoType' /\ VersionsCame' /\ ReadsCurrent'
    BY <1>1, <1>2, <1>4, <1>5 DEF MemoInv, MemoType, VersionsCame, ReadsCurrent
  <1>7. TagsCurrent'
    <2>1. ASSUME NEW c \in Clients, client'[c].held.tag # None
          PROVE  /\ client'[c].held.tag.boot <= boot' /\ client'[c].held.tag.boot # boot'
                 /\ client'[c].held.tag # Tag(0)'
      <3>1. client[c].held.tag.boot <= boot /\ client[c].held.tag.boot \in Nat
        BY <1>3, <2>1, ClientAt DEF Requests
      <3> QED
        BY <1>1, <1>2, <1>3, <3>1 DEF Tag
    <2> QED
      BY <1>1, <2>1 DEF TagsCurrent
  <1>8. WaitersServed' /\ ReadYourWrites'
    BY <1>1, <1>3 DEF MemoInv, WaitersServed, ReadYourWrites
  <1> QED
    BY <1>6, <1>7, <1>8 DEF MemoInv

LEMMA MemoStep ==
    ASSUME Kinds = {"card"}, MemoInv, [Next]_vars
    PROVE  MemoInv'
  <1>1. DOMAIN pending = Versions
    BY DEF MemoInv, MemoType
  <1>2. ASSUME NEW v \in Versions, Read(v) PROVE MemoInv'
    BY <1>2, ReadKeepsMemo DEF Read, ReadLaneByLane
  <1>3. CASE UNCHANGED vars
    BY <1>3 DEF vars, MemoInv, MemoType, VersionsCame, ReadsCurrent, TagsCurrent,
       WaitersServed, ReadYourWrites, ReadAtLeast, ReadIsLatest, AtLeast, Latest, Tag
  <1>4. CASE Next
    BY <1>1, <1>2, <1>4, CommitKeepsMemo, PublishKeepsMemo, AskKeepsMemo, ServeMemoKeeps,
       JoinKeepsMemo, AgainKeepsMemo, FinishKeepsMemo, FailKeepsMemo, RestartKeepsMemo
    DEF Next
  <1> QED BY <1>3, <1>4

\* The memo, the computations and the tags, related as above, on any adapter.
THEOREM MemoCorrect ==
    ASSUME Kinds = {"card"}
    PROVE  Spec => []MemoInv
  <1>1. MemoInv /\ [Next]_vars => MemoInv'
    BY MemoStep
  <1> QED
    BY <1>1, MemoInit, PTL DEF Spec

\* A board that is asked for after the answer to a change of a card shows that
\* change, however computations, invalidations, failures and restarts are
\* interleaved (board-routes.ts, GET /board).
THEOREM WritesAreRead ==
    ASSUME Kinds = {"card"}
    PROVE  Spec => []ReadYourWrites
  <1>1. MemoInv => ReadYourWrites
    BY DEF MemoInv
  <1> QED
    BY <1>1, MemoCorrect, PTL

\* Once every change of a card is published, the memo of this version is the
\* board (board-routes.ts computeEntry: a computation that raced with an
\* invalidation is not kept).
THEOREM MemoIsCurrent ==
    ASSUME Kinds = {"card"}
    PROVE  Spec => []MemoIsTheBoard
  <1>1. MemoInv => MemoIsTheBoard
    BY DEF MemoInv, ReadsCurrent, MemoIsTheBoard, Hit
  <1> QED
    BY <1>1, MemoCorrect, PTL

-----------------------------------------------------------------------------
(* One snapshot, where a transaction reads from one.                        *)

Uniform(body) == \A l, k \in Lanes : body[l] = body[k]

SnapshotInv ==
    /\ \A v \in Versions : pending[v] # None => Uniform(pending[v])
    /\ memo # None => Uniform(memo.body)
    /\ \A c \in Clients : Uniform(client[c].held.body)

LEMMA SnapshotInit == Init => SnapshotInv
  BY DEF Init, SnapshotInv, Uniform, Versions, Blank

LEMMA ServedUniform ==
    ASSUME NEW entry, NEW held, Uniform(entry.body), Uniform(held.body)
    PROVE  Uniform(Served(entry, held).body)
  BY DEF Served, Uniform

\* Only a client's place changes, or the request it makes.
LEMMA HeldKeepsSnapshot ==
    ASSUME SnapshotInv, UNCHANGED <<memo, pending>>,
           \A c \in Clients : Uniform(client'[c].held.body)
    PROVE  SnapshotInv'
  BY DEF SnapshotInv, Uniform

LEMMA SnapshotStep ==
    ASSUME ~Postgres, MemoInv, SnapshotInv, [Next]_vars
    PROVE  SnapshotInv'
  <1>0. /\ client \in [Clients -> Requests]
        /\ pending \in [Versions -> [Lanes -> Int] \cup {None}]
    BY DEF MemoInv, MemoType
  <1>1. ASSUME NEW c \in Clients, Ask(c) \/ Again(c) PROVE SnapshotInv'
    <2>1. \A d \in Clients : client'[d].held = client[d].held
      BY <1>0, <1>1 DEF Ask, Again, Goes, Requests
    <2> QED
      BY <1>1, <2>1, HeldKeepsSnapshot DEF Ask, Again, SnapshotInv
  <1>2. ASSUME NEW c \in Clients, ServeMemo(c) PROVE SnapshotInv'
    <2>1. memo # None /\ client' = [client EXCEPT ![c].at = "shown",
                                                  ![c].held = Served(memo, client[c].held)]
          /\ UNCHANGED <<memo, pending>>
      BY <1>2 DEF ServeMemo, Hit
    <2>2. Uniform(Served(memo, client[c].held).body)
      BY <2>1, ServedUniform DEF SnapshotInv
    <2>3. \A d \in Clients : client'[d].held = client[d].held
                             \/ client'[d].held = Served(memo, client[c].held)
      BY <1>0, <2>1 DEF Requests
    <2> QED
      BY <2>1, <2>2, <2>3, HeldKeepsSnapshot DEF SnapshotInv
  <1>3. ASSUME NEW c \in Clients, Join(c) PROVE SnapshotInv'
    <2>1. /\ client' = [client EXCEPT ![c].at = "waiting", ![c].on = version]
          /\ pending' = [pending EXCEPT ![version] = IF @ = None THEN Blank ELSE @]
          /\ UNCHANGED memo
      BY <1>3 DEF Join, Goes
    <2>2. \A d \in Clients : client'[d].held = client[d].held
      BY <1>0, <2>1 DEF Requests
    <2>3. \A v \in Versions : pending'[v] = pending[v] \/ pending'[v] = Blank
      BY <1>0, <2>1
    <2>4. Uniform(Blank)
      BY DEF Uniform, Blank
    <2>5. \A v \in Versions : pending'[v] # None => Uniform(pending'[v])
      BY <2>3, <2>4 DEF SnapshotInv
    <2>6. \A d \in Clients : Uniform(client'[d].held.body)
      BY <2>2 DEF SnapshotInv
    <2> QED
      BY <2>1, <2>5, <2>6 DEF SnapshotInv, Uniform
  <1>4. ASSUME NEW v \in Versions, Read(v) PROVE SnapshotInv'
    <2>1. /\ pending' = [pending EXCEPT ![v] = [l \in Lanes |->
                            IF l \in Lanes THEN made ELSE pending[v][l]]]
          /\ UNCHANGED <<memo, client>>
      BY <1>4 DEF Read, ReadLanes
    <2>2. /\ \A l \in Lanes : pending'[v][l] = made
          /\ \A w \in Versions \ {v} : pending'[w] = pending[w]
      BY <1>0, <2>1
    <2> QED
      BY <2>1, <2>2 DEF SnapshotInv, Uniform
  <1>5. ASSUME NEW v \in Versions, Finish(v) PROVE SnapshotInv'
    <2> DEFINE entry == [version |-> v, body |-> pending[v]]
    <2>1. /\ pending[v] # None
          /\ memo' = Keeps(entry)
          /\ client' = [c \in Clients |->
                          IF client[c].at = "waiting" /\ client[c].on = v
                          THEN [client[c] EXCEPT !.at = "shown",
                                                 !.held = Served(entry, client[c].held)]
                          ELSE client[c]]
          /\ pending' = [pending EXCEPT ![v] = None]
      BY <1>5 DEF Finish, Settled
    <2>2. Uniform(entry.body)
      BY <2>1 DEF SnapshotInv
    <2>3. memo' = memo \/ memo' = entry
      BY <2>1 DEF Keeps
    <2>4. \A w \in Versions : pending'[w] = None \/ pending'[w] = pending[w]
      BY <1>0, <2>1
    <2> HIDE DEF entry
    <2>5. \A c \in Clients : client'[c].held = client[c].held
                             \/ client'[c].held = Served(entry, client[c].held)
      BY <1>0, <2>1 DEF Requests
    <2>6. ASSUME NEW c \in Clients PROVE Uniform(client'[c].held.body)
      BY <2>2, <2>5, ServedUniform DEF SnapshotInv
    <2> QED
      BY <2>2, <2>3, <2>4, <2>6 DEF SnapshotInv, Uniform
  <1>6. ASSUME NEW v \in Versions, Fail(v) PROVE SnapshotInv'
    <2>1. \A c \in Clients : client'[c].held = client[c].held
      BY <1>0, <1>6 DEF Fail, Settled, Requests
    <2>2. \A w \in Versions : pending'[w] = None \/ pending'[w] = pending[w]
      BY <1>0, <1>6 DEF Fail
    <2>3. \A w \in Versions : pending'[w] # None => Uniform(pending'[w])
      BY <2>2 DEF SnapshotInv
    <2>4. \A c \in Clients : Uniform(client'[c].held.body)
      BY <2>1 DEF SnapshotInv
    <2>5. UNCHANGED memo
      BY <1>6 DEF Fail
    <2> QED
      BY <2>3, <2>4, <2>5 DEF SnapshotInv, Uniform
  <1>7. CASE Restart
    <2>1. \A c \in Clients : client'[c].held = client[c].held
      BY <1>0, <1>7 DEF Restart, Requests
    <2>2. \A w \in Versions : pending'[w] = None
      BY <1>0, <1>7 DEF Restart
    <2> QED
      BY <1>7, <2>1, <2>2 DEF Restart, SnapshotInv, Uniform
  <1>8. CASE \/ \E kind \in Kinds : Commit(kind)
             \/ \E hint \in hints : Publish(hint)
             \/ UNCHANGED vars
    BY <1>8, HeldKeepsSnapshot DEF Commit, Publish, vars, SnapshotInv
  <1> QED
    BY <1>0, <1>1, <1>2, <1>3, <1>4, <1>5, <1>6, <1>7, <1>8 DEF Next

\* Where the reads of a transaction are those of one moment, no client is ever
\* shown columns of different moments (board-query-service.ts boardSnapshot).
THEOREM SnapshotCorrect ==
    ASSUME Kinds = {"card"}, ~Postgres
    PROVE  Spec => []OneSnapshot
  <1>1. MemoInv /\ SnapshotInv /\ [Next]_vars => SnapshotInv'
    BY SnapshotStep
  <1>2. SnapshotInv => OneSnapshot
    BY DEF SnapshotInv, Uniform, OneSnapshot
  <1> QED
    BY <1>1, <1>2, SnapshotInit, MemoCorrect, PTL DEF Spec

-----------------------------------------------------------------------------
(* What a browser shows, for any number of moves, of changes and of broken  *)
(* connections: the hint of every change that the cached board does not     *)
(* have is still coming, or the fetch it caused is, or a move whose end     *)
(* fetches anyway.                                                          *)

\* The browser was connected before it fetched, and cards are not discarded;
\* what stands for no answer, and for one that is awaited, is no content.
LiveConstants ==
    /\ StartsConnected /\ Discards = {}
    /\ Moves \cap FileChanges = {}
    /\ None # Asked
    /\ {None, Asked} \cap SUBSET V!Changes = {}

AnyMove == \E m \in Moves : V!InFlight(m)
OnBoard == V!Changes \ FileChanges
Fetches == (SUBSET V!Changes) \cup {None, Asked}

LiveTypes ==
    /\ server \subseteq V!Changes /\ wire \subseteq server
    /\ stream \in {"connecting", "registered", "open", "retrying"}
    /\ dropped \in BOOLEAN
    /\ invalid \subseteq V!Keys
    /\ data \in [V!Keys -> SUBSET V!Changes]
    /\ \A k \in V!Keys : data[k] \subseteq V!View(k, V!Changes)
    /\ fetch \in [V!Keys -> Fetches]
    /\ \A k \in V!Keys : fetch[k] \notin {None, Asked} => fetch[k] \subseteq V!View(k, server)
    /\ move \in [Moves -> [state : {"idle", "posted", "committed", "done"}, previous : SUBSET OnBoard]]
    /\ \A m \in Moves : move[m].state = "committed" => m \in server
    /\ stream # "open" => dropped

\* What is shown for c, or will be once what is under way has come.
Comes(c) ==
    \/ stream # "open" \/ c \in wire \/ "board" \in invalid \/ fetch["board"] = Asked
    \/ fetch["board"] = None /\ c \in data["board"]
    \/ fetch["board"] \notin {None, Asked} /\ c \in fetch["board"]

NothingHidden == ~AnyMove => \A c \in server \ FileChanges : Comes(c)
NothingExtra  == ~AnyMove /\ fetch["board"] = None => data["board"] \subseteq server

LiveIInv == LiveTypes /\ NothingHidden /\ NothingExtra

LEMMA ViewsAre ==
    ASSUME LiveConstants, NEW S
    PROVE  V!View("board", S) = S \ FileChanges /\ V!View("card", S) = S
  BY DEF LiveConstants, V!View

LEMMA InitLive ==
    ASSUME LiveConstants, V!Init
    PROVE  LiveIInv
  <1>1. /\ server = {} /\ wire = {} /\ invalid = {} /\ dropped = FALSE /\ stream = "open"
        /\ data = [k \in V!Keys |-> {}] /\ fetch = [k \in V!Keys |-> None]
        /\ move = [m \in Moves |-> [state |-> "idle", previous |-> {}]]
    BY DEF V!Init, LiveConstants
  <1>2. /\ data \in [V!Keys -> SUBSET V!Changes] /\ fetch \in [V!Keys -> Fetches]
        /\ \A k \in V!Keys : data[k] = {} /\ fetch[k] = None
    BY <1>1 DEF Fetches
  <1>3. /\ move \in [Moves -> [state : {"idle", "posted", "committed", "done"}, previous : SUBSET OnBoard]]
        /\ \A m \in Moves : move[m].state = "idle"
    BY <1>1
  <1>4. LiveTypes
    BY <1>1, <1>2, <1>3 DEF LiveTypes
  <1> QED
    BY <1>1, <1>4 DEF LiveIInv, NothingHidden, NothingExtra, V!Keys

\* A query with content is fetched anew when it is invalidated.
LEMMA RefetchedIs ==
    ASSUME LiveConstants, LiveTypes, NEW K
    PROVE  /\ V!Refetched(K) \in [V!Keys -> Fetches]
           /\ \A k \in V!Keys : V!Refetched(K)[k] = IF k \in K THEN Asked ELSE fetch[k]
  <1>1. \A k \in V!Keys : data[k] # None /\ fetch[k] \in Fetches
    BY DEF LiveConstants, LiveTypes
  <1>2. V!Refetched(K) = [k \in V!Keys |-> IF k \in K THEN Asked ELSE fetch[k]]
    BY <1>1 DEF V!Refetched
  <1>3. Asked \in Fetches
    BY DEF Fetches
  <1> QED
    BY <1>1, <1>2, <1>3

\* Steps that leave the moves and the board's data alone.
LEMMA ServerGrows ==
    ASSUME LiveConstants, LiveTypes, NEW c \in V!Changes,
           server' = server \cup {c}, wire' = V!Published({c}),
           UNCHANGED <<stream, dropped, invalid, data, fetch>>,
           move' \in [Moves -> [state : {"idle", "posted", "committed", "done"}, previous : SUBSET OnBoard]],
           \A m \in Moves : move'[m].state = "committed" => m \in server'
    PROVE  /\ LiveTypes'
           /\ \A d \in server \ FileChanges : Comes(d) => Comes(d)'
           /\ Comes(c)'
  <1>1. wire \subseteq wire' /\ wire' \subseteq server' /\ (stream = "open" => c \in wire')
    BY DEF V!Published, LiveTypes
  <1>2. \A k \in V!Keys : V!View(k, server) \subseteq V!View(k, server')
    BY DEF V!View
  <1>3. LiveTypes'
    BY <1>1, <1>2 DEF LiveTypes
  <1> QED
    BY <1>1, <1>3 DEF Comes

LEMMA ChangeKeepsLive ==
    ASSUME LiveConstants, LiveIInv, NEW c \in V!Changes \ Moves, V!Change(c)
    PROVE  LiveIInv'
  <1>1. /\ server' = server \cup {c} /\ wire' = V!Published({c})
        /\ UNCHANGED <<stream, dropped, invalid, data, fetch, move>>
    BY DEF V!Change, LiveConstants
  <1>2. LiveTypes' /\ Comes(c)' /\ \A d \in server \ FileChanges : Comes(d) => Comes(d)'
    BY <1>1, ServerGrows DEF LiveIInv, LiveTypes
  <1>3. AnyMove' = AnyMove
    BY <1>1 DEF AnyMove, V!InFlight
  <1> QED
    BY <1>1, <1>2, <1>3 DEF LiveIInv, NothingHidden, NothingExtra

LEMMA CommitKeepsLive ==
    ASSUME LiveConstants, LiveIInv, NEW m \in Moves, V!Commit(m)
    PROVE  LiveIInv'
  <1>1. /\ server' = server \cup {m} /\ wire' = V!Published({m})
        /\ move' = [move EXCEPT ![m].state = "committed"]
        /\ UNCHANGED <<stream, dropped, invalid, data, fetch>>
    BY DEF V!Commit
  <1>2. /\ move' \in [Moves -> [state : {"idle", "posted", "committed", "done"}, previous : SUBSET OnBoard]]
        /\ move'[m].state = "committed"
        /\ \A n \in Moves : move'[n].state = "committed" => n \in server'
    BY <1>1 DEF LiveIInv, LiveTypes
  <1>3. LiveTypes'
    BY <1>1, <1>2, ServerGrows DEF LiveIInv, V!Changes
  <1>4. AnyMove'
    BY <1>2 DEF AnyMove, V!InFlight
  <1> QED
    BY <1>3, <1>4 DEF LiveIInv, NothingHidden, NothingExtra

LEMMA ReadKeepsLive ==
    ASSUME LiveConstants, LiveIInv, NEW k \in V!Keys, V!Read(k)
    PROVE  LiveIInv'
  <1>1. /\ fetch[k] = Asked /\ fetch' = [fetch EXCEPT ![k] = V!View(k, server)]
        /\ UNCHANGED <<server, stream, wire, dropped, invalid, data, move>>
    BY DEF V!Read
  <1>2. V!View(k, server) \in SUBSET V!Changes
    BY DEF V!View, LiveIInv, LiveTypes
  <1>3. fetch'[k] = V!View(k, server) /\ \A j \in V!Keys \ {k} : fetch'[j] = fetch[j]
    BY <1>1 DEF LiveIInv, LiveTypes
  <1>4. fetch' \in [V!Keys -> Fetches]
    <2>1. V!View(k, server) \in Fetches /\ fetch \in [V!Keys -> Fetches]
      BY <1>2 DEF Fetches, LiveIInv, LiveTypes
    <2> QED BY <1>1, <2>1
  <1>5. LiveTypes'
    BY <1>1, <1>3, <1>4 DEF LiveIInv, LiveTypes
  <1>6. AnyMove' = AnyMove
    BY <1>1 DEF AnyMove, V!InFlight
  <1>7. NothingHidden' /\ NothingExtra'
    <2>1. CASE k = "board"
      <3>1. fetch'["board"] = server \ FileChanges /\ fetch'["board"] \notin {None, Asked}
        BY <1>2, <1>3, <2>1, ViewsAre DEF LiveConstants
      <3> QED
        BY <1>1, <3>1 DEF NothingHidden, NothingExtra, Comes
    <2>2. CASE k # "board"
      <3>1. fetch'["board"] = fetch["board"]
        BY <1>3, <2>2 DEF V!Keys
      <3> QED
        BY <1>1, <1>6, <3>1 DEF LiveIInv, NothingHidden, NothingExtra, Comes
    <2> QED BY <2>1, <2>2
  <1> QED
    BY <1>5, <1>7 DEF LiveIInv

LEMMA AnswerKeepsLive ==
    ASSUME LiveConstants, LiveIInv, NEW k \in V!Keys, V!Answer(k)
    PROVE  LiveIInv'
  <1>1. /\ fetch[k] \notin {None, Asked}
        /\ data' = [data EXCEPT ![k] = fetch[k]] /\ fetch' = [fetch EXCEPT ![k] = None]
        /\ UNCHANGED <<server, stream, wire, dropped, invalid, move>>
    BY DEF V!Answer
  <1>2. fetch[k] \in SUBSET V!Changes /\ fetch[k] \subseteq V!View(k, server)
    BY <1>1 DEF LiveIInv, LiveTypes, Fetches
  <1>3. /\ fetch'[k] = None /\ data'[k] = fetch[k]
        /\ \A j \in V!Keys \ {k} : fetch'[j] = fetch[j] /\ data'[j] = data[j]
        /\ data' \in [V!Keys -> SUBSET V!Changes]
        /\ fetch' \in [V!Keys -> Fetches]
    <2>1. /\ data \in [V!Keys -> SUBSET V!Changes]
          /\ fetch \in [V!Keys -> Fetches] /\ None \in Fetches
      BY DEF LiveIInv, LiveTypes, Fetches
    <2> QED BY <1>1, <1>2, <2>1
  <1>4. fetch[k] \subseteq V!View(k, V!Changes)
    BY <1>2 DEF V!View, LiveIInv, LiveTypes
  <1>5. LiveTypes'
    BY <1>1, <1>3, <1>4 DEF LiveIInv, LiveTypes
  <1>6. AnyMove' = AnyMove
    BY <1>1 DEF AnyMove, V!InFlight
  <1>7. NothingHidden' /\ NothingExtra'
    <2>1. CASE k = "board"
      <3>1. /\ fetch'["board"] = None /\ data'["board"] = fetch["board"]
            /\ fetch["board"] \subseteq server \ FileChanges
            /\ fetch["board"] \notin {None, Asked}
        BY <1>1, <1>2, <1>3, <2>1, ViewsAre
      <3> QED
        BY <1>1, <1>6, <3>1 DEF LiveIInv, NothingHidden, NothingExtra, Comes
    <2>2. CASE k # "board"
      <3>1. fetch'["board"] = fetch["board"] /\ data'["board"] = data["board"]
        BY <1>3, <2>2 DEF V!Keys
      <3> QED
        BY <1>1, <1>6, <3>1 DEF LiveIInv, NothingHidden, NothingExtra, Comes
    <2> QED BY <2>1, <2>2
  <1> QED
    BY <1>5, <1>7 DEF LiveIInv

\* A connection that is not open will end in a fetch.
LEMMA LineKeepsLive ==
    ASSUME LiveConstants, LiveIInv,
           UNCHANGED <<server, invalid, data, move>>,
           \/ /\ stream' \in {"connecting", "registered", "retrying"} /\ dropped' = TRUE
              /\ wire' \subseteq wire /\ fetch' = fetch
           \/ /\ stream # "open" /\ stream' = "open" /\ dropped' = FALSE /\ wire' = wire
              /\ fetch' = IF dropped THEN V!Refetched({"board"}) ELSE fetch
    PROVE  LiveIInv'
  <1>1. AnyMove' = AnyMove
    BY DEF AnyMove, V!InFlight
  <1>2. CASE stream' # "open"
    <2>1. fetch' = fetch /\ wire' \subseteq wire /\ dropped' = TRUE
          /\ stream' \in {"connecting", "registered", "open", "retrying"}
      BY <1>2
    <2>2. LiveTypes'
      BY <2>1 DEF LiveIInv, LiveTypes
    <2> QED
      BY <1>1, <1>2, <2>1, <2>2 DEF LiveIInv, NothingHidden, NothingExtra, Comes
  <1>3. CASE stream' = "open"
    <2>1. fetch' = V!Refetched({"board"}) /\ dropped' = FALSE /\ wire' = wire
      BY <1>3 DEF LiveIInv, LiveTypes
    <2>2. /\ fetch' \in [V!Keys -> Fetches]
          /\ \A k \in V!Keys : fetch'[k] = IF k \in {"board"} THEN Asked ELSE fetch[k]
      BY <2>1, RefetchedIs DEF LiveIInv
    <2>3. LiveTypes'
      BY <1>3, <2>1, <2>2 DEF LiveIInv, LiveTypes
    <2>4. fetch'["board"] = Asked
      BY <2>2 DEF V!Keys
    <2> QED
      BY <2>3, <2>4 DEF LiveConstants, LiveIInv, NothingHidden, NothingExtra, Comes
  <1> QED
    BY <1>2, <1>3

LEMMA DeliverKeepsLive ==
    ASSUME LiveConstants, LiveIInv, NEW c \in V!Changes, V!Deliver(c)
    PROVE  LiveIInv'
  <1>1. /\ wire' = wire \ {c} /\ invalid' = invalid \cup V!Hinted(c)
        /\ UNCHANGED <<server, stream, dropped, data, fetch, move>>
    BY DEF V!Deliver
  <1>2. V!Hinted(c) \subseteq V!Keys /\ (c \notin FileChanges => "board" \in V!Hinted(c))
    BY DEF V!Hinted, V!Keys
  <1>3. LiveTypes'
    BY <1>1, <1>2 DEF LiveIInv, LiveTypes
  <1>4. AnyMove' = AnyMove
    BY <1>1 DEF AnyMove, V!InFlight
  <1> QED
    BY <1>1, <1>2, <1>3, <1>4 DEF LiveIInv, NothingHidden, NothingExtra, Comes

LEMMA FlushKeepsLive ==
    ASSUME LiveConstants, LiveIInv, V!Flush
    PROVE  LiveIInv'
  <1>1. /\ invalid' = {} /\ fetch' = V!Refetched(invalid)
        /\ UNCHANGED <<server, stream, wire, dropped, data, move>>
    BY DEF V!Flush
  <1>2. /\ fetch' \in [V!Keys -> Fetches]
        /\ \A k \in V!Keys : fetch'[k] = IF k \in invalid THEN Asked ELSE fetch[k]
    BY <1>1, RefetchedIs DEF LiveIInv
  <1>3. LiveTypes'
    BY <1>1, <1>2 DEF LiveIInv, LiveTypes
  <1>4. AnyMove' = AnyMove
    BY <1>1 DEF AnyMove, V!InFlight
  <1>5. fetch'["board"] = IF "board" \in invalid THEN Asked ELSE fetch["board"]
    BY <1>2 DEF V!Keys
  <1> QED
    BY <1>1, <1>3, <1>4, <1>5 DEF LiveConstants, LiveIInv, NothingHidden, NothingExtra, Comes

\* A move under way vouches for everything.
LEMMA MutateKeepsLive ==
    ASSUME LiveConstants, LiveIInv, NEW m \in Moves, V!Mutate(m)
    PROVE  LiveIInv'
  <1>1. /\ move' = [move EXCEPT ![m] = [state |-> "posted", previous |-> data["board"]]]
        /\ data' = [data EXCEPT !["board"] = @ \cup {m}]
        /\ fetch' = [fetch EXCEPT !["board"] = None]
        /\ UNCHANGED <<server, stream, wire, dropped, invalid>>
    BY DEF V!Mutate
  <1>2. data["board"] \in SUBSET OnBoard
    BY ViewsAre DEF LiveIInv, LiveTypes, OnBoard, V!Keys
  <1>3. m \in OnBoard
    BY DEF LiveConstants, OnBoard, V!Changes
  <1>4. /\ move' \in [Moves -> [state : {"idle", "posted", "committed", "done"}, previous : SUBSET OnBoard]]
        /\ move'[m].state = "posted"
        /\ \A n \in Moves : move'[n].state = "committed" => n \in server
    BY <1>1, <1>2 DEF LiveIInv, LiveTypes
  <1>5. /\ data' \in [V!Keys -> SUBSET V!Changes]
        /\ fetch' \in [V!Keys -> Fetches]
        /\ data'["board"] \subseteq OnBoard
        /\ data'["card"] = data["card"]
        /\ \A k \in V!Keys : fetch'[k] = None \/ fetch'[k] = fetch[k]
    <2>1. /\ data \in [V!Keys -> SUBSET V!Changes]
          /\ fetch \in [V!Keys -> Fetches] /\ None \in Fetches
          /\ "board" \in V!Keys /\ "card" \in V!Keys
      BY DEF LiveIInv, LiveTypes, Fetches, V!Keys
    <2>2. data["board"] \cup {m} \in SUBSET V!Changes /\ data["board"] \cup {m} \subseteq OnBoard
      BY <1>2, <1>3 DEF OnBoard
    <2>3. /\ data' \in [V!Keys -> SUBSET V!Changes]
          /\ data'["board"] = data["board"] \cup {m} /\ data'["card"] = data["card"]
      BY <1>1, <2>1, <2>2
    <2>4. fetch' \in [V!Keys -> Fetches] /\ \A k \in V!Keys : fetch'[k] = None \/ fetch'[k] = fetch[k]
      BY <1>1, <2>1
    <2> QED BY <2>2, <2>3, <2>4
  <1>6. \A k \in V!Keys : data'[k] \subseteq V!View(k, V!Changes)
    BY <1>5, ViewsAre DEF LiveIInv, LiveTypes, V!Keys, OnBoard
  <1>7. LiveTypes'
    BY <1>1, <1>4, <1>5, <1>6 DEF LiveIInv, LiveTypes
  <1>8. AnyMove'
    BY <1>4 DEF AnyMove, V!InFlight
  <1> QED
    BY <1>7, <1>8 DEF LiveIInv, NothingHidden, NothingExtra

\* The end of a move, with whatever it puts back, fetches the board again.
LEMMA SettleKeepsLive ==
    ASSUME LiveConstants, LiveIInv, NEW m \in Moves,
           move' = [move EXCEPT ![m].state = "done"], fetch' = V!Settled,
           data' = data \/ data' = [data EXCEPT !["board"] = move[m].previous],
           UNCHANGED <<server, stream, wire, dropped, invalid>>
    PROVE  LiveIInv'
  <1>1. /\ move' \in [Moves -> [state : {"idle", "posted", "committed", "done"}, previous : SUBSET OnBoard]]
        /\ \A n \in Moves : move'[n].state = "committed" => n \in server
    BY DEF LiveIInv, LiveTypes
  <1>2. move[m].previous \in SUBSET OnBoard
    BY DEF LiveIInv, LiveTypes
  <1>3. /\ data' \in [V!Keys -> SUBSET V!Changes]
        /\ data'["board"] \subseteq OnBoard /\ data'["card"] = data["card"]
    BY <1>2, ViewsAre DEF LiveIInv, LiveTypes, V!Keys, OnBoard
  <1>4. \A k \in V!Keys : data'[k] \subseteq V!View(k, V!Changes)
    BY <1>3, ViewsAre DEF LiveIInv, LiveTypes, V!Keys, OnBoard
  <1>5. /\ fetch' \in [V!Keys -> Fetches]
        /\ \A k \in V!Keys : fetch'[k] = Asked
    BY RefetchedIs DEF LiveIInv, V!Settled, V!Keys
  <1>6. LiveTypes'
    BY <1>1, <1>3, <1>4, <1>5 DEF LiveIInv, LiveTypes
  <1>7. fetch'["board"] = Asked
    BY <1>5 DEF V!Keys
  <1> QED
    BY <1>6, <1>7 DEF LiveConstants, LiveIInv, NothingHidden, NothingExtra, Comes

LEMMA LiveStep ==
    ASSUME LiveConstants, LiveIInv, [V!Next]_(V!vars)
    PROVE  LiveIInv'
  <1>1. CASE UNCHANGED V!vars
    BY <1>1 DEF V!vars, LiveIInv, LiveTypes, NothingHidden, NothingExtra, Comes, AnyMove, V!InFlight
  <1>2. ASSUME V!Register \/ V!Retry PROVE LiveIInv'
    BY <1>2, LineKeepsLive DEF V!Register, V!Retry, LiveIInv, LiveTypes
  <1>3. ASSUME V!Open PROVE LiveIInv'
    BY <1>3, LineKeepsLive DEF V!Open
  <1>4. ASSUME V!Drop \/ V!Refused PROVE LiveIInv'
    BY <1>4, LineKeepsLive DEF V!Drop, V!Refused, V!Lost
  <1>5. ASSUME NEW m \in Moves, V!MoveSucceeds(m) \/ V!MoveFails(m) PROVE LiveIInv'
    BY <1>5, SettleKeepsLive DEF V!MoveSucceeds, V!MoveFails
  <1> QED
    BY <1>1, <1>2, <1>3, <1>4, <1>5, ChangeKeepsLive, CommitKeepsLive, MutateKeepsLive,
       ReadKeepsLive, AnswerKeepsLive, DeliverKeepsLive, FlushKeepsLive
    DEF V!Next, V!Progress

\* When everything under way has come, the board is the server's; and a move
\* the server does not have is shown only while a move or a fetch is under way:
\* for any number of moves that fail or succeed in any order, changes of others
\* and broken connections.
THEOREM BoardFollowsServer == LiveConstants /\ V!Spec => []V!BoardInv
  <1> SUFFICES ASSUME LiveConstants PROVE V!Spec => []V!BoardInv
    OBVIOUS
  <1>1. V!Init => LiveIInv
    BY InitLive
  <1>2. LiveIInv /\ [V!Next]_(V!vars) => LiveIInv'
    BY LiveStep
  <1>3. LiveIInv => V!BoardInv
    <2> SUFFICES ASSUME LiveIInv PROVE V!BoardInv
      OBVIOUS
    <2>1. V!LiveTypeOK
      BY DEF LiveIInv, LiveTypes, V!LiveTypeOK
    <2>2. V!NoGhosts
      BY DEF LiveIInv, NothingExtra, AnyMove, V!NoGhosts
    <2>3. V!QuietBoardIsCurrent
      <3> SUFFICES ASSUME V!Quiet PROVE data["board"] = server \ FileChanges
        BY ViewsAre DEF V!QuietBoardIsCurrent
      <3>1. /\ stream = "open" /\ wire = {} /\ invalid = {} /\ fetch["board"] = None /\ ~AnyMove
        BY DEF V!Quiet, V!Keys, AnyMove
      <3>2. \A c \in server \ FileChanges : c \in data["board"]
        BY <3>1 DEF LiveConstants, LiveIInv, NothingHidden, Comes
      <3>3. data["board"] \subseteq server /\ data["board"] \cap FileChanges = {}
        BY <3>1, ViewsAre DEF LiveIInv, NothingExtra, LiveTypes, V!Keys
      <3> QED BY <3>2, <3>3
    <2> QED
      BY <2>1, <2>2, <2>3 DEF V!BoardInv
  <1> QED
    BY <1>1, <1>2, <1>3, PTL DEF V!Spec

-----------------------------------------------------------------------------
(* What the bell shows when one thing is done after the other: a list is    *)
(* switched, and a change made, with what is shown fetched.                 *)

BellRows == [version : Nat, rows : SUBSET Notices]
BellActs == [op : {"unread", "read", "gone"}, on : SUBSET Notices, at : {None} \cup Nat]

\* What stands for nothing, and for an answer that is awaited, is no content.
BellConstants ==
    /\ Hasty = FALSE
    /\ None # Asked
    /\ {None, Asked} \cap (BellRows \cup BellActs \cup Nat) = {}

BellTypes ==
    /\ inbox \in [Notices -> {"due", "unread", "read", "gone", None}]
    /\ inboxVersion \in Nat /\ own \in 0 .. inboxVersion
    /\ filter \in {"all", "unread"}
    /\ cache \in [Bell!Queries -> {None} \cup BellRows]
    /\ bellFetch \in [Bell!Queries -> {None, Asked} \cup BellRows]
    /\ act \in {None} \cup BellActs
    /\ act # None /\ act.at # None => act.at <= inboxVersion

\* What has been read is no newer than the inbox.
ReadFromTheInbox ==
    \A q \in Bell!Queries :
        /\ cache[q] # None => cache[q].version <= inboxVersion
        /\ bellFetch[q] \notin {None, Asked} => bellFetch[q].version <= inboxVersion

\* The list that is not shown is not being fetched, and while a change is under
\* way both queries that are shown have had an answer.
OneAfterTheOther ==
    /\ bellFetch[Bell!Other] = None
    /\ \A q \in Bell!Shown : cache[q] # None \/ bellFetch[q] # None
    /\ act # None => \A q \in Bell!Shown : cache[q] # None

\* An answer that is read and not yet shown has the user's last change, and so
\* has what is shown when nothing is fetched, unless it is stale.
HasOwnChange ==
    \A q \in Bell!Queries :
        /\ bellFetch[q] \notin {None, Asked} => bellFetch[q].version >= own
        /\ cache[q] # None /\ bellFetch[q] = None /\ q \notin stale => cache[q].version >= own

BellIInv == BellTypes /\ ReadFromTheInbox /\ OneAfterTheOther /\ HasOwnChange

LEMMA OtherIs ==
    ASSUME BellTypes
    PROVE  /\ Bell!Other \in Bell!Queries \ Bell!Shown
           /\ Bell!Shown \subseteq Bell!Queries /\ filter \in Bell!Shown /\ "count" \in Bell!Shown
           /\ Bell!Queries = Bell!Shown \cup {Bell!Other}
  BY DEF BellTypes, Bell!Other, Bell!Shown, Bell!Queries

LEMMA ServedIs ==
    ASSUME BellTypes, NEW q \in Bell!Queries
    PROVE  Bell!Served(q) \in BellRows /\ Bell!Served(q).version = inboxVersion
  BY DEF BellTypes, BellRows, Bell!Served, Bell!Rows

LEMMA InitBell ==
    ASSUME BellConstants, Bell!Init
    PROVE  BellIInv
  <1>1. BellTypes
    BY DEF Bell!Init, BellTypes, BellConstants
  <1>2. Bell!Other = "unread" /\ Bell!Shown = {"count", "all"} /\ Bell!Queries = {"count", "all", "unread"}
    BY DEF Bell!Init, Bell!Other, Bell!Shown, Bell!Queries
  <1> QED
    BY <1>1, <1>2 DEF Bell!Init, BellIInv, ReadFromTheInbox, OneAfterTheOther, HasOwnChange, BellConstants

\* The inbox changes behind the browser's back, or by the user's own request.
LEMMA InboxKeepsBell ==
    ASSUME BellConstants, BellIInv, UNCHANGED <<filter, cache, bellFetch, stale, own>>,
           inbox' \in [Notices -> {"due", "unread", "read", "gone", None}],
           inboxVersion' \in {inboxVersion, inboxVersion + 1},
           \/ act' = act
           \/ act # None /\ act' = [act EXCEPT !.at = inboxVersion + 1] /\ inboxVersion' = inboxVersion + 1
    PROVE  BellIInv'
  <1>1. inboxVersion' \in Nat /\ inboxVersion <= inboxVersion'
    BY DEF BellIInv, BellTypes
  <1>2. /\ act' \in {None} \cup BellActs
        /\ act' # None /\ act'.at # None => act'.at <= inboxVersion'
        /\ act' # None => act # None
    <2>1. CASE act' = act
      <3>1. act # None /\ act.at # None => act.at \in Nat /\ act.at <= inboxVersion /\ inboxVersion \in Nat
        BY DEF BellIInv, BellTypes, BellActs
      <3> QED BY <1>1, <2>1, <3>1 DEF BellIInv, BellTypes
    <2>2. CASE act # None /\ act' = [act EXCEPT !.at = inboxVersion + 1] /\ inboxVersion' = inboxVersion + 1
      <3>1. act \in BellActs
        BY <2>2 DEF BellIInv, BellTypes
      <3>2. act' \in BellActs /\ act'.at = inboxVersion'
        BY <1>1, <2>2, <3>1 DEF BellActs
      <3> QED BY <1>1, <2>2, <3>2
    <2> QED BY <2>1, <2>2
  <1>3. BellTypes'
    BY <1>1, <1>2 DEF BellIInv, BellTypes, Bell!Queries
  <1>4. ReadFromTheInbox'
    <2> SUFFICES ASSUME NEW q \in Bell!Queries
                 PROVE  /\ cache[q] # None => cache[q].version <= inboxVersion'
                        /\ bellFetch[q] \notin {None, Asked} => bellFetch[q].version <= inboxVersion'
      BY DEF ReadFromTheInbox, Bell!Queries
    <2>1. cache[q] # None => cache[q].version \in Nat
      BY DEF BellIInv, BellTypes, BellRows
    <2>2. bellFetch[q] \notin {None, Asked} => bellFetch[q].version \in Nat
      BY DEF BellIInv, BellTypes, BellRows
    <2>3. inboxVersion \in Nat
      BY DEF BellIInv, BellTypes
    <2> QED BY <1>1, <2>1, <2>2, <2>3 DEF BellIInv, ReadFromTheInbox
  <1>5. OneAfterTheOther'
    BY <1>2 DEF BellIInv, OneAfterTheOther, Bell!Other, Bell!Shown
  <1>6. HasOwnChange'
    BY DEF BellIInv, HasOwnChange, Bell!Queries
  <1> QED BY <1>3, <1>4, <1>5, <1>6 DEF BellIInv

\* What is shown is fetched, or its fetch is read.
LEMMA FetchKeepsBell ==
    ASSUME BellConstants, BellIInv, UNCHANGED <<inbox, inboxVersion, filter, cache, stale, act, own>>,
           NEW q \in Bell!Queries,
           \/ q \in Bell!Shown /\ bellFetch' = [bellFetch EXCEPT ![q] = Asked]
           \/ bellFetch[q] = Asked /\ bellFetch' = [bellFetch EXCEPT ![q] = Bell!Served(q)]
    PROVE  BellIInv'
  <1>1. PICK v \in {Asked, Bell!Served(q)} : bellFetch' = [bellFetch EXCEPT ![q] = v]
    OBVIOUS
  <1>2. /\ v = Asked \/ (v \in BellRows /\ v.version = inboxVersion /\ v \notin {None, Asked})
        /\ v # None
    BY <1>1, ServedIs DEF BellIInv, BellConstants
  <1>3. /\ bellFetch'[q] = v
        /\ \A p \in Bell!Queries \ {q} : bellFetch'[p] = bellFetch[p]
    BY <1>1 DEF BellIInv, BellTypes
  <1>4. q # Bell!Other
    BY OtherIs DEF BellIInv, OneAfterTheOther, BellConstants
  <1>5. BellTypes'
    BY <1>1, <1>2 DEF BellIInv, BellTypes, Bell!Queries
  <1>6. inboxVersion \in Nat /\ own \in Nat /\ own <= inboxVersion
    BY DEF BellIInv, BellTypes
  <1>7. ReadFromTheInbox'
    BY <1>2, <1>3, <1>6 DEF BellIInv, ReadFromTheInbox, Bell!Queries
  <1>8. OneAfterTheOther'
    <2>1. Bell!Other' = Bell!Other /\ Bell!Shown' = Bell!Shown
      BY DEF Bell!Other, Bell!Shown
    <2>2. bellFetch'[Bell!Other] = None
      BY <1>3, <1>4, OtherIs DEF BellIInv, OneAfterTheOther
    <2>3. \A p \in Bell!Shown : cache[p] # None \/ bellFetch'[p] # None
      BY <1>2, <1>3, OtherIs DEF BellIInv, OneAfterTheOther
    <2> QED BY <2>1, <2>2, <2>3 DEF BellIInv, OneAfterTheOther
  <1>9. HasOwnChange'
    BY <1>2, <1>3, <1>6 DEF BellIInv, HasOwnChange, Bell!Queries
  <1> QED BY <1>5, <1>7, <1>8, <1>9 DEF BellIInv

LEMMA AnswerKeepsBell ==
    ASSUME BellConstants, BellIInv, NEW q \in Bell!Queries, Bell!Answer(q)
    PROVE  BellIInv'
  <1>1. /\ bellFetch[q] \notin {None, Asked} /\ bellFetch[q] \in BellRows
        /\ cache' = [cache EXCEPT ![q] = bellFetch[q]]
        /\ bellFetch' = [bellFetch EXCEPT ![q] = None]
        /\ stale' = stale \ {q}
        /\ UNCHANGED <<inbox, inboxVersion, bellHint, filter, act, own>>
    BY DEF Bell!Answer, BellIInv, BellTypes
  <1>2. /\ cache'[q] = bellFetch[q] /\ bellFetch'[q] = None /\ cache'[q] # None
        /\ \A p \in Bell!Queries \ {q} : bellFetch'[p] = bellFetch[p] /\ cache'[p] = cache[p]
                                        /\ (p \in stale' <=> p \in stale)
    BY <1>1 DEF BellIInv, BellTypes
  <1>3. BellTypes'
    BY <1>1 DEF BellIInv, BellTypes, Bell!Queries
  <1>4. ReadFromTheInbox'
    BY <1>1, <1>2 DEF BellIInv, ReadFromTheInbox, Bell!Queries
  <1>5. OneAfterTheOther'
    <2>1. Bell!Other' = Bell!Other /\ Bell!Shown' = Bell!Shown
      BY <1>1 DEF Bell!Other, Bell!Shown
    <2>2. bellFetch'[Bell!Other] = None
      BY <1>2, OtherIs DEF BellIInv, OneAfterTheOther
    <2>3. \A p \in Bell!Shown : /\ cache'[p] # None \/ bellFetch'[p] # None
                                /\ act # None => cache'[p] # None
      BY <1>2, OtherIs DEF BellIInv, OneAfterTheOther
    <2> QED BY <1>1, <2>1, <2>2, <2>3 DEF OneAfterTheOther
  <1>6. HasOwnChange'
    BY <1>1, <1>2 DEF BellIInv, HasOwnChange, Bell!Queries
  <1> QED BY <1>3, <1>4, <1>5, <1>6 DEF BellIInv

\* A hint, or the user's change that was answered: what is shown has had an
\* answer then, and is fetched anew; the other list is stale.
LEMMA InvalidatedKeepsBell ==
    ASSUME BellConstants, BellIInv, Bell!Invalidated, UNCHANGED <<inbox, inboxVersion, filter, cache>>,
           \/ act' = act /\ own' = own
           \/ act # None /\ act.at # None /\ own' = act.at /\ act' = None
    PROVE  BellIInv'
  <1>1. /\ \A q \in Bell!Shown : \/ bellFetch'[q] = Asked
                                 \/ bellFetch'[q] = bellFetch[q] /\ Bell!FirstUnderWay(q)
        /\ bellFetch'[Bell!Other] = None
        /\ Bell!Other \in stale'
    BY OtherIs DEF Bell!Invalidated, BellIInv, OneAfterTheOther
  <1>2. bellFetch' \in [Bell!Queries -> {None, Asked} \cup BellRows]
    BY DEF Bell!Invalidated, BellIInv, BellTypes
  <1>3. own' \in 0 .. inboxVersion
    <2>1. CASE act' = act /\ own' = own
      BY <2>1 DEF BellIInv, BellTypes
    <2>2. CASE act # None /\ act.at # None /\ own' = act.at /\ act' = None
      <3>1. act.at \in Nat /\ act.at <= inboxVersion /\ inboxVersion \in Nat
        BY <2>2 DEF BellIInv, BellTypes, BellActs
      <3> QED BY <2>2, <3>1
    <2> QED BY <2>1, <2>2
  <1>4. BellTypes'
    BY <1>2, <1>3 DEF BellIInv, BellTypes, Bell!Queries
  <1>5. Bell!Other' = Bell!Other /\ Bell!Shown' = Bell!Shown
    BY DEF Bell!Other, Bell!Shown
  <1>6. ReadFromTheInbox'
    <2> SUFFICES ASSUME NEW q \in Bell!Queries
                 PROVE  /\ cache[q] # None => cache[q].version <= inboxVersion
                        /\ bellFetch'[q] \notin {None, Asked} => bellFetch'[q].version <= inboxVersion
      BY DEF ReadFromTheInbox, Bell!Queries
    <2> QED BY <1>1, OtherIs DEF BellIInv, ReadFromTheInbox
  <1>7. OneAfterTheOther'
    <2>1. \A q \in Bell!Shown : cache[q] # None \/ bellFetch'[q] # None
      BY <1>1 DEF Bell!FirstUnderWay, BellConstants
    <2>2. act' # None => act # None
      OBVIOUS
    <2> QED BY <1>1, <1>5, <2>1, <2>2 DEF BellIInv, OneAfterTheOther
  <1>8. HasOwnChange'
    <2> SUFFICES ASSUME NEW q \in Bell!Queries
                 PROVE  /\ bellFetch'[q] \notin {None, Asked} => bellFetch'[q].version >= own'
                        /\ cache[q] # None /\ bellFetch'[q] = None /\ q \notin stale' => cache[q].version >= own'
      BY DEF HasOwnChange, Bell!Queries
    <2>1. CASE q = Bell!Other
      BY <1>1, <2>1
    <2>2. CASE q \in Bell!Shown /\ bellFetch'[q] = Asked
      BY <2>2 DEF BellConstants
    <2>3. CASE q \in Bell!Shown /\ bellFetch'[q] = bellFetch[q] /\ Bell!FirstUnderWay(q)
      <3>1. cache[q] = None /\ bellFetch[q] # None
        BY <2>3 DEF Bell!FirstUnderWay
      <3>2. act = None /\ own' = own
        BY <2>3, <3>1 DEF BellIInv, OneAfterTheOther
      <3> QED BY <2>3, <3>1, <3>2 DEF BellIInv, HasOwnChange
    <2> QED BY <1>1, <2>1, <2>2, <2>3, OtherIs DEF BellIInv
  <1> QED BY <1>4, <1>6, <1>7, <1>8 DEF BellIInv

LEMMA ToggleKeepsBell ==
    ASSUME BellConstants, BellIInv, NEW rests \in BOOLEAN, Bell!Toggle(rests)
    PROVE  BellIInv'
  <1>1. /\ bellFetch[filter] = None /\ act = None /\ filter' = Bell!Other
        /\ UNCHANGED <<inbox, inboxVersion, cache, stale, act, own>>
    BY DEF Bell!Toggle, BellConstants
  <1>2. /\ filter' \in {"all", "unread"} /\ Bell!Other' = filter
        /\ Bell!Shown' = {"count", Bell!Other}
    BY <1>1 DEF BellIInv, BellTypes, Bell!Other, Bell!Shown
  <1>3. bellFetch[Bell!Other] = None
    BY DEF BellIInv, OneAfterTheOther
  <1>4. \/ /\ cache[Bell!Other] # None /\ Bell!Other \notin stale /\ bellFetch' = bellFetch
        \/ bellFetch' = [bellFetch EXCEPT ![Bell!Other] = Asked]
    BY <1>1, <1>3 DEF Bell!Toggle, Bell!MayRest
  <1>5. BellTypes'
    BY <1>1, <1>2, <1>4 DEF BellIInv, BellTypes, Bell!Queries
  <1>6. \A q \in Bell!Queries : bellFetch'[q] = bellFetch[q] \/ (bellFetch'[q] = Asked /\ q = Bell!Other)
    BY <1>4 DEF BellIInv, BellTypes
  <1>7. ReadFromTheInbox'
    BY <1>1, <1>6 DEF BellIInv, ReadFromTheInbox, Bell!Queries
  <1>8. OneAfterTheOther'
    <2>1. bellFetch'[filter] = None
      BY <1>1, <1>6, OtherIs DEF BellIInv
    <2>2. cache[Bell!Other] # None \/ bellFetch'[Bell!Other] # None
      BY <1>4, OtherIs DEF BellIInv, BellTypes, BellConstants
    <2>3. cache["count"] # None \/ bellFetch'["count"] # None
      BY <1>6, OtherIs DEF BellIInv, OneAfterTheOther, BellConstants
    <2> QED BY <1>1, <1>2, <2>1, <2>2, <2>3 DEF OneAfterTheOther
  <1>9. HasOwnChange'
    BY <1>1, <1>6 DEF BellIInv, HasOwnChange, Bell!Queries, BellConstants
  <1> QED BY <1>5, <1>7, <1>8, <1>9 DEF BellIInv

\* A change is begun with both queries answered; it may fail.
LEMMA ActKeepsBell ==
    ASSUME BellConstants, BellIInv,
           UNCHANGED <<inbox, inboxVersion, filter, cache, bellFetch, stale, own>>,
           \/ act' = None
           \/ /\ act' \in BellActs /\ act'.at = None
              /\ \A q \in Bell!Shown : cache[q] # None
    PROVE  BellIInv'
  <1>1. BellTypes'
    BY DEF BellIInv, BellTypes, Bell!Queries
  <1>2. OneAfterTheOther'
    BY DEF BellIInv, OneAfterTheOther, Bell!Other, Bell!Shown
  <1>3. ReadFromTheInbox' /\ HasOwnChange'
    BY DEF BellIInv, ReadFromTheInbox, HasOwnChange, Bell!Queries
  <1> QED BY <1>1, <1>2, <1>3 DEF BellIInv

LEMMA PressKeepsBell ==
    ASSUME BellConstants, BellIInv, NEW op \in {"unread", "read", "gone"}, NEW on \in SUBSET Notices,
           Bell!MayPress, act' = [op |-> op, on |-> on, at |-> None],
           UNCHANGED <<inbox, inboxVersion, filter, cache, bellFetch, stale, own>>
    PROVE  BellIInv'
  <1>1. act' \in BellActs /\ act'.at = None
    BY DEF BellActs
  <1>2. \A q \in Bell!Shown : cache[q] # None
    BY DEF Bell!MayPress, BellConstants
  <1> QED BY <1>1, <1>2, ActKeepsBell

LEMMA BellStep ==
    ASSUME BellConstants, BellIInv, [Bell!Next]_(Bell!vars)
    PROVE  BellIInv'
  <1>1. CASE UNCHANGED Bell!vars
    BY <1>1, InboxKeepsBell DEF Bell!vars, BellIInv, BellTypes
  <1>2. ASSUME NEW n \in Notices, Bell!Event(n) \/ Bell!FanOut(n)
        PROVE  BellIInv'
    <2>1. /\ inbox' \in [Notices -> {"due", "unread", "read", "gone", None}]
          /\ inboxVersion' \in {inboxVersion, inboxVersion + 1} /\ act' = act
          /\ UNCHANGED <<filter, cache, bellFetch, stale, own>>
      BY <1>2 DEF Bell!Event, Bell!FanOut, Bell!Changed, Bell!Counted, Bell!Unseen, BellIInv, BellTypes
    <2> QED BY <2>1, InboxKeepsBell
  <1>3. ASSUME NEW n \in Notices, NEW state \in {"unread", "read", "gone"}, Bell!Elsewhere(n, state)
        PROVE  BellIInv'
    <2>1. /\ inbox' \in [Notices -> {"due", "unread", "read", "gone", None}]
          /\ inboxVersion' \in {inboxVersion, inboxVersion + 1} /\ act' = act
          /\ UNCHANGED <<filter, cache, bellFetch, stale, own>>
      BY <1>3 DEF Bell!Elsewhere, Bell!Changed, Bell!Counted, Bell!Unseen, BellIInv, BellTypes
    <2> QED BY <2>1, InboxKeepsBell
  <1>4. ASSUME NEW n \in Notices, NEW state \in {"unread", "read", "gone"}, Bell!Press(state, n)
        PROVE  BellIInv'
    <2>1. {n} \in SUBSET Notices
      OBVIOUS
    <2> QED BY <1>4, <2>1, PressKeepsBell DEF Bell!Press
  <1>5. CASE Bell!PressAll("read")
    BY <1>5, PressKeepsBell DEF Bell!PressAll
  <1>6. CASE Bell!PressAll("gone")
    BY <1>6, PressKeepsBell DEF Bell!PressAll
  <1>7. CASE Bell!Commit
    <2>1. act \in BellActs
      BY <1>7 DEF Bell!Commit, BellIInv, BellTypes
    <2>2. inbox' \in [Notices -> {"due", "unread", "read", "gone", None}]
      BY <1>7, <2>1 DEF Bell!Commit, BellIInv, BellTypes, BellActs
    <2>3. /\ act # None /\ act' = [act EXCEPT !.at = inboxVersion + 1]
          /\ inboxVersion' = inboxVersion + 1
          /\ UNCHANGED <<filter, cache, bellFetch, stale, own>>
      BY <1>7 DEF Bell!Commit, Bell!Counted
    <2> QED BY <2>2, <2>3, InboxKeepsBell
  <1>8. CASE Bell!Succeeded
    BY <1>8, InvalidatedKeepsBell DEF Bell!Succeeded
  <1>9. CASE Bell!Failed
    BY <1>9, ActKeepsBell DEF Bell!Failed
  <1>10. CASE Bell!Hinted
    BY <1>10, InvalidatedKeepsBell DEF Bell!Hinted
  <1>11. ASSUME NEW q \in Bell!Queries, Bell!Polled(q) PROVE BellIInv'
    BY <1>11, FetchKeepsBell DEF Bell!Polled, Bell!Poll
  <1>12. ASSUME NEW q \in Bell!Queries, Bell!Read(q) PROVE BellIInv'
    BY <1>12, FetchKeepsBell DEF Bell!Read
  <1>13. ASSUME NEW q \in Bell!Queries, Bell!Answer(q) PROVE BellIInv'
    BY <1>13, AnswerKeepsBell
  <1>14. ASSUME NEW rests \in BOOLEAN, Bell!Toggle(rests) PROVE BellIInv'
    BY <1>14, ToggleKeepsBell
  <1> QED
    BY <1>1, <1>2, <1>3, <1>4, <1>5, <1>6, <1>7, <1>8, <1>9, <1>10, <1>11, <1>12, <1>13, <1>14
    DEF Bell!Next

\* The bell of a user who does one thing after the other: once their own change
\* is answered, the badge and the list have it as soon as nothing is fetched,
\* whatever hints, polls and changes from elsewhere come in between.
THEOREM OwnChangesAreShown == BellConstants /\ Bell!Spec => []Bell!ViewInv
  <1> SUFFICES ASSUME BellConstants PROVE Bell!Spec => []Bell!ViewInv
    OBVIOUS
  <1>1. BellIInv /\ [Bell!Next]_(Bell!vars) => BellIInv'
    BY BellStep
  <1>2. Bell!Init => BellIInv
    BY InitBell
  <1>3. BellIInv => Bell!ViewInv
    <2> SUFFICES ASSUME BellIInv PROVE Bell!ViewInv
      OBVIOUS
    <2>1. \A q \in Bell!Queries : cache[q] # None =>
              cache[q].rows \subseteq Notices /\ cache[q].version \in 0 .. inboxVersion
      <3> SUFFICES ASSUME NEW q \in Bell!Queries, cache[q] # None
                   PROVE  cache[q].rows \subseteq Notices /\ cache[q].version \in 0 .. inboxVersion
        OBVIOUS
      <3>1. cache[q] \in BellRows /\ inboxVersion \in Nat
        BY DEF BellIInv, BellTypes
      <3> QED BY <3>1 DEF BellRows, BellIInv, ReadFromTheInbox
    <2>2. Bell!ViewTypeOK
      BY <2>1 DEF BellIInv, BellTypes, OneAfterTheOther, Bell!ViewTypeOK
    <2>3. Bell!OwnChangesShow
      BY OtherIs DEF BellIInv, HasOwnChange, Bell!OwnChangesShow
    <2> QED BY <2>2, <2>3 DEF Bell!ViewInv
  <1> QED BY <1>1, <1>2, <1>3, PTL DEF Bell!Spec

-----------------------------------------------------------------------------
(* Undo and redo, for any cards and any number of actions, key presses and  *)
(* switches of boards.                                                      *)

Actions == [n : Nat, card : Cards, kind : Acts, board : Nat]

\* An entry is in one place: no two of these hold it.
OnePlace(un, re, run) ==
    /\ \A i, j \in DOMAIN un : un[i] = un[j] => i = j
    /\ \A i, j \in DOMAIN re : re[i] = re[j] => i = j
    /\ \A i \in DOMAIN un, j \in DOMAIN re : un[i] # re[j]
    /\ \A x \in run : \A i \in DOMAIN un : x.entry # un[i]
    /\ \A x \in run : \A i \in DOMAIN re : x.entry # re[i]
    /\ \A x, y \in run : x.entry = y.entry => x = y

\* Actions are told apart by their numbers.
ActionsOK ==
    /\ acted \in Nat /\ board \in Nat
    /\ requests \subseteq Actions /\ performed \subseteq Actions
    /\ \A r \in requests \cup performed : r.n <= acted
    /\ \A r, s \in requests \cup performed : r.n = s.n => r = s
    /\ requests \cap performed = {}
    /\ recorded \subseteq performed

StacksOK ==
    /\ undo \in Seq(recorded) /\ redo \in Seq(recorded)
    /\ IsFiniteSet(running)
    /\ \A x \in running : x.entry \in recorded /\ x.way \in {"undo", "redo"}

UndoIInv == ActionsOK /\ StacksOK /\ OnePlace(undo, redo, running)

LEMMA Appended ==
    ASSUME NEW S, NEW s \in Seq(S), NEW e \in S
    PROVE  /\ Append(s, e) \in Seq(S)
           /\ DOMAIN s = 1 .. Len(s) /\ DOMAIN Append(s, e) = 1 .. Len(s) + 1 /\ Len(s) \in Nat
           /\ \A i \in DOMAIN s : Append(s, e)[i] = s[i] /\ i < Len(s) + 1
           /\ Append(s, e)[Len(s) + 1] = e
           /\ \A i \in DOMAIN Append(s, e) : i \in DOMAIN s \/ i = Len(s) + 1
  OBVIOUS

LEMMA Popped ==
    ASSUME NEW S, NEW s \in Seq(S), s # << >>
    PROVE  /\ U!Front(s) \in Seq(S)
           /\ DOMAIN s = 1 .. Len(s) /\ Len(s) \in DOMAIN s /\ U!Last(s) = s[Len(s)]
           /\ DOMAIN U!Front(s) = 1 .. Len(s) - 1
           /\ Len(s) \in Nat /\ Len(s) > 0
           /\ \A i \in DOMAIN U!Front(s) : i \in DOMAIN s /\ U!Front(s)[i] = s[i] /\ i < Len(s)
  <1>1. Len(s) \in Nat /\ Len(s) > 0 /\ DOMAIN s = 1 .. Len(s)
    BY EmptySeq, LenProperties
  <1>2. U!Front(s) = SubSeq(s, 1, Len(s) - 1) /\ U!Last(s) = s[Len(s)]
    BY DEF U!Front, U!Last
  <1> QED BY <1>1, <1>2

LEMMA PushKeeps ==
    ASSUME NEW S, NEW un \in Seq(S), NEW re \in Seq(S), NEW run, NEW e \in S,
           OnePlace(un, re, run),
           \A i \in DOMAIN un : un[i] # e, \A i \in DOMAIN re : re[i] # e,
           \A x \in run : x.entry # e
    PROVE  OnePlace(Append(un, e), re, run) /\ OnePlace(re, Append(un, e), run)
  <1>1. PICK s : s = Append(un, e)
    OBVIOUS
  <1>2. /\ \A i \in DOMAIN un : s[i] = un[i]
        /\ s[Len(un) + 1] = e
        /\ \A i \in DOMAIN s : i \in DOMAIN un \/ i = Len(un) + 1
    BY <1>1, Appended
  <1>3. \A i, j \in DOMAIN s : s[i] = s[j] => i = j
    BY <1>2 DEF OnePlace
  <1>4. /\ \A i \in DOMAIN s, j \in DOMAIN re : s[i] # re[j]
        /\ \A x \in run : \A i \in DOMAIN s : x.entry # s[i]
    BY <1>2 DEF OnePlace
  <1> QED BY <1>1, <1>3, <1>4 DEF OnePlace

LEMMA PopKeeps ==
    ASSUME NEW S, NEW un \in Seq(S), NEW re \in Seq(S), NEW run, NEW x, un # << >>,
           x.entry = U!Last(un), OnePlace(un, re, run)
    PROVE  OnePlace(U!Front(un), re, run \cup {x}) /\ OnePlace(re, U!Front(un), run \cup {x})
  <1>1. PICK s : s = U!Front(un)
    OBVIOUS
  <1>2. /\ \A i \in DOMAIN s : i \in DOMAIN un /\ s[i] = un[i] /\ i < Len(un)
        /\ Len(un) \in DOMAIN un /\ x.entry = un[Len(un)] /\ Len(un) \in Nat
        /\ DOMAIN s = 1 .. Len(un) - 1
    BY <1>1, Popped
  <1>3. /\ \A i, j \in DOMAIN s : s[i] = s[j] => i = j
        /\ \A i \in DOMAIN s, j \in DOMAIN re : s[i] # re[j]
        /\ \A y \in run : \A i \in DOMAIN s : y.entry # s[i]
    BY <1>2 DEF OnePlace
  <1>4. \A i \in DOMAIN s : x.entry # s[i]
    BY <1>2 DEF OnePlace
  <1>5. \A y \in run : x.entry # y.entry
    BY <1>2 DEF OnePlace
  <1>6. \A i \in DOMAIN re : x.entry # re[i]
    BY <1>2 DEF OnePlace
  <1> QED BY <1>1, <1>3, <1>4, <1>5, <1>6 DEF OnePlace

\* The answer to a key press puts the entry back on a stack.
LEMMA AnswerKeeps ==
    ASSUME UndoIInv, NEW x \in running, NEW stack \in {"undo", "redo"}, U!PutOn(stack, x.entry),
           running' = running \ {x}
    PROVE  /\ undo' \in Seq(recorded) /\ redo' \in Seq(recorded)
           /\ OnePlace(undo', redo', running')
  <1>1. /\ OnePlace(undo, redo, running') /\ OnePlace(redo, undo, running')
        /\ \A i \in DOMAIN undo : undo[i] # x.entry
        /\ \A i \in DOMAIN redo : redo[i] # x.entry
        /\ \A y \in running' : y.entry # x.entry
    BY DEF UndoIInv, OnePlace
  <1>2. x.entry \in recorded /\ undo \in Seq(recorded) /\ redo \in Seq(recorded)
    BY DEF UndoIInv, StacksOK
  <1>3. CASE stack = "undo"
    <2>1. undo' = Append(undo, x.entry) /\ redo' = redo
      BY <1>3 DEF U!PutOn
    <2> QED BY <1>1, <1>2, <2>1, PushKeeps, Appended
  <1>4. CASE stack = "redo"
    <2>1. redo' = Append(redo, x.entry) /\ undo' = undo
      BY <1>4 DEF U!PutOn
    <2> QED BY <1>1, <1>2, <2>1, PushKeeps, Appended
  <1> QED BY <1>3, <1>4

LEMMA SamePlaces ==
    ASSUME UndoIInv, UNCHANGED <<undo, redo, running, recorded>>
    PROVE  StacksOK' /\ OnePlace(undo', redo', running')
  BY DEF UndoIInv, StacksOK

LEMMA UndoBegins ==
    ASSUME U!Init
    PROVE  UndoIInv
  <1>1. ActionsOK
    BY DEF U!Init, ActionsOK
  <1>2. StacksOK
    BY FS_EmptySet DEF U!Init, StacksOK
  <1>3. OnePlace(undo, redo, running)
    BY DEF U!Init, OnePlace
  <1> QED BY <1>1, <1>2, <1>3 DEF UndoIInv

LEMMA ActKeeps ==
    ASSUME UndoIInv, NEW c \in Cards, NEW kind \in Acts, U!Act(c, kind)
    PROVE  UndoIInv'
  <1>1. PICK r : r = [n |-> acted', card |-> c, kind |-> kind, board |-> board]
    OBVIOUS
  <1>2. /\ acted' = acted + 1 /\ requests' = requests \cup {r}
        /\ UNCHANGED <<board, undo, redo, running, performed, recorded>>
    BY <1>1 DEF U!Act
  <1>3. acted \in Nat /\ board \in Nat /\ r \in Actions /\ r.n = acted + 1
    BY <1>1, <1>2 DEF UndoIInv, ActionsOK, Actions
  <1>4. \A s \in requests \cup performed : s.n \in Nat /\ s.n <= acted
    BY DEF UndoIInv, ActionsOK, Actions
  <1>5. r \notin requests \cup performed
    BY <1>3, <1>4
  <1>6. ActionsOK'
    <2>1. acted' \in Nat /\ board' \in Nat /\ requests' \subseteq Actions
          /\ performed' \subseteq Actions /\ recorded' \subseteq performed'
          /\ requests' \cap performed' = {}
      BY <1>2, <1>3, <1>5 DEF UndoIInv, ActionsOK
    <2>2. \A s \in requests' \cup performed' : s = r \/ s \in requests \cup performed
      BY <1>2
    <2>3. \A s \in requests' \cup performed' : s.n <= acted'
      BY <1>2, <1>3, <1>4, <2>2
    <2>4. \A s, t \in requests' \cup performed' : s.n = t.n => s = t
      <3>1. \A s, t \in requests \cup performed : s.n = t.n => s = t
        BY DEF UndoIInv, ActionsOK
      <3>2. \A s \in requests \cup performed : s.n # r.n
        BY <1>3, <1>4
      <3> QED BY <2>2, <3>1, <3>2
    <2> QED BY <2>1, <2>3, <2>4 DEF ActionsOK
  <1> QED BY <1>2, <1>6, SamePlaces DEF UndoIInv

LEMMA SucceedKeeps ==
    ASSUME UndoIInv, NEW r \in requests, U!Succeed(r)
    PROVE  UndoIInv'
  <1>1. /\ requests' = requests \ {r} /\ performed' = performed \cup {r}
        /\ UNCHANGED <<board, running, acted>>
        /\ IF U!Followed(r) THEN U!Pushed(r) /\ recorded' = recorded \cup {r}
           ELSE UNCHANGED <<undo, redo, recorded>>
    BY DEF U!Succeed
  <1>2. ActionsOK'
    BY <1>1 DEF UndoIInv, ActionsOK
  <1>3. CASE ~U!Followed(r)
    BY <1>1, <1>2, <1>3, SamePlaces DEF UndoIInv
  <1>4. CASE U!Followed(r)
    <2>1. undo' = Append(undo, r) /\ redo' = << >> /\ recorded' = recorded \cup {r}
      BY <1>1, <1>4 DEF U!Pushed
    <2>2. r \notin recorded /\ r \in recorded'
      BY <2>1 DEF UndoIInv, ActionsOK
    <2>3. undo \in Seq(recorded) /\ undo \in Seq(recorded') /\ << >> \in Seq(recorded')
      BY <2>1, SeqMonotonic, EmptySeq DEF UndoIInv, StacksOK
    <2>4. StacksOK'
      <3>1. undo' \in Seq(recorded') /\ redo' \in Seq(recorded')
        BY <2>1, <2>2, <2>3, Appended
      <3> QED BY <1>1, <2>1, <3>1 DEF UndoIInv, StacksOK
    <2>5. OnePlace(undo, << >>, running)
      BY DEF UndoIInv, OnePlace
    <2>6. /\ \A i \in DOMAIN undo : undo[i] # r
          /\ \A i \in DOMAIN << >> : << >>[i] # r
      BY <2>2, <2>3
    <2>7. \A x \in running : x.entry # r
      BY <2>2 DEF UndoIInv, StacksOK
    <2>8. OnePlace(undo', redo', running')
      BY <1>1, <2>1, <2>2, <2>3, <2>5, <2>6, <2>7, PushKeeps
    <2> QED BY <1>2, <2>4, <2>8 DEF UndoIInv
  <1> QED BY <1>3, <1>4

\* Pressing a key moves the newest entry of a stack to the undos under way.
LEMMA PressKeeps ==
    ASSUME UndoIInv, NEW x, x.way \in {"undo", "redo"}, running' = running \cup {x},
           UNCHANGED <<requests, performed, recorded, acted, board>>,
           \/ undo # << >> /\ x.entry = U!Last(undo) /\ undo' = U!Front(undo) /\ redo' = redo
           \/ redo # << >> /\ x.entry = U!Last(redo) /\ redo' = U!Front(redo) /\ undo' = undo
    PROVE  UndoIInv'
  <1>1. undo \in Seq(recorded) /\ redo \in Seq(recorded)
        /\ OnePlace(undo, redo, running) /\ OnePlace(redo, undo, running)
    BY DEF UndoIInv, StacksOK, OnePlace
  <1>2. OnePlace(undo', redo', running')
    BY <1>1, PopKeeps
  <1>3. undo' \in Seq(recorded) /\ redo' \in Seq(recorded) /\ x.entry \in recorded
    BY <1>1, Popped, ElementOfSeq
  <1>4. IsFiniteSet(running')
    BY FS_AddElement DEF UndoIInv, StacksOK
  <1>5. StacksOK'
    BY <1>3, <1>4 DEF UndoIInv, StacksOK
  <1>6. ActionsOK'
    BY DEF UndoIInv, ActionsOK
  <1> QED BY <1>2, <1>5, <1>6 DEF UndoIInv

LEMMA UndoStep ==
    ASSUME UndoIInv, [U!Next]_(U!vars)
    PROVE  UndoIInv'
  <1>1. CASE UNCHANGED U!vars
    BY <1>1, SamePlaces DEF U!vars, UndoIInv, ActionsOK
  <1>2. ASSUME NEW c \in Cards, NEW kind \in Acts, U!Act(c, kind)
        PROVE  UndoIInv'
    BY <1>2, ActKeeps
  <1>3. ASSUME NEW r \in requests, U!Succeed(r)
        PROVE  UndoIInv'
    BY <1>3, SucceedKeeps
  <1>4. ASSUME NEW r \in requests, U!Reject(r)
        PROVE  UndoIInv'
    <2>1. ActionsOK'
      BY <1>4 DEF U!Reject, UndoIInv, ActionsOK
    <2> QED BY <1>4, <2>1, SamePlaces DEF U!Reject, UndoIInv
  <1>5. CASE U!UndoLast
    <2>1. PICK x : x = [entry |-> U!Last(undo), way |-> "undo", press |-> presses']
      OBVIOUS
    <2>2. running' = running \cup {x} /\ x.entry = U!Last(undo) /\ x.way = "undo"
      BY <1>5, <2>1 DEF U!UndoLast, U!Sent
    <2> QED BY <1>5, <2>2, PressKeeps DEF U!UndoLast
  <1>6. CASE U!RedoLast
    <2>1. PICK x : x = [entry |-> U!Last(redo), way |-> "redo", press |-> presses']
      OBVIOUS
    <2>2. running' = running \cup {x} /\ x.entry = U!Last(redo) /\ x.way = "redo"
      BY <1>6, <2>1 DEF U!RedoLast, U!Sent
    <2> QED BY <1>6, <2>2, PressKeeps DEF U!RedoLast
  <1>7. ASSUME NEW x \in running, U!Done(x) \/ U!Failed(x)
        PROVE  UndoIInv'
    <2>1. PICK stack \in {"undo", "redo"} : U!PutOn(stack, x.entry)
      BY <1>7 DEF U!Done, U!Failed, U!Other, UndoIInv, StacksOK
    <2>2. running' = running \ {x}
          /\ UNCHANGED <<board, requests, acted, performed, recorded>>
      BY <1>7 DEF U!Done, U!Failed
    <2>3. /\ undo' \in Seq(recorded) /\ redo' \in Seq(recorded)
          /\ OnePlace(undo', redo', running')
      BY <2>1, <2>2, AnswerKeeps
    <2>4. IsFiniteSet(running')
      BY <2>2, FS_RemoveElement DEF UndoIInv, StacksOK
    <2>5. StacksOK'
      BY <2>2, <2>3, <2>4 DEF UndoIInv, StacksOK
    <2>6. ActionsOK'
      BY <2>2 DEF UndoIInv, ActionsOK
    <2> QED BY <2>3, <2>5, <2>6 DEF UndoIInv
  <1>8. CASE U!Switch
    <2>1. /\ undo' = << >> /\ redo' = << >> /\ board' = board + 1
          /\ UNCHANGED <<requests, running, acted, performed, recorded>>
      BY <1>8 DEF U!Switch
    <2>2. StacksOK'
      BY <2>1, EmptySeq DEF UndoIInv, StacksOK
    <2>3. OnePlace(undo', redo', running')
      BY <2>1 DEF UndoIInv, OnePlace
    <2>4. ActionsOK'
      BY <2>1 DEF UndoIInv, ActionsOK
    <2> QED BY <2>2, <2>3, <2>4 DEF UndoIInv
  <1>9. CASE U!Elsewhere
    <2>1. ActionsOK'
      BY <1>9 DEF U!Elsewhere, UndoIInv, ActionsOK
    <2> QED BY <1>9, <2>1, SamePlaces DEF U!Elsewhere, UndoIInv
  <1> QED BY <1>1, <1>2, <1>3, <1>4, <1>5, <1>6, <1>7, <1>8, <1>9 DEF U!Next

\* A sequence without repetitions has as many elements as places.
LEMMA AsManyAsPlaces ==
    ASSUME NEW S, NEW s \in Seq(S), \A i, j \in DOMAIN s : s[i] = s[j] => i = j
    PROVE  IsFiniteSet(U!ToSet(s)) /\ Cardinality(U!ToSet(s)) = Len(s)
  <1>1. DOMAIN s = 1 .. Len(s) /\ Len(s) \in Nat
    BY LenProperties
  <1>2. U!ToSet(s) = {s[i] : i \in 1 .. Len(s)}
    BY <1>1 DEF U!ToSet
  <1>3. PICK f : f = [i \in 1 .. Len(s) |-> s[i]]
    OBVIOUS
  <1>4. f \in Bijection(1 .. Len(s), U!ToSet(s))
    <2>1. f \in [1 .. Len(s) -> U!ToSet(s)]
      BY <1>2, <1>3
    <2>2. \A i, j \in 1 .. Len(s) : f[i] = f[j] => i = j
      BY <1>1, <1>3
    <2>3. \A t \in U!ToSet(s) : \E i \in 1 .. Len(s) : f[i] = t
      BY <1>2, <1>3
    <2>4. f \in Injection(1 .. Len(s), U!ToSet(s))
      BY <2>1, <2>2 DEF Injection, IsInjective
    <2>5. f \in Surjection(1 .. Len(s), U!ToSet(s))
      BY <2>1, <2>3 DEF Surjection
    <2> QED BY <2>4, <2>5 DEF Bijection
  <1>5. IsFiniteSet(1 .. Len(s)) /\ Cardinality(1 .. Len(s)) = Len(s)
    <2>1. PICK n : n = Len(s)
      OBVIOUS
    <2>2. n \in Nat /\ n \in Int /\ 1 \in Int
      BY <1>1, <2>1
    <2>3. IsFiniteSet(1 .. n) /\ Cardinality(1 .. n) = IF 1 > n THEN 0 ELSE n - 1 + 1
      BY <2>2, FS_Interval
    <2>4. Cardinality(1 .. n) = n
      BY <2>2, <2>3
    <2> QED BY <2>1, <2>3, <2>4
  <1>6. ExistsBijection(1 .. Len(s), U!ToSet(s))
    BY <1>4 DEF ExistsBijection
  <1> QED BY <1>5, <1>6, FS_Bijection

\* However fast keys are pressed, whatever fails and whichever board is shown
\* when an answer comes: an entry is on one stack or in one request.
THEOREM EntriesInOnePlace == U!Spec => []U!NothingTwice
  <1>1. U!Init => UndoIInv
    BY UndoBegins
  <1>2. UndoIInv /\ [U!Next]_(U!vars) => UndoIInv'
    BY UndoStep
  <1>3. UndoIInv => U!NothingTwice
    <2> SUFFICES ASSUME UndoIInv PROVE U!NothingTwice
      OBVIOUS
    <2>1. /\ undo \in Seq(recorded) /\ redo \in Seq(recorded) /\ IsFiniteSet(running)
          /\ \A x \in running : x.entry \in recorded
          /\ recorded \subseteq performed
      BY DEF UndoIInv, StacksOK, ActionsOK
    <2>2. PICK A, B, C : /\ A = U!ToSet(undo) /\ B = U!ToSet(redo)
                         /\ C = {x.entry : x \in running}
      OBVIOUS
    <2>3. U!Entries = A \cup B \cup C
      BY <2>2 DEF U!Entries
    <2>4. /\ IsFiniteSet(A) /\ Cardinality(A) = Len(undo)
          /\ IsFiniteSet(B) /\ Cardinality(B) = Len(redo)
      BY <2>1, <2>2, AsManyAsPlaces DEF UndoIInv, OnePlace
    <2>5. IsFiniteSet(C) /\ Cardinality(C) = Cardinality(running)
      <3>1. PICK f : f = [x \in running |-> x.entry]
        OBVIOUS
      <3>2. f \in Bijection(running, C)
        <4>1. f \in [running -> C]
          BY <2>2, <3>1
        <4>2. \A x, y \in running : f[x] = f[y] => x = y
          BY <3>1 DEF UndoIInv, OnePlace
        <4>3. \A t \in C : \E x \in running : f[x] = t
          BY <2>2, <3>1
        <4>4. f \in Injection(running, C)
          BY <4>1, <4>2 DEF Injection, IsInjective
        <4>5. f \in Surjection(running, C)
          BY <4>1, <4>3 DEF Surjection
        <4> QED BY <4>4, <4>5 DEF Bijection
      <3>3. ExistsBijection(running, C)
        BY <3>2 DEF ExistsBijection
      <3> QED BY <2>1, <3>3, FS_Bijection
    <2>6. DOMAIN undo = 1 .. Len(undo) /\ DOMAIN redo = 1 .. Len(redo)
      BY <2>1, LenProperties
    <2>7. A \cap B = {} /\ (A \cup B) \cap C = {}
      BY <2>2 DEF UndoIInv, OnePlace, U!ToSet
    <2>8. A \subseteq recorded /\ B \subseteq recorded /\ C \subseteq recorded
      BY <2>1, <2>2, <2>6, ElementOfSeq DEF U!ToSet
    <2>9. IsFiniteSet(A \cup B) /\ Cardinality(A \cup B) = Len(undo) + Len(redo)
      <3>1. Cardinality(A \cap B) = 0
        BY <2>7, FS_EmptySet
      <3>2. IsFiniteSet(A \cup B)
            /\ Cardinality(A \cup B) = Cardinality(A) + Cardinality(B) - Cardinality(A \cap B)
        BY <2>4, FS_Union
      <3>3. Len(undo) \in Nat /\ Len(redo) \in Nat
        BY <2>1, LenProperties
      <3> QED BY <2>4, <3>1, <3>2, <3>3
    <2>10. Cardinality(A \cup B \cup C) = Len(undo) + Len(redo) + Cardinality(running)
      <3>1. Cardinality((A \cup B) \cap C) = 0
        BY <2>7, FS_EmptySet
      <3>2. Cardinality((A \cup B) \cup C)
            = Cardinality(A \cup B) + Cardinality(C) - Cardinality((A \cup B) \cap C)
        BY <2>5, <2>9, FS_Union
      <3>3. Len(undo) \in Nat /\ Len(redo) \in Nat /\ Cardinality(running) \in Nat
        BY <2>1, LenProperties, FS_CardinalityType
      <3> QED BY <2>5, <2>9, <3>1, <3>2, <3>3
    <2>11. U!Entries \subseteq recorded
      BY <2>3, <2>8
    <2>12. Cardinality(U!Entries) = Len(undo) + Len(redo) + Cardinality(running)
      BY <2>3, <2>10
    <2>13. U!Cardinality(running) = Cardinality(running)
           /\ U!Cardinality(U!Entries) = Cardinality(U!Entries)
      BY Zenon DEF U!Cardinality, Cardinality, U!IsFiniteSet, IsFiniteSet
    <2> QED BY <2>1, <2>11, <2>12, <2>13 DEF U!NothingTwice
  <1> QED BY <1>1, <1>2, <1>3, PTL DEF U!Spec

\* Where nothing overlaps: the entries of the board shown, in the order they
\* were made, the undone ones after those that are not.
InOrder(un, re, run) ==
    /\ \A i, j \in DOMAIN un : i < j => un[i].n < un[j].n
    /\ \A i, j \in DOMAIN re : i < j => re[j].n < re[i].n
    /\ \A i \in DOMAIN un, j \in DOMAIN re : un[i].n < re[j].n
    /\ \A x \in run : \A i \in DOMAIN un : un[i].n < x.entry.n
    /\ \A x \in run : \A i \in DOMAIN re : x.entry.n < re[i].n

Holds(un, re, run, e) ==
    \/ \E i \in DOMAIN un : un[i] = e
    \/ \E i \in DOMAIN re : re[i] = e
    \/ \E x \in run : x.entry = e

\* One thing at a time, and whoever sent it still follows it.
OneThing ==
    /\ \A r, s \in requests : r = s
    /\ \A x, y \in running : x = y
    /\ requests = {} \/ running = {}
    /\ \A r \in requests : r.n = acted /\ r.board = board /\ latest[U!Hook(r.kind)] = acted
    /\ latest = [h \in {"move", "action"} |-> latest[h]]

CalmIInv ==
    /\ UndoIInv
    /\ OneThing
    /\ InOrder(undo, redo, running)
    /\ \A r \in performed : r.board <= board
    /\ \A e \in recorded : Holds(undo, redo, running, e) => e.board = board
    /\ U!NothingLost
    /\ U!EveryActionRecorded

LEMMA EntriesAre ==
    ASSUME NEW e
    PROVE  e \in U!Entries <=> Holds(undo, redo, running, e)
  BY DEF U!Entries, U!ToSet, Holds

LEMMA EntriesBecome ==
    ASSUME NEW e
    PROVE  e \in U!Entries' <=> Holds(undo', redo', running', e)
  BY DEF U!Entries, U!ToSet, Holds

\* What holds the same entries, of the same board, loses nothing.
LEMMA SameHistory ==
    ASSUME CalmIInv, UNCHANGED <<board, performed, recorded>>,
           \A e : Holds(undo, redo, running, e) <=> Holds(undo', redo', running', e)
    PROVE  /\ U!NothingLost' /\ U!EveryActionRecorded'
           /\ \A r \in performed' : r.board <= board'
           /\ \A e \in recorded' : Holds(undo', redo', running', e) => e.board = board'
  <1>1. ASSUME NEW r \in recorded, r.board = board
        PROVE  r \in U!Entries' \/ \E f \in recorded : f.board = board /\ f.n > r.n
    <2>1. r \in U!Entries \/ \E f \in recorded : f.board = board /\ f.n > r.n
      BY <1>1 DEF CalmIInv, U!NothingLost
    <2> QED BY <2>1, EntriesAre, EntriesBecome
  <1>2. U!NothingLost'
    BY <1>1 DEF U!NothingLost
  <1>3. U!EveryActionRecorded'
    BY DEF CalmIInv, U!EveryActionRecorded
  <1> QED BY <1>2, <1>3 DEF CalmIInv

\* Moving the newest entry of one stack to the requests, and back to either.
LEMMA PressOrders ==
    ASSUME NEW un \in Seq(Actions), NEW re \in Seq(Actions), NEW x, InOrder(un, re, {})
    PROVE  /\ un # << >> /\ x.entry = U!Last(un) =>
                 /\ InOrder(U!Front(un), re, {x})
                 /\ \A e : Holds(un, re, {}, e) <=> Holds(U!Front(un), re, {x}, e)
           /\ re # << >> /\ x.entry = U!Last(re) =>
                 /\ InOrder(un, U!Front(re), {x})
                 /\ \A e : Holds(un, re, {}, e) <=> Holds(un, U!Front(re), {x}, e)
  <1>1. ASSUME un # << >>, x.entry = U!Last(un)
        PROVE  /\ InOrder(U!Front(un), re, {x})
               /\ \A e : Holds(un, re, {}, e) <=> Holds(U!Front(un), re, {x}, e)
    <2>1. PICK s : s = U!Front(un)
      OBVIOUS
    <2>2. /\ \A i \in DOMAIN s : i \in DOMAIN un /\ s[i] = un[i] /\ i < Len(un)
          /\ Len(un) \in DOMAIN un /\ x.entry = un[Len(un)] /\ Len(un) \in Nat
          /\ DOMAIN s = 1 .. Len(un) - 1 /\ DOMAIN un = 1 .. Len(un)
      BY <1>1, <2>1, Popped
    <2>3. InOrder(s, re, {x})
      BY <2>2 DEF InOrder
    <2>4. \A i \in DOMAIN un : i \in DOMAIN s \/ i = Len(un)
      BY <2>2
    <2>5. \A e : Holds(un, re, {}, e) <=> Holds(s, re, {x}, e)
      BY <2>2, <2>4 DEF Holds
    <2> QED BY <2>1, <2>3, <2>5
  <1>2. ASSUME re # << >>, x.entry = U!Last(re)
        PROVE  /\ InOrder(un, U!Front(re), {x})
               /\ \A e : Holds(un, re, {}, e) <=> Holds(un, U!Front(re), {x}, e)
    <2>1. PICK s : s = U!Front(re)
      OBVIOUS
    <2>2. /\ \A i \in DOMAIN s : i \in DOMAIN re /\ s[i] = re[i] /\ i < Len(re)
          /\ Len(re) \in DOMAIN re /\ x.entry = re[Len(re)] /\ Len(re) \in Nat
          /\ DOMAIN s = 1 .. Len(re) - 1 /\ DOMAIN re = 1 .. Len(re)
      BY <1>2, <2>1, Popped
    <2>3. InOrder(un, s, {x})
      BY <2>2 DEF InOrder
    <2>4. \A i \in DOMAIN re : i \in DOMAIN s \/ i = Len(re)
      BY <2>2
    <2>5. \A e : Holds(un, re, {}, e) <=> Holds(un, s, {x}, e)
      BY <2>2, <2>4 DEF Holds
    <2> QED BY <2>1, <2>3, <2>5
  <1> QED BY <1>1, <1>2

LEMMA AnswerOrders ==
    ASSUME NEW un \in Seq(Actions), NEW re \in Seq(Actions), NEW x, x.entry \in Actions,
           InOrder(un, re, {x})
    PROVE  /\ InOrder(Append(un, x.entry), re, {}) /\ InOrder(un, Append(re, x.entry), {})
           /\ \A e : /\ Holds(un, re, {x}, e) <=> Holds(Append(un, x.entry), re, {}, e)
                     /\ Holds(un, re, {x}, e) <=> Holds(un, Append(re, x.entry), {}, e)
  <1>1. PICK s, t : s = Append(un, x.entry) /\ t = Append(re, x.entry)
    OBVIOUS
  <1>2. /\ \A i \in DOMAIN un : s[i] = un[i] /\ i < Len(un) + 1
        /\ s[Len(un) + 1] = x.entry /\ Len(un) + 1 \in DOMAIN s
        /\ \A i \in DOMAIN s : i \in DOMAIN un \/ i = Len(un) + 1
        /\ DOMAIN un \subseteq DOMAIN s /\ DOMAIN s \subseteq Int /\ Len(un) \in Nat
    BY <1>1, Appended
  <1>3. /\ \A i \in DOMAIN re : t[i] = re[i] /\ i < Len(re) + 1
        /\ t[Len(re) + 1] = x.entry /\ Len(re) + 1 \in DOMAIN t
        /\ \A i \in DOMAIN t : i \in DOMAIN re \/ i = Len(re) + 1
        /\ DOMAIN re \subseteq DOMAIN t /\ DOMAIN t \subseteq Int /\ Len(re) \in Nat
    BY <1>1, Appended
  <1>4. InOrder(s, re, {})
    <2>1. \A i, j \in DOMAIN s : i < j => s[i].n < s[j].n
      <3>1. \A i, j \in DOMAIN un : i < j => un[i].n < un[j].n
        BY DEF InOrder
      <3>2. \A i \in DOMAIN un : un[i].n < x.entry.n
        BY DEF InOrder
      <3>3. TAKE i, j \in DOMAIN s
      <3>4. HAVE i < j
      <3>5. i \in DOMAIN un /\ s[i] = un[i]
        BY <1>2, <3>3, <3>4
      <3>6. CASE j \in DOMAIN un
        BY <1>2, <3>1, <3>4, <3>5, <3>6
      <3>7. CASE j = Len(un) + 1
        BY <1>2, <3>2, <3>5, <3>7
      <3> QED BY <1>2, <3>3, <3>6, <3>7
    <2>2. \A i \in DOMAIN s, j \in DOMAIN re : s[i].n < re[j].n
      BY <1>2 DEF InOrder
    <2> QED BY <2>1, <2>2 DEF InOrder
  <1>5. InOrder(un, t, {})
    <2>1. \A i, j \in DOMAIN t : i < j => t[j].n < t[i].n
      <3>1. \A i, j \in DOMAIN re : i < j => re[j].n < re[i].n
        BY DEF InOrder
      <3>2. \A i \in DOMAIN re : x.entry.n < re[i].n
        BY DEF InOrder
      <3>3. TAKE i, j \in DOMAIN t
      <3>4. HAVE i < j
      <3>5. i \in DOMAIN re /\ t[i] = re[i]
        BY <1>3, <3>3, <3>4
      <3>6. CASE j \in DOMAIN re
        BY <1>3, <3>1, <3>4, <3>5, <3>6
      <3>7. CASE j = Len(re) + 1
        BY <1>3, <3>2, <3>5, <3>7
      <3> QED BY <1>3, <3>3, <3>6, <3>7
    <2>2. \A i \in DOMAIN un, j \in DOMAIN t : un[i].n < t[j].n
      BY <1>3 DEF InOrder
    <2> QED BY <2>1, <2>2 DEF InOrder
  <1>6. \A e : Holds(un, re, {x}, e) <=> Holds(s, re, {}, e)
    BY <1>2 DEF Holds
  <1>7. \A e : Holds(un, re, {x}, e) <=> Holds(un, t, {}, e)
    BY <1>3 DEF Holds
  <1> QED BY <1>1, <1>4, <1>5, <1>6, <1>7

LEMMA StacksAre ==
    ASSUME UndoIInv
    PROVE  /\ undo \in Seq(Actions) /\ redo \in Seq(Actions) /\ recorded \subseteq Actions
           /\ \A x \in running : x.entry \in Actions
  <1>1. recorded \subseteq Actions /\ undo \in Seq(recorded) /\ redo \in Seq(recorded)
    BY DEF UndoIInv, ActionsOK, StacksOK
  <1> QED BY <1>1, SeqMonotonic DEF UndoIInv, StacksOK

LEMMA CalmBegins ==
    ASSUME U!Init
    PROVE  CalmIInv
  <1>1. UndoIInv
    BY UndoBegins
  <1>2. OneThing
    BY DEF U!Init, OneThing
  <1>3. InOrder(undo, redo, running)
    BY DEF U!Init, InOrder
  <1>4. U!NothingLost /\ U!EveryActionRecorded
    BY DEF U!Init, U!NothingLost, U!EveryActionRecorded
  <1> QED BY <1>1, <1>2, <1>3, <1>4 DEF CalmIInv, U!Init

LEMMA CalmAct ==
    ASSUME CalmIInv, ~Overlapping, UndoIInv', NEW c \in Cards, NEW kind \in Acts, U!Act(c, kind)
    PROVE  CalmIInv'
  <1>1. PICK r : r = [n |-> acted', card |-> c, kind |-> kind, board |-> board]
    OBVIOUS
  <1>2. /\ requests = {} /\ running = {} /\ requests' = requests \cup {r}
        /\ latest' = [latest EXCEPT ![U!Hook(kind)] = acted']
        /\ UNCHANGED <<board, undo, redo, running, performed, recorded>>
    BY <1>1 DEF U!Act, U!Allowed, U!Busy
  <1>3. U!Hook(kind) \in {"move", "action"}
    BY DEF U!Hook
  <1>4. latest = [h \in {"move", "action"} |-> latest[h]]
    BY DEF CalmIInv, OneThing
  <1>5. /\ latest'[U!Hook(kind)] = acted'
        /\ latest' = [h \in {"move", "action"} |-> latest'[h]]
    BY <1>2, <1>3, <1>4
  <1>6. OneThing'
    BY <1>1, <1>2, <1>5 DEF OneThing, U!Hook
  <1> QED BY <1>2, <1>6, SameHistory DEF CalmIInv

LEMMA CalmSucceed ==
    ASSUME CalmIInv, ~Overlapping, UndoIInv', NEW r \in requests, U!Succeed(r)
    PROVE  CalmIInv'
  <1>1. /\ requests = {r} /\ running = {} /\ r.n = acted /\ r.board = board
        /\ U!Followed(r)
    BY DEF CalmIInv, OneThing, U!Followed
  <1>2. /\ requests' = {} /\ performed' = performed \cup {r} /\ recorded' = recorded \cup {r}
        /\ undo' = Append(undo, r) /\ redo' = << >>
        /\ UNCHANGED <<board, latest, running, acted>>
    BY <1>1 DEF U!Succeed, U!Pushed
  <1>3. /\ undo \in Seq(Actions) /\ r \in Actions /\ recorded \subseteq performed
        /\ performed \subseteq Actions
        /\ \A i \in DOMAIN undo : undo[i] \in performed
        /\ \A s \in performed : s.n <= acted /\ s.n # r.n
    <2>1. UndoIInv
      BY DEF CalmIInv
    <2>2. undo \in Seq(recorded)
      BY <2>1 DEF UndoIInv, StacksOK
    <2>3. \A i \in DOMAIN undo : undo[i] \in recorded
      BY <2>2
    <2> QED BY <2>1, <2>3, StacksAre DEF UndoIInv, ActionsOK
  <1>4. \A s \in performed : s.n < r.n
    BY <1>1, <1>3 DEF Actions
  <1>5. OneThing'
    BY <1>2 DEF CalmIInv, OneThing
  <1>6. InOrder(undo', redo', running')
    <2>1. PICK x : x = [entry |-> r]
      OBVIOUS
    <2>2. \A i, j \in DOMAIN undo : i < j => undo[i].n < undo[j].n
      BY DEF CalmIInv, InOrder
    <2>3. \A i \in DOMAIN undo : undo[i].n < r.n
      BY <1>3, <1>4
    <2>4. InOrder(undo, << >>, {x})
      BY <2>1, <2>2, <2>3 DEF InOrder
    <2>5. InOrder(Append(undo, x.entry), << >>, {})
      BY <1>3, <2>1, <2>4, AnswerOrders, EmptySeq
    <2> QED BY <1>1, <1>2, <2>1, <2>5
  <1>7. \A e \in recorded' : Holds(undo', redo', running', e) => e.board = board'
    <2>1. \A i \in DOMAIN undo' : (i \in DOMAIN undo /\ undo'[i] = undo[i]) \/ undo'[i] = r
      BY <1>2, <1>3, Appended
    <2>2. \A i \in DOMAIN undo : Holds(undo, redo, running, undo[i])
      BY DEF Holds
    <2>3. \A i \in DOMAIN undo : undo[i] \in recorded
      BY DEF CalmIInv, UndoIInv, StacksOK
    <2>4. \A i \in DOMAIN undo : undo[i].board = board
      BY <2>2, <2>3 DEF CalmIInv
    <2> QED BY <1>1, <1>2, <2>1, <2>4 DEF Holds
  <1>8. U!NothingLost'
    <2>1. ASSUME NEW s \in recorded', s.board = board'
          PROVE  s \in U!Entries' \/ \E f \in recorded' : f.board = board' /\ f.n > s.n
      <3>1. CASE s = r
        <4>1. Len(undo) + 1 \in DOMAIN undo' /\ undo'[Len(undo) + 1] = r
          BY <1>2, <1>3, Appended
        <4> QED BY <3>1, <4>1, EntriesBecome DEF Holds
      <3>2. CASE s \in recorded
        <4>1. r.n > s.n
          BY <1>3, <1>4, <3>2 DEF Actions
        <4> QED BY <1>1, <1>2, <4>1
      <3> QED BY <1>2, <2>1, <3>1, <3>2
    <2> QED BY <2>1 DEF U!NothingLost
  <1>9. U!EveryActionRecorded'
    BY <1>2 DEF CalmIInv, U!EveryActionRecorded
  <1>10. \A s \in performed' : s.board <= board'
    BY <1>1, <1>2, <1>3 DEF CalmIInv, Actions
  <1> QED BY <1>5, <1>6, <1>7, <1>8, <1>9, <1>10 DEF CalmIInv

LEMMA CalmPress ==
    ASSUME CalmIInv, UndoIInv', requests = {}, running = {},
           NEW x, running' = {x},
           UNCHANGED <<requests, performed, recorded, acted, board, latest>>,
           \/ undo # << >> /\ x.entry = U!Last(undo) /\ undo' = U!Front(undo) /\ redo' = redo
           \/ redo # << >> /\ x.entry = U!Last(redo) /\ redo' = U!Front(redo) /\ undo' = undo
    PROVE  CalmIInv'
  <1>1. OneThing'
    BY DEF CalmIInv, OneThing
  <1>2. InOrder(undo, redo, {}) /\ undo \in Seq(Actions) /\ redo \in Seq(Actions)
    BY StacksAre DEF CalmIInv
  <1>3. /\ InOrder(undo', redo', running')
        /\ \A e : Holds(undo, redo, running, e) <=> Holds(undo', redo', running', e)
    BY <1>2, PressOrders
  <1> QED BY <1>1, <1>3, SameHistory DEF CalmIInv

LEMMA CalmAnswer ==
    ASSUME CalmIInv, UndoIInv', NEW x \in running, NEW stack \in {"undo", "redo"},
           U!PutOn(stack, x.entry), running' = running \ {x},
           UNCHANGED <<board, requests, latest, acted, performed, recorded>>
    PROVE  CalmIInv'
  <1>1. running = {x} /\ running' = {} /\ requests = {}
    BY DEF CalmIInv, OneThing
  <1>2. OneThing'
    BY <1>1 DEF CalmIInv, OneThing
  <1>3. /\ InOrder(undo, redo, {x}) /\ undo \in Seq(Actions) /\ redo \in Seq(Actions)
        /\ x.entry \in Actions
    BY <1>1, StacksAre DEF CalmIInv
  <1>4. /\ InOrder(undo', redo', {})
        /\ \A e : Holds(undo, redo, {x}, e) <=> Holds(undo', redo', {}, e)
    <2>1. CASE stack = "undo"
      <3>1. undo' = Append(undo, x.entry) /\ redo' = redo
        BY <2>1 DEF U!PutOn
      <3> QED BY <1>3, <3>1, AnswerOrders
    <2>2. CASE stack = "redo"
      <3>1. redo' = Append(redo, x.entry) /\ undo' = undo
        BY <2>2 DEF U!PutOn
      <3> QED BY <1>3, <3>1, AnswerOrders
    <2> QED BY <2>1, <2>2
  <1> QED BY <1>1, <1>2, <1>4, SameHistory DEF CalmIInv

LEMMA CalmStep ==
    ASSUME CalmIInv, ~Overlapping, [U!Next]_(U!vars)
    PROVE  CalmIInv'
  <1>0. UndoIInv /\ UndoIInv'
    BY UndoStep DEF CalmIInv
  <1>1. CASE UNCHANGED U!vars
    <2>1. OneThing' /\ InOrder(undo', redo', running')
      BY <1>1 DEF U!vars, CalmIInv, OneThing
    <2> QED BY <1>0, <1>1, <2>1, SameHistory DEF U!vars, CalmIInv
  <1>2. ASSUME NEW c \in Cards, NEW kind \in Acts, U!Act(c, kind)
        PROVE  CalmIInv'
    BY <1>0, <1>2, CalmAct
  <1>3. ASSUME NEW r \in requests, U!Succeed(r)
        PROVE  CalmIInv'
    BY <1>0, <1>3, CalmSucceed
  <1>4. ASSUME NEW r \in requests, U!Reject(r)
        PROVE  CalmIInv'
    <2>1. OneThing' /\ InOrder(undo', redo', running')
      BY <1>4 DEF U!Reject, CalmIInv, OneThing
    <2> QED BY <1>0, <1>4, <2>1, SameHistory DEF U!Reject, CalmIInv
  <1>5. CASE U!UndoLast
    <2>1. PICK x : x = [entry |-> U!Last(undo), way |-> "undo", press |-> presses']
      OBVIOUS
    <2>2. requests = {} /\ running = {} /\ running' = {x} /\ x.entry = U!Last(undo)
      BY <1>5, <2>1 DEF U!UndoLast, U!Sent, U!Allowed, U!Busy
    <2> QED BY <1>0, <1>5, <2>2, CalmPress DEF U!UndoLast
  <1>6. CASE U!RedoLast
    <2>1. PICK x : x = [entry |-> U!Last(redo), way |-> "redo", press |-> presses']
      OBVIOUS
    <2>2. requests = {} /\ running = {} /\ running' = {x} /\ x.entry = U!Last(redo)
      BY <1>6, <2>1 DEF U!RedoLast, U!Sent, U!Allowed, U!Busy
    <2> QED BY <1>0, <1>6, <2>2, CalmPress DEF U!RedoLast
  <1>7. ASSUME NEW x \in running, U!Done(x) \/ U!Failed(x)
        PROVE  CalmIInv'
    <2>1. PICK stack \in {"undo", "redo"} : U!PutOn(stack, x.entry)
      BY <1>0, <1>7 DEF U!Done, U!Failed, U!Other, UndoIInv, StacksOK
    <2>2. running' = running \ {x}
          /\ UNCHANGED <<board, requests, latest, acted, performed, recorded>>
      BY <1>7 DEF U!Done, U!Failed
    <2> QED BY <1>0, <2>1, <2>2, CalmAnswer
  <1>8. CASE U!Switch
    <2>1. /\ undo' = << >> /\ redo' = << >> /\ board' = board + 1
          /\ requests = {} /\ running = {}
          /\ UNCHANGED <<requests, latest, running, acted, performed, recorded>>
      BY <1>8 DEF U!Switch, U!Allowed, U!Busy
    <2>2. OneThing' /\ InOrder(undo', redo', running')
      BY <2>1 DEF CalmIInv, OneThing, InOrder
    <2>3. \A r \in performed' : r.board < board'
      BY <1>0, <2>1 DEF CalmIInv, UndoIInv, ActionsOK, Actions
    <2>4. \A r \in performed' : r.board # board' /\ r.board <= board'
      BY <1>0, <2>1, <2>3 DEF UndoIInv, ActionsOK, Actions
    <2>5. recorded' \subseteq performed'
      BY <1>0 DEF UndoIInv, ActionsOK
    <2>6. U!NothingLost' /\ U!EveryActionRecorded'
      BY <2>4, <2>5 DEF U!NothingLost, U!EveryActionRecorded
    <2>7. \A e : ~Holds(undo', redo', running', e)
      BY <2>1 DEF Holds
    <2> QED BY <1>0, <2>2, <2>4, <2>6, <2>7 DEF CalmIInv
  <1>9. CASE U!Elsewhere
    <2>1. OneThing' /\ InOrder(undo', redo', running')
      BY <1>9 DEF U!Elsewhere, CalmIInv, OneThing
    <2> QED BY <1>0, <1>9, <2>1, SameHistory DEF U!Elsewhere, CalmIInv
  <1> QED BY <1>1, <1>2, <1>3, <1>4, <1>5, <1>6, <1>7, <1>8, <1>9 DEF U!Next

\* One thing at a time: every action performed on the board shown has recorded
\* its inverse; it can still be undone or redone, unless a newer one was made;
\* nothing that was undone before a newer action is ever redone; and the
\* stacks are of this board.
THEOREM HistoryIsLinear ==
    ~Overlapping /\ U!Spec =>
        [](/\ U!NothingLost /\ U!NoRedoAcrossFork
           /\ U!EveryActionRecorded /\ U!OnlyThisBoard)
  <1> SUFFICES ASSUME ~Overlapping
               PROVE  U!Spec => [](/\ U!NothingLost /\ U!NoRedoAcrossFork
                                   /\ U!EveryActionRecorded /\ U!OnlyThisBoard)
    OBVIOUS
  <1>1. U!Init => CalmIInv
    BY CalmBegins
  <1>2. CalmIInv /\ [U!Next]_(U!vars) => CalmIInv'
    BY CalmStep
  <1>3. CalmIInv => /\ U!NothingLost /\ U!NoRedoAcrossFork
                    /\ U!EveryActionRecorded /\ U!OnlyThisBoard
    <2> SUFFICES ASSUME CalmIInv
                 PROVE  U!NoRedoAcrossFork /\ U!OnlyThisBoard
      BY DEF CalmIInv
    <2>1. U!NoRedoAcrossFork
      BY DEF CalmIInv, InOrder, U!NoRedoAcrossFork, U!ToSet
    <2>2. /\ undo \in Seq(recorded) /\ redo \in Seq(recorded)
          /\ \A x \in running : x.entry \in recorded
      BY DEF CalmIInv, UndoIInv, StacksOK
    <2>3. \A e : Holds(undo, redo, running, e) => e \in recorded
      BY <2>2 DEF Holds
    <2>4. U!OnlyThisBoard
      BY <2>3, EntriesAre DEF CalmIInv, U!OnlyThisBoard
    <2> QED BY <2>1, <2>4
  <1> QED BY <1>1, <1>2, <1>3, PTL DEF U!Spec

-----------------------------------------------------------------------------
(* The banner of a waiting card.                                            *)
(*                                                                         *)
(* A field counts as typed exactly as long as it differs from the server's  *)
(* value in the browser, so that what replaces untyped fields only replaces *)
(* what nobody typed.                                                       *)

Entries == [version : Nat, waits : BOOLEAN, value : W!Contents]
Drafts == [draft : W!Contents, seen : W!Contents, typed : [Fields -> PanelCards \cup {None}]]

DraftOK(b, value) ==
    /\ b \in Drafts /\ b.seen = value
    /\ \A f \in Fields : b.typed[f] = None <=> b.draft[f] = value[f]

BannerIInv ==
    /\ remote \in [PanelCards -> Entries] /\ known \in [PanelCards -> Entries \cup {None}]
    /\ open \in PanelCards
    /\ banner # None => /\ known[open] # None /\ known[open].waits
                        /\ DraftOK(banner, known[open].value)
    /\ save # None => save.card \in PanelCards /\ save.value \in W!Contents

\* What a panel keeps when it renders an entry.
LEMMA RenderedIs ==
    ASSUME NEW b, NEW value \in W!Contents, b # None => DraftOK(b, value),
           NEW entry \in Entries \cup {None}, NEW r, r = W!Rendered(b, entry), r # None
    PROVE  /\ entry \in Entries /\ entry.waits /\ DraftOK(r, entry.value)
           /\ b # None => \A f \in Fields : b.typed[f] # None => r.draft[f] = b.draft[f]
  <1>1. entry # None /\ entry.waits /\ entry \in Entries /\ entry.value \in W!Contents
    BY DEF W!Rendered, Entries
  <1>2. CASE b = None
    <2>1. r = [draft |-> entry.value, seen |-> entry.value, typed |-> [f \in Fields |-> None]]
      BY <1>1, <1>2 DEF W!Rendered, W!Fresh
    <2> QED BY <1>1, <1>2, <2>1 DEF DraftOK, Drafts
  <1>3. CASE b # None
    <2>1. PICK draft : draft = W!Reseeded(b, entry.value)
      OBVIOUS
    <2>2. r = [draft |-> draft, seen |-> entry.value,
               typed |-> W!Diverged(draft, entry.value, b.typed)]
      BY <1>1, <1>3, <2>1 DEF W!Rendered
    <2>3. /\ b.draft \in [Fields -> Values] /\ b.seen = value /\ value \in [Fields -> Values]
          /\ b.typed \in [Fields -> PanelCards \cup {None}]
          /\ entry.value \in [Fields -> Values]
          /\ \A f \in Fields : b.typed[f] = None <=> b.draft[f] = value[f]
      BY <1>1, <1>3 DEF DraftOK, Drafts, W!Contents
    <2>4. draft = [f \in Fields |-> IF entry.value[f] # value[f] /\ b.draft[f] = value[f]
                                    THEN entry.value[f] ELSE b.draft[f]]
      BY <2>1, <2>3 DEF W!Reseeded
    <2>5. draft \in [Fields -> Values]
      BY <2>3, <2>4
    <2>6. r.typed = [f \in Fields |-> IF draft[f] = entry.value[f] THEN None ELSE b.typed[f]]
      BY <2>2 DEF W!Diverged
    <2>7. r.typed \in [Fields -> PanelCards \cup {None}]
      BY <2>3, <2>6
    <2>8. ASSUME NEW f \in Fields PROVE r.typed[f] = None <=> draft[f] = entry.value[f]
      BY <2>3, <2>4, <2>6
    <2>9. r \in Drafts /\ r.draft = draft /\ r.seen = entry.value
      BY <1>1, <2>2, <2>5, <2>6, <2>7 DEF Drafts, W!Contents
    <2>10. ASSUME NEW f \in Fields, b.typed[f] # None PROVE r.draft[f] = b.draft[f]
      BY <2>3, <2>4, <2>9, <2>10
    <2> QED BY <1>1, <2>8, <2>9, <2>10 DEF DraftOK
  <1> QED BY <1>2, <1>3

\* What a step leaves of the banner: a kept one keeps what was typed.
Kept == \A f \in Fields :
            banner # None /\ banner' # None /\ open' = open /\ banner.typed[f] # None
            => banner'.draft[f] = banner.draft[f]

LEMMA CachedIs ==
    ASSUME BannerIInv, NEW c \in PanelCards, NEW entry \in Entries, W!Cached(c, entry),
           open' = open
    PROVE  /\ known' \in [PanelCards -> Entries \cup {None}]
           /\ banner' # None => /\ known'[open'] # None /\ known'[open'].waits
                                /\ DraftOK(banner', known'[open'].value)
           /\ Kept
  <1>1. /\ known' = [known EXCEPT ![c] = entry] /\ known \in [PanelCards -> Entries \cup {None}]
        /\ open \in PanelCards
    BY DEF W!Cached, BannerIInv
  <1>2. CASE c # open
    <2>1. banner' = banner /\ known'[open'] = known[open]
      BY <1>1, <1>2 DEF W!Cached
    <2> QED BY <1>1, <2>1 DEF BannerIInv, Kept
  <1>3. CASE c = open
    <2>1. banner' = W!Rendered(banner, entry) /\ known'[open'] = entry
      BY <1>1, <1>3 DEF W!Cached
    <2>2. \E value \in W!Contents : banner # None => DraftOK(banner, value)
      <3>1. CASE banner # None
        <4>1. DraftOK(banner, known[open].value)
          BY <3>1 DEF BannerIInv
        <4>2. known[open].value \in W!Contents
          BY <4>1 DEF DraftOK, Drafts
        <4> QED BY <4>1, <4>2
      <3>2. CASE banner = None
        <4>1. entry.value \in W!Contents
          BY DEF Entries
        <4> QED BY <3>2, <4>1
      <3> QED BY <3>1, <3>2
    <2>3. banner' # None => /\ entry # None /\ entry.waits /\ DraftOK(banner', entry.value)
                            /\ banner # None => \A f \in Fields : banner.typed[f] # None =>
                                                   banner'.draft[f] = banner.draft[f]
      <3>1. PICK value \in W!Contents : banner # None => DraftOK(banner, value)
        BY <2>2
      <3>2. entry # None \/ banner' = None
        BY <2>1 DEF W!Rendered
      <3> QED BY <2>1, <3>1, <3>2, RenderedIs
    <2> QED BY <1>1, <2>1, <2>3 DEF Kept
  <1> QED BY <1>2, <1>3

LEMMA BannerBegins == W!Init => BannerIInv /\ save = None
  <1> SUFFICES ASSUME W!Init PROVE BannerIInv /\ save = None
    OBVIOUS
  <1>1. PICK v \in W!Contents :
            remote = [c \in PanelCards |-> [version |-> 1, waits |-> TRUE, value |-> v]]
    BY DEF W!Init
  <1>2. remote \in [PanelCards -> Entries]
    BY <1>1 DEF Entries
  <1> QED BY <1>2 DEF W!Init, BannerIInv

LEMMA BannerStep ==
    ASSUME None \notin PanelCards, BannerIInv, [W!Next]_(W!vars)
    PROVE  BannerIInv' /\ (Kept \/ \E f \in Fields, v \in Values : W!Type(f, v))
  <1>1. ASSUME NEW c \in PanelCards, NEW waits \in BOOLEAN, NEW v \in W!Contents,
               W!Remote(c, waits, v)
        PROVE  BannerIInv' /\ Kept
    <2>1. /\ remote' = [remote EXCEPT ![c] = [version |-> remote[c].version + 1,
                                              waits |-> waits, value |-> v]]
          /\ UNCHANGED <<known, open, banner, save>>
      BY <1>1 DEF W!Remote
    <2>2. remote[c].version \in Nat
      BY DEF BannerIInv, Entries
    <2>3. [version |-> remote[c].version + 1, waits |-> waits, value |-> v] \in Entries
      BY <2>2 DEF Entries
    <2>4. remote' \in [PanelCards -> Entries]
      BY <2>1, <2>3 DEF BannerIInv
    <2> QED BY <2>1, <2>4 DEF BannerIInv, Kept
  <1>2. ASSUME NEW c \in PanelCards, W!Fetch(c) PROVE BannerIInv' /\ Kept
    <2>1. W!Cached(c, remote[c]) /\ UNCHANGED <<remote, open, save>>
      BY <1>2 DEF W!Fetch
    <2>2. remote[c] \in Entries
      BY DEF BannerIInv
    <2> QED BY <2>1, <2>2, CachedIs DEF BannerIInv
  <1>3. ASSUME NEW c \in PanelCards, W!Open(c) PROVE BannerIInv' /\ Kept
    <2>1. /\ c # open /\ open' = c /\ banner' = W!Rendered(banner, known[c])
          /\ UNCHANGED <<remote, known, save>>
      BY <1>3 DEF W!Open
    <2>2. known[c] \in Entries \cup {None}
      BY DEF BannerIInv
    <2>3. banner' # None => /\ known[c] # None /\ known[c].waits
                            /\ DraftOK(banner', known[c].value)
      <3> SUFFICES ASSUME banner' # None
                   PROVE  known[c] # None /\ known[c].waits /\ DraftOK(banner', known[c].value)
        OBVIOUS
      <3>1. known[c] # None /\ known[c] \in Entries
        BY <2>1, <2>2 DEF W!Rendered
      <3>2. PICK value \in W!Contents : banner # None => DraftOK(banner, value)
        <4>1. CASE banner # None
          <5>1. DraftOK(banner, known[open].value)
            BY <4>1 DEF BannerIInv
          <5>2. known[open].value \in W!Contents
            BY <5>1 DEF DraftOK, Drafts
          <5> QED BY <5>1, <5>2
        <4>2. CASE banner = None
          <5>1. known[c].value \in W!Contents
            BY <3>1 DEF Entries
          <5> QED BY <4>2, <5>1
        <4> QED BY <4>1, <4>2
      <3> QED BY <2>1, <2>2, <3>1, <3>2, RenderedIs
    <2> QED BY <2>1, <2>3 DEF BannerIInv, Kept
  <1>4. ASSUME NEW g \in Fields, NEW v \in Values, W!Type(g, v) PROVE BannerIInv'
    <2>1. banner # None /\ UNCHANGED <<remote, known, open, save>>
      BY <1>4 DEF W!Type
    <2>2. PICK value, draft, marked :
              /\ value = known[open].value /\ draft = [banner.draft EXCEPT ![g] = v]
              /\ marked = [banner.typed EXCEPT ![g] = open]
      OBVIOUS
    <2>3. banner' = [banner EXCEPT !.draft = draft, !.typed = W!Diverged(draft, value, marked)]
      BY <1>4, <2>2 DEF W!Type
    <2>4. /\ banner \in Drafts /\ banner.seen = value /\ value \in [Fields -> Values]
          /\ \A f \in Fields : banner.typed[f] = None <=> banner.draft[f] = value[f]
          /\ banner.draft \in [Fields -> Values] /\ open \in PanelCards
          /\ banner.typed \in [Fields -> PanelCards \cup {None}]
      BY <2>1, <2>2 DEF BannerIInv, DraftOK, Drafts, W!Contents
    <2>5. draft \in [Fields -> Values] /\ marked \in [Fields -> PanelCards \cup {None}]
      BY <2>2, <2>4
    <2>6. PICK typed : typed = W!Diverged(draft, value, marked)
      OBVIOUS
    <2>7. typed = [f \in Fields |-> IF draft[f] = value[f] THEN None ELSE marked[f]]
      BY <2>6 DEF W!Diverged
    <2>8. typed \in [Fields -> PanelCards \cup {None}]
      BY <2>5, <2>7
    <2>9. ASSUME NEW f \in Fields PROVE typed[f] = None <=> draft[f] = value[f]
      <3>1. CASE f = g
        BY <2>2, <2>4, <2>7, <3>1
      <3>2. CASE f # g
        BY <2>2, <2>4, <2>7, <3>2
      <3> QED BY <3>1, <3>2
    <2>10. banner' \in Drafts /\ banner'.draft = draft /\ banner'.typed = typed /\ banner'.seen = value
      BY <2>3, <2>4, <2>5, <2>6, <2>8 DEF Drafts, W!Contents
    <2>11. DraftOK(banner', value)
      BY <2>9, <2>10 DEF DraftOK
    <2> QED BY <2>1, <2>2, <2>11 DEF BannerIInv
  <1>5. ASSUME W!Save PROVE BannerIInv' /\ Kept
    <2>1. banner # None /\ save'.card = open /\ save'.value = banner.draft
          /\ UNCHANGED <<remote, known, open, banner>>
      BY <1>5 DEF W!Save
    <2>2. banner.draft \in W!Contents
      BY <2>1 DEF BannerIInv, DraftOK, Drafts
    <2> QED BY <2>1, <2>2 DEF BannerIInv, Kept
  <1>6. ASSUME W!Saved PROVE BannerIInv' /\ Kept
    <2>1. PICK c, entry :
              /\ c = save.card
              /\ entry = [remote[c] EXCEPT !.version = @ + 1, !.value = save.value]
      OBVIOUS
    <2>2. /\ save # None /\ remote' = [remote EXCEPT ![c] = entry] /\ W!Cached(c, entry)
          /\ save' = None /\ open' = open
      BY <1>6, <2>1 DEF W!Saved
    <2>3. c \in PanelCards /\ remote[c] \in Entries /\ save.value \in W!Contents
      BY <2>1, <2>2 DEF BannerIInv
    <2>4. entry \in Entries
      <3>1. PICK old \in Entries : old = remote[c]
        BY <2>3
      <3>2. old = [version |-> old.version, waits |-> old.waits, value |-> old.value]
            /\ old.version \in Nat /\ old.waits \in BOOLEAN
        BY <3>1 DEF Entries
      <3>3. entry = [version |-> old.version + 1, waits |-> old.waits, value |-> save.value]
        BY <2>1, <3>1, <3>2
      <3> QED BY <2>3, <3>2, <3>3 DEF Entries
    <2>5. remote' \in [PanelCards -> Entries]
      BY <2>2, <2>4 DEF BannerIInv
    <2> QED BY <2>2, <2>3, <2>4, <2>5, CachedIs DEF BannerIInv
  <1>7. ASSUME W!Refused \/ UNCHANGED W!vars PROVE BannerIInv' /\ Kept
    BY <1>7 DEF W!Refused, W!vars, BannerIInv, Kept
  <1> QED BY <1>1, <1>2, <1>3, <1>4, <1>5, <1>6, <1>7 DEF W!Next

\* A field of the banner that the user did not edit shows the server's value,
\* and an edit in progress survives what others do to the card and the save of
\* it, whatever cards the panel went through (CardPanel.tsx WaitingBanner).
THEOREM EditsAreKept ==
    None \notin PanelCards /\ W!Spec =>
        [](W!BannerTypeOK /\ W!ShowsTheServer) /\ [][W!EditsSurvive]_(W!vars)
  <1> SUFFICES ASSUME None \notin PanelCards
               PROVE  W!Spec => [](W!BannerTypeOK /\ W!ShowsTheServer) /\ [][W!EditsSurvive]_(W!vars)
    OBVIOUS
  <1>1. W!Init => BannerIInv
    BY BannerBegins
  <1>2. BannerIInv /\ [W!Next]_(W!vars) => BannerIInv'
    BY BannerStep
  <1>3. BannerIInv => W!BannerTypeOK /\ W!ShowsTheServer
    BY DEF BannerIInv, DraftOK, Drafts, W!BannerTypeOK, W!ShowsTheServer
  <1>4. BannerIInv /\ [W!Next]_(W!vars) => [W!EditsSurvive]_(W!vars)
    <2> SUFFICES ASSUME BannerIInv, [W!Next]_(W!vars), NEW f \in Fields,
                        banner # None, banner' # None, open' = open, banner.typed[f] # None
                 PROVE  banner'.draft[f] = banner.draft[f] \/ \E v \in Values : W!Type(f, v)
      BY DEF W!EditsSurvive
    <2>1. CASE Kept
      BY <2>1 DEF Kept
    <2>2. ASSUME NEW g \in Fields, NEW v \in Values, W!Type(g, v), g # f
          PROVE  banner'.draft[f] = banner.draft[f]
      <3>1. banner \in Drafts
        BY DEF BannerIInv, DraftOK
      <3>2. banner'.draft = [banner.draft EXCEPT ![g] = v]
        BY <2>2, <3>1 DEF W!Type, Drafts
      <3> QED BY <2>2, <3>1, <3>2 DEF Drafts, W!Contents
    <2>3. Kept \/ \E g \in Fields, v \in Values : W!Type(g, v)
      BY BannerStep
    <2> QED BY <2>1, <2>2, <2>3
  <1> QED BY <1>1, <1>2, <1>3, <1>4, PTL DEF W!Spec

(* On a panel of one card.  The browser has the row as it is, or an older    *)
(* one; a save that the server can still accept was made from the row it     *)
(* changes.                                                                  *)

SaveIInv ==
    /\ \A c \in PanelCards : known[c] # None =>
          /\ known[c].version <= remote[c].version
          /\ known[c].version = remote[c].version => known[c].value = remote[c].value
    /\ save # None =>
          /\ save.card \in PanelCards /\ save.version \in Nat
          /\ save.version <= remote[save.card].version
          /\ save.version = remote[save.card].version =>
                \A f \in Fields : save.value[f] # remote[save.card].value[f]
                                  => save.typed[f] = save.card

\* Once the row has a new version, what the browser has of it is the new row
\* or an older one, and an older save is not accepted.
LEMMA RowGrows ==
    ASSUME BannerIInv, SaveIInv, NEW c \in PanelCards, NEW entry \in Entries,
           entry.version = remote[c].version + 1, remote' = [remote EXCEPT ![c] = entry],
           known' = known \/ known' = [known EXCEPT ![c] = entry], save' = save \/ save' = None
    PROVE  SaveIInv'
  <1>1. remote \in [PanelCards -> Entries] /\ known \in [PanelCards -> Entries \cup {None}]
    BY DEF BannerIInv
  <1>2. \A d \in PanelCards : remote[d].version \in Nat
    BY <1>1 DEF Entries
  <1>3. \A d \in PanelCards : known[d] # None => known[d].version \in Nat
    BY <1>1 DEF Entries
  <1>4. ASSUME NEW d \in PanelCards, known'[d] # None
        PROVE  /\ known'[d].version <= remote'[d].version
               /\ known'[d].version = remote'[d].version => known'[d].value = remote'[d].value
    <2>1. CASE d # c
      BY <1>1, <1>4, <2>1 DEF SaveIInv
    <2>2. CASE d = c /\ known'[d] = entry
      <3>1. remote'[d] = entry /\ entry.version \in Nat
        BY <1>1, <2>2 DEF Entries
      <3> QED BY <2>2, <3>1
    <2>3. CASE d = c /\ known'[d] = known[d]
      <3>1. known[d].version <= remote[d].version /\ remote'[d].version = remote[d].version + 1
        BY <1>1, <1>4, <2>3 DEF SaveIInv
      <3> QED BY <1>2, <1>3, <1>4, <2>3, <3>1
    <2> QED BY <1>1, <2>1, <2>2, <2>3
  <1>5. ASSUME save' # None
        PROVE  /\ save'.card \in PanelCards /\ save'.version \in Nat
               /\ save'.version <= remote'[save'.card].version
               /\ save'.version = remote'[save'.card].version =>
                     \A f \in Fields : save'.value[f] # remote'[save'.card].value[f]
                                       => save'.typed[f] = save'.card
    <2>1. /\ save' = save /\ save # None /\ save.card \in PanelCards /\ save.version \in Nat
          /\ save.version <= remote[save.card].version
      BY <1>5 DEF SaveIInv
    <2>2. CASE save.card # c
      <3>1. remote'[save.card] = remote[save.card]
        BY <1>1, <2>1, <2>2
      <3> QED BY <2>1, <3>1 DEF SaveIInv
    <2>3. CASE save.card = c
      <3>1. remote'[save.card].version = remote[save.card].version + 1
        BY <1>1, <2>3
      <3>2. save.version < remote'[save.card].version /\ remote'[save.card].version \in Nat
        BY <1>2, <2>1, <3>1
      <3> QED BY <2>1, <3>2
    <2> QED BY <2>2, <2>3
  <1> QED BY <1>4, <1>5 DEF SaveIInv

LEMMA SaveStep ==
    ASSUME None \notin PanelCards, \A c, d \in PanelCards : c = d,
           BannerIInv, SaveIInv, [W!Next]_(W!vars)
    PROVE  SaveIInv' /\ W!SavesWhatWasTyped
  <1>1. ASSUME NEW c \in PanelCards, NEW waits \in BOOLEAN, NEW v \in W!Contents,
               W!Remote(c, waits, v)
        PROVE  SaveIInv' /\ ~W!Saved
    <2>1. PICK entry : entry = [version |-> remote[c].version + 1, waits |-> waits, value |-> v]
      OBVIOUS
    <2>2. remote' = [remote EXCEPT ![c] = entry] /\ UNCHANGED <<known, save>>
      BY <1>1, <2>1 DEF W!Remote
    <2>3. remote[c].version \in Nat
      BY DEF BannerIInv, Entries
    <2>4. entry \in Entries /\ entry.version = remote[c].version + 1
      BY <2>1, <2>3 DEF Entries
    <2>5. SaveIInv'
      BY <2>2, <2>4, RowGrows
    <2> QED BY <2>2, <2>5 DEF W!Saved
  <1>2. ASSUME NEW c \in PanelCards, W!Fetch(c) PROVE SaveIInv' /\ ~W!Saved
    <2>1. /\ known' = [known EXCEPT ![c] = remote[c]] /\ UNCHANGED <<remote, save>>
          /\ known \in [PanelCards -> Entries \cup {None}]
      BY <1>2 DEF W!Fetch, W!Cached, BannerIInv
    <2>2. remote[c].version \in Nat
      BY DEF BannerIInv, Entries
    <2>3. ASSUME NEW d \in PanelCards, known'[d] # None
          PROVE  /\ known'[d].version <= remote'[d].version
                 /\ known'[d].version = remote'[d].version => known'[d].value = remote'[d].value
      <3>1. CASE d = c
        BY <2>1, <2>2, <3>1
      <3>2. CASE d # c
        BY <2>1, <2>3, <3>2 DEF SaveIInv
      <3> QED BY <3>1, <3>2
    <2>4. ~W!Saved
      BY <2>1 DEF W!Saved
    <2> QED BY <2>1, <2>3, <2>4 DEF SaveIInv
  <1>3. ASSUME \/ \E c \in PanelCards : W!Open(c)
               \/ \E f \in Fields, v \in Values : W!Type(f, v)
               \/ UNCHANGED W!vars
        PROVE  SaveIInv' /\ ~W!Saved
    <2>1. UNCHANGED <<remote, known, save>>
      BY <1>3 DEF W!Open, W!Type, W!vars
    <2> QED BY <2>1 DEF SaveIInv, W!Saved
  <1>4. ASSUME W!Save PROVE SaveIInv' /\ ~W!Saved
    <2>1. /\ banner # None /\ UNCHANGED <<remote, known>> /\ save = None
          /\ save' = [card |-> open, version |-> known[open].version,
                      value |-> banner.draft, typed |-> banner.typed]
      BY <1>4 DEF W!Save
    <2>2. /\ open \in PanelCards /\ known[open] # None /\ DraftOK(banner, known[open].value)
          /\ known[open].version \in Nat
      BY <2>1 DEF BannerIInv, Entries
    <2>3. /\ known[open].version <= remote[open].version
          /\ known[open].version = remote[open].version => known[open].value = remote[open].value
      BY <2>2 DEF SaveIInv
    <2>4. ASSUME NEW f \in Fields, banner.draft[f] # known[open].value[f]
          PROVE  banner.typed[f] = open
      <3>1. banner.typed[f] # None /\ banner.typed[f] \in PanelCards \cup {None}
        BY <2>2, <2>4 DEF DraftOK, Drafts
      <3> QED BY <2>2, <3>1
    <2>5. /\ save'.card = open /\ save'.version = known[open].version
          /\ save'.value = banner.draft /\ save'.typed = banner.typed
      BY <2>1
    <2> QED BY <2>1, <2>2, <2>3, <2>4, <2>5 DEF SaveIInv, W!Saved
  <1>5. ASSUME W!Saved PROVE SaveIInv' /\ W!SavesWhatWasTyped
    <2>1. PICK c, entry :
              /\ c = save.card
              /\ entry = [remote[c] EXCEPT !.version = @ + 1, !.value = save.value]
      OBVIOUS
    <2>2. /\ save # None /\ remote' = [remote EXCEPT ![c] = entry] /\ save' = None
          /\ known' = [known EXCEPT ![c] = entry] /\ remote[c].version = save.version
      BY <1>5, <2>1 DEF W!Saved, W!Cached, W!Accepts
    <2>3. c \in PanelCards /\ save.value \in W!Contents
      BY <2>1, <2>2 DEF BannerIInv
    <2>4. PICK old \in Entries : old = remote[c]
      BY <2>3 DEF BannerIInv
    <2>5. old = [version |-> old.version, waits |-> old.waits, value |-> old.value]
          /\ old.version \in Nat /\ old.waits \in BOOLEAN
      BY <2>4 DEF Entries
    <2>6. entry = [version |-> old.version + 1, waits |-> old.waits, value |-> save.value]
      BY <2>1, <2>4, <2>5
    <2>7. entry \in Entries /\ entry.version = remote[c].version + 1 /\ entry.value = save.value
      BY <2>3, <2>4, <2>5, <2>6 DEF Entries
    <2>8. SaveIInv'
      BY <2>2, <2>3, <2>7, RowGrows
    <2>9. remote'[save.card].value = save.value
      BY <2>1, <2>2, <2>3, <2>7 DEF BannerIInv
    <2>10. \A f \in Fields : save.value[f] # remote[save.card].value[f]
                             => save.typed[f] = save.card
      BY <2>1, <2>2 DEF SaveIInv
    <2> QED BY <2>8, <2>9, <2>10 DEF W!SavesWhatWasTyped
  <1>6. ASSUME W!Refused PROVE SaveIInv' /\ ~W!Saved
    <2>1. UNCHANGED <<remote, known, banner>> /\ save' = None /\ save # None
      BY <1>6 DEF W!Refused
    <2>2. ~W!Saved
      <3> SUFFICES ASSUME W!Saved PROVE FALSE
        OBVIOUS
      <3>1. PICK c : c = save.card
        OBVIOUS
      <3>2. c \in PanelCards /\ remote[c].version \in Nat
        BY <2>1, <3>1 DEF BannerIInv, Entries
      <3>3. remote'[c].version = remote[c].version + 1
        BY <3>1, <3>2 DEF W!Saved, BannerIInv, Entries
      <3> QED BY <2>1, <3>2, <3>3
    <2> QED BY <2>1, <2>2 DEF SaveIInv
  <1> QED BY <1>1, <1>2, <1>3, <1>4, <1>5, <1>6 DEF W!Next, W!SavesWhatWasTyped

\* As long as the panel shows one card, a save of the banner changes what its
\* user edited and nothing else: one made from an older version of the card is
\* refused and changes nothing (CardPanel.tsx WaitingBanner).
THEOREM SavesAreTyped ==
    None \notin PanelCards /\ (\A c, d \in PanelCards : c = d) /\ W!Spec =>
        [][W!SavesWhatWasTyped]_(W!vars)
  <1> SUFFICES ASSUME None \notin PanelCards, \A c, d \in PanelCards : c = d
               PROVE  W!Spec => [][W!SavesWhatWasTyped]_(W!vars)
    OBVIOUS
  <1>1. W!Init => BannerIInv /\ SaveIInv
    <2> SUFFICES ASSUME W!Init PROVE BannerIInv /\ SaveIInv
      OBVIOUS
    <2>1. BannerIInv /\ save = None
      BY BannerBegins
    <2>2. \A c \in PanelCards : known[c] = None
      BY DEF W!Init
    <2> QED BY <2>1, <2>2 DEF SaveIInv
  <1>2. BannerIInv /\ SaveIInv /\ [W!Next]_(W!vars) => BannerIInv' /\ SaveIInv'
    BY BannerStep, SaveStep
  <1>3. BannerIInv /\ SaveIInv /\ [W!Next]_(W!vars) => [W!SavesWhatWasTyped]_(W!vars)
    BY SaveStep
  <1> QED BY <1>1, <1>2, <1>3, PTL DEF W!Spec

-----------------------------------------------------------------------------
(* The composers of comments.  The hook follows its newest request alone,   *)
(* whose callback clears the composer that sent it: what it clears was      *)
(* posted as long as nobody writes on meanwhile.  With one composer there   *)
(* is one request at a time.                                                *)

Flights == [by : Composers, text : Nat, try : 1 .. 2]

ComposerConstants == MaxText \in Nat /\ None \notin Flights

ComposerIInv ==
    /\ text \in [Composers -> Nat] /\ written \in Nat /\ written <= MaxText
    /\ \A c \in Composers : text[c] <= written
    /\ submitted \in [Composers -> BOOLEAN]
    /\ flights \subseteq Flights
    /\ \A f \in flights : 1 <= f.text /\ f.text <= written
    /\ newest \in flights \cup {None}
    /\ posted \in [Thread!Texts -> 0 .. 2]

\* What is sent is what its composer still shows, or nothing.
SentIsShown == \A f \in flights : text[f.by] \in {0, f.text}

\* Of one composer.
OneFlight ==
    /\ \A f, g \in flights : f = g
    /\ \A f \in flights : newest = f /\ submitted[f.by]
    /\ \A t \in Thread!Texts :
          /\ posted[t] <= 1
          /\ posted[t] > 0 => /\ t <= written
                              /\ \A f \in flights : f.text # t
                              /\ \A c \in Composers : text[c] # t

LEMMA ComposerBegins == ComposerConstants /\ Thread!Init => ComposerIInv /\ SentIsShown /\ OneFlight
  <1> SUFFICES ASSUME ComposerConstants, Thread!Init
               PROVE  ComposerIInv /\ SentIsShown /\ OneFlight
    OBVIOUS
  <1>1. posted = [t \in Thread!Texts |-> 0] /\ flights = {} /\ newest = None /\ written = 0
        /\ text = [c \in Composers |-> 0] /\ submitted = [c \in Composers |-> FALSE]
    BY DEF Thread!Init
  <1>2. ComposerIInv
    BY <1>1 DEF ComposerIInv, ComposerConstants
  <1>3. OneFlight
    BY <1>1 DEF OneFlight
  <1> QED BY <1>1, <1>2, <1>3 DEF SentIsShown

\* What every answer does.
LEMMA ComposerAnswer ==
    ASSUME ComposerConstants, ComposerIInv, NEW f \in flights, Thread!Follow(f),
           flights' = flights \ {f}, written' = written,
           NEW cleared, text' = IF cleared THEN [text EXCEPT ![f.by] = 0] ELSE text,
           posted' \in [Thread!Texts -> 0 .. 2]
    PROVE  ComposerIInv'
  <1>1. f \in Flights /\ f.by \in Composers
    BY DEF ComposerIInv, Flights
  <1>2. text' \in [Composers -> Nat] /\ \A c \in Composers : text'[c] <= written'
    <2>1. CASE cleared
      <3>1. text' = [text EXCEPT ![f.by] = 0]
        BY <2>1
      <3> QED BY <1>1, <3>1 DEF ComposerIInv
    <2>2. CASE ~cleared
      BY <2>2 DEF ComposerIInv
    <2> QED BY <2>1, <2>2
  <1>3. submitted' \in [Composers -> BOOLEAN]
    BY DEF Thread!Follow, ComposerIInv
  <1>4. newest' \in flights' \cup {None}
    BY DEF Thread!Follow, ComposerIInv
  <1> QED BY <1>2, <1>3, <1>4 DEF ComposerIInv

\* One more of a text, capped at two.
LEMMA OneMore ==
    ASSUME ComposerConstants, ComposerIInv, NEW f \in flights,
           posted' = [posted EXCEPT ![f.text] = IF @ = 2 THEN 2 ELSE @ + 1]
    PROVE  /\ f.text \in Thread!Texts /\ posted' \in [Thread!Texts -> 0 .. 2] /\ posted'[f.text] > 0
           /\ posted[f.text] = 0 => posted'[f.text] = 1
           /\ \A t \in Thread!Texts : t # f.text => posted'[t] = posted[t]
  <1>1. f.text \in Nat /\ 1 <= f.text /\ f.text <= written /\ written <= MaxText
    BY DEF ComposerIInv, Flights
  <1>2. f.text \in Thread!Texts /\ posted \in [Thread!Texts -> 0 .. 2]
    BY <1>1 DEF Thread!Texts, ComposerIInv, ComposerConstants
  <1>3. PICK n \in 0 .. 2 : n = posted[f.text]
    BY <1>2
  <1>4. (IF n = 2 THEN 2 ELSE n + 1) \in 1 .. 2
    OBVIOUS
  <1>5. posted' = [posted EXCEPT ![f.text] = IF n = 2 THEN 2 ELSE n + 1]
    BY <1>3
  <1> QED BY <1>2, <1>3, <1>4, <1>5

LEMMA ComposerStep ==
    ASSUME ComposerConstants, ComposerIInv, [Thread!Next]_(Thread!vars)
    PROVE  /\ ComposerIInv'
           /\ ~EditsInFlight /\ SentIsShown => SentIsShown' /\ Thread!ClearedWasPosted
           /\ (\A c, d \in Composers : c = d) /\ OneFlight => OneFlight'
  <1>1. ASSUME NEW c \in Composers, Thread!Write(c)
        PROVE  /\ ComposerIInv'
               /\ ~EditsInFlight /\ SentIsShown => SentIsShown' /\ Thread!ClearedWasPosted
               /\ OneFlight => OneFlight'
    <2>1. /\ written < MaxText /\ (EditsInFlight \/ \A f \in flights : f.by # c)
          /\ written' = written + 1 /\ text' = [text EXCEPT ![c] = written + 1]
          /\ UNCHANGED <<submitted, flights, newest, posted>>
      BY <1>1 DEF Thread!Write
    <2>2. /\ text \in [Composers -> Nat] /\ written \in Nat
          /\ \A d \in Composers : text[d] \in Nat /\ text[d] <= written
      BY DEF ComposerIInv
    <2>3. written + 1 \in Nat /\ written + 1 <= MaxText
      BY <2>1, <2>2 DEF ComposerConstants
    <2>4. ASSUME NEW d \in Composers
          PROVE  text'[d] \in Nat /\ text'[d] <= written' /\ (text'[d] = text[d] \/ text'[d] = written + 1)
      BY <2>1, <2>2, <2>3
    <2>5. ASSUME NEW f \in flights PROVE 1 <= f.text /\ f.text <= written'
      <3>1. f.text \in Nat /\ 1 <= f.text /\ f.text <= written
        BY DEF ComposerIInv, Flights
      <3> QED BY <2>1, <2>2, <3>1
    <2>6. ComposerIInv'
      <3>1. text' \in [Composers -> Nat]
        BY <2>1, <2>2, <2>3
      <3> QED BY <2>1, <2>3, <2>4, <2>5, <3>1 DEF ComposerIInv
    <2>7. ~EditsInFlight /\ SentIsShown => SentIsShown' /\ Thread!ClearedWasPosted
      <3> SUFFICES ASSUME ~EditsInFlight, SentIsShown PROVE SentIsShown' /\ Thread!ClearedWasPosted
        OBVIOUS
      <3>1. \A f \in flights : f.by # c /\ text'[f.by] = text[f.by]
        BY <2>1, <2>2
      <3>2. \A d \in Composers : ~(text[d] # 0 /\ text'[d] = 0)
        BY <2>2, <2>4
      <3> QED BY <2>1, <3>1, <3>2 DEF SentIsShown, Thread!ClearedWasPosted
    <2>8. OneFlight => OneFlight'
      <3> SUFFICES ASSUME OneFlight PROVE OneFlight'
        OBVIOUS
      <3>1. ASSUME NEW t \in Thread!Texts, posted[t] > 0
            PROVE  t <= written' /\ \A d \in Composers : text'[d] # t
        <4>1. t <= written /\ t \in Nat /\ \A d \in Composers : text[d] # t
          BY <3>1 DEF OneFlight, Thread!Texts
        <4> QED BY <2>1, <2>2, <2>4, <4>1
      <3> QED BY <2>1, <3>1 DEF OneFlight
    <2> QED BY <2>6, <2>7, <2>8
  <1>2. ASSUME NEW c \in Composers, Thread!Submit(c)
        PROVE  /\ ComposerIInv'
               /\ SentIsShown => SentIsShown' /\ Thread!ClearedWasPosted
               /\ (\A d, e \in Composers : d = e) /\ OneFlight => OneFlight'
    <2>1. PICK f : \E try \in 1 .. 2 :
              /\ f = [by |-> c, text |-> text[c], try |-> try]
              /\ flights' = flights \cup {f} /\ newest' = f
      BY <1>2 DEF Thread!Submit
    <2>2. /\ text[c] # 0 /\ ~(submitted[c] /\ newest # None)
          /\ submitted' = [submitted EXCEPT ![c] = TRUE] /\ UNCHANGED <<text, written, posted>>
      BY <1>2 DEF Thread!Submit, Thread!MayPress, Thread!Spins, Thread!pending
    <2>3. text[c] \in Nat /\ 1 <= text[c] /\ text[c] <= written
      BY <2>2 DEF ComposerIInv
    <2>4. f \in Flights /\ f.by = c /\ f.text = text[c]
      BY <2>1, <2>3 DEF Flights
    <2>5. ComposerIInv'
      BY <2>1, <2>2, <2>3, <2>4 DEF ComposerIInv
    <2>6. SentIsShown => SentIsShown' /\ Thread!ClearedWasPosted
      BY <2>1, <2>2, <2>4 DEF SentIsShown, Thread!ClearedWasPosted
    <2>7. (\A d, e \in Composers : d = e) /\ OneFlight => OneFlight'
      <3> SUFFICES ASSUME \A d, e \in Composers : d = e, OneFlight PROVE OneFlight'
        OBVIOUS
      <3>1. flights = {}
        <4> SUFFICES ASSUME NEW g \in flights PROVE FALSE
          OBVIOUS
        <4>1. g.by = c /\ g # None
          BY DEF ComposerIInv, ComposerConstants, Flights
        <4> QED BY <2>2, <4>1 DEF OneFlight
      <3>2. \A g \in flights' : g = f
        BY <2>1, <3>1
      <3>3. submitted'[c]
        BY <2>2 DEF ComposerIInv
      <3> QED BY <2>1, <2>2, <2>4, <3>2, <3>3 DEF OneFlight
    <2> QED BY <2>5, <2>6, <2>7
  <1>3. ASSUME NEW f \in flights, Thread!Posted(f)
        PROVE  /\ ComposerIInv'
               /\ SentIsShown => SentIsShown' /\ Thread!ClearedWasPosted
               /\ (\A d, e \in Composers : d = e) /\ OneFlight => OneFlight'
    <2>1. /\ flights' = flights \ {f} /\ written' = written /\ Thread!Follow(f)
          /\ posted' = [posted EXCEPT ![f.text] = IF @ = 2 THEN 2 ELSE @ + 1]
          /\ text' = IF newest = f THEN [text EXCEPT ![f.by] = 0] ELSE text
      BY <1>3 DEF Thread!Posted, Thread!Cleared
    <2>2. /\ f.text \in Thread!Texts /\ posted' \in [Thread!Texts -> 0 .. 2] /\ posted'[f.text] > 0
          /\ posted[f.text] = 0 => posted'[f.text] = 1
          /\ \A t \in Thread!Texts : t # f.text => posted'[t] = posted[t]
      BY <2>1, OneMore
    <2>3. ComposerIInv'
      BY <2>1, <2>2, ComposerAnswer
    <2>4. f.by \in Composers /\ text \in [Composers -> Nat]
          /\ \A c \in Composers : text'[c] = text[c] \/ (c = f.by /\ text'[c] = 0)
      BY <2>1 DEF ComposerIInv, Flights
    <2>5. SentIsShown => SentIsShown' /\ Thread!ClearedWasPosted
      <3> SUFFICES ASSUME SentIsShown PROVE SentIsShown' /\ Thread!ClearedWasPosted
        OBVIOUS
      <3>1. \A g \in flights' : g \in flights /\ g.by \in Composers
        BY <2>1 DEF ComposerIInv, Flights
      <3>2. SentIsShown'
        BY <2>4, <3>1 DEF SentIsShown
      <3>3. Thread!ClearedWasPosted
        BY <2>2, <2>4 DEF SentIsShown, Thread!ClearedWasPosted
      <3> QED BY <3>2, <3>3
    <2>6. (\A d, e \in Composers : d = e) /\ OneFlight => OneFlight'
      <3> SUFFICES ASSUME \A d, e \in Composers : d = e, OneFlight PROVE OneFlight'
        OBVIOUS
      <3>1. newest = f /\ flights' = {}
        BY <2>1 DEF OneFlight
      <3>2. \A c \in Composers : text'[c] # f.text
        <4> SUFFICES ASSUME NEW c \in Composers, text'[c] = f.text PROVE FALSE
          OBVIOUS
        <4>1. 1 <= f.text
          BY DEF ComposerIInv
        <4>2. c = f.by
          BY <2>4
        <4>3. text'[c] = 0
          BY <2>1, <2>4, <3>1, <4>2
        <4> QED BY <4>1, <4>3
      <3>3. posted[f.text] = 0 /\ posted'[f.text] = 1
        <4>1. posted[f.text] \in 0 .. 2 /\ ~(posted[f.text] > 0)
          BY <2>2 DEF ComposerIInv, OneFlight
        <4> QED BY <2>2, <4>1
      <3>4. f.text <= written'
        BY <2>1 DEF ComposerIInv
      <3>5. ASSUME NEW t \in Thread!Texts
            PROVE  /\ posted'[t] <= 1
                   /\ posted'[t] > 0 => t <= written' /\ \A c \in Composers : text'[c] # t
        <4>1. CASE t = f.text
          BY <3>2, <3>3, <3>4, <4>1
        <4>2. CASE t # f.text
          <5>1. posted'[t] = posted[t] /\ t # 0
            BY <2>2, <4>2 DEF Thread!Texts
          <5> QED BY <2>1, <2>4, <5>1 DEF OneFlight
        <4> QED BY <4>1, <4>2
      <3> QED BY <3>1, <3>5 DEF OneFlight
    <2> QED BY <2>3, <2>5, <2>6
  <1>4. ASSUME NEW f \in flights, Thread!Failed(f)
        PROVE  /\ ComposerIInv'
               /\ SentIsShown => SentIsShown' /\ Thread!ClearedWasPosted
               /\ OneFlight => OneFlight'
    <2>1. /\ flights' = flights \ {f} /\ UNCHANGED <<text, written, posted>> /\ Thread!Follow(f)
      BY <1>4 DEF Thread!Failed
    <2>2. posted' \in [Thread!Texts -> 0 .. 2]
      BY <2>1 DEF ComposerIInv
    <2>3. ComposerIInv'
      <3>1. text' = IF FALSE THEN [text EXCEPT ![f.by] = 0] ELSE text
        BY <2>1
      <3> QED BY <2>1, <2>2, <3>1, ComposerAnswer
    <2>4. OneFlight => OneFlight'
      BY <2>1 DEF OneFlight
    <2>5. SentIsShown => SentIsShown' /\ Thread!ClearedWasPosted
      BY <2>1 DEF SentIsShown, Thread!ClearedWasPosted
    <2> QED BY <2>3, <2>4, <2>5
  <1>5. CASE UNCHANGED Thread!vars
    BY <1>5 DEF Thread!vars, ComposerIInv, SentIsShown, OneFlight, Thread!ClearedWasPosted
  <1> QED BY <1>1, <1>2, <1>3, <1>4, <1>5 DEF Thread!Next

\* A composer is emptied only of what was posted: a post that fails keeps its
\* draft, with any number of composers that share the hook, as long as a text
\* is not edited while it is posted (CommentsThread.tsx).
THEOREM DraftsAreKept ==
    ComposerConstants /\ Thread!Spec =>
        []Thread!ComposerTypeOK /\ (~EditsInFlight => [][Thread!ClearedWasPosted]_(Thread!vars))
  <1> SUFFICES ASSUME ComposerConstants
               PROVE  Thread!Spec => []Thread!ComposerTypeOK /\ (~EditsInFlight => [][Thread!ClearedWasPosted]_(Thread!vars))
    OBVIOUS
  <1>1. Thread!Init => ComposerIInv /\ SentIsShown
    BY ComposerBegins
  <1>2. ComposerIInv /\ [Thread!Next]_(Thread!vars) => ComposerIInv'
    BY ComposerStep
  <1>3. ComposerIInv => Thread!ComposerTypeOK
    BY DEF ComposerIInv, Flights, Thread!ComposerTypeOK
  <1>4. CASE ~EditsInFlight
    <2>1. ComposerIInv /\ SentIsShown /\ [Thread!Next]_(Thread!vars) => SentIsShown' /\ [Thread!ClearedWasPosted]_(Thread!vars)
      BY <1>4, ComposerStep
    <2> QED BY <1>1, <1>2, <1>3, <2>1, PTL DEF Thread!Spec
  <1>5. CASE EditsInFlight
    <2>1. ~EditsInFlight => FALSE
      BY <1>5
    <2> QED BY <1>1, <1>2, <1>3, <2>1, PTL DEF Thread!Spec
  <1> QED BY <1>4, <1>5

\* Where the thread has one composer, a text becomes one comment however often
\* it is submitted, and the button spins until its request settled
\* (CommentsThread.tsx: submitted, isPending).
THEOREM CommentedOnce ==
    ComposerConstants /\ (\A c, d \in Composers : c = d) /\ Thread!Spec =>
        [](Thread!PostedOnce /\ Thread!SpinsUntilSettled)
  <1> SUFFICES ASSUME ComposerConstants, \A c, d \in Composers : c = d
               PROVE  Thread!Spec => [](Thread!PostedOnce /\ Thread!SpinsUntilSettled)
    OBVIOUS
  <1>1. Thread!Init => ComposerIInv /\ OneFlight
    BY ComposerBegins
  <1>2. ComposerIInv /\ OneFlight /\ [Thread!Next]_(Thread!vars) => ComposerIInv' /\ OneFlight'
    BY ComposerStep
  <1>3. ComposerIInv /\ OneFlight => Thread!PostedOnce /\ Thread!SpinsUntilSettled
    BY DEF ComposerIInv, ComposerConstants, OneFlight, Thread!PostedOnce, Thread!SpinsUntilSettled, Thread!pending
  <1> QED BY <1>1, <1>2, <1>3, PTL DEF Thread!Spec

-----------------------------------------------------------------------------
(* The form of a new card.  Forms have numbers of their own: what is posted *)
(* and what is being applied are of different forms, and the form a user    *)
(* has before them is posted or applied by its own button alone.  So a      *)
(* second Create changes nothing that is under way.                         *)

Staging == [form : N!Forms, staged : SUBSET N!Items]
Applying == [form : N!Forms, left : SUBSET N!Items, mounted : BOOLEAN]

FormConstants == MaxForms \in Nat /\ None \notin Staging \cup Applying

FormTypes ==
    /\ form \in Nat /\ form <= MaxForms /\ created \subseteq 1 .. form
    /\ modal \in [Buttons -> Staging \cup {None}] /\ post \in [Buttons -> Staging \cup {None}]
    /\ loop \in [Buttons -> Applying \cup {None}] /\ lost \subseteq Staging
    /\ taken \in [N!Forms -> SUBSET N!Items] /\ settled \in [N!Forms -> SUBSET N!Items]

\* No form that has not been opened.
FormsOpened ==
    /\ \A b \in Buttons : /\ modal[b] # None => modal[b].form <= form
                          /\ post[b] # None => post[b].form <= form
                          /\ loop[b] # None => loop[b].form <= form
    /\ \A p \in lost : p.form <= form
    /\ \A k \in N!Forms : settled[k] # {} => k <= form

OneModal ==
    /\ \A b \in Buttons : modal[b] # None => N!Mounted(b)
    /\ \A b, c \in Buttons : modal[b] # None /\ modal[c] # None => b = c

Owned ==
    \A b \in Buttons : modal[b] # None =>
        /\ \A c \in Buttons : post[c] # None /\ post[c].form = modal[b].form => c = b
        /\ \A c \in Buttons : loop[c] # None /\ loop[c].form = modal[b].form
                              => c = b /\ loop[c].mounted
        /\ settled[modal[b].form] # {} => loop[b] # None /\ loop[b].form = modal[b].form

Apart ==
    /\ \A b, c \in Buttons : post[b] # None /\ post[c] # None /\ post[b].form = post[c].form => b = c
    /\ \A b, c \in Buttons : loop[b] # None /\ loop[c] # None /\ loop[b].form = loop[c].form => b = c
    /\ \A b, c \in Buttons : post[b] # None /\ loop[c] # None => post[b].form # loop[c].form

Tally ==
    /\ \A b \in Buttons : post[b] # None => /\ post[b].staged = taken[post[b].form]
                                            /\ settled[post[b].form] = {}
    /\ \A b \in Buttons : loop[b] # None =>
          loop[b].left = taken[loop[b].form] \ settled[loop[b].form]
    /\ \A k \in N!Forms :
          /\ settled[k] \subseteq taken[k]
          /\ settled[k] = {} \/ settled[k] = taken[k]
             \/ (\E b \in Buttons : loop[b] # None /\ loop[b].form = k)

FormIInv == FormTypes /\ FormsOpened /\ OneModal /\ Owned /\ Apart /\ Tally

LEMMA FormBegins == FormConstants /\ N!Init => FormIInv
  <1> SUFFICES ASSUME FormConstants, N!Init PROVE FormIInv
    OBVIOUS
  <1>1. /\ modal = [b \in Buttons |-> None] /\ form = 0 /\ post = [b \in Buttons |-> None]
        /\ lost = {} /\ loop = [b \in Buttons |-> None] /\ created = {}
        /\ taken = [k \in N!Forms |-> {}] /\ settled = [k \in N!Forms |-> {}]
    BY DEF N!Init
  <1>2. FormTypes
    BY <1>1 DEF FormTypes, FormConstants
  <1>3. FormsOpened /\ OneModal /\ Owned /\ Apart /\ Tally
    BY <1>1 DEF FormsOpened, OneModal, Owned, Apart, Tally
  <1> QED BY <1>2, <1>3 DEF FormIInv

\* The records a button has are of forms.
LEMMA ButtonHas ==
    ASSUME FormTypes, NEW b \in Buttons
    PROVE  /\ modal[b] # None => /\ modal[b].form \in N!Forms /\ modal[b].staged \subseteq N!Items
                                 /\ modal[b] = [form |-> modal[b].form, staged |-> modal[b].staged]
           /\ post[b] # None => /\ post[b].form \in N!Forms /\ post[b].staged \subseteq N!Items
           /\ loop[b] # None =>
                /\ loop[b].form \in N!Forms /\ loop[b].left \subseteq N!Items
                /\ loop[b].mounted \in BOOLEAN
                /\ loop[b] = [form |-> loop[b].form, left |-> loop[b].left,
                              mounted |-> loop[b].mounted]
  <1>1. modal[b] \in Staging \cup {None} /\ post[b] \in Staging \cup {None}
        /\ loop[b] \in Applying \cup {None}
    BY DEF FormTypes
  <1> QED BY <1>1 DEF Staging, Applying

LEMMA PressKeepsForm ==
    ASSUME FormConstants, FormIInv, NEW b \in Buttons, N!Press(b)
    PROVE  FormIInv'
  <1>1. PICK new : new = [form |-> form + 1, staged |-> {}]
    OBVIOUS
  <1>2. /\ N!Mounted(b) /\ \A c \in Buttons : modal[c] = None
        /\ form < MaxForms /\ form' = form + 1 /\ modal' = [modal EXCEPT ![b] = new]
        /\ UNCHANGED <<post, lost, loop, created, taken, settled, shows>>
    BY <1>1 DEF N!Press
  <1>3. form \in Nat /\ form + 1 \in Nat /\ form + 1 <= MaxForms /\ form + 1 \in N!Forms
    BY <1>2 DEF FormIInv, FormTypes, FormConstants, N!Forms
  <1>4. new \in Staging /\ new # None /\ new.form = form + 1
    BY <1>1, <1>3 DEF Staging, FormConstants
  <1>5. modal'[b] = new /\ \A c \in Buttons : c # b => modal'[c] = None
    BY <1>2 DEF FormIInv, FormTypes
  <1>6. 1 .. form \subseteq 1 .. (form + 1)
    BY <1>3
  <1>7. FormTypes'
    <2>1. modal' \in [Buttons -> Staging \cup {None}]
      BY <1>2, <1>4 DEF FormIInv, FormTypes
    <2> QED BY <1>2, <1>3, <1>6, <2>1 DEF FormIInv, FormTypes
  <1>8. /\ \A c \in Buttons : /\ post[c] # None => post[c].form \in Nat /\ post[c].form <= form
                              /\ loop[c] # None => loop[c].form \in Nat /\ loop[c].form <= form
        /\ \A p \in lost : p.form \in Nat /\ p.form <= form
        /\ \A k \in N!Forms : k \in Nat /\ (settled[k] # {} => k <= form)
    BY ButtonHas DEF FormIInv, FormTypes, FormsOpened, Staging, N!Forms
  <1>9. FormsOpened'
    BY <1>2, <1>3, <1>4, <1>5, <1>8 DEF FormsOpened
  <1>10. OneModal'
    BY <1>2, <1>5 DEF OneModal, N!Mounted
  <1>11. Owned'
    <2>1. \A c \in Buttons : /\ post[c] # None => post[c].form # form + 1
                             /\ loop[c] # None => loop[c].form # form + 1
      BY <1>3, <1>8
    <2>2. settled[form + 1] = {}
      BY <1>3, <1>8
    <2> QED BY <1>2, <1>4, <1>5, <2>1, <2>2 DEF Owned
  <1>12. Apart' /\ Tally'
    BY <1>2 DEF FormIInv, Apart, Tally
  <1> QED BY <1>7, <1>9, <1>10, <1>11, <1>12 DEF FormIInv

\* A modal that goes, or has more staged.
LEMMA ModalKeepsForm ==
    ASSUME FormConstants, FormIInv, NEW b \in Buttons, modal[b] # None, NEW new,
           new = None \/ (new \in Staging /\ new.form = modal[b].form),
           modal' = [modal EXCEPT ![b] = new],
           UNCHANGED <<form, post, lost, loop, created, taken, settled, shows>>
    PROVE  FormIInv'
  <1>1. /\ modal'[b] = new /\ \A c \in Buttons : c # b => modal'[c] = modal[c]
    BY DEF FormIInv, FormTypes
  <1>2. FormTypes'
    <2>1. modal' \in [Buttons -> Staging \cup {None}]
      BY DEF FormIInv, FormTypes
    <2> QED BY <2>1 DEF FormIInv, FormTypes
  <1>3. FormsOpened'
    BY <1>1 DEF FormIInv, FormsOpened
  <1>4. OneModal'
    BY <1>1 DEF FormIInv, OneModal, N!Mounted
  <1>5. Owned'
    BY <1>1 DEF FormIInv, Owned
  <1>6. Apart' /\ Tally'
    BY DEF FormIInv, Apart, Tally
  <1> QED BY <1>2, <1>3, <1>4, <1>5, <1>6 DEF FormIInv

LEMMA CreateKeepsForm ==
    ASSUME FormConstants, FormIInv, NEW b \in Buttons, N!Create(b)
    PROVE  FormIInv'
  <1>1. PICK k, set, new :
            k = modal[b].form /\ set = modal[b].staged /\ new = [form |-> k, staged |-> set]
    OBVIOUS
  <1>2. /\ modal[b] # None /\ post[b] = None /\ ~(loop[b] # None /\ loop[b].mounted)
        /\ post' = [post EXCEPT ![b] = new] /\ taken' = [taken EXCEPT ![k] = set]
        /\ UNCHANGED <<modal, form, lost, loop, created, settled, shows>>
    BY <1>1 DEF N!Create, N!MayCreate, N!Submitting
  <1>3. k \in N!Forms /\ set \subseteq N!Items /\ new \in Staging /\ new # None
        /\ new.form = k /\ new.staged = set
    BY <1>1, <1>2, ButtonHas DEF FormIInv, Staging, FormConstants
  <1>4. /\ post'[b] = new /\ \A c \in Buttons : c # b => post'[c] = post[c]
        /\ taken'[k] = set /\ \A j \in N!Forms : j # k => taken'[j] = taken[j]
    BY <1>2, <1>3 DEF FormIInv, FormTypes
  <1>5. \A c \in Buttons : post[c] # None => post[c].form # k
    BY <1>1, <1>2 DEF FormIInv, Owned
  <1>6. \A c \in Buttons : loop[c] # None => loop[c].form # k
    BY <1>1, <1>2 DEF FormIInv, Owned
  <1>7. settled[k] = {}
    BY <1>1, <1>2, <1>6 DEF FormIInv, Owned
  <1>8. FormTypes'
    <2>1. post' \in [Buttons -> Staging \cup {None}] /\ taken' \in [N!Forms -> SUBSET N!Items]
      BY <1>2, <1>3 DEF FormIInv, FormTypes
    <2> QED BY <1>2, <2>1 DEF FormIInv, FormTypes
  <1>9. FormsOpened'
    <2>1. k <= form
      BY <1>1, <1>2 DEF FormIInv, FormsOpened
    <2> QED BY <1>2, <1>3, <1>4, <2>1 DEF FormIInv, FormsOpened
  <1>10. OneModal'
    BY <1>2 DEF FormIInv, OneModal, N!Mounted
  <1>11. Owned'
    <2>1. \A c \in Buttons : modal[c] # None => c = b
      BY <1>2 DEF FormIInv, OneModal
    <2> QED BY <1>1, <1>2, <1>4, <1>5, <1>6, <1>7, <2>1 DEF Owned
  <1>12. Apart'
    BY <1>2, <1>3, <1>4, <1>5, <1>6 DEF FormIInv, Apart
  <1>13. Tally'
    <2>1. ASSUME NEW c \in Buttons, post'[c] # None
          PROVE  post'[c].staged = taken'[post'[c].form] /\ settled'[post'[c].form] = {}
      <3>1. CASE c = b
        BY <1>2, <1>3, <1>4, <1>7, <3>1
      <3>2. CASE c # b
        <4>1. post'[c] = post[c] /\ post[c].form # k /\ post[c].form \in N!Forms
          BY <1>4, <1>5, <2>1, <3>2, ButtonHas DEF FormIInv
        <4> QED BY <1>2, <1>4, <2>1, <4>1 DEF FormIInv, Tally
      <3> QED BY <3>1, <3>2
    <2>2. ASSUME NEW c \in Buttons, loop'[c] # None
          PROVE  loop'[c].left = taken'[loop'[c].form] \ settled'[loop'[c].form]
      <3>1. loop[c].form # k /\ loop[c].form \in N!Forms /\ loop'[c] = loop[c]
        BY <1>2, <1>6, <2>2, ButtonHas DEF FormIInv
      <3> QED BY <1>2, <1>4, <2>2, <3>1 DEF FormIInv, Tally
    <2>3. ASSUME NEW j \in N!Forms
          PROVE  /\ settled'[j] \subseteq taken'[j]
                 /\ settled'[j] = {} \/ settled'[j] = taken'[j]
                    \/ (\E c \in Buttons : loop'[c] # None /\ loop'[c].form = j)
      <3>1. CASE j = k
        BY <1>2, <1>7, <3>1
      <3>2. CASE j # k
        BY <1>2, <1>4, <3>2 DEF FormIInv, Tally
      <3> QED BY <3>1, <3>2
    <2> QED BY <2>1, <2>2, <2>3 DEF Tally
  <1> QED BY <1>8, <1>9, <1>10, <1>11, <1>12, <1>13 DEF FormIInv

\* A card of a form that is known, or of a POST that nobody follows.
LEMMA CommitKeepsForm ==
    ASSUME FormIInv, created' \subseteq 1 .. form, lost' \subseteq lost,
           UNCHANGED <<modal, form, post, loop, taken, settled, shows>>
    PROVE  FormIInv'
  <1>1. FormTypes' /\ FormsOpened'
    BY DEF FormIInv, FormTypes, FormsOpened
  <1>2. OneModal' /\ Owned' /\ Apart' /\ Tally'
    BY DEF FormIInv, OneModal, Owned, Apart, Tally, N!Mounted
  <1> QED BY <1>1, <1>2 DEF FormIInv

\* A POST that is no longer followed.
LEMMA FailedKeepsForm ==
    ASSUME FormIInv, NEW b \in Buttons, post' = [post EXCEPT ![b] = None],
           UNCHANGED <<modal, form, lost, loop, created, taken, settled, shows>>
    PROVE  FormIInv'
  <1>1. post'[b] = None /\ \A c \in Buttons : c # b => post'[c] = post[c]
    BY DEF FormIInv, FormTypes
  <1>2. \A c \in Buttons : post'[c] # None => post'[c] = post[c]
    BY <1>1
  <1>3. FormTypes' /\ FormsOpened'
    BY <1>2 DEF FormIInv, FormTypes, FormsOpened
  <1>4. OneModal'
    BY DEF FormIInv, OneModal, N!Mounted
  <1>5. Owned'
    BY <1>2 DEF FormIInv, Owned
  <1>6. Apart'
    BY <1>2 DEF FormIInv, Apart
  <1>7. Tally'
    BY <1>2 DEF FormIInv, Tally
  <1> QED BY <1>3, <1>4, <1>5, <1>6, <1>7 DEF FormIInv

LEMMA LoopBegins ==
    ASSUME FormConstants, FormIInv, NEW b \in Buttons, post[b] # None, loop[b] = None,
           post' = [post EXCEPT ![b] = None],
           loop' = [loop EXCEPT ![b] = [form |-> post[b].form, left |-> post[b].staged,
                                        mounted |-> TRUE]],
           UNCHANGED <<modal, form, lost, created, taken, settled, shows>>
    PROVE  FormIInv'
  <1>1. PICK k, new : k = post[b].form /\ new = [form |-> k, left |-> post[b].staged, mounted |-> TRUE]
    OBVIOUS
  <1>2. k \in N!Forms /\ new \in Applying /\ new # None /\ new.form = k /\ new.mounted
        /\ new.left = post[b].staged
    <2>1. k \in N!Forms /\ post[b].staged \subseteq N!Items
      BY <1>1, ButtonHas DEF FormIInv
    <2>2. new \in Applying
      BY <1>1, <2>1 DEF Applying
    <2> QED BY <1>1, <2>1, <2>2 DEF FormConstants
  <1>3. /\ post'[b] = None /\ \A c \in Buttons : c # b => post'[c] = post[c]
        /\ loop'[b] = new /\ \A c \in Buttons : c # b => loop'[c] = loop[c]
    BY <1>1 DEF FormIInv, FormTypes
  <1>4. \A c \in Buttons : post'[c] # None => post'[c] = post[c] /\ post[c].form # k
    BY <1>1, <1>3 DEF FormIInv, Apart
  <1>5. \A c \in Buttons : loop[c] # None => loop[c].form # k
    BY <1>1 DEF FormIInv, Apart
  <1>6. settled[k] = {} /\ new.left = taken[k]
    BY <1>1, <1>2 DEF FormIInv, Tally
  <1>7. FormTypes'
    <2>1. loop' \in [Buttons -> Applying \cup {None}] /\ post' \in [Buttons -> Staging \cup {None}]
      BY <1>1, <1>2 DEF FormIInv, FormTypes
    <2> QED BY <2>1 DEF FormIInv, FormTypes
  <1>8. FormsOpened'
    <2>1. k <= form
      BY <1>1 DEF FormIInv, FormsOpened
    <2> QED BY <1>2, <1>3, <1>4, <2>1 DEF FormIInv, FormsOpened
  <1>9. OneModal'
    BY DEF FormIInv, OneModal, N!Mounted
  <1>10. Owned'
    <2>1. \A c \in Buttons : modal[c] # None /\ modal[c].form = k => c = b
      BY <1>1 DEF FormIInv, Owned
    <2> QED BY <1>2, <1>3, <1>4, <1>5, <2>1 DEF FormIInv, Owned
  <1>11. Apart'
    BY <1>2, <1>3, <1>4, <1>5 DEF FormIInv, Apart
  <1>12. Tally'
    <2>1. ASSUME NEW c \in Buttons, loop'[c] # None
          PROVE  loop'[c].left = taken[loop'[c].form] \ settled[loop'[c].form]
      <3>1. CASE c = b
        BY <1>2, <1>3, <1>6, <3>1
      <3>2. CASE c # b
        BY <1>3, <2>1, <3>2 DEF FormIInv, Tally
      <3> QED BY <3>1, <3>2
    <2>2. ASSUME NEW j \in N!Forms, NEW c \in Buttons, loop[c] # None, loop[c].form = j
          PROVE  loop'[c] # None /\ loop'[c].form = j
      BY <1>3, <2>2
    <2> QED BY <1>4, <2>1, <2>2 DEF FormIInv, Tally
  <1> QED BY <1>7, <1>8, <1>9, <1>10, <1>11, <1>12 DEF FormIInv

LEMMA AnsweredKeepsForm ==
    ASSUME FormConstants, FormIInv, NEW b \in Buttons, N!Answered(b)
    PROVE  FormIInv'
  <1>1. /\ post[b] # None /\ post' = [post EXCEPT ![b] = None]
        /\ UNCHANGED <<form, lost, created, taken, settled, shows>>
    BY DEF N!Answered
  <1>2. CASE post[b].staged # {}
    BY <1>1, <1>2, LoopBegins DEF N!Answered
  <1>3. CASE post[b].staged = {}
    <2>1. modal' = [modal EXCEPT ![b] = None] /\ loop' = loop
      BY <1>3 DEF N!Answered, N!Closed
    <2>2. /\ \A c \in Buttons : post'[c] # None => post'[c] = post[c]
          /\ \A c \in Buttons : modal'[c] # None => modal'[c] = modal[c]
      BY <1>1, <2>1 DEF FormIInv, FormTypes
    <2>3. FormTypes' /\ FormsOpened'
      <3>1. modal' \in [Buttons -> Staging \cup {None}] /\ post' \in [Buttons -> Staging \cup {None}]
        BY <1>1, <2>1 DEF FormIInv, FormTypes
      <3> QED BY <1>1, <2>1, <2>2, <3>1 DEF FormIInv, FormTypes, FormsOpened
    <2>4. OneModal'
      BY <1>1, <2>2 DEF FormIInv, OneModal, N!Mounted
    <2>5. Owned'
      BY <1>1, <2>1, <2>2 DEF FormIInv, Owned
    <2>6. Apart'
      BY <2>1, <2>2 DEF FormIInv, Apart
    <2>7. Tally'
      BY <1>1, <2>1, <2>2 DEF FormIInv, Tally
    <2> QED BY <2>3, <2>4, <2>5, <2>6, <2>7 DEF FormIInv
  <1> QED BY <1>2, <1>3

LEMMA AppliedKeepsForm ==
    ASSUME FormConstants, FormIInv, NEW b \in Buttons, NEW i \in N!Items, N!Applied(b, i)
    PROVE  FormIInv'
  <1>1. PICK k, new : k = loop[b].form /\ new = [loop[b] EXCEPT !.left = @ \ {i}]
    OBVIOUS
  <1>2. /\ loop[b] # None /\ i \in loop[b].left
        /\ settled' = [settled EXCEPT ![k] = @ \cup {i}] /\ loop' = [loop EXCEPT ![b] = new]
        /\ UNCHANGED <<modal, form, post, lost, created, taken, shows>>
    BY <1>1 DEF N!Applied, N!First
  <1>3. k \in N!Forms /\ new = [form |-> k, left |-> loop[b].left \ {i}, mounted |-> loop[b].mounted]
    <2>1. PICK left, mounted : left = loop[b].left /\ mounted = loop[b].mounted
      OBVIOUS
    <2>2. k \in N!Forms /\ loop[b] = [form |-> k, left |-> left, mounted |-> mounted]
      BY <1>1, <1>2, <2>1, ButtonHas DEF FormIInv
    <2>3. new = [form |-> k, left |-> left \ {i}, mounted |-> mounted]
      BY <1>1, <2>2
    <2> QED BY <2>1, <2>2, <2>3
  <1>4. new \in Applying /\ new # None
    <2>1. loop[b].left \ {i} \subseteq N!Items /\ loop[b].mounted \in BOOLEAN
      BY <1>2, ButtonHas DEF FormIInv
    <2>2. new \in Applying
      BY <1>3, <2>1 DEF Applying
    <2> QED BY <2>2 DEF FormConstants
  <1>5. /\ loop'[b] = new /\ \A c \in Buttons : c # b => loop'[c] = loop[c]
        /\ settled'[k] = settled[k] \cup {i}
        /\ \A j \in N!Forms : j # k => settled'[j] = settled[j]
    BY <1>2, <1>3 DEF FormIInv, FormTypes
  <1>6. \A c \in Buttons : loop[c] # None /\ loop[c].form = k => c = b
    BY <1>1, <1>2 DEF FormIInv, Apart
  <1>7. \A c \in Buttons : post[c] # None => post[c].form # k /\ post[c].form \in N!Forms
    BY <1>1, <1>2, ButtonHas DEF FormIInv, Apart
  <1>8. loop[b].left = taken[k] \ settled[k]
    BY <1>1, <1>2 DEF FormIInv, Tally
  <1>9. FormTypes'
    <2>1. loop' \in [Buttons -> Applying \cup {None}] /\ settled' \in [N!Forms -> SUBSET N!Items]
      BY <1>2, <1>3, <1>4 DEF FormIInv, FormTypes
    <2> QED BY <1>2, <2>1 DEF FormIInv, FormTypes
  <1>10. FormsOpened'
    <2>1. k <= form
      BY <1>1, <1>2 DEF FormIInv, FormsOpened
    <2> QED BY <1>2, <1>3, <1>5, <2>1 DEF FormIInv, FormsOpened
  <1>11. OneModal'
    BY <1>2 DEF FormIInv, OneModal, N!Mounted
  <1>12. \A c \in Buttons : loop'[c] # None <=> loop[c] # None
    BY <1>2, <1>4, <1>5
  <1>13. \A c \in Buttons : loop[c] # None => loop'[c].form = loop[c].form
                                             /\ loop'[c].mounted = loop[c].mounted
    BY <1>1, <1>3, <1>5
  <1>14. Owned'
    <2>1. ASSUME NEW c \in Buttons, modal[c] # None, settled'[modal[c].form] # {}
          PROVE  loop[c] # None /\ loop[c].form = modal[c].form
      <3>1. CASE modal[c].form = k
        BY <1>1, <1>2, <2>1, <3>1 DEF FormIInv, Owned
      <3>2. CASE modal[c].form # k
        <4>1. modal[c].form \in N!Forms
          BY <2>1, ButtonHas DEF FormIInv
        <4> QED BY <1>5, <2>1, <3>2, <4>1 DEF FormIInv, Owned
      <3> QED BY <3>1, <3>2
    <2> QED BY <1>2, <1>12, <1>13, <2>1 DEF FormIInv, Owned
  <1>15. Apart'
    BY <1>2, <1>12, <1>13 DEF FormIInv, Apart
  <1>16. Tally'
    <2>1. ASSUME NEW c \in Buttons, post'[c] # None
          PROVE  post'[c].staged = taken'[post'[c].form] /\ settled'[post'[c].form] = {}
      BY <1>2, <1>5, <1>7, <2>1 DEF FormIInv, Tally
    <2>2. ASSUME NEW c \in Buttons, loop'[c] # None
          PROVE  loop'[c].left = taken'[loop'[c].form] \ settled'[loop'[c].form]
      <3>1. CASE c = b
        BY <1>2, <1>3, <1>5, <1>8, <3>1
      <3>2. CASE c # b
        <4>1. loop'[c] = loop[c] /\ loop[c].form # k /\ loop[c].form \in N!Forms
          BY <1>5, <1>6, <2>2, <3>2, ButtonHas DEF FormIInv
        <4> QED BY <1>2, <1>5, <2>2, <4>1 DEF FormIInv, Tally
      <3> QED BY <3>1, <3>2
    <2>3. ASSUME NEW j \in N!Forms
          PROVE  /\ settled'[j] \subseteq taken'[j]
                 /\ settled'[j] = {} \/ settled'[j] = taken'[j]
                    \/ (\E c \in Buttons : loop'[c] # None /\ loop'[c].form = j)
      <3>1. CASE j = k
        <4>1. settled[k] \subseteq taken[k] /\ i \in taken[k]
          BY <1>2, <1>3, <1>8 DEF FormIInv, Tally
        <4>2. loop'[b] # None /\ loop'[b].form = k
          BY <1>3, <1>4, <1>5
        <4> QED BY <1>2, <1>5, <3>1, <4>1, <4>2
      <3>2. CASE j # k
        BY <1>2, <1>5, <1>12, <1>13, <3>2 DEF FormIInv, Tally
      <3> QED BY <3>1, <3>2
    <2> QED BY <2>1, <2>2, <2>3 DEF Tally
  <1> QED BY <1>9, <1>10, <1>11, <1>14, <1>15, <1>16 DEF FormIInv

LEMMA LoopEndsKeepsForm ==
    ASSUME FormConstants, FormIInv, NEW b \in Buttons, N!LoopEnds(b)
    PROVE  FormIInv'
  <1>1. PICK k : k = loop[b].form
    OBVIOUS
  <1>2. /\ loop[b] # None /\ loop[b].left = {} /\ loop' = [loop EXCEPT ![b] = None]
        /\ modal' = IF loop[b].mounted THEN [modal EXCEPT ![b] = None] ELSE modal
        /\ UNCHANGED <<form, post, lost, created, taken, settled, shows>>
    BY DEF N!LoopEnds, N!Closed
  <1>3. /\ loop'[b] = None /\ \A c \in Buttons : c # b => loop'[c] = loop[c]
        /\ \A c \in Buttons : modal'[c] # None => modal'[c] = modal[c]
                                               /\ (c = b => ~loop[b].mounted)
    BY <1>2 DEF FormIInv, FormTypes
  <1>4. \A c \in Buttons : loop'[c] # None => loop'[c] = loop[c]
    BY <1>3
  <1>5. k \in N!Forms /\ settled[k] = taken[k]
    <2>1. k \in N!Forms /\ loop[b].left = taken[k] \ settled[k] /\ settled[k] \subseteq taken[k]
      BY <1>1, <1>2, ButtonHas DEF FormIInv, Tally
    <2> QED BY <1>2, <2>1
  <1>6. FormTypes'
    <2>1. loop' \in [Buttons -> Applying \cup {None}] /\ modal' \in [Buttons -> Staging \cup {None}]
      BY <1>2 DEF FormIInv, FormTypes
    <2> QED BY <1>2, <2>1 DEF FormIInv, FormTypes
  <1>7. FormsOpened'
    BY <1>2, <1>3, <1>4 DEF FormIInv, FormsOpened
  <1>8. OneModal'
    BY <1>2, <1>3 DEF FormIInv, OneModal, N!Mounted
  <1>9. Owned'
    <2>1. ASSUME NEW c \in Buttons, modal'[c] # None, settled[modal'[c].form] # {}
          PROVE  loop'[c] # None /\ loop'[c].form = modal'[c].form
      <3>1. loop[c] # None /\ loop[c].form = modal[c].form /\ modal'[c] = modal[c]
        BY <1>3, <2>1 DEF FormIInv, Owned
      <3>2. loop[c].mounted
        BY <1>3, <2>1, <3>1 DEF FormIInv, Owned
      <3>3. c # b
        BY <1>3, <2>1, <3>2
      <3> QED BY <1>3, <3>1, <3>3
    <2> QED BY <1>2, <1>3, <1>4, <2>1 DEF FormIInv, Owned
  <1>10. Apart'
    BY <1>2, <1>4 DEF FormIInv, Apart
  <1>11. Tally'
    <2>1. ASSUME NEW j \in N!Forms
          PROVE  /\ settled[j] \subseteq taken[j]
                 /\ settled[j] = {} \/ settled[j] = taken[j]
                    \/ (\E c \in Buttons : loop'[c] # None /\ loop'[c].form = j)
      <3>1. CASE j = k
        BY <1>5, <3>1
      <3>2. CASE j # k
        BY <1>1, <1>3, <3>2 DEF FormIInv, Tally
      <3> QED BY <3>1, <3>2
    <2> QED BY <1>2, <1>4, <2>1 DEF FormIInv, Tally
  <1> QED BY <1>6, <1>7, <1>8, <1>9, <1>10, <1>11 DEF FormIInv

\* Buttons that are gone; those that stay are where they were.
LEMMA UnmountedKeepsForm ==
    ASSUME FormConstants, FormIInv, NEW gone \in SUBSET Buttons, N!Unmounted(gone),
           \A b \in Buttons \ gone : modal[b] # None => b # Cta \/ ~shows',
           UNCHANGED <<form, created, taken, settled>>
    PROVE  FormIInv'
  <1>1. /\ modal' = [b \in Buttons |-> IF b \in gone THEN None ELSE modal[b]]
        /\ lost' = lost \cup {post[b] : b \in {c \in gone : post[c] # None /\ post[c].form \notin created}}
        /\ post' = [b \in Buttons |-> IF b \in gone THEN None ELSE post[b]]
        /\ loop' = [b \in Buttons |-> IF b \in gone /\ loop[b] # None
                                      THEN [loop[b] EXCEPT !.mounted = FALSE] ELSE loop[b]]
    BY DEF N!Unmounted
  <1>2. \A c \in Buttons :
            /\ modal'[c] # None => modal'[c] = modal[c] /\ c \notin gone
            /\ post'[c] # None => post'[c] = post[c] /\ c \notin gone
            /\ c \notin gone => loop'[c] = loop[c]
    BY <1>1
  <1>3. ASSUME NEW c \in Buttons, loop[c] # None
        PROVE  /\ loop'[c] \in Applying /\ loop'[c] # None
               /\ loop'[c].form = loop[c].form /\ loop'[c].left = loop[c].left
    <2>1. CASE c \in gone
      <3>1. loop'[c] = [form |-> loop[c].form, left |-> loop[c].left, mounted |-> FALSE]
        <4>1. PICK k, left, mounted : loop[c] = [form |-> k, left |-> left, mounted |-> mounted]
                                      /\ k = loop[c].form /\ left = loop[c].left
          BY <1>3, ButtonHas DEF FormIInv
        <4>2. loop'[c] = [loop[c] EXCEPT !.mounted = FALSE]
          BY <1>1, <1>3, <2>1
        <4>3. loop'[c] = [form |-> k, left |-> left, mounted |-> FALSE]
          BY <4>1, <4>2
        <4> QED BY <4>1, <4>3
      <3>2. loop[c].form \in N!Forms /\ loop[c].left \subseteq N!Items
        BY <1>3, ButtonHas DEF FormIInv
      <3>3. loop'[c] \in Applying
        BY <3>1, <3>2 DEF Applying
      <3>4. loop'[c].form = loop[c].form /\ loop'[c].left = loop[c].left
        BY <3>1
      <3>5. loop'[c] # None
        BY <3>3 DEF FormConstants
      <3> QED BY <3>3, <3>4, <3>5
    <2>2. CASE c \notin gone
      BY <1>2, <1>3, <2>2 DEF FormIInv, FormTypes
    <2> QED BY <2>1, <2>2
  <1>4. \A c \in Buttons : loop[c] = None => loop'[c] = None
    BY <1>1
  <1>5. \A p \in lost' : p \in lost \/ \E b \in Buttons : post[b] # None /\ p = post[b]
    BY <1>1
  <1>6. FormTypes'
    <2>1. modal' \in [Buttons -> Staging \cup {None}] /\ post' \in [Buttons -> Staging \cup {None}]
      BY <1>1 DEF FormIInv, FormTypes
    <2>2. \A c \in Buttons : loop'[c] \in Applying \cup {None}
      BY <1>3, <1>4
    <2>3. loop' \in [Buttons -> Applying \cup {None}]
      BY <1>1, <2>2
    <2>4. lost' \subseteq Staging
      BY <1>5 DEF FormIInv, FormTypes
    <2> QED BY <2>1, <2>3, <2>4 DEF FormIInv, FormTypes
  <1>7. FormsOpened'
    BY <1>2, <1>3, <1>4, <1>5 DEF FormIInv, FormsOpened
  <1>8. OneModal'
    BY <1>2 DEF FormIInv, OneModal, N!Mounted
  <1>9. Owned'
    BY <1>2, <1>3, <1>4 DEF FormIInv, Owned
  <1>10. Apart'
    BY <1>2, <1>3, <1>4 DEF FormIInv, Apart
  <1>11. Tally'
    BY <1>2, <1>3, <1>4 DEF FormIInv, Tally
  <1> QED BY <1>6, <1>7, <1>8, <1>9, <1>10, <1>11 DEF FormIInv

LEMMA NothingGone ==
    ASSUME FormTypes, N!Unmounted({})
    PROVE  modal' = modal /\ post' = post /\ loop' = loop /\ lost' = lost
  BY DEF FormTypes, N!Unmounted

LEMMA FormStep ==
    ASSUME FormConstants, FormIInv, [N!Next]_(N!vars)
    PROVE  FormIInv'
  <1>1. ASSUME NEW b \in Buttons, N!Press(b) PROVE FormIInv'
    BY <1>1, PressKeepsForm
  <1>2. ASSUME NEW b \in Buttons, N!Cancel(b) PROVE FormIInv'
    BY <1>2, ModalKeepsForm DEF N!Cancel
  <1>3. ASSUME NEW b \in Buttons, NEW i \in N!Items, N!Stage(b, i) PROVE FormIInv'
    <2>1. PICK new : new = [modal[b] EXCEPT !.staged = @ \cup {i}]
      OBVIOUS
    <2>2. /\ modal[b] # None /\ modal' = [modal EXCEPT ![b] = new]
          /\ UNCHANGED <<form, post, lost, loop, created, taken, settled, shows>>
      BY <1>3, <2>1 DEF N!Stage
    <2>3. PICK k, staged : /\ modal[b] = [form |-> k, staged |-> staged]
                           /\ k \in N!Forms /\ staged \subseteq N!Items
      BY <2>2, ButtonHas DEF FormIInv
    <2>4. new = [form |-> k, staged |-> staged \cup {i}] /\ modal[b].form = k
      BY <2>1, <2>3
    <2>5. new \in Staging /\ new.form = modal[b].form
      BY <1>3, <2>3, <2>4 DEF Staging
    <2> QED BY <2>2, <2>5, ModalKeepsForm
  <1>4. ASSUME NEW b \in Buttons, N!Create(b) PROVE FormIInv'
    BY <1>4, CreateKeepsForm
  <1>5. ASSUME NEW b \in Buttons, N!Commit(b) PROVE FormIInv'
    <2>1. post[b].form \in N!Forms /\ post[b].form <= form /\ form \in Nat
      BY <1>5, ButtonHas DEF N!Commit, FormIInv, FormTypes, FormsOpened
    <2>2. post[b].form \in 1 .. form
      BY <2>1 DEF N!Forms
    <2> QED BY <1>5, <2>2, CommitKeepsForm DEF N!Commit, FormIInv, FormTypes
  <1>6. ASSUME NEW p \in lost, N!CommitLost(p) PROVE FormIInv'
    <2>1. p.form \in N!Forms /\ p.form <= form /\ form \in Nat
      BY DEF FormIInv, FormTypes, FormsOpened, Staging
    <2>2. p.form \in 1 .. form
      BY <2>1 DEF N!Forms
    <2> QED BY <1>6, <2>2, CommitKeepsForm DEF N!CommitLost, FormIInv, FormTypes
  <1>7. ASSUME NEW b \in Buttons, N!Answered(b) PROVE FormIInv'
    BY <1>7, AnsweredKeepsForm
  <1>8. ASSUME NEW b \in Buttons, N!Failed(b) PROVE FormIInv'
    BY <1>8, FailedKeepsForm DEF N!Failed
  <1>9. ASSUME NEW b \in Buttons, NEW i \in N!Items, N!Applied(b, i) PROVE FormIInv'
    BY <1>9, AppliedKeepsForm
  <1>10. ASSUME NEW b \in Buttons, N!LoopEnds(b) PROVE FormIInv'
    BY <1>10, LoopEndsKeepsForm
  <1>11. CASE N!Refetched
    <2>1. /\ N!Unmounted({Cta} \cap Buttons) /\ {Cta} \cap Buttons \subseteq Buttons
          /\ UNCHANGED <<form, created, taken, settled>>
      BY <1>11 DEF N!Refetched
    <2>2. \A b \in Buttons \ ({Cta} \cap Buttons) : modal[b] # None => b # Cta \/ ~shows'
      OBVIOUS
    <2> QED BY <2>1, <2>2, UnmountedKeepsForm
  <1>12. CASE N!Switch
    <2>1. N!Unmounted(Buttons) /\ UNCHANGED <<form, created, taken, settled>>
      BY <1>12 DEF N!Switch
    <2> QED BY <2>1, UnmountedKeepsForm
  <1>13. CASE UNCHANGED N!vars
    <2>1. UNCHANGED <<modal, form, post, lost, loop, created, taken, settled, shows>>
      BY <1>13 DEF N!vars
    <2>2. created' \subseteq 1 .. form
      BY <2>1 DEF FormIInv, FormTypes
    <2> QED BY <2>1, <2>2, CommitKeepsForm
  <1> QED BY <1>1, <1>2, <1>3, <1>4, <1>5, <1>6, <1>7, <1>8, <1>9, <1>10, <1>11, <1>12, <1>13
          DEF N!Next

\* However hastily forms are opened, cancelled, changed and created, and even
\* when the button or its board is gone meanwhile: what was staged when Create
\* was pressed is what is being applied, and once its first item is applied
\* the others follow (NewCardButton.tsx).
THEOREM NothingHalfApplied ==
    FormConstants /\ N!Spec => [](N!NewCardTypeOK /\ N!NeverHalfApplied)
  <1> SUFFICES ASSUME FormConstants PROVE N!Spec => [](N!NewCardTypeOK /\ N!NeverHalfApplied)
    OBVIOUS
  <1>1. N!Init => FormIInv
    BY FormBegins
  <1>2. FormIInv /\ [N!Next]_(N!vars) => FormIInv'
    BY FormStep
  <1>3. FormIInv => N!NewCardTypeOK /\ N!NeverHalfApplied
    <2> SUFFICES ASSUME FormIInv PROVE N!NewCardTypeOK /\ N!NeverHalfApplied
      OBVIOUS
    <2>1. ASSUME NEW b \in Buttons, modal[b] # None PROVE modal[b].form \in 1 .. form /\ N!Mounted(b)
      <3>1. modal[b].form \in N!Forms /\ modal[b].form <= form /\ form \in Nat
        BY <2>1, ButtonHas DEF FormIInv, FormTypes, FormsOpened
      <3> QED BY <2>1, <3>1 DEF N!Forms, FormIInv, OneModal
    <2>2. N!NewCardTypeOK
      BY <2>1 DEF FormIInv, FormTypes, Tally, N!NewCardTypeOK
    <2> QED BY <2>2 DEF FormIInv, Tally, N!NeverHalfApplied
  <1> QED BY <1>1, <1>2, <1>3, PTL DEF N!Spec

(* Where no button goes away.                                               *)

\* A card that was made is on its way to what was staged for it, or has it.
FormQuiet ==
    /\ lost = {}
    /\ \A k \in created : \/ settled[k] = taken[k]
                          \/ \E b \in Buttons : post[b] # None /\ post[b].form = k
                          \/ \E b \in Buttons : loop[b] # None /\ loop[b].form = k

\* A user who waits has before them what is being created.
FormPatient ==
    \A b \in Buttons :
        /\ post[b] # None => modal[b] = post[b]
        /\ loop[b] # None =>
              /\ loop[b].mounted /\ modal[b] # None /\ modal[b].form = loop[b].form
              /\ modal[b].staged = taken[loop[b].form] /\ loop[b].form \in created

LEMMA QuietBegins == FormConstants /\ N!Init => FormQuiet /\ FormPatient
  BY DEF N!Init, FormQuiet, FormPatient

LEMMA QuietStep ==
    ASSUME FormConstants, FormIInv, FormQuiet, Cta \notin Buttons, ~Switches, [N!Next]_(N!vars)
    PROVE  FormQuiet'
  <1>1. ASSUME NEW b \in Buttons, N!Press(b) \/ N!Cancel(b) \/ \E i \in N!Items : N!Stage(b, i)
        PROVE  FormQuiet'
    BY <1>1 DEF N!Press, N!Cancel, N!Stage, FormQuiet
  <1>2. ASSUME NEW b \in Buttons, N!Create(b) PROVE FormQuiet'
    <2>1. PICK k, new : k = modal[b].form /\ new = [form |-> k, staged |-> modal[b].staged]
      OBVIOUS
    <2>2. /\ modal[b] # None /\ post[b] = None
          /\ post' = [post EXCEPT ![b] = new] /\ taken' = [taken EXCEPT ![k] = modal[b].staged]
          /\ UNCHANGED <<lost, loop, created, settled>>
      BY <1>2, <2>1 DEF N!Create, N!MayCreate, N!Submitting
    <2>3. k \in N!Forms /\ new \in Staging /\ new # None /\ new.form = k
      BY <2>1, <2>2, ButtonHas DEF FormIInv, Staging, FormConstants
    <2>4. /\ post'[b] = new /\ \A c \in Buttons : post[c] # None => post'[c] = post[c]
          /\ \A j \in N!Forms : j # k => taken'[j] = taken[j]
      BY <2>2, <2>3 DEF FormIInv, FormTypes
    <2>5. \A j \in created : j \in N!Forms
      BY DEF FormIInv, FormTypes, N!Forms, FormConstants
    <2>6. ASSUME NEW j \in created
          PROVE  \/ settled[j] = taken'[j]
                 \/ \E c \in Buttons : post'[c] # None /\ post'[c].form = j
                 \/ \E c \in Buttons : loop[c] # None /\ loop[c].form = j
      <3>1. CASE j = k
        BY <2>3, <2>4, <3>1
      <3>2. CASE j # k
        <4>1. taken'[j] = taken[j]
          BY <2>4, <2>5, <3>2
        <4> QED BY <2>4, <4>1 DEF FormQuiet
      <3> QED BY <3>1, <3>2
    <2> QED BY <2>2, <2>6 DEF FormQuiet
  <1>3. ASSUME NEW b \in Buttons, N!Commit(b) PROVE FormQuiet'
    BY <1>3 DEF N!Commit, FormQuiet
  <1>4. ASSUME NEW b \in Buttons, N!Answered(b) PROVE FormQuiet'
    <2>1. PICK k : k = post[b].form /\ k \in N!Forms
      BY <1>4, ButtonHas DEF N!Answered, FormIInv
    <2>2. /\ post[b] # None /\ post' = [post EXCEPT ![b] = None]
          /\ UNCHANGED <<lost, created, taken, settled>>
      BY <1>4 DEF N!Answered
    <2>3. \A c \in Buttons : c # b => post'[c] = post[c]
      BY <2>2 DEF FormIInv, FormTypes
    <2>4. \/ settled[k] = taken[k]
          \/ \E c \in Buttons : loop'[c] # None /\ loop'[c].form = k
      <3>1. CASE post[b].staged = {}
        BY <2>1, <2>2, <3>1 DEF FormIInv, Tally
      <3>2. CASE post[b].staged # {}
        <4>1. PICK new : new = [form |-> k, left |-> post[b].staged, mounted |-> TRUE]
          OBVIOUS
        <4>2. loop' = [loop EXCEPT ![b] = new]
          BY <1>4, <2>1, <3>2, <4>1 DEF N!Answered
        <4>3. new \in Applying /\ new # None /\ new.form = k
          <5>1. post[b].staged \subseteq N!Items
            BY <2>2, ButtonHas DEF FormIInv
          <5>2. new \in Applying
            BY <2>1, <4>1, <5>1 DEF Applying
          <5> QED BY <4>1, <5>2 DEF FormConstants
        <4>4. loop'[b] = new
          BY <4>2 DEF FormIInv, FormTypes
        <4> QED BY <4>3, <4>4
      <3> QED BY <3>1, <3>2
    <2>5. \A c \in Buttons : loop[c] # None => loop'[c] = loop[c]
      <3>1. loop' = loop \/ (loop[b] = None /\ \A c \in Buttons : c # b => loop'[c] = loop[c])
        BY <1>4 DEF N!Answered, FormIInv, FormTypes
      <3> QED BY <3>1
    <2>6. ASSUME NEW j \in created
          PROVE  \/ settled[j] = taken[j]
                 \/ \E c \in Buttons : post'[c] # None /\ post'[c].form = j
                 \/ \E c \in Buttons : loop'[c] # None /\ loop'[c].form = j
      <3>1. CASE j = k
        BY <2>4, <3>1
      <3>2. CASE j # k
        BY <2>1, <2>3, <2>5, <3>2 DEF FormQuiet
      <3> QED BY <3>1, <3>2
    <2> QED BY <2>2, <2>6 DEF FormQuiet
  <1>5. ASSUME NEW b \in Buttons, N!Failed(b) PROVE FormQuiet'
    <2>1. /\ post[b].form \notin created /\ post' = [post EXCEPT ![b] = None]
          /\ UNCHANGED <<lost, loop, created, taken, settled>>
      BY <1>5 DEF N!Failed
    <2>2. \A c \in Buttons : c # b => post'[c] = post[c]
      BY <2>1 DEF FormIInv, FormTypes
    <2> QED BY <2>1, <2>2 DEF FormQuiet
  <1>6. ASSUME NEW b \in Buttons, NEW i \in N!Items, N!Applied(b, i) PROVE FormQuiet'
    <2>1. PICK k, new : k = loop[b].form /\ new = [loop[b] EXCEPT !.left = @ \ {i}]
      OBVIOUS
    <2>2. /\ loop[b] # None /\ loop' = [loop EXCEPT ![b] = new]
          /\ settled' = [settled EXCEPT ![k] = @ \cup {i}]
          /\ UNCHANGED <<post, lost, created, taken>>
      BY <1>6, <2>1 DEF N!Applied
    <2>3. k \in N!Forms /\ new.form = k /\ new # None
      <3>1. PICK left, mounted : loop[b] = [form |-> k, left |-> left, mounted |-> mounted]
                                 /\ left \subseteq N!Items /\ mounted \in BOOLEAN /\ k \in N!Forms
        BY <2>1, <2>2, ButtonHas DEF FormIInv
      <3>2. new = [form |-> k, left |-> left \ {i}, mounted |-> mounted]
        BY <2>1, <3>1
      <3>3. new \in Applying
        BY <3>1, <3>2 DEF Applying
      <3> QED BY <3>1, <3>2, <3>3 DEF FormConstants
    <2>4. /\ \A c \in Buttons : loop[c] # None => loop'[c] # None /\ loop'[c].form = loop[c].form
          /\ \A j \in N!Forms : j # k => settled'[j] = settled[j]
          /\ loop'[b] = new
      BY <2>1, <2>2, <2>3 DEF FormIInv, FormTypes
    <2>5. \A j \in created : j \in N!Forms
      BY DEF FormIInv, FormTypes, N!Forms, FormConstants
    <2>6. ASSUME NEW j \in created
          PROVE  \/ settled'[j] = taken[j]
                 \/ \E c \in Buttons : post[c] # None /\ post[c].form = j
                 \/ \E c \in Buttons : loop'[c] # None /\ loop'[c].form = j
      <3>1. CASE j = k
        BY <2>3, <2>4, <3>1
      <3>2. CASE j # k
        <4>1. settled'[j] = settled[j]
          BY <2>4, <2>5, <3>2
        <4> QED BY <2>4, <4>1 DEF FormQuiet
      <3> QED BY <3>1, <3>2
    <2> QED BY <2>2, <2>6 DEF FormQuiet
  <1>7. ASSUME NEW b \in Buttons, N!LoopEnds(b) PROVE FormQuiet'
    <2>1. /\ loop[b] # None /\ loop[b].left = {} /\ loop' = [loop EXCEPT ![b] = None]
          /\ UNCHANGED <<post, lost, created, taken, settled>>
      BY <1>7 DEF N!LoopEnds
    <2>2. \A c \in Buttons : c # b => loop'[c] = loop[c]
      BY <2>1 DEF FormIInv, FormTypes
    <2>3. settled[loop[b].form] = taken[loop[b].form]
      <3>1. PICK k : k = loop[b].form /\ k \in N!Forms
        BY <2>1, ButtonHas DEF FormIInv
      <3>2. loop[b].left = taken[k] \ settled[k] /\ settled[k] \subseteq taken[k]
        BY <2>1, <3>1 DEF FormIInv, Tally
      <3> QED BY <2>1, <3>1, <3>2
    <2> QED BY <2>1, <2>2, <2>3 DEF FormQuiet
  <1>8. ASSUME NEW p \in lost, N!CommitLost(p) PROVE FormQuiet'
    BY DEF FormQuiet
  <1>9. CASE N!Refetched
    <2>1. N!Unmounted({}) /\ UNCHANGED <<created, taken, settled>>
      <3>1. {Cta} \cap Buttons = {}
        OBVIOUS
      <3> QED BY <1>9, <3>1 DEF N!Refetched
    <2>2. modal' = modal /\ post' = post /\ loop' = loop /\ lost' = lost
      BY <2>1, NothingGone DEF FormIInv
    <2> QED BY <2>1, <2>2 DEF FormQuiet
  <1>10. CASE N!Switch
    BY <1>10 DEF N!Switch
  <1>11. CASE UNCHANGED N!vars
    BY <1>11 DEF N!vars, FormQuiet
  <1> QED BY <1>1, <1>2, <1>3, <1>4, <1>5, <1>6, <1>7, <1>8, <1>9, <1>10, <1>11 DEF N!Next

\* Where the button stays, everything that was staged when Create was pressed is
\* attached or reported once nothing is under way, also for a user who does not
\* wait: cancelling or changing a form while Create spins takes nothing from its
\* card (frontend.md: one that fails blocks no other).
THEOREM EverythingIsSettled ==
    FormConstants /\ Cta \notin Buttons /\ ~Switches /\ N!Spec => []N!StagedIsSettled
  <1> SUFFICES ASSUME FormConstants, Cta \notin Buttons, ~Switches
               PROVE  N!Spec => []N!StagedIsSettled
    OBVIOUS
  <1>1. N!Init => FormIInv /\ FormQuiet
    BY FormBegins, QuietBegins
  <1>2. FormIInv /\ FormQuiet /\ [N!Next]_(N!vars) => FormIInv' /\ FormQuiet'
    BY FormStep, QuietStep
  <1>3. FormQuiet => N!StagedIsSettled
    BY DEF FormQuiet, N!StagedIsSettled
  <1> QED BY <1>1, <1>2, <1>3, PTL DEF N!Spec

LEMMA PatientStep ==
    ASSUME FormConstants, FormIInv, FormPatient, Patient, Cta \notin Buttons, ~Switches,
           [N!Next]_(N!vars)
    PROVE  FormPatient' /\ N!OnlyItsOwnModalCloses
  <1>1. ASSUME NEW b \in Buttons, N!Press(b)
        PROVE  FormPatient' /\ \A c \in Buttons : modal[c] = None
    <2>1. \A c \in Buttons : modal[c] = None /\ UNCHANGED <<post, loop>>
      BY <1>1 DEF N!Press
    <2>2. \A c \in Buttons : post[c] = None /\ loop[c] = None
      BY <2>1 DEF FormPatient
    <2> QED BY <2>1, <2>2 DEF FormPatient
  <1>2. ASSUME NEW b \in Buttons, N!Cancel(b)
        PROVE  FormPatient' /\ \A c \in Buttons : modal[c] # None /\ modal'[c] = None => N!Cancel(c)
    <2>1. post[b] = None /\ ~(loop[b] # None /\ loop[b].mounted)
          /\ modal' = [modal EXCEPT ![b] = None] /\ UNCHANGED <<post, loop, created, taken>>
      BY <1>2 DEF N!Cancel, N!Submitting
    <2>2. loop[b] = None
      BY <2>1 DEF FormPatient
    <2>3. \A c \in Buttons : c # b => modal'[c] = modal[c]
      BY <2>1 DEF FormIInv, FormTypes
    <2>4. FormPatient'
      BY <2>1, <2>2, <2>3 DEF FormPatient
    <2> QED BY <1>2, <2>3, <2>4
  <1>3. ASSUME NEW b \in Buttons, NEW i \in N!Items, N!Stage(b, i)
        PROVE  FormPatient' /\ \A c \in Buttons : modal[c] # None => modal'[c] # None
    <2>1. PICK new : new = [modal[b] EXCEPT !.staged = @ \cup {i}]
      OBVIOUS
    <2>2. /\ modal[b] # None /\ modal' = [modal EXCEPT ![b] = new]
          /\ post[b] = None /\ ~(loop[b] # None /\ loop[b].mounted)
          /\ UNCHANGED <<post, loop, created, taken>>
      BY <1>3, <2>1 DEF N!Stage, N!Submitting
    <2>3. new # None
      <3>1. PICK k, staged : /\ modal[b] = [form |-> k, staged |-> staged]
                             /\ k \in N!Forms /\ staged \subseteq N!Items
        BY <2>2, ButtonHas DEF FormIInv
      <3>2. new = [form |-> k, staged |-> staged \cup {i}]
        BY <2>1, <3>1
      <3>3. new \in Staging
        BY <3>1, <3>2 DEF Staging
      <3> QED BY <3>3 DEF FormConstants
    <2>4. loop[b] = None
      BY <2>2 DEF FormPatient
    <2>5. modal'[b] = new /\ \A c \in Buttons : c # b => modal'[c] = modal[c]
      BY <2>2 DEF FormIInv, FormTypes
    <2>6. FormPatient'
      BY <2>2, <2>4, <2>5 DEF FormPatient
    <2> QED BY <2>3, <2>5, <2>6
  <1>4. ASSUME NEW b \in Buttons, N!Create(b) PROVE FormPatient' /\ modal' = modal
    <2>1. PICK k, set, new : /\ k = modal[b].form /\ set = modal[b].staged
                             /\ new = [form |-> k, staged |-> set]
      OBVIOUS
    <2>2. /\ modal[b] # None /\ post[b] = None /\ ~(loop[b] # None /\ loop[b].mounted)
          /\ post' = [post EXCEPT ![b] = new] /\ taken' = [taken EXCEPT ![k] = set]
          /\ UNCHANGED <<modal, loop, created>>
      BY <1>4, <2>1 DEF N!Create, N!MayCreate, N!Submitting
    <2>3. modal[b] = new /\ k \in N!Forms
      BY <2>1, <2>2, ButtonHas DEF FormIInv
    <2>4. \A c \in Buttons : loop[c] # None => loop[c].form # k /\ loop[c].form \in N!Forms
      BY <2>1, <2>2, ButtonHas DEF FormIInv, Owned
    <2>5. post'[b] = new /\ \A c \in Buttons : c # b => post'[c] = post[c]
      BY <2>2 DEF FormIInv, FormTypes
    <2>6. \A j \in N!Forms : j # k => taken'[j] = taken[j]
      BY <2>2 DEF FormIInv, FormTypes
    <2> QED BY <2>2, <2>3, <2>4, <2>5, <2>6 DEF FormPatient
  <1>5. ASSUME NEW b \in Buttons, N!Commit(b) PROVE FormPatient' /\ modal' = modal
    BY <1>5 DEF N!Commit, FormPatient
  <1>6. ASSUME NEW b \in Buttons, N!Answered(b)
        PROVE  /\ FormPatient'
               /\ \A c \in Buttons : modal[c] # None /\ modal'[c] = None
                     => modal[c].form \in created /\ modal[c].staged = taken[modal[c].form]
    <2>1. /\ post[b] # None /\ post[b].form \in created /\ post' = [post EXCEPT ![b] = None]
          /\ UNCHANGED <<created, taken>>
      BY <1>6 DEF N!Answered
    <2>2. modal[b] = post[b] /\ post[b].staged = taken[post[b].form]
      BY <2>1 DEF FormPatient, FormIInv, Tally
    <2>3. post'[b] = None /\ \A c \in Buttons : c # b => post'[c] = post[c]
      BY <2>1 DEF FormIInv, FormTypes
    <2>4. CASE post[b].staged = {}
      <3>1. modal' = [modal EXCEPT ![b] = None] /\ loop' = loop
        BY <1>6, <2>4 DEF N!Answered, N!Closed
      <3>2. modal'[b] = None /\ \A c \in Buttons : c # b => modal'[c] = modal[c]
        BY <3>1 DEF FormIInv, FormTypes
      <3>3. loop[b] = None
        BY <2>1, <2>2 DEF FormPatient, FormIInv, Apart
      <3>4. FormPatient'
        BY <2>1, <2>3, <3>1, <3>2, <3>3 DEF FormPatient
      <3> QED BY <2>1, <2>2, <3>2, <3>4
    <2>5. CASE post[b].staged # {}
      <3>1. PICK new : new = [form |-> post[b].form, left |-> post[b].staged, mounted |-> TRUE]
        OBVIOUS
      <3>2. modal' = modal /\ loop' = [loop EXCEPT ![b] = new]
        BY <1>6, <2>5, <3>1 DEF N!Answered
      <3>3. loop'[b] = new /\ \A c \in Buttons : c # b => loop'[c] = loop[c]
        BY <3>2 DEF FormIInv, FormTypes
      <3>4. new.form = post[b].form /\ new.mounted
        BY <3>1
      <3>5. FormPatient'
        BY <2>1, <2>2, <2>3, <3>2, <3>3, <3>4 DEF FormPatient
      <3> QED BY <3>2, <3>5
    <2> QED BY <2>4, <2>5
  <1>7. ASSUME NEW b \in Buttons, N!Failed(b) PROVE FormPatient' /\ modal' = modal
    <2>1. post' = [post EXCEPT ![b] = None] /\ UNCHANGED <<modal, loop, created, taken>>
      BY <1>7 DEF N!Failed
    <2>2. post'[b] = None /\ \A c \in Buttons : c # b => post'[c] = post[c]
      BY <2>1 DEF FormIInv, FormTypes
    <2> QED BY <2>1, <2>2 DEF FormPatient
  <1>8. ASSUME NEW b \in Buttons, NEW i \in N!Items, N!Applied(b, i)
        PROVE  FormPatient' /\ modal' = modal
    <2>1. PICK new : new = [loop[b] EXCEPT !.left = @ \ {i}]
      OBVIOUS
    <2>2. /\ loop[b] # None /\ loop' = [loop EXCEPT ![b] = new]
          /\ UNCHANGED <<modal, post, created, taken>>
      BY <1>8, <2>1 DEF N!Applied
    <2>3. new.form = loop[b].form /\ new.mounted = loop[b].mounted
      <3>1. PICK k, left, mounted : loop[b] = [form |-> k, left |-> left, mounted |-> mounted]
        BY <2>2, ButtonHas DEF FormIInv
      <3>2. new = [form |-> k, left |-> left \ {i}, mounted |-> mounted]
        BY <2>1, <3>1
      <3> QED BY <3>1, <3>2
    <2>4. loop'[b] = new /\ \A c \in Buttons : c # b => loop'[c] = loop[c]
      BY <2>2 DEF FormIInv, FormTypes
    <2> QED BY <2>2, <2>3, <2>4 DEF FormPatient
  <1>9. ASSUME NEW b \in Buttons, N!LoopEnds(b)
        PROVE  /\ FormPatient'
               /\ \A c \in Buttons : modal[c] # None /\ modal'[c] = None
                     => modal[c].form \in created /\ modal[c].staged = taken[modal[c].form]
    <2>1. loop[b] # None /\ loop' = [loop EXCEPT ![b] = None] /\ UNCHANGED <<post, created, taken>>
      BY <1>9 DEF N!LoopEnds
    <2>2. /\ loop[b].mounted /\ modal[b] # None /\ modal[b].form = loop[b].form
          /\ modal[b].staged = taken[loop[b].form] /\ loop[b].form \in created
      BY <2>1 DEF FormPatient
    <2>3. modal' = [modal EXCEPT ![b] = None]
      BY <1>9, <2>2 DEF N!LoopEnds, N!Closed
    <2>4. /\ modal'[b] = None /\ \A c \in Buttons : c # b => modal'[c] = modal[c]
          /\ loop'[b] = None /\ \A c \in Buttons : c # b => loop'[c] = loop[c]
      BY <2>1, <2>3 DEF FormIInv, FormTypes
    <2>5. post[b] = None
      BY <2>1, <2>2 DEF FormPatient, FormIInv, Apart
    <2>6. FormPatient'
      BY <2>1, <2>4, <2>5 DEF FormPatient
    <2> QED BY <2>2, <2>4, <2>6
  <1>10. ASSUME NEW p \in lost, N!CommitLost(p) PROVE FormPatient' /\ modal' = modal
    BY <1>10 DEF N!CommitLost, FormPatient
  <1>11. CASE N!Refetched
    <2>1. N!Unmounted({}) /\ UNCHANGED <<created, taken>>
      <3>1. {Cta} \cap Buttons = {}
        OBVIOUS
      <3> QED BY <1>11, <3>1 DEF N!Refetched
    <2>2. modal' = modal /\ post' = post /\ loop' = loop
      BY <2>1, NothingGone DEF FormIInv
    <2> QED BY <2>1, <2>2 DEF FormPatient, N!OnlyItsOwnModalCloses
  <1>12. CASE N!Switch
    BY <1>12 DEF N!Switch
  <1>13. CASE UNCHANGED N!vars
    BY <1>13 DEF N!vars, FormPatient, N!OnlyItsOwnModalCloses
  <1> QED BY <1>1, <1>2, <1>3, <1>4, <1>5, <1>6, <1>7, <1>8, <1>9, <1>10, <1>11, <1>12, <1>13
          DEF N!Next, N!OnlyItsOwnModalCloses

\* The modal of a user who waits is closed by them or by the card made from it,
\* with everything staged in it taken: a card made by another button or for an
\* earlier form closes no form that is being filled in (NewCardButton.tsx).
THEOREM FormsStayOpen ==
    FormConstants /\ Patient /\ Cta \notin Buttons /\ ~Switches /\ N!Spec =>
        [][N!OnlyItsOwnModalCloses]_(N!vars)
  <1> SUFFICES ASSUME FormConstants, Patient, Cta \notin Buttons, ~Switches
               PROVE  N!Spec => [][N!OnlyItsOwnModalCloses]_(N!vars)
    OBVIOUS
  <1>1. N!Init => FormIInv /\ FormPatient
    BY FormBegins, QuietBegins
  <1>2. FormIInv /\ FormPatient /\ [N!Next]_(N!vars) => FormIInv' /\ FormPatient'
    BY FormStep, PatientStep
  <1>3. FormIInv /\ FormPatient /\ [N!Next]_(N!vars) => [N!OnlyItsOwnModalCloses]_(N!vars)
    BY PatientStep
  <1> QED BY <1>1, <1>2, <1>3, PTL DEF N!Spec
=============================================================================
