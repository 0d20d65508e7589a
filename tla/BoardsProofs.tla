---------------------------- MODULE BoardsProofs ----------------------------
(***************************************************************************)
(* Proofs about Boards.tla, for any boards, groups, roles, users and any    *)
(* number of administrators at once: a board is always open, what boards    *)
(* grant exists, and every change is made by somebody who may make it at    *)
(* its commit.  They rest on the lock: what a request has checked still     *)
(* holds when it commits, because nobody else has written since.            *)
(* And about the other thing administrators edit, Locations.tla: the tree   *)
(* stays whole whatever calls overlap, on either adapter; about what people *)
(* who may see a board are told, Notifications.tla; and about the cards     *)
(* that people ask for from Slack, SlackIntake.tla.                         *)
(***************************************************************************)
EXTENDS Boards, FiniteSetTheorems, SequenceTheorems, WellFoundedInduction, TLAPS

CONSTANTS Nodes, Names, Cards, Seed, Postgres, MaxCalls     \* of Locations
VARIABLES row, used, loc, tx, calls                         \* of Locations

Site == INSTANCE Locations

CONSTANTS System, Token, MaxCard, MaxEvents, Lossy, Fickle, Discards    \* of Notifications
VARIABLES home, watchers, sees, active, events, issued, hints, notices, owed

Told == INSTANCE Notifications

CONSTANTS Mentions, Shortcuts, Commands, UserOf, Linked, Capacity, Limit, Window,
    MaxDeliveries, MaxTries, MaxTime, MaxFailures, MaxCrashes           \* of SlackIntake
VARIABLES deliveries, recency, dedup, modal, tries, step, tickets, replies, hits, granted,
    now, failures, crashes

Slack == INSTANCE SlackIntake

-----------------------------------------------------------------------------
(* The stores under one change that fits.                                   *)

LEMMA SubjectsAreTagged ==
    ASSUME NEW s \in Subjects
    PROVE  /\ s[1] = "role"  => \E k \in Roles  : s = RoleSubject(k)
           /\ s[1] = "group" => \E g \in Groups : s = GroupSubject(g)
           /\ s[1] = "user"  => \E u \in Users  : s = UserSubject(u)
  BY DEF Subjects, Everybody, RoleSubject, GroupSubject, UserSubject

LEMMA StoresInit == Init => StoresInv
  <1> SUFFICES ASSUME Init PROVE StoresInv
    OBVIOUS
  <1>1. 1 \in Boards
    BY BoardsAssumption DEF Boards
  <1>2. StoresType
    BY <1>1 DEF Init, StoresType, Subjects, Initial
  <1>3. OpenBoards = {1}
    BY <1>1 DEF Init, OpenBoards, Initial
  <1>4. GrantsResolve
    BY <1>1, <1>3 DEF Init, GrantsResolve, Known, Everybody, Initial
  <1> QED
    BY <1>2, <1>3, <1>4 DEF StoresInv, LastBoardStays

\* A board that is created, or opened to others.
LEMMA WriteBoardKeeps ==
    ASSUME StoresInv, NEW op \in Ops, NEW by \in Users, Fits(op, by), WriteBoard(op)
    PROVE  StoresInv'
  <1>1. /\ op.kind \in {"create", "update"} /\ op.board \in Boards
        /\ op.access \subseteq Subjects /\ op.defaults \subseteq Subjects
    BY OpsAssumption DEF WriteBoard
  <1>2. Known(op.access) /\ Known(op.defaults)
    BY <1>1 DEF Fits, Known
  <1>3. /\ board' = [board EXCEPT ![op.board] = "open"]
        /\ access' = [access EXCEPT ![op.board] = op.access]
        /\ default' = SavedDefaults(op.board, op.defaults)
        /\ UNCHANGED <<members, role>>
    BY DEF WriteBoard
  <1>4. StoresType'
    BY <1>1, <1>3 DEF StoresInv, StoresType, SavedDefaults
  <1>5. OpenBoards' = OpenBoards \cup {op.board}
    BY <1>1, <1>3 DEF OpenBoards, StoresInv, StoresType
  <1>6. \A s \in Subjects : default'[s] # None => default[s] # None \/ s \in op.defaults
    BY <1>3 DEF SavedDefaults
  <1>7. GrantsResolve'
    <2>1. \A b \in OpenBoards' : Known(access'[b])
      BY <1>1, <1>2, <1>3, <1>5 DEF StoresInv, StoresType, GrantsResolve
    <2>2. Known({s \in Subjects : default'[s] # None})
      BY <1>2, <1>6 DEF StoresInv, GrantsResolve, Known
    <2> QED
      BY <1>3, <2>1, <2>2 DEF GrantsResolve, Known
  <1> QED
    BY <1>4, <1>5, <1>7 DEF StoresInv, LastBoardStays

\* A board is archived only while another one is open.
LEMMA ArchiveBoardKeeps ==
    ASSUME StoresInv, NEW op \in Ops, NEW by \in Users, Fits(op, by), ArchiveBoard(op)
    PROVE  StoresInv'
  <1>1. /\ op.kind = "remove" /\ op.board \in Boards
        /\ board' = [board EXCEPT ![op.board] = "archived"]
        /\ UNCHANGED <<access, default, members, role>>
    BY OpsAssumption DEF ArchiveBoard
  <1>2. Cardinality(OpenBoards) > 1
    BY <1>1 DEF Fits
  <1>3. OpenBoards' = OpenBoards \ {op.board}
    BY <1>1 DEF OpenBoards, StoresInv, StoresType
  <1>4. OpenBoards' # {}
    <2> SUFFICES ASSUME OpenBoards' = {} PROVE FALSE
      OBVIOUS
    <2>1. OpenBoards \subseteq {op.board}
      BY <1>3
    <2>2. Cardinality({op.board}) = 1 /\ IsFiniteSet({op.board})
      BY FS_Singleton
    <2>3. Cardinality(OpenBoards) <= 1 /\ Cardinality(OpenBoards) \in Nat
      BY <2>1, <2>2, FS_Subset, FS_CardinalityType
    <2> QED
      BY <1>2, <2>3
  <1>5. StoresType'
    BY <1>1 DEF StoresInv, StoresType
  <1>6. GrantsResolve'
    BY <1>1, <1>3 DEF StoresInv, GrantsResolve, Known
  <1> QED
    BY <1>4, <1>5, <1>6 DEF StoresInv, LastBoardStays

LEMMA SaveGroupKeeps ==
    ASSUME StoresInv, NEW op \in Ops, SaveGroup(op)
    PROVE  StoresInv'
  <1>1. /\ op.group \in Groups /\ op.users # None /\ op.users \subseteq Users
        /\ members' = [members EXCEPT ![op.group] = op.users]
        /\ UNCHANGED <<board, access, default, role>>
    BY OpsAssumption DEF SaveGroup
  <1>2. StoresType' /\ OpenBoards' = OpenBoards
    BY <1>1 DEF StoresInv, StoresType, OpenBoards
  <1>3. \A x : members[x] # None => members'[x] # None
    BY <1>1 DEF StoresInv, StoresType
  <1>4. GrantsResolve'
    BY <1>1, <1>2, <1>3 DEF StoresInv, GrantsResolve, Known
  <1> QED
    BY <1>2, <1>4 DEF StoresInv, LastBoardStays

\* A group goes only when no board is open to it; its default goes with it.
LEMMA RemoveGroupKeeps ==
    ASSUME StoresInv, NEW op \in Ops, NEW by \in Users, Fits(op, by), RemoveGroup(op)
    PROVE  StoresInv'
  <1>1. /\ op.kind = "remove group" /\ op.group \in Groups
        /\ members' = [members EXCEPT ![op.group] = None]
        /\ default' = [default EXCEPT ![GroupSubject(op.group)] = None]
        /\ UNCHANGED <<board, access, role>>
    BY OpsAssumption DEF RemoveGroup
  <1>2. \A b \in OpenBoards : GroupSubject(op.group) \notin access[b]
    BY <1>1 DEF Fits
  <1>3. GroupSubject(op.group) \in Subjects
    BY <1>1 DEF Subjects
  <1>4. StoresType' /\ OpenBoards' = OpenBoards
    BY <1>1, <1>3 DEF StoresInv, StoresType, OpenBoards
  <1>5. ASSUME NEW s \in Subjects, s # GroupSubject(op.group), Known({s})
        PROVE  Known({s})'
    <2>1. s[1] = "group" => s[2] \in Groups /\ s[2] # op.group
      BY <1>5, SubjectsAreTagged DEF GroupSubject
    <2> QED
      BY <1>1, <1>5, <2>1 DEF Known, StoresInv, StoresType
  <1>6. ASSUME NEW b \in OpenBoards PROVE Known(access[b])'
    <2>1. access[b] \subseteq Subjects /\ GroupSubject(op.group) \notin access[b]
      BY <1>2 DEF StoresInv, StoresType, OpenBoards
    <2>2. \A s \in access[b] : Known({s})
      BY DEF StoresInv, GrantsResolve, Known
    <2>3. \A s \in access[b] : Known({s})'
      BY <1>5, <2>1, <2>2
    <2> QED
      BY <1>1, <2>3 DEF Known
  <1>7. ASSUME NEW s \in Subjects, default'[s] # None PROVE Known({s})'
    <2>1. default[s] # None /\ s # GroupSubject(op.group)
      BY <1>1, <1>3, <1>7 DEF StoresInv, StoresType
    <2>2. Known({s})
      BY <2>1 DEF StoresInv, GrantsResolve, Known
    <2> QED
      BY <1>5, <2>1, <2>2
  <1>8. GrantsResolve'
    BY <1>4, <1>6, <1>7 DEF GrantsResolve, Known
  <1> QED
    BY <1>4, <1>8 DEF StoresInv, LastBoardStays

LEMMA ApplyPolicyKeeps ==
    ASSUME StoresInv, NEW op \in Ops, NEW by \in Users, Fits(op, by), ApplyPolicy(op)
    PROVE  StoresInv'
  <1>1. /\ op.kind = "roles"
        /\ op.role \in [Roles -> {None} \cup SUBSET Permissions]
        /\ role' = op.role
        /\ default' = [s \in Subjects |->
                         IF s[1] = "role" /\ op.role[s[2]] = None THEN None ELSE default[s]]
        /\ UNCHANGED <<board, access, members>>
    BY OpsAssumption DEF ApplyPolicy
  <1>2. \A b \in OpenBoards, k \in Roles :
            op.role[k] = None => RoleSubject(k) \notin access[b]
    BY <1>1 DEF Fits
  <1>3. OpenBoards' = OpenBoards
    BY <1>1 DEF OpenBoards
  <1>4. StoresType'
    <2>1. default' \in [Subjects -> Boards \cup {None}]
      BY <1>1 DEF StoresInv, StoresType
    <2> QED
      BY <1>1, <2>1 DEF StoresInv, StoresType
  <1>5. ASSUME NEW s \in Subjects, Known({s}),
               s[1] = "role" => op.role[s[2]] # None
        PROVE  Known({s})'
    BY <1>1, <1>5 DEF Known
  <1>6. ASSUME NEW b \in OpenBoards, NEW s \in access[b] PROVE Known({s})'
    <2>1. s \in Subjects
      BY DEF StoresInv, StoresType, OpenBoards
    <2>2. Known({s})
      BY DEF StoresInv, GrantsResolve, Known
    <2>3. s[1] = "role" => op.role[s[2]] # None
      BY <1>2, <2>1, SubjectsAreTagged DEF RoleSubject
    <2> QED
      BY <1>5, <2>1, <2>2, <2>3
  <1>7. ASSUME NEW s \in Subjects, default'[s] # None PROVE Known({s})'
    <2>1. default[s] # None /\ (s[1] = "role" => op.role[s[2]] # None)
      BY <1>1, <1>7
    <2>2. Known({s})
      BY <2>1 DEF StoresInv, GrantsResolve, Known
    <2> QED
      BY <1>5, <2>1, <2>2
  <1>8. GrantsResolve'
    <2>1. (\A b \in OpenBoards : Known(access[b]))'
      BY <1>1, <1>3, <1>6 DEF Known
    <2>2. Known({s \in Subjects : default[s] # None})'
      BY <1>7 DEF Known
    <2> QED
      BY <2>1, <2>2 DEF GrantsResolve
  <1> QED
    BY <1>3, <1>4, <1>8 DEF StoresInv, LastBoardStays

LEMMA PreferKeeps ==
    ASSUME StoresInv, NEW op \in Ops, Prefer(op)
    PROVE  StoresInv'
  <1>1. /\ op.user \in Users /\ op.board \in Boards \cup {None}
        /\ default' = [default EXCEPT ![UserSubject(op.user)] = op.board]
        /\ UNCHANGED <<board, access, members, role>>
    BY OpsAssumption DEF Prefer
  <1>2. UserSubject(op.user) \in Subjects /\ UserSubject(op.user)[1] = "user"
    BY <1>1 DEF Subjects, UserSubject
  <1>3. StoresType' /\ OpenBoards' = OpenBoards
    BY <1>1, <1>2 DEF StoresInv, StoresType, OpenBoards
  <1>4. \A s \in Subjects : default'[s] # None => default[s] # None \/ s[1] = "user"
    BY <1>1, <1>2 DEF StoresInv, StoresType
  <1>5. GrantsResolve'
    BY <1>1, <1>3, <1>4 DEF StoresInv, GrantsResolve, Known
  <1> QED
    BY <1>3, <1>5 DEF StoresInv, LastBoardStays

LEMMA SameStores ==
    ASSUME StoresInv, UNCHANGED stores
    PROVE  StoresInv'
  BY DEF stores, StoresInv, StoresType, LastBoardStays, GrantsResolve, OpenBoards, Known

-----------------------------------------------------------------------------
(* The lock.                                                                *)

LEMMA SameAnswer ==
    ASSUME UNCHANGED stores, NEW op, NEW by
    PROVE  /\ Fits(op, by)' <=> Fits(op, by)
           /\ Permitted(op, by)' <=> Permitted(op, by)
  <1>1. UNCHANGED <<board, access, default, members, role>>
    BY DEF stores
  <1>2. Manages(by)' <=> Manages(by)
    BY <1>1 DEF Manages
  <1>3. Known(op.access \cup op.defaults)' <=> Known(op.access \cup op.defaults)
    BY <1>1 DEF Known
  <1>4. SubjectsOf(by)' = SubjectsOf(by)
    BY <1>1 DEF SubjectsOf, GroupsOf
  <1>5. Sees(by, op.board)' <=> Sees(by, op.board)
    BY <1>1, <1>2, <1>4 DEF Sees
  <1>6. OpenBoards' = OpenBoards
    BY <1>1 DEF OpenBoards
  <1>7. Fits(op, by)' <=> Fits(op, by)
    BY <1>1, <1>3, <1>5, <1>6 DEF Fits
  <1> QED
    BY <1>2, <1>7 DEF Permitted

\* A step of r that writes no store leaves what the others have checked.
LEMMA OthersKeep ==
    ASSUME BoardsInv, UNCHANGED stores, Exclusive',
           \A r \in Requests : req'[r].at = "checked" =>
              \/ req'[r] = req[r]
              \/ Permitted(req'[r].op, req'[r].by) /\ Fits(req'[r].op, req'[r].by)
    PROVE  BoardsInv'
  <1>1. StoresInv'
    BY SameStores DEF BoardsInv
  <1>2. ASSUME NEW r \in Requests, req'[r].at = "checked"
        PROVE  (Permitted(req[r].op, req[r].by) /\ Fits(req[r].op, req[r].by))'
    <2> DEFINE op == req'[r].op
               by == req'[r].by
    <2>1. Permitted(op, by) /\ Fits(op, by)
      BY <1>2 DEF BoardsInv, StillFits
    <2> QED
      BY <2>1, SameAnswer DEF stores, Fits, Permitted
  <1> QED
    BY <1>1, <1>2 DEF BoardsInv, StillFits

LEMMA AskKeeps ==
    ASSUME BoardsInv, NEW r \in Requests, NEW op \in Ops, NEW u \in Users, Ask(r, op, u)
    PROVE  BoardsInv'
  <1>1. /\ req[r].at \in {"done", "over"} /\ UNCHANGED <<stores, lock>>
        /\ req' = [req EXCEPT ![r] = [at |-> "waiting", op |-> op, by |-> u]]
    BY DEF Ask
  <1>2. Exclusive'
    BY <1>1 DEF BoardsInv, Exclusive, Rows
  <1> QED
    BY <1>1, <1>2, OthersKeep DEF BoardsInv, Exclusive

\* The lock is granted only while nobody has it.
LEMMA LockKeeps ==
    ASSUME BoardsInv, NEW r \in Requests, Lock(r)
    PROVE  BoardsInv'
  <1>1. /\ req[r].at = "waiting" /\ lock = None /\ lock' = r /\ UNCHANGED stores
        /\ req' = [req EXCEPT ![r].at = "holding"]
    BY DEF Lock, Goes
  <1>2. None \notin Requests
    BY BoardsAssumption
  <1>3. req'[r].at = "holding" /\ req' \in [Requests -> Rows]
    BY <1>1 DEF BoardsInv, Exclusive, Rows
  <1>4. Exclusive'
    BY <1>1, <1>2, <1>3 DEF BoardsInv, Exclusive
  <1> QED
    BY <1>1, <1>3, <1>4, OthersKeep DEF BoardsInv, Exclusive

LEMMA CheckKeeps ==
    ASSUME BoardsInv, NEW r \in Requests, Check(r)
    PROVE  BoardsInv'
  <1>1. /\ req[r].at = "holding" /\ UNCHANGED <<stores, lock>>
        /\ Permitted(req[r].op, req[r].by) /\ Fits(req[r].op, req[r].by)
        /\ req' = [req EXCEPT ![r].at = "checked"]
    BY DEF Check, Goes
  <1>2. /\ req'[r].at = "checked" /\ req' \in [Requests -> Rows]
        /\ req'[r].op = req[r].op /\ req'[r].by = req[r].by
    BY <1>1 DEF BoardsInv, Exclusive, Rows
  <1>3. Exclusive'
    BY <1>1, <1>2 DEF BoardsInv, Exclusive
  <1> QED
    BY <1>1, <1>2, <1>3, OthersKeep DEF BoardsInv, Exclusive

\* Whoever has the lock gives it back, the stores as they are or written.
LEMMA ReleaseFrees ==
    ASSUME Exclusive, NEW r \in Requests, req[r].at \in {"holding", "checked"},
           NEW at \in {"done", "over"}, Release(r, at)
    PROVE  Exclusive' /\ lock' = None /\ \A p \in Requests : req'[p].at # "checked"
  <1>1. lock' = None /\ req' = [req EXCEPT ![r] = [at |-> at]] /\ lock = r
    BY DEF Release, Exclusive
  <1>2. None \notin Requests
    BY BoardsAssumption
  <1> QED
    BY <1>1, <1>2 DEF Exclusive, Rows

LEMMA GiveUpKeeps ==
    ASSUME BoardsInv, NEW r \in Requests, Refuse(r) \/ Abort(r)
    PROVE  BoardsInv'
  <1>1. /\ req[r].at \in {"holding", "checked"} /\ Release(r, "over") /\ UNCHANGED stores
    BY DEF Refuse, Abort
  <1>2. Exclusive' /\ \A p \in Requests : req'[p].at # "checked"
    BY <1>1, ReleaseFrees DEF BoardsInv
  <1> QED
    BY <1>1, <1>2, OthersKeep

LEMMA CommitKeeps ==
    ASSUME BoardsInv, NEW r \in Requests, Commit(r)
    PROVE  BoardsInv'
  <1> DEFINE op == req[r].op
             by == req[r].by
  <1>1. req[r].at = "checked" /\ Release(r, "done")
    BY DEF Commit
  <1>2. op \in Ops /\ by \in Users
    BY <1>1 DEF BoardsInv, Exclusive, Rows
  <1>3. Fits(op, by)
    BY <1>1 DEF BoardsInv, StillFits
  <1>4. StoresInv
    BY DEF BoardsInv
  <1>5. \/ WriteBoard(op) \/ ArchiveBoard(op) \/ SaveGroup(op)
        \/ RemoveGroup(op) \/ ApplyPolicy(op) \/ Prefer(op)
    BY DEF Commit
  <1> HIDE DEF op, by
  <1>6. StoresInv'
    BY <1>2, <1>3, <1>4, <1>5, WriteBoardKeeps, ArchiveBoardKeeps, SaveGroupKeeps,
       RemoveGroupKeeps, ApplyPolicyKeeps, PreferKeeps
  <1>7. Exclusive' /\ \A p \in Requests : req'[p].at # "checked"
    BY <1>1, ReleaseFrees DEF BoardsInv
  <1> QED
    BY <1>6, <1>7 DEF BoardsInv, StillFits

LEMMA BoardsInit == Init => BoardsInv
  <1>1. Init => Exclusive /\ StillFits
    BY BoardsAssumption DEF Init, Exclusive, StillFits, Rows
  <1> QED
    BY <1>1, StoresInit DEF BoardsInv

LEMMA BoardsStep ==
    ASSUME BoardsInv, [Next]_vars
    PROVE  BoardsInv'
  <1>1. CASE UNCHANGED vars
    <2>1. UNCHANGED <<stores, lock, req>>
      BY <1>1 DEF vars, stores
    <2> QED
      BY <2>1, OthersKeep DEF BoardsInv, Exclusive
  <1>2. CASE Next
    BY <1>2, AskKeeps, LockKeeps, CheckKeeps, GiveUpKeeps, CommitKeeps DEF Next, Runs
  <1> QED
    BY <1>1, <1>2

\* However many removals, renamings and policies are under way, the invariant
\* holds: the types, the lock, and what was checked under it.
THEOREM BoardsCorrect == Spec => []BoardsInv
  <1>1. BoardsInv /\ [Next]_vars => BoardsInv'
    BY BoardsStep
  <1> QED
    BY <1>1, BoardsInit, PTL DEF Spec

\* Two removals at once never archive the last two boards (board-service.ts
\* remove).
THEOREM LastBoardCorrect == Spec => []LastBoardStays
  <1>1. BoardsInv => LastBoardStays
    BY DEF BoardsInv, StoresInv
  <1> QED
    BY <1>1, BoardsCorrect, PTL

\* No open board is granted to a role or group that is gone, and none of them
\* has a default (board-service.ts validateAccess, removeGroup,
\* ensureNoOrphanedRole).
THEOREM GrantsCorrect == Spec => []GrantsResolve
  <1>1. BoardsInv => GrantsResolve
    BY DEF BoardsInv, StoresInv
  <1> QED
    BY <1>1, BoardsCorrect, PTL

\* Whoever commits a change may make it at that moment, whatever was committed
\* while the request waited for the lock.
THEOREM AuthorityCorrect == Spec => AuthorityIsCurrent
  <1>1. ASSUME BoardsInv, NEW r \in Requests, req[r].at = "checked"
        PROVE  LET op == req[r].op
               IN  IF op.kind # "prefer" THEN Manages(req[r].by)
                   ELSE op.board # None => Sees(req[r].by, op.board)
    <2> DEFINE op == req[r].op
               by == req[r].by
    <2>1. Permitted(op, by) /\ Fits(op, by)
      BY <1>1 DEF BoardsInv, StillFits
    <2> HIDE DEF op, by
    <2>2. IF op.kind # "prefer" THEN Manages(by) ELSE op.board # None => Sees(by, op.board)
      BY <2>1 DEF Permitted, Fits
    <2> QED
      BY <2>2 DEF op, by
  <1>2. BoardsInv /\ [Next]_vars =>
          [\A r \in Requests : req[r].at = "checked" /\ req'[r].at = "done" =>
             LET op == req[r].op
             IN  IF op.kind # "prefer" THEN Manages(req[r].by)
                 ELSE op.board # None => Sees(req[r].by, op.board)]_vars
    BY <1>1
  <1> QED
    BY <1>2, BoardsCorrect, PTL DEF Spec, AuthorityIsCurrent

-----------------------------------------------------------------------------
(* The board a user lands on.                                               *)

\* A set of natural numbers has a least member.
LEMMA LeastMember ==
    ASSUME NEW S, S \subseteq Nat, S # {}
    PROVE  Min(S) \in S
  <1>1. PICK x \in S : \A y \in S : <<y, x>> \notin OpToRel(<, Nat)
    BY NatLessThanWellFounded, WFMin, Zenon
  <1>2. \A y \in S : ~(y < x)
    <2>1. S \subseteq Nat
      OBVIOUS
    <2>2. ASSUME NEW y \in S, y < x PROVE FALSE
      <3>1. <<y, x>> \in Nat \X Nat /\ <<y, x>>[1] = y /\ <<y, x>>[2] = x
        BY <2>1
      <3> QED BY <1>1, <2>2, <3>1, Zenon DEF OpToRel
    <2> QED BY <2>2
  <1>3. \A y \in S : x <= y
    BY <1>2
  <1> QED
    BY <1>3 DEF Min

\* The catalogue leads every user to a board that is open to them, if there is
\* one (board-service.ts list): a default counts only where it is visible.
THEOREM LandingCorrect == Spec => []LandsOnVisible
  <1>1. ASSUME NEW u \in Users
        PROVE  Landing(u) \in (IF Visible(u) = {} THEN {None} ELSE Visible(u))
    <2> DEFINE targets == IF Visible(u) = {} THEN {None} ELSE Visible(u)
               candidates == << Defaults(u, {UserSubject(u)}),
                                Defaults(u, {GroupSubject(g) : g \in GroupsOf(u)}),
                                Defaults(u, {RoleSubject(RoleOf[u])}),
                                Defaults(u, {Everybody}),
                                IF Visible(u) = {} THEN {None} ELSE {Min(Visible(u))} >>
               clear == {i \in DOMAIN candidates : Cardinality(candidates[i]) = 1}
    <2>1. Visible(u) \subseteq Nat
      BY DEF Visible, Boards
    <2>2. candidates[5] \subseteq targets /\ Cardinality(candidates[5]) = 1
      <3>1. CASE Visible(u) = {}
        BY <3>1, FS_Singleton
      <3>2. CASE Visible(u) # {}
        BY <2>1, <3>2, LeastMember, FS_Singleton
      <3> QED BY <3>1, <3>2
    <2>3. \A i \in 1 .. 4 : candidates[i] \subseteq Visible(u)
      BY DEF Defaults
    <2>4. \A i \in 1 .. 5 : candidates[i] \subseteq targets
      <3> HIDE DEF candidates
      <3>1. \A i \in 1 .. 5 : i \in 1 .. 4 \/ i = 5
        OBVIOUS
      <3> QED BY <2>2, <2>3, <3>1
    <2>5. DOMAIN candidates = 1 .. 5
      OBVIOUS
    <2>6. 5 \in clear /\ clear \subseteq 1 .. 5
      BY <2>2, <2>5
    <2> HIDE DEF candidates
    <2>7. Min(clear) \in clear
      BY <2>6, LeastMember
    <2>8. Cardinality(candidates[Min(clear)]) = 1 /\ candidates[Min(clear)] \subseteq targets
      BY <2>4, <2>6, <2>7
    <2>9. candidates[Min(clear)] # {}
      BY <2>8, FS_EmptySet
    <2>10. (CHOOSE b \in candidates[Min(clear)] : TRUE) \in targets
      BY <2>8, <2>9
    <2> QED
      BY <2>10 DEF Landing, candidates
  <1>2. LandsOnVisible
    BY <1>1 DEF LandsOnVisible
  <1> QED
    BY <1>2, PTL

-----------------------------------------------------------------------------
(* The tree of locations, for any tree, any cards and any number of calls   *)
(* at once, on either adapter.                                              *)

PlaceRows == [kind : Site!Kinds, parent : Nodes \cup {None}, name : Names]

\* A sound tree to begin with; None is no node, no row, no kind and no pc.
TreeConstants ==
    /\ Seed \in [Nodes -> PlaceRows \cup {None}]
    /\ \A n \in Nodes : Seed[n] # None =>
          LET k == Site!RequiredParent[Seed[n].kind]
          IN  IF k = None THEN Seed[n].parent = None
              ELSE /\ Seed[n].parent # None /\ Seed[Seed[n].parent] # None
                   /\ Seed[Seed[n].parent].kind = k
    /\ None \notin Nodes \cup PlaceRows \cup Site!Kinds /\ "kept" \notin Nodes \cup {None}
    /\ None \notin {"create", "rename", "delete", "card"}

CreateCalls == [op : {"create"}, pc : {"find", "unique", "write", "commit"}, node : Nodes,
                kind : Site!Kinds, parent : Nodes \cup {None}, name : Names]
RenameCalls == [op : {"rename"}, pc : {"find", "unique", "write", "commit"}, node : Nodes,
                name : Names, parent : Nodes \cup {None}]
DeleteCalls == [op : {"delete"}, pc : {"find", "walk", "clear", "rows"}, node : Nodes,
                levels : Seq(SUBSET Nodes), cleared : SUBSET Cards, gone : SUBSET Nodes]
EditCalls == [op : {"card"}, pc : {"find", "write", "commit"}, card : Cards,
              to : Nodes \cup {None, "kept"}]
CallShape(t) ==
    t.pc = "done" \/ t \in CreateCalls \/ t \in RenameCalls \/ t \in DeleteCalls \/ t \in EditCalls

TreeTypes ==
    /\ row \in [Nodes -> PlaceRows \cup {None}]
    /\ used \subseteq Nodes /\ \A n \in Nodes : row[n] # None => n \in used
    /\ loc \in [Cards -> Nodes \cup {None}]
    /\ tx = [r \in Requests |-> tx[r]]
    /\ \A r \in Requests : CallShape(tx[r])

Doing(r, op) == tx[r].pc # "done" /\ tx[r].op = op

\* What an open unit of work has removed, the cards whose rows it holds, and
\* the nodes that what it has written stands on.
GoneBy(r) == IF Doing(r, "delete") THEN tx[r].gone ELSE {}
HeldBy(r) == IF Doing(r, "delete") THEN tx[r].cleared
             ELSE IF Doing(r, "card") /\ tx[r].pc = "commit" THEN {tx[r].card} ELSE {}
StandsOn(r) ==
    IF tx[r].pc # "commit" THEN {}
    ELSE IF tx[r].op = "create" THEN {tx[r].parent}
    ELSE IF tx[r].op = "rename" THEN {tx[r].node} ELSE {tx[r].to}

\* What a call knows of its parent stays true: a node that was there may go,
\* and comes never back as another kind.
CreateOK(r) ==
    LET t == tx[r]
        k == Site!RequiredParent[t.kind]
    IN  /\ t.node \in used /\ row[t.node] = None
        /\ t.parent \in used \cup {None} /\ t.parent # t.node
        /\ t.pc # "find" => /\ t.parent = None <=> k = None
                            /\ Site!Exists(t.parent) => row[t.parent].kind = k
        /\ t.pc = "commit" /\ t.parent # None => Site!Exists(t.parent)
RenameOK(r) ==
    tx[r].node \in used /\ (tx[r].pc = "commit" => Site!Exists(tx[r].node))

\* A row is gone with everything that hung on it, and the cards that are
\* cleared are those of rows that are gone or will be.
DeleteOK(r) ==
    LET t == tx[r]
    IN  /\ \A n \in t.gone : /\ Site!Exists(n)
                             /\ \A m \in Nodes : Site!Exists(m) /\ row[m].parent = n => m \in t.gone
                             /\ \A c \in Cards : loc[c] = n => c \in t.cleared
        /\ \A c \in t.cleared : loc[c] \in t.gone \cup Site!Subtree(r)
        /\ t.pc # "rows" => t.gone = {} /\ t.cleared = {}
EditOK(r) ==
    LET t == tx[r]
    IN  /\ t.pc # "find" => t.to \in Nodes \cup {None}
        /\ t.pc = "commit" /\ t.to # None => Site!Exists(t.to)

CallOK(r) ==
    /\ Doing(r, "create") => CreateOK(r)
    /\ Doing(r, "rename") => RenameOK(r)
    /\ Doing(r, "delete") => DeleteOK(r)
    /\ Doing(r, "card") => EditOK(r)

\* What keeps two units of work apart: the ids are new, and the locks.
ApartFrom(r, s) ==
    /\ Doing(r, "create") /\ Doing(s, "create") =>
          tx[r].node # tx[s].node /\ (tx[r].pc # "find" => tx[r].parent # tx[s].node)
    /\ StandsOn(r) \cap GoneBy(s) = {}
    /\ HeldBy(r) \cap HeldBy(s) = {}
    /\ GoneBy(r) \cap GoneBy(s) = {}

TreeIInv ==
    /\ TreeTypes
    /\ Site!TreeIsSound
    /\ \A r \in Requests : CallOK(r)
    /\ \A r, s \in Requests : r # s => ApartFrom(r, s)

LEMMA ShapeIs ==
    ASSUME NEW r \in Requests, TreeTypes
    PROVE  /\ Doing(r, "create") => tx[r] \in CreateCalls
           /\ Doing(r, "rename") => tx[r] \in RenameCalls
           /\ Doing(r, "delete") => tx[r] \in DeleteCalls
           /\ Doing(r, "card") => tx[r] \in EditCalls
           /\ tx[r].pc # "done" => Doing(r, "create") \/ Doing(r, "rename") \/ Doing(r, "delete")
                                   \/ Doing(r, "card")
  <1>1. CallShape(tx[r])
    BY DEF TreeTypes
  <1> QED
    BY <1>1 DEF CallShape, Doing, CreateCalls, RenameCalls, DeleteCalls, EditCalls

\* Only one call is in another state.
LEMMA OthersStay ==
    ASSUME TreeTypes, NEW r \in Requests, NEW t, tx' = [tx EXCEPT ![r] = t]
    PROVE  /\ tx'[r] = t
           /\ \A s \in Requests \ {r} : tx'[s] = tx[s]
           /\ tx' = [s \in Requests |-> tx'[s]]
  BY DEF TreeTypes

\* A step within a unit of work: the tables stay as they are.
LEMMA LocalStep ==
    ASSUME TreeIInv, NEW r \in Requests, NEW t, tx' = [tx EXCEPT ![r] = t], UNCHANGED <<row, loc>>,
           used \subseteq used', used' \subseteq Nodes,
           CallShape(t), CallOK(r)',
           \A s \in Requests \ {r} : (ApartFrom(r, s) /\ ApartFrom(s, r))'
    PROVE  TreeIInv'
  <1>1. TreeTypes
    BY DEF TreeIInv
  <1>2. /\ tx'[r] = t /\ tx' = [s \in Requests |-> tx'[s]]
        /\ \A s \in Requests \ {r} : tx'[s] = tx[s]
    BY <1>1, OthersStay
  <1>3. TreeTypes'
    <2>1. \A s \in Requests : CallShape(tx'[s])
      BY <1>1, <1>2 DEF TreeTypes
    <2> QED BY <1>1, <1>2, <2>1 DEF TreeTypes
  <1>4. Site!TreeIsSound'
    BY DEF TreeIInv, Site!TreeIsSound, Site!Exists
  <1>5. ASSUME NEW s \in Requests \ {r} PROVE CallOK(s)'
    <2>1. CallOK(s) /\ tx'[s] = tx[s]
      BY <1>2, <1>5 DEF TreeIInv
    <2> QED
      BY <2>1 DEF CallOK, Doing, CreateOK, RenameOK, DeleteOK, EditOK, Site!Exists, Site!Subtree
  <1>6. ASSUME NEW s \in Requests \ {r}, NEW q \in Requests \ {r}, s # q PROVE ApartFrom(s, q)'
    <2>1. ApartFrom(s, q) /\ tx'[s] = tx[s] /\ tx'[q] = tx[q]
      BY <1>2, <1>6 DEF TreeIInv
    <2> QED
      BY <2>1 DEF ApartFrom, Doing, StandsOn, GoneBy, HeldBy
  <1> QED
    BY <1>3, <1>4, <1>5, <1>6 DEF TreeIInv

\* A call ends: with it go its locks.
LEMMA EndsApart ==
    ASSUME NEW r \in Requests, NEW s \in Requests, tx'[r].pc = "done"
    PROVE  CallOK(r)' /\ ApartFrom(r, s)' /\ ApartFrom(s, r)'
  <1>1. ~Doing(r, "create")' /\ ~Doing(r, "rename")' /\ ~Doing(r, "delete")' /\ ~Doing(r, "card")'
    BY DEF Doing
  <1>2. StandsOn(r)' = {} /\ GoneBy(r)' = {} /\ HeldBy(r)' = {}
    BY <1>1 DEF StandsOn, GoneBy, HeldBy
  <1> QED
    BY <1>1, <1>2 DEF CallOK, ApartFrom

LEMMA FailKeeps ==
    ASSUME TreeIInv, NEW r \in Requests, NEW result, Site!Fail(r, result), used' = used
    PROVE  TreeIInv'
  <1>1. PICK t : tx' = [tx EXCEPT ![r] = t] /\ t.pc = "done" /\ UNCHANGED <<row, loc>>
    <2>1. [op |-> tx[r].op, pc |-> "done", result |-> result].pc = "done"
      OBVIOUS
    <2> QED BY <2>1 DEF Site!Fail
  <1>2. tx'[r].pc = "done"
    BY <1>1, OthersStay DEF TreeIInv
  <1>3. used' \subseteq Nodes /\ used \subseteq used' /\ CallShape(t)
    BY <1>1 DEF TreeIInv, TreeTypes, CallShape
  <1> QED
    BY <1>1, <1>2, <1>3, EndsApart, LocalStep

\* A unit of work commits.
LEMMA CommitStep ==
    ASSUME TreeIInv, NEW r \in Requests, Site!Done(r), used' = used,
           row' \in [Nodes -> PlaceRows \cup {None}], \A n \in Nodes : row'[n] # None => n \in used,
           loc' \in [Cards -> Nodes \cup {None}], Site!TreeIsSound',
           \A s \in Requests \ {r} : tx'[s] = tx[s] => CallOK(s)'
    PROVE  TreeIInv'
  <1>1. PICK t : tx' = [tx EXCEPT ![r] = t] /\ t.pc = "done"
    <2>1. [op |-> tx[r].op, pc |-> "done", result |-> "ok"].pc = "done"
      OBVIOUS
    <2> QED BY <2>1 DEF Site!Done
  <1>2. /\ tx'[r] = t /\ tx' = [s \in Requests |-> tx'[s]]
        /\ \A s \in Requests \ {r} : tx'[s] = tx[s]
    BY <1>1, OthersStay DEF TreeIInv
  <1>3. TreeTypes'
    <2>1. \A s \in Requests : CallShape(tx'[s])
      BY <1>1, <1>2 DEF TreeIInv, TreeTypes, CallShape
    <2> QED BY <1>2, <2>1 DEF TreeIInv, TreeTypes
  <1>4. ASSUME NEW s \in Requests, NEW q \in Requests, s # q PROVE ApartFrom(s, q)'
    <2>1. CASE s = r \/ q = r
      BY <1>1, <1>2, <2>1, EndsApart
    <2>2. CASE s # r /\ q # r
      <3>1. ApartFrom(s, q) /\ tx'[s] = tx[s] /\ tx'[q] = tx[q]
        BY <1>2, <1>4, <2>2 DEF TreeIInv
      <3> QED
        BY <3>1 DEF ApartFrom, Doing, StandsOn, GoneBy, HeldBy
    <2> QED BY <2>1, <2>2
  <1>5. CallOK(r)'
    BY <1>1, <1>2, EndsApart
  <1> QED
    BY <1>2, <1>3, <1>4, <1>5 DEF TreeIInv

\* A step that takes no lock, of a call that is no create.
LEMMA QuietStep ==
    ASSUME TreeIInv, NEW r \in Requests, NEW t, tx' = [tx EXCEPT ![r] = t], UNCHANGED <<row, loc>>,
           used' = used, CallShape(t), CallOK(r)', t.op # "create",
           StandsOn(r)' \subseteq StandsOn(r), GoneBy(r)' \subseteq GoneBy(r),
           HeldBy(r)' \subseteq HeldBy(r)
    PROVE  TreeIInv'
  <1>1. /\ tx'[r] = t
        /\ \A s \in Requests \ {r} : tx'[s] = tx[s]
    BY OthersStay DEF TreeIInv
  <1>2. ASSUME NEW s \in Requests \ {r} PROVE (ApartFrom(r, s) /\ ApartFrom(s, r))'
    <2>1. ApartFrom(r, s) /\ ApartFrom(s, r) /\ tx'[s] = tx[s]
      BY <1>1, <1>2 DEF TreeIInv
    <2>2. StandsOn(s)' = StandsOn(s) /\ GoneBy(s)' = GoneBy(s) /\ HeldBy(s)' = HeldBy(s)
      BY <2>1 DEF StandsOn, GoneBy, HeldBy, Doing
    <2>3. ~Doing(r, "create")'
      BY <1>1 DEF Doing
    <2> QED BY <2>1, <2>2, <2>3 DEF ApartFrom
  <1>3. used \subseteq used' /\ used' \subseteq Nodes
    BY DEF TreeIInv, TreeTypes
  <1> QED BY <1>2, <1>3, LocalStep

LEMMA RenameBegins ==
    ASSUME TreeIInv, NEW r \in Requests, Site!Rename(r)
    PROVE  TreeIInv'
  <1>1. PICK n \in used, m \in Names :
           Site!Begin(r, [op |-> "rename", pc |-> "find", node |-> n, name |-> m, parent |-> None])
    BY DEF Site!Rename
  <1>2. PICK t : t = [op |-> "rename", pc |-> "find", node |-> n, name |-> m, parent |-> None]
    OBVIOUS
  <1>3. tx' = [tx EXCEPT ![r] = t] /\ UNCHANGED <<row, loc>> /\ used' = used
    BY <1>1, <1>2 DEF Site!Begin, Site!Rename
  <1>4. t.op = "rename" /\ t.pc = "find" /\ t.node \in used /\ t \in RenameCalls
    BY <1>2 DEF RenameCalls, TreeIInv, TreeTypes
  <1>5. tx'[r] = t
    BY <1>3, OthersStay DEF TreeIInv
  <1>6. CallOK(r)'
    BY <1>3, <1>4, <1>5 DEF CallOK, RenameOK, Doing
  <1>7. StandsOn(r)' = {} /\ GoneBy(r)' = {} /\ HeldBy(r)' = {}
    BY <1>4, <1>5 DEF StandsOn, GoneBy, HeldBy, Doing
  <1> QED BY <1>3, <1>4, <1>6, <1>7, QuietStep DEF CallShape

LEMMA DeleteBegins ==
    ASSUME TreeIInv, NEW r \in Requests, Site!Delete(r)
    PROVE  TreeIInv'
  <1>1. PICK n \in used :
           Site!Begin(r, [op |-> "delete", pc |-> "find", node |-> n, levels |-> <<{n}>>,
                       cleared |-> {}, gone |-> {}])
    BY DEF Site!Delete
  <1>2. PICK t : t = [op |-> "delete", pc |-> "find", node |-> n, levels |-> <<{n}>>,
                      cleared |-> {}, gone |-> {}]
    OBVIOUS
  <1>3. tx' = [tx EXCEPT ![r] = t] /\ UNCHANGED <<row, loc>> /\ used' = used
    BY <1>1, <1>2 DEF Site!Begin, Site!Delete
  <1>4. t.op = "delete" /\ t.pc = "find" /\ t.gone = {} /\ t.cleared = {}
    BY <1>2
  <1>5. t \in DeleteCalls
    <2>1. n \in Nodes /\ <<{n}>> \in Seq(SUBSET Nodes)
      BY DEF TreeIInv, TreeTypes
    <2> QED BY <1>2, <2>1 DEF DeleteCalls
  <1>6. tx'[r] = t
    BY <1>3, OthersStay DEF TreeIInv
  <1>7. CallOK(r)'
    BY <1>4, <1>6 DEF CallOK, DeleteOK, Doing
  <1>8. StandsOn(r)' = {} /\ GoneBy(r)' = {} /\ HeldBy(r)' = {}
    BY <1>4, <1>6 DEF StandsOn, GoneBy, HeldBy, Doing
  <1> QED BY <1>3, <1>4, <1>5, <1>7, <1>8, QuietStep DEF CallShape

LEMMA EditBegins ==
    ASSUME TreeIInv, NEW r \in Requests, Site!EditCard(r)
    PROVE  TreeIInv'
  <1>1. PICK c \in Cards, to \in used \cup {None, "kept"} :
           Site!Begin(r, [op |-> "card", pc |-> "find", card |-> c, to |-> to])
    BY DEF Site!EditCard
  <1>2. PICK t : t = [op |-> "card", pc |-> "find", card |-> c, to |-> to]
    OBVIOUS
  <1>3. tx' = [tx EXCEPT ![r] = t] /\ UNCHANGED <<row, loc>> /\ used' = used
    BY <1>1, <1>2 DEF Site!Begin, Site!EditCard
  <1>4. t.op = "card" /\ t.pc = "find" /\ t \in EditCalls
    BY <1>2 DEF EditCalls, TreeIInv, TreeTypes
  <1>5. tx'[r] = t
    BY <1>3, OthersStay DEF TreeIInv
  <1>6. CallOK(r)'
    BY <1>4, <1>5 DEF CallOK, EditOK, Doing
  <1>7. StandsOn(r)' = {} /\ GoneBy(r)' = {} /\ HeldBy(r)' = {}
    BY <1>4, <1>5 DEF StandsOn, GoneBy, HeldBy, Doing
  <1> QED BY <1>3, <1>4, <1>6, <1>7, QuietStep DEF CallShape

LEMMA CreateBegins ==
    ASSUME TreeIInv, TreeConstants, NEW r \in Requests, Site!Create(r)
    PROVE  TreeIInv'
  <1>1. PICK n \in Nodes \ used, k \in Site!Kinds, p \in used \cup {None}, m \in Names :
           /\ Site!Begin(r, [op |-> "create", pc |-> "find", node |-> n, kind |-> k,
                          parent |-> p, name |-> m])
           /\ used' = used \cup {n} /\ UNCHANGED <<row, loc>>
    BY DEF Site!Create
  <1>2. PICK t : t = [op |-> "create", pc |-> "find", node |-> n, kind |-> k,
                      parent |-> p, name |-> m]
    OBVIOUS
  <1>3. tx' = [tx EXCEPT ![r] = t]
    BY <1>1, <1>2 DEF Site!Begin
  <1>4. t.op = "create" /\ t.pc = "find" /\ t.node = n /\ t.parent = p
    BY <1>2
  <1>5. t \in CreateCalls
    <2>1. p \in Nodes \cup {None}
      BY DEF TreeIInv, TreeTypes
    <2> QED BY <1>2, <2>1 DEF CreateCalls
  <1>6. tx'[r] = t /\ \A s \in Requests \ {r} : tx'[s] = tx[s]
    BY <1>3, OthersStay DEF TreeIInv
  <1>7. row[n] = None /\ n # p
    <2>1. n # None /\ n # p
      BY <1>1 DEF TreeConstants
    <2> QED BY <2>1 DEF TreeIInv, TreeTypes
  <1>8. CallOK(r)'
    <2>1. CreateOK(r)'
      BY <1>1, <1>4, <1>6, <1>7 DEF CreateOK
    <2> QED BY <1>4, <1>6, <2>1 DEF CallOK, Doing
  <1>9. StandsOn(r)' = {} /\ GoneBy(r)' = {} /\ HeldBy(r)' = {}
    BY <1>4, <1>6 DEF StandsOn, GoneBy, HeldBy, Doing
  <1>10. ASSUME NEW s \in Requests \ {r} PROVE (ApartFrom(r, s) /\ ApartFrom(s, r))'
    <2>1. CallOK(s) /\ tx'[s] = tx[s]
      BY <1>6, <1>10 DEF TreeIInv
    <2>2. Doing(s, "create") => tx[s].node \in used /\ tx[s].parent \in used \cup {None}
      BY <2>1 DEF CallOK, CreateOK
    <2>3. Doing(s, "create")' => tx[s].node # n /\ tx[s].parent # n
      <3>1. n # None /\ n \notin used
        BY <1>1 DEF TreeConstants
      <3> QED BY <2>1, <2>2, <3>1 DEF Doing
    <2>4. (Doing(r, "create") /\ Doing(s, "create"))' =>
             /\ tx'[r].node # tx'[s].node
             /\ (tx'[r].pc # "find" => tx'[r].parent # tx'[s].node)
             /\ (tx'[s].pc # "find" => tx'[s].parent # tx'[r].node)
      BY <1>4, <1>6, <2>1, <2>3
    <2>5. StandsOn(s)' \cap GoneBy(r)' = {} /\ StandsOn(r)' \cap GoneBy(s)' = {}
          /\ HeldBy(r)' \cap HeldBy(s)' = {} /\ GoneBy(r)' \cap GoneBy(s)' = {}
      BY <1>9
    <2> QED BY <2>4, <2>5 DEF ApartFrom
  <1>11. used \subseteq used' /\ used' \subseteq Nodes
    BY <1>1 DEF TreeIInv, TreeTypes
  <1> QED BY <1>1, <1>3, <1>5, <1>8, <1>10, <1>11, LocalStep DEF CallShape

\* The reads of a unit of work.
LEMMA RenameReads ==
    ASSUME TreeIInv, TreeConstants, NEW r \in Requests, Site!RenameFind(r) \/ Site!RenameUnique(r)
    PROVE  TreeIInv'
  <1>1. tx[r] \in RenameCalls /\ tx[r].op = "rename" /\ tx[r].pc \in {"find", "unique"}
        /\ used' = used
    BY ShapeIs DEF Site!RenameFind, Site!RenameUnique, Site!At, TreeIInv, Doing
  <1>2. CASE \E result : Site!Fail(r, result)
    BY <1>1, <1>2, FailKeeps
  <1>3. ASSUME NEW t, tx' = [tx EXCEPT ![r] = t], UNCHANGED <<row, loc>>, t \in RenameCalls,
               t.pc \in {"unique", "write"}, t.node = tx[r].node
        PROVE  TreeIInv'
    <2>1. tx'[r] = t
      BY <1>3, OthersStay DEF TreeIInv
    <2>2. t.op = "rename" /\ t.pc # "commit"
      BY <1>3 DEF RenameCalls
    <2>3. CallOK(r)'
      <3>1. CallOK(r) /\ Doing(r, "rename")
        BY <1>1 DEF TreeIInv, Doing
      <3> QED
        BY <1>1, <1>3, <2>1, <2>2, <3>1 DEF CallOK, RenameOK, Doing
    <2>4. StandsOn(r)' = {} /\ GoneBy(r)' = {} /\ HeldBy(r)' = {}
      BY <2>1, <2>2 DEF StandsOn, GoneBy, HeldBy, Doing
    <2> QED BY <1>1, <1>3, <2>2, <2>3, <2>4, QuietStep DEF CallShape
  <1>4. CASE Site!RenameFind(r) /\ Site!Exists(tx[r].node)
    <2>1. PICK t : t = [tx[r] EXCEPT !.pc = "unique", !.parent = row[tx[r].node].parent]
      OBVIOUS
    <2>2. tx' = [tx EXCEPT ![r] = t] /\ UNCHANGED <<row, loc>>
      BY <1>4, <2>1 DEF Site!RenameFind, TreeIInv, TreeTypes
    <2>3. row[tx[r].node].parent \in Nodes \cup {None}
      BY <1>1, <1>4 DEF Site!Exists, TreeIInv, TreeTypes, RenameCalls, PlaceRows
    <2>4. t \in RenameCalls /\ t.pc = "unique" /\ t.node = tx[r].node
      BY <1>1, <2>1, <2>3 DEF RenameCalls
    <2> QED BY <1>3, <2>2, <2>4
  <1>5. CASE Site!RenameFind(r) /\ ~Site!Exists(tx[r].node)
    BY <1>2, <1>5 DEF Site!RenameFind
  <1>6. CASE Site!RenameUnique(r) /\ Site!Go(r, "write")
    <2>1. PICK t : t = [tx[r] EXCEPT !.pc = "write"]
      OBVIOUS
    <2>2. tx' = [tx EXCEPT ![r] = t] /\ UNCHANGED <<row, loc>>
      BY <1>6, <2>1 DEF Site!Go, TreeIInv, TreeTypes
    <2>3. t \in RenameCalls /\ t.pc = "write" /\ t.node = tx[r].node
      BY <1>1, <2>1 DEF RenameCalls
    <2> QED BY <1>3, <2>2, <2>3
  <1>7. Site!RenameUnique(r) => Site!Go(r, "write") \/ \E result : Site!Fail(r, result)
    BY DEF Site!RenameUnique, Site!Unique
  <1> QED BY <1>2, <1>4, <1>5, <1>6, <1>7

LEMMA DeleteReads ==
    ASSUME TreeIInv, NEW r \in Requests, Site!DeleteFind(r) \/ Site!CollectSubtree(r)
    PROVE  TreeIInv'
  <1>1. tx[r] \in DeleteCalls /\ tx[r].op = "delete" /\ tx[r].pc \in {"find", "walk"}
        /\ used' = used
    BY ShapeIs DEF Site!DeleteFind, Site!CollectSubtree, Site!At, TreeIInv, Doing
  <1>2. tx[r].gone = {} /\ tx[r].cleared = {}
    BY <1>1 DEF TreeIInv, CallOK, DeleteOK, Doing
  <1>3. CASE \E result : Site!Fail(r, result)
    BY <1>1, <1>3, FailKeeps
  <1>4. ASSUME NEW t, tx' = [tx EXCEPT ![r] = t], UNCHANGED <<row, loc>>, t \in DeleteCalls,
               t.pc \in {"walk", "clear"}, t.gone = {}, t.cleared = {}
        PROVE  TreeIInv'
    <2>1. tx'[r] = t
      BY <1>4, OthersStay DEF TreeIInv
    <2>2. t.op = "delete"
      BY <1>4 DEF DeleteCalls
    <2>3. CallOK(r)'
      BY <1>4, <2>1, <2>2 DEF CallOK, DeleteOK, Doing
    <2>4. StandsOn(r)' = {} /\ GoneBy(r)' = {} /\ HeldBy(r)' = {}
      BY <1>4, <2>1, <2>2 DEF StandsOn, GoneBy, HeldBy, Doing
    <2> QED BY <1>1, <1>4, <2>2, <2>3, <2>4, QuietStep DEF CallShape
  <1>5. ASSUME NEW pc \in {"walk", "clear"}, Site!Go(r, pc)
        PROVE  TreeIInv'
    <2>1. PICK t : t = [tx[r] EXCEPT !.pc = pc]
      OBVIOUS
    <2>2. tx' = [tx EXCEPT ![r] = t] /\ UNCHANGED <<row, loc>>
      BY <1>5, <2>1 DEF Site!Go, TreeIInv, TreeTypes
    <2>3. t \in DeleteCalls /\ t.pc \in {"walk", "clear"} /\ t.gone = {} /\ t.cleared = {}
      BY <1>1, <1>2, <2>1 DEF DeleteCalls
    <2> QED BY <1>4, <2>2, <2>3
  <1>6. CASE Site!DeleteFind(r)
    BY <1>3, <1>5, <1>6 DEF Site!DeleteFind
  <1>7. CASE Site!CollectSubtree(r) /\ ~Site!Go(r, "clear")
    <2>1. PICK level : /\ level = Site!Children(tx[r].levels[1]) \ Site!Subtree(r)
                       /\ tx' = [tx EXCEPT ![r].levels = <<level>> \o @]
                       /\ UNCHANGED <<row, loc>>
      BY <1>7 DEF Site!CollectSubtree
    <2>2. PICK t : t = [tx[r] EXCEPT !.levels = <<level>> \o @]
      OBVIOUS
    <2>3. tx' = [tx EXCEPT ![r] = t]
      BY <2>1, <2>2 DEF TreeIInv, TreeTypes
    <2>4. <<level>> \o tx[r].levels \in Seq(SUBSET Nodes)
      <3>1. level \in SUBSET Nodes /\ tx[r].levels \in Seq(SUBSET Nodes)
        BY <1>1, <2>1 DEF Site!Children, DeleteCalls
      <3>2. <<level>> \in Seq(SUBSET Nodes)
        BY <3>1
      <3> QED BY <3>1, <3>2
    <2>5. t \in DeleteCalls /\ t.pc = "walk" /\ t.gone = {} /\ t.cleared = {}
      BY <1>1, <1>2, <1>7, <2>2, <2>4 DEF DeleteCalls, Site!CollectSubtree, Site!At
    <2> QED BY <1>4, <2>1, <2>3, <2>5
  <1>8. CASE Site!Go(r, "clear")
    BY <1>5, <1>8
  <1> QED BY <1>6, <1>7, <1>8

LEMMA EditReads ==
    ASSUME TreeIInv, TreeConstants, NEW r \in Requests, Site!EditFind(r)
    PROVE  TreeIInv'
  <1>1. tx[r] \in EditCalls /\ tx[r].op = "card" /\ used' = used
    BY ShapeIs DEF Site!EditFind, Site!At, TreeIInv, Doing
  <1>2. CASE \E result : Site!Fail(r, result)
    BY <1>1, <1>2, FailKeeps
  <1>3. CASE ~\E result : Site!Fail(r, result)
    <2>1. PICK to : to = IF tx[r].to = "kept" THEN loc[tx[r].card] ELSE tx[r].to
      OBVIOUS
    <2>2. tx' = [tx EXCEPT ![r].pc = "write", ![r].to = to] /\ UNCHANGED <<row, loc>>
      BY <1>3, <2>1 DEF Site!EditFind
    <2>3. PICK t : t = [tx[r] EXCEPT !.pc = "write", !.to = to]
      OBVIOUS
    <2>4. tx' = [tx EXCEPT ![r] = t]
      BY <2>2, <2>3 DEF TreeIInv, TreeTypes
    <2>5. to \in Nodes \cup {None}
      BY <1>1, <2>1 DEF EditCalls, TreeIInv, TreeTypes
    <2>6. t \in EditCalls /\ t.op = "card" /\ t.pc = "write" /\ t.to = to
      BY <1>1, <2>3, <2>5 DEF EditCalls
    <2>7. tx'[r] = t
      BY <2>4, OthersStay DEF TreeIInv
    <2>8. CallOK(r)'
      BY <2>5, <2>6, <2>7 DEF CallOK, EditOK, Doing
    <2>9. StandsOn(r)' = {} /\ GoneBy(r)' = {} /\ HeldBy(r)' = {}
      BY <2>6, <2>7 DEF StandsOn, GoneBy, HeldBy, Doing
    <2> QED BY <1>1, <2>2, <2>4, <2>6, <2>8, <2>9, QuietStep DEF CallShape
  <1> QED BY <1>2, <1>3

LEMMA OpIs ==
    ASSUME NEW op, NEW r \in Requests, tx[r].op = op, tx[r].pc # "done"
    PROVE  Doing(r, op)
  BY DEF Doing

LEMMA CreateGoesOn ==
    ASSUME TreeIInv, TreeConstants, NEW r \in Requests, Doing(r, "create"),
           NEW pc \in {"unique", "write", "commit"}, Site!Go(r, pc), used' = used,
           tx[r].parent = None <=> Site!RequiredParent[tx[r].kind] = None,
           Site!Exists(tx[r].parent) => row[tx[r].parent].kind = Site!RequiredParent[tx[r].kind],
           tx[r].pc = "find" => tx[r].parent = None \/ Site!Exists(tx[r].parent),
           pc = "commit" => /\ tx[r].parent = None \/ Site!Exists(tx[r].parent)
                            /\ \A s \in Requests \ {r} : tx[r].parent \notin GoneBy(s)
    PROVE  TreeIInv'
  <1>1. tx[r] \in CreateCalls
    BY ShapeIs DEF TreeIInv
  <1>2. PICK t : t = [tx[r] EXCEPT !.pc = pc]
    OBVIOUS
  <1>3. tx' = [tx EXCEPT ![r] = t] /\ UNCHANGED <<row, loc>>
    BY <1>2 DEF Site!Go, TreeIInv, TreeTypes
  <1>4. /\ t \in CreateCalls /\ t.pc = pc /\ t.op = "create" /\ t.node = tx[r].node
        /\ t.parent = tx[r].parent /\ t.kind = tx[r].kind
    BY <1>1, <1>2 DEF CreateCalls
  <1>5. tx'[r] = t /\ \A s \in Requests \ {r} : tx'[s] = tx[s]
    BY <1>3, OthersStay DEF TreeIInv
  <1>6. CreateOK(r)
    BY DEF TreeIInv, CallOK
  <1>7. CallOK(r)'
    <2>1. CreateOK(r)'
      BY <1>3, <1>4, <1>5, <1>6 DEF CreateOK, Site!Exists
    <2> QED BY <1>4, <1>5, <2>1 DEF CallOK, Doing
  <1>8. ASSUME NEW s \in Requests \ {r} PROVE (ApartFrom(r, s) /\ ApartFrom(s, r))'
    <2>1. CallOK(s) /\ ApartFrom(r, s) /\ ApartFrom(s, r) /\ tx'[s] = tx[s]
      BY <1>5, <1>8 DEF TreeIInv
    <2>2. Doing(s, "create") => tx[s].node \in Nodes /\ row[tx[s].node] = None
      BY <2>1 DEF CallOK, CreateOK, TreeIInv, TreeTypes
    <2>3. Doing(s, "create") => tx[r].parent # tx[s].node
      <3>1. CASE tx[r].pc = "find"
        BY <2>2, <3>1 DEF TreeConstants, Site!Exists
      <3>2. CASE tx[r].pc # "find"
        BY <2>1, <3>2 DEF ApartFrom
      <3> QED BY <3>1, <3>2
    <2>4. (Doing(r, "create") /\ Doing(s, "create"))' =>
             /\ tx'[r].node # tx'[s].node
             /\ (tx'[r].pc # "find" => tx'[r].parent # tx'[s].node)
             /\ (tx'[s].pc # "find" => tx'[s].parent # tx'[r].node)
      BY <1>4, <2>1, <2>3, <1>5 DEF ApartFrom, Doing
    <2>5. StandsOn(s)' = StandsOn(s) /\ GoneBy(s)' = GoneBy(s) /\ HeldBy(s)' = HeldBy(s)
      BY <2>1 DEF StandsOn, GoneBy, HeldBy, Doing
    <2>6. GoneBy(r)' = {} /\ HeldBy(r)' = {}
          /\ StandsOn(r)' = IF pc = "commit" THEN {tx[r].parent} ELSE {}
      BY <1>4, <1>5 DEF StandsOn, GoneBy, HeldBy, Doing
    <2>7. StandsOn(r)' \cap GoneBy(s) = {}
      BY <2>6
    <2> QED BY <2>4, <2>5, <2>6, <2>7 DEF ApartFrom
  <1>9. used \subseteq used' /\ used' \subseteq Nodes
    BY DEF TreeIInv, TreeTypes
  <1> QED BY <1>3, <1>4, <1>7, <1>8, <1>9, LocalStep DEF CallShape

LEMMA CreateSteps ==
    ASSUME TreeIInv, TreeConstants, NEW r \in Requests,
           Site!CreateFind(r) \/ Site!CreateUnique(r) \/ Site!CreateInsert(r)
    PROVE  TreeIInv'
  <1>1. Doing(r, "create") /\ used' = used
    BY OpIs DEF Site!CreateFind, Site!CreateUnique, Site!CreateInsert, Site!At
  <1>2. CASE \E result : Site!Fail(r, result)
    BY <1>1, <1>2, FailKeeps
  <1>3. CreateOK(r) /\ tx[r] \in CreateCalls
    BY <1>1, ShapeIs DEF TreeIInv, CallOK
  <1>4. CASE Site!CreateFind(r) /\ ~\E result : Site!Fail(r, result)
    <2>1. PICK p, k : p = tx[r].parent /\ k = Site!RequiredParent[tx[r].kind]
      OBVIOUS
    <2>2. /\ ~((p = None) # (k = None)) /\ ~(p # None /\ ~Site!Exists(p))
          /\ ~(p # None /\ row[p].kind # k) /\ Site!Go(r, "unique")
      BY <1>4, <2>1 DEF Site!CreateFind
    <2>3. (p = None <=> k = None) /\ (Site!Exists(p) => row[p].kind = k) /\ (p = None \/ Site!Exists(p))
      BY <2>2 DEF Site!Exists
    <2> QED BY <1>1, <2>1, <2>2, <2>3, CreateGoesOn
  <1>5. CASE Site!CreateUnique(r) /\ ~\E result : Site!Fail(r, result)
    <2>1. Site!Go(r, "write") /\ tx[r].pc = "unique"
      BY <1>5, <1>1 DEF Site!CreateUnique, Site!Unique, Site!At
    <2>2. (tx[r].parent = None <=> Site!RequiredParent[tx[r].kind] = None)
          /\ (Site!Exists(tx[r].parent) => row[tx[r].parent].kind = Site!RequiredParent[tx[r].kind])
      BY <1>3, <2>1 DEF CreateOK
    <2> QED BY <1>1, <2>1, <2>2, CreateGoesOn
  <1>6. CASE Site!CreateInsert(r) /\ ~\E result : Site!Fail(r, result)
    <2>1. Site!Go(r, "commit") /\ tx[r].pc = "write"
          /\ (tx[r].parent = None \/ Site!Exists(tx[r].parent))
          /\ \A s \in Site!Others(r) : tx[r].parent \notin Site!Deleting(s)
      BY <1>6 DEF Site!CreateInsert, Site!At
    <2>2. (tx[r].parent = None <=> Site!RequiredParent[tx[r].kind] = None)
          /\ (Site!Exists(tx[r].parent) => row[tx[r].parent].kind = Site!RequiredParent[tx[r].kind])
      BY <1>3, <2>1 DEF CreateOK
    <2>3. ASSUME NEW s \in Requests \ {r} PROVE tx[r].parent \notin GoneBy(s)
      BY <2>1 DEF GoneBy, Doing, Site!Others, Site!Open, Site!Deleting
    <2> QED BY <1>1, <2>1, <2>2, <2>3, CreateGoesOn
  <1> QED BY <1>2, <1>4, <1>5, <1>6

LEMMA RenameWrites ==
    ASSUME TreeIInv, NEW r \in Requests, Site!RenameWrite(r)
    PROVE  TreeIInv'
  <1>1. tx[r] \in RenameCalls /\ Doing(r, "rename") /\ used' = used /\ tx[r].pc = "write"
    BY OpIs, ShapeIs DEF Site!RenameWrite, Site!At, TreeIInv
  <1>2. CASE \E result : Site!Fail(r, result)
    BY <1>1, <1>2, FailKeeps
  <1>3. CASE ~\E result : Site!Fail(r, result)
    <2>1. Site!Go(r, "commit") /\ Site!Exists(tx[r].node)
          /\ \A s \in Site!Others(r) : tx[r].node \notin Site!Deleting(s) \cup Site!Renaming(s)
      BY <1>3 DEF Site!RenameWrite
    <2>2. PICK t : t = [tx[r] EXCEPT !.pc = "commit"]
      OBVIOUS
    <2>3. tx' = [tx EXCEPT ![r] = t] /\ UNCHANGED <<row, loc>>
      BY <2>1, <2>2 DEF Site!Go, TreeIInv, TreeTypes
    <2>4. t \in RenameCalls /\ t.op = "rename" /\ t.pc = "commit" /\ t.node = tx[r].node
      BY <1>1, <2>2 DEF RenameCalls
    <2>5. tx'[r] = t /\ \A s \in Requests \ {r} : tx'[s] = tx[s]
      BY <2>3, OthersStay DEF TreeIInv
    <2>6. CallOK(r)'
      <3>1. tx[r].node \in used
        BY <1>1 DEF TreeIInv, CallOK, RenameOK
      <3>2. RenameOK(r)'
        BY <1>1, <2>1, <2>3, <2>4, <2>5, <3>1 DEF RenameOK, Site!Exists
      <3> QED BY <2>4, <2>5, <3>2 DEF CallOK, Doing
    <2>7. ASSUME NEW s \in Requests \ {r} PROVE (ApartFrom(r, s) /\ ApartFrom(s, r))'
      <3>1. ApartFrom(s, r) /\ tx'[s] = tx[s]
        BY <2>5, <2>7 DEF TreeIInv
      <3>2. tx[r].node \notin GoneBy(s)
        BY <2>1, <2>7 DEF GoneBy, Doing, Site!Others, Site!Open, Site!Deleting
      <3>3. StandsOn(r)' = {tx[r].node} /\ GoneBy(r)' = {} /\ HeldBy(r)' = {}
            /\ ~Doing(r, "create")'
        BY <2>4, <2>5 DEF StandsOn, GoneBy, HeldBy, Doing
      <3>4. StandsOn(s)' = StandsOn(s) /\ GoneBy(s)' = GoneBy(s) /\ HeldBy(s)' = HeldBy(s)
        BY <3>1 DEF StandsOn, GoneBy, HeldBy, Doing
      <3> QED BY <3>2, <3>3, <3>4 DEF ApartFrom
    <2>8. used \subseteq used' /\ used' \subseteq Nodes
      BY <1>1 DEF TreeIInv, TreeTypes
    <2> QED BY <2>3, <2>4, <2>6, <2>7, <2>8, LocalStep DEF CallShape
  <1> QED BY <1>2, <1>3

LEMMA EditWrites ==
    ASSUME TreeIInv, TreeConstants, NEW r \in Requests, Site!EditWrite(r)
    PROVE  TreeIInv'
  <1>1. tx[r] \in EditCalls /\ Doing(r, "card") /\ used' = used /\ tx[r].pc = "write"
    BY OpIs, ShapeIs DEF Site!EditWrite, Site!At, TreeIInv
  <1>2. CASE \E result : Site!Fail(r, result)
    BY <1>1, <1>2, FailKeeps
  <1>3. CASE ~\E result : Site!Fail(r, result)
    <2>1. PICK c, to, checked : /\ c = tx[r].card /\ to = tx[r].to
                                /\ checked = (to \notin {None, loc[c]})
      OBVIOUS
    <2>2. /\ \A s \in Site!Others(r) : c \notin Site!CardRows(s) /\ (checked => to \notin Site!Deleting(s))
          /\ ~(checked /\ ~Site!Exists(to)) /\ Site!Go(r, "commit")
      BY <1>3, <2>1 DEF Site!EditWrite
    <2>3. PICK t : t = [tx[r] EXCEPT !.pc = "commit"]
      OBVIOUS
    <2>4. tx' = [tx EXCEPT ![r] = t] /\ UNCHANGED <<row, loc>>
      BY <2>2, <2>3 DEF Site!Go, TreeIInv, TreeTypes
    <2>5. t \in EditCalls /\ t.op = "card" /\ t.pc = "commit" /\ t.to = to /\ t.card = c
      BY <1>1, <2>1, <2>3 DEF EditCalls
    <2>6. tx'[r] = t /\ \A s \in Requests \ {r} : tx'[s] = tx[s]
      BY <2>4, OthersStay DEF TreeIInv
    <2>7. EditOK(r) /\ c \in Cards /\ to \in Nodes \cup {None}
      BY <1>1, <2>1 DEF TreeIInv, CallOK, EditOK, EditCalls
    <2>8. to # None => Site!Exists(to)
      BY <2>1, <2>2, <2>7 DEF TreeIInv, Site!TreeIsSound
    <2>9. CallOK(r)'
      <3>1. EditOK(r)'
        BY <2>4, <2>5, <2>6, <2>7, <2>8 DEF EditOK, Site!Exists
      <3> QED BY <2>5, <2>6, <3>1 DEF CallOK, Doing
    <2>10. ASSUME NEW s \in Requests \ {r} PROVE (ApartFrom(r, s) /\ ApartFrom(s, r))'
      <3>1. ApartFrom(s, r) /\ tx'[s] = tx[s] /\ CallOK(s)
        BY <2>6, <2>10 DEF TreeIInv
      <3>2. c \notin HeldBy(s)
        BY <2>2, <2>10 DEF HeldBy, Doing, Site!Others, Site!Open, Site!CardRows, Site!Wrote
      <3>3. to \notin GoneBy(s)
        <4>1. CASE ~Doing(s, "delete")
          BY <4>1 DEF GoneBy
        <4>2. CASE Doing(s, "delete") /\ checked
          BY <2>2, <2>10, <4>2 DEF GoneBy, Doing, Site!Others, Site!Open, Site!Deleting
        <4>3. CASE Doing(s, "delete") /\ ~checked
          <5>1. tx[s] \in DeleteCalls /\ DeleteOK(s)
            BY <3>1, <4>3, ShapeIs DEF TreeIInv, CallOK
          <5>2. to = None => to \notin GoneBy(s)
            BY <4>3, <5>1 DEF GoneBy, DeleteCalls, TreeConstants
          <5>3. to = loc[c] /\ to \in GoneBy(s) => c \in HeldBy(s)
            BY <4>3, <5>1, <2>7 DEF GoneBy, HeldBy, DeleteOK
          <5> QED BY <2>1, <3>2, <4>3, <5>2, <5>3
        <4> QED BY <4>1, <4>2, <4>3
      <3>4. StandsOn(r)' = {to} /\ GoneBy(r)' = {} /\ HeldBy(r)' = {c}
            /\ ~Doing(r, "create")'
        BY <2>5, <2>6 DEF StandsOn, GoneBy, HeldBy, Doing
      <3>5. StandsOn(s)' = StandsOn(s) /\ GoneBy(s)' = GoneBy(s) /\ HeldBy(s)' = HeldBy(s)
        BY <3>1 DEF StandsOn, GoneBy, HeldBy, Doing
      <3> QED BY <3>2, <3>3, <3>4, <3>5 DEF ApartFrom
    <2>11. used \subseteq used' /\ used' \subseteq Nodes
      BY <1>1 DEF TreeIInv, TreeTypes
    <2> QED BY <2>4, <2>5, <2>9, <2>10, <2>11, LocalStep DEF CallShape
  <1> QED BY <1>2, <1>3

LEMMA LevelsShrink ==
    ASSUME NEW q \in Seq(SUBSET Nodes), q # << >>
    PROVE  /\ Head(q) = {} => /\ Tail(q) \in Seq(SUBSET Nodes)
                              /\ \A n \in Nodes : (\E i \in DOMAIN q : n \in q[i])
                                                  => \E i \in DOMAIN Tail(q) : n \in Tail(q)[i]
           /\ \A n \in Nodes :
                 /\ [q EXCEPT ![1] = @ \ {n}] \in Seq(SUBSET Nodes)
                 /\ \A i \in DOMAIN q :
                       i \in DOMAIN [q EXCEPT ![1] = @ \ {n}]
                       /\ q[i] \ {n} \subseteq [q EXCEPT ![1] = @ \ {n}][i]
  <1>1. ASSUME Head(q) = {} PROVE Tail(q) \in Seq(SUBSET Nodes)
    OBVIOUS
  <1>2. ASSUME Head(q) = {}, NEW n \in Nodes, NEW i \in DOMAIN q, n \in q[i]
        PROVE  \E j \in DOMAIN Tail(q) : n \in Tail(q)[j]
    <2>1. i # 1 /\ i \in 1..Len(q)
      BY <1>2
    <2>2. i - 1 \in DOMAIN Tail(q) /\ Tail(q)[i - 1] = q[i]
      BY <2>1
    <2> QED BY <1>2, <2>2
  <1>3. ASSUME NEW n \in Nodes
        PROVE  /\ [q EXCEPT ![1] = @ \ {n}] \in Seq(SUBSET Nodes)
               /\ \A i \in DOMAIN q :
                       i \in DOMAIN [q EXCEPT ![1] = @ \ {n}]
                       /\ q[i] \ {n} \subseteq [q EXCEPT ![1] = @ \ {n}][i]
    OBVIOUS
  <1> QED BY <1>1, <1>2, <1>3

LEMMA DeleteGoesOn ==
    ASSUME TreeIInv, NEW r \in Requests, Doing(r, "delete"), tx[r].pc \in {"clear", "rows"},
           NEW t \in DeleteCalls, t.pc = "rows",
           tx' = [tx EXCEPT ![r] = t], UNCHANGED <<row, loc>>, used' = used,
           \A n \in t.gone : /\ Site!Exists(n)
                             /\ \A m \in Nodes : Site!Exists(m) /\ row[m].parent = n => m \in t.gone
                             /\ \A c \in Cards : loc[c] = n => c \in t.cleared,
           \A c \in t.cleared : loc[c] \in t.gone \/ \E i \in DOMAIN t.levels : loc[c] \in t.levels[i],
           \A s \in Requests \ {r} : /\ t.gone \cap StandsOn(s) = {} /\ t.gone \cap GoneBy(s) = {}
                                     /\ t.cleared \cap HeldBy(s) = {}
    PROVE  TreeIInv'
  <1>1. tx'[r] = t /\ \A s \in Requests \ {r} : tx'[s] = tx[s]
    BY OthersStay DEF TreeIInv
  <1>2. t.op = "delete"
    BY DEF DeleteCalls
  <1>3. CallOK(r)'
    <2>1. DeleteOK(r)'
      <3>1. \A c \in t.cleared : loc[c] \in t.gone \cup UNION {t.levels[i] : i \in DOMAIN t.levels}
        OBVIOUS
      <3> QED BY <1>1, <3>1 DEF DeleteOK, Site!Exists, Site!Subtree
    <2> QED BY <1>1, <1>2, <2>1 DEF CallOK, Doing
  <1>4. ASSUME NEW s \in Requests \ {r} PROVE (ApartFrom(r, s) /\ ApartFrom(s, r))'
    <2>1. tx'[s] = tx[s]
      BY <1>1, <1>4
    <2>2. StandsOn(s)' = StandsOn(s) /\ GoneBy(s)' = GoneBy(s) /\ HeldBy(s)' = HeldBy(s)
      BY <2>1 DEF StandsOn, GoneBy, HeldBy, Doing
    <2>3. StandsOn(r)' = {} /\ GoneBy(r)' = t.gone /\ HeldBy(r)' = t.cleared
          /\ ~Doing(r, "create")'
      BY <1>1, <1>2 DEF StandsOn, GoneBy, HeldBy, Doing
    <2>4. t.gone \cap StandsOn(s) = {} /\ t.gone \cap GoneBy(s) = {} /\ t.cleared \cap HeldBy(s) = {}
      BY <1>4
    <2> QED BY <2>2, <2>3, <2>4 DEF ApartFrom
  <1>5. used \subseteq used' /\ used' \subseteq Nodes
    BY DEF TreeIInv, TreeTypes
  <1> QED BY <1>3, <1>4, <1>5, LocalStep DEF CallShape

LEMMA ClearsCards ==
    ASSUME TreeIInv, NEW r \in Requests, Site!ClearCards(r)
    PROVE  TreeIInv'
  <1>1. tx[r] \in DeleteCalls /\ Doing(r, "delete") /\ tx[r].pc = "clear"
        /\ UNCHANGED <<row, loc>> /\ used' = used
    BY OpIs, ShapeIs DEF Site!ClearCards, Site!At, TreeIInv
  <1>2. PICK cleared : /\ cleared = {c \in Cards : loc[c] \in Site!Subtree(r)}
                       /\ \A s \in Site!Others(r) : cleared \cap Site!CardRows(s) = {}
                       /\ tx' = [tx EXCEPT ![r].pc = "rows", ![r].cleared = cleared]
    BY DEF Site!ClearCards
  <1>3. PICK t : t = [tx[r] EXCEPT !.pc = "rows", !.cleared = cleared]
    OBVIOUS
  <1>4. tx' = [tx EXCEPT ![r] = t]
    BY <1>2, <1>3 DEF TreeIInv, TreeTypes
  <1>5. tx[r].gone = {}
    BY <1>1 DEF TreeIInv, CallOK, DeleteOK
  <1>6. t \in DeleteCalls /\ t.pc = "rows" /\ t.gone = {} /\ t.cleared = cleared
        /\ t.levels = tx[r].levels
    BY <1>1, <1>2, <1>3, <1>5 DEF DeleteCalls
  <1>7. \A c \in t.cleared : \E i \in DOMAIN t.levels : loc[c] \in t.levels[i]
    BY <1>2, <1>6 DEF Site!Subtree
  <1>8. ASSUME NEW s \in Requests \ {r} PROVE t.cleared \cap HeldBy(s) = {}
    BY <1>2, <1>6 DEF HeldBy, Doing, Site!Others, Site!Open, Site!CardRows, Site!Wrote
  <1> QED BY <1>1, <1>4, <1>6, <1>7, <1>8, DeleteGoesOn

LEMMA DeletesRow ==
    ASSUME TreeIInv, TreeConstants, NEW r \in Requests, Site!DeleteRow(r)
    PROVE  TreeIInv'
  <1>1. tx[r] \in DeleteCalls /\ Doing(r, "delete") /\ tx[r].pc = "rows" /\ used' = used
        /\ tx[r].levels # << >>
    BY OpIs, ShapeIs DEF Site!DeleteRow, Site!At, TreeIInv
  <1>2. CASE \E result : Site!Fail(r, result)
    BY <1>1, <1>2, FailKeeps
  <1>3. PICK q : q = tx[r].levels
    OBVIOUS
  <1>4. q \in Seq(SUBSET Nodes) /\ q # << >> /\ tx[r].gone \subseteq Nodes /\ tx[r].cleared \subseteq Cards
    BY <1>1, <1>3 DEF DeleteCalls
  <1>5. DeleteOK(r)
    BY <1>1 DEF TreeIInv, CallOK
  <1>6. \A c \in tx[r].cleared : loc[c] \in tx[r].gone \/ \E i \in DOMAIN q : loc[c] \in q[i]
    BY <1>3, <1>5 DEF DeleteOK, Site!Subtree
  <1>7. ASSUME NEW s \in Requests \ {r}
        PROVE  /\ tx[r].gone \cap StandsOn(s) = {} /\ tx[r].gone \cap GoneBy(s) = {}
               /\ tx[r].cleared \cap HeldBy(s) = {}
    BY <1>1 DEF TreeIInv, ApartFrom, GoneBy, HeldBy
  <1>8. CASE Head(q) = {} /\ ~\E result : Site!Fail(r, result)
    <2>1. tx' = [tx EXCEPT ![r].levels = Tail(@)] /\ UNCHANGED <<row, loc>>
      BY <1>3, <1>8 DEF Site!DeleteRow
    <2>2. PICK t : t = [tx[r] EXCEPT !.levels = Tail(q)]
      OBVIOUS
    <2>3. tx' = [tx EXCEPT ![r] = t]
      BY <1>3, <2>1, <2>2 DEF TreeIInv, TreeTypes
    <2>4. Tail(q) \in Seq(SUBSET Nodes)
      BY <1>4, <1>8, LevelsShrink
    <2>5. t \in DeleteCalls /\ t.pc = "rows" /\ t.gone = tx[r].gone /\ t.cleared = tx[r].cleared
          /\ t.levels = Tail(q)
      BY <1>1, <2>2, <2>4 DEF DeleteCalls
    <2>6. \A c \in t.cleared : loc[c] \in t.gone \/ \E i \in DOMAIN t.levels : loc[c] \in t.levels[i]
      <3>1. \A n \in Nodes : (\E i \in DOMAIN q : n \in q[i])
                                => \E i \in DOMAIN Tail(q) : n \in Tail(q)[i]
        BY <1>4, <1>8, LevelsShrink
      <3>2. ASSUME NEW c \in t.cleared, NEW i \in DOMAIN q, loc[c] \in q[i] PROVE loc[c] \in Nodes
        BY <1>4, <3>2
      <3> QED BY <1>6, <2>5, <3>1, <3>2
    <2>7. \A m \in t.gone : /\ Site!Exists(m)
                            /\ \A k \in Nodes : Site!Exists(k) /\ row[k].parent = m => k \in t.gone
                            /\ \A c \in Cards : loc[c] = m => c \in t.cleared
      BY <1>5, <2>5 DEF DeleteOK
    <2>8. \A s \in Requests \ {r} : /\ t.gone \cap StandsOn(s) = {} /\ t.gone \cap GoneBy(s) = {}
                                    /\ t.cleared \cap HeldBy(s) = {}
      BY <1>7, <2>5
    <2> QED BY <1>1, <2>1, <2>3, <2>5, <2>6, <2>7, <2>8, DeleteGoesOn
  <1>9. CASE Head(q) # {} /\ ~\E result : Site!Fail(r, result)
    <2>1. PICK n \in Head(q) :
             /\ \A s \in Site!Others(r) : n \notin (Site!Deleting(s) \cup Site!Renaming(s)) \cup Site!Pinned(s)
             /\ ~(Site!Exists(n) /\ Site!Referenced(r, n))
             /\ tx' = [tx EXCEPT ![r].levels[1] = @ \ {n},
                                 ![r].gone = IF Site!Exists(n) THEN @ \cup {n} ELSE @]
             /\ UNCHANGED <<row, loc>>
      BY <1>3, <1>9 DEF Site!DeleteRow
    <2>2. n \in Nodes
      BY <1>4
    <2>3. PICK gone : gone = IF Site!Exists(n) THEN tx[r].gone \cup {n} ELSE tx[r].gone
      OBVIOUS
    <2>4. PICK levels : levels = [q EXCEPT ![1] = @ \ {n}]
      OBVIOUS
    <2>5. PICK t : t = [tx[r] EXCEPT !.levels = levels, !.gone = gone]
      OBVIOUS
    <2>6. tx' = [tx EXCEPT ![r] = t]
      BY <1>1, <1>3, <2>1, <2>3, <2>4, <2>5 DEF TreeIInv, TreeTypes, DeleteCalls
    <2>7. levels \in Seq(SUBSET Nodes)
          /\ \A i \in DOMAIN q : i \in DOMAIN levels /\ q[i] \ {n} \subseteq levels[i]
      BY <1>4, <2>2, <2>4, LevelsShrink
    <2>8. t \in DeleteCalls /\ t.pc = "rows" /\ t.gone = gone /\ t.cleared = tx[r].cleared
          /\ t.levels = levels
      BY <1>1, <1>4, <2>2, <2>3, <2>5, <2>7 DEF DeleteCalls
    <2>9. \A c \in t.cleared : loc[c] \in t.gone \/ \E i \in DOMAIN t.levels : loc[c] \in t.levels[i]
      <3>1. ASSUME NEW c \in t.cleared, loc[c] = n PROVE n \in gone
        <4>1. Site!Exists(n)
          BY <1>4, <2>2, <2>8, <3>1 DEF TreeIInv, Site!TreeIsSound, TreeConstants
        <4> QED BY <4>1, <2>3
      <3>2. ASSUME NEW c \in t.cleared, NEW i \in DOMAIN q, loc[c] \in q[i], loc[c] # n
            PROVE  i \in DOMAIN t.levels /\ loc[c] \in t.levels[i]
        BY <2>7, <2>8, <3>2
      <3>3. tx[r].gone \subseteq gone
        BY <2>3
      <3> QED BY <1>6, <2>8, <3>1, <3>2, <3>3
    <2>10. Site!Exists(n) => /\ \A m \in Nodes : Site!Exists(m) /\ row[m].parent = n => m \in tx[r].gone
                          /\ \A c \in Cards : loc[c] = n => c \in tx[r].cleared
      BY <2>1 DEF Site!Referenced, Site!Children
    <2>11. \A m \in t.gone : /\ Site!Exists(m)
                             /\ \A k \in Nodes : Site!Exists(k) /\ row[k].parent = m => k \in t.gone
                             /\ \A c \in Cards : loc[c] = m => c \in t.cleared
      BY <1>5, <2>3, <2>8, <2>10 DEF DeleteOK
    <2>12. ASSUME NEW s \in Requests \ {r}, Site!Exists(n)
           PROVE  n \notin StandsOn(s) /\ n \notin GoneBy(s)
      <3>1. Site!Open(s) => n \notin Site!Deleting(s) /\ n \notin Site!Renaming(s) /\ n \notin Site!Pinned(s)
        BY <2>1 DEF Site!Others
      <3>2. n \notin GoneBy(s)
        BY <3>1 DEF GoneBy, Doing, Site!Open, Site!Deleting
      <3>3. CASE tx[s].pc # "commit"
        BY <3>2, <3>3 DEF StandsOn
      <3>4. CASE Doing(s, "card") /\ tx[s].pc = "commit"
        <4>1. tx[s].card \in Cards /\ tx[s].to = n => tx[s].to # loc[tx[s].card]
          <5>1. tx[s].card \in HeldBy(s)
            BY <3>4 DEF HeldBy, Doing
          <5>2. tx[s].card \notin tx[r].cleared
            BY <1>7, <5>1
          <5> QED BY <2>10, <2>12, <5>2
        <4>2. tx[s].card \in Cards
          BY <3>4, ShapeIs DEF TreeIInv, EditCalls
        <4>3. Site!Wrote(s) /\ Site!Open(s) /\ tx[s].op = "card"
          BY <3>4 DEF Site!Wrote, Site!Open, Doing
        <4>4. tx[s].to # n
          BY <3>1, <4>1, <4>2, <4>3 DEF Site!Pinned
        <4> QED BY <3>2, <3>4, <4>3, <4>4 DEF StandsOn
      <3>5. CASE tx[s].pc = "commit" /\ ~Doing(s, "card")
        <4>1. Site!Wrote(s) /\ Site!Open(s) /\ tx[s].op \in {"create", "rename"}
          <5>1. Doing(s, "create") \/ Doing(s, "rename")
            BY <3>5, ShapeIs DEF TreeIInv, DeleteCalls
          <5> QED BY <3>5, <5>1 DEF Site!Wrote, Site!Open, Doing
        <4> QED BY <3>1, <3>2, <3>5, <4>1 DEF StandsOn, Site!Pinned, Site!Renaming
      <3> QED BY <3>3, <3>4, <3>5
    <2>13. ASSUME NEW s \in Requests \ {r}
           PROVE  /\ t.gone \cap StandsOn(s) = {} /\ t.gone \cap GoneBy(s) = {}
                  /\ t.cleared \cap HeldBy(s) = {}
      BY <1>7, <2>3, <2>8, <2>12, <2>13
    <2> QED BY <1>1, <2>1, <2>6, <2>8, <2>9, <2>11, <2>13, DeleteGoesOn
  <1> QED BY <1>2, <1>8, <1>9

\* What a commit of r leaves of the rows and of the cards.
LEMMA CreateCommits ==
    ASSUME TreeIInv, TreeConstants, NEW r \in Requests, Site!CreateCommit(r)
    PROVE  TreeIInv'
  <1>1. tx[r] \in CreateCalls /\ Doing(r, "create") /\ tx[r].pc = "commit" /\ used' = used
        /\ loc' = loc /\ Site!Done(r)
    BY OpIs, ShapeIs DEF Site!CreateCommit, Site!At, TreeIInv
  <1>2. PICK n, p, k : n = tx[r].node /\ p = tx[r].parent /\ k = tx[r].kind
    OBVIOUS
  <1>3. CreateOK(r)
    BY <1>1 DEF TreeIInv, CallOK
  <1>4. /\ n \in used /\ n \in Nodes /\ row[n] = None /\ n # None
        /\ p \in Nodes \cup {None} /\ p # n /\ k \in Site!Kinds
        /\ (p = None <=> Site!RequiredParent[k] = None)
        /\ (p # None => Site!Exists(p) /\ row[p].kind = Site!RequiredParent[k])
    BY <1>1, <1>2, <1>3 DEF CreateOK, CreateCalls, TreeConstants, TreeIInv, TreeTypes
  <1>5. PICK new : new = [kind |-> k, parent |-> p, name |-> tx[r].name]
    OBVIOUS
  <1>6. new \in PlaceRows /\ new.kind = k /\ new.parent = p /\ new # None
    BY <1>1, <1>4, <1>5 DEF PlaceRows, CreateCalls, TreeConstants
  <1>7. row' = [row EXCEPT ![n] = new]
    BY <1>2, <1>5 DEF Site!CreateCommit
  <1>8. /\ row' \in [Nodes -> PlaceRows \cup {None}] /\ row'[n] = new
        /\ \A m \in Nodes \ {n} : row'[m] = row[m]
    BY <1>4, <1>6, <1>7 DEF TreeIInv, TreeTypes
  <1>9. Site!Exists(n)' /\ ~Site!Exists(n)
        /\ \A m \in Nodes \ {n} : Site!Exists(m)' <=> Site!Exists(m)
    BY <1>4, <1>6, <1>8 DEF Site!Exists
  <1>10. \A m \in Nodes : row'[m] # None => m \in used
    BY <1>4, <1>8 DEF TreeIInv, TreeTypes
  <1>11. Site!TreeIsSound'
    <2>1. ASSUME NEW m \in Nodes, Site!Exists(m)', m # n
          PROVE  IF Site!RequiredParent[row'[m].kind] = None THEN row'[m].parent = None
                 ELSE row'[m].parent # None /\ row'[row'[m].parent] # None
                      /\ row'[row'[m].parent].kind = Site!RequiredParent[row'[m].kind]
      <3>1. Site!Exists(m) /\ row'[m] = row[m] /\ row[m].parent \in Nodes \cup {None}
        BY <1>8, <1>9, <2>1 DEF TreeIInv, TreeTypes, PlaceRows, Site!Exists
      <3>2. Site!Exists(row[m].parent) => row[m].parent # n /\ row[m].parent \in Nodes
        BY <1>9, <3>1 DEF Site!Exists
      <3> QED BY <1>8, <1>9, <3>1, <3>2 DEF TreeIInv, Site!TreeIsSound, Site!Exists
    <2>2. IF Site!RequiredParent[row'[n].kind] = None THEN row'[n].parent = None
          ELSE row'[n].parent # None /\ row'[row'[n].parent] # None
               /\ row'[row'[n].parent].kind = Site!RequiredParent[row'[n].kind]
      BY <1>4, <1>6, <1>8, <1>9 DEF Site!Exists
    <2>3. ASSUME NEW c \in Cards, loc'[c] # None PROVE row'[loc'[c]] # None
      BY <1>1, <1>9, <2>3 DEF TreeIInv, TreeTypes, Site!TreeIsSound, Site!Exists
    <2> QED BY <2>1, <2>2, <2>3 DEF Site!TreeIsSound, Site!Exists
  <1>12. ASSUME NEW s \in Requests \ {r}, tx'[s] = tx[s] PROVE CallOK(s)'
    <2>1. CallOK(s) /\ ApartFrom(r, s) /\ ApartFrom(s, r)
      BY <1>12 DEF TreeIInv
    <2>2. \A m \in Nodes : Site!Exists(m) => Site!Exists(m)' /\ row'[m] = row[m]
      BY <1>8, <1>9
    <2>3. Doing(s, "create") => CreateOK(s)'
      <3>1. ASSUME Doing(s, "create") PROVE CreateOK(s)'
        <4>1. tx[s].node # n /\ (tx[s].pc # "find" => tx[s].parent # n) /\ CreateOK(s)
          BY <1>1, <1>2, <2>1, <3>1 DEF ApartFrom, CallOK
        <4>2. tx[s] \in CreateCalls
          BY <3>1, ShapeIs DEF TreeIInv
        <4>3. tx[s].node \in Nodes /\ row'[tx[s].node] = None
          BY <1>8, <4>1, <4>2 DEF CreateOK, CreateCalls
        <4>4. tx[s].pc # "find" /\ tx[s].parent # None =>
                 row'[tx[s].parent] = row[tx[s].parent]
          BY <1>8, <4>1, <4>2 DEF CreateCalls
        <4> QED BY <1>1, <1>12, <4>1, <4>3, <4>4 DEF CreateOK, Site!Exists
      <3> QED BY <3>1
    <2>4. Doing(s, "rename") => RenameOK(s)'
      <3>1. Doing(s, "rename") => tx[s].node \in Nodes
        BY ShapeIs DEF TreeIInv, RenameCalls
      <3> QED BY <1>1, <1>12, <2>1, <2>2, <3>1 DEF CallOK, RenameOK
    <2>5. Doing(s, "delete") => DeleteOK(s)'
      <3>1. ASSUME Doing(s, "delete") PROVE DeleteOK(s)'
        <4>1. DeleteOK(s) /\ tx[s].gone \subseteq Nodes
          BY <2>1, <3>1, ShapeIs DEF CallOK, TreeIInv, DeleteCalls
        <4>2. p \notin tx[s].gone
          <5>1. StandsOn(r) = {p} /\ GoneBy(s) = tx[s].gone
            BY <1>1, <1>2, <3>1 DEF StandsOn, GoneBy, Doing
          <5> QED BY <2>1, <5>1 DEF ApartFrom
        <4>3. ASSUME NEW g \in tx[s].gone, NEW m \in Nodes, Site!Exists(m)', row'[m].parent = g
              PROVE  m \in tx[s].gone
          BY <1>6, <1>8, <1>9, <4>1, <4>2, <4>3 DEF DeleteOK
        <4> QED BY <1>1, <1>12, <2>2, <4>1, <4>3 DEF DeleteOK, Site!Subtree
      <3> QED BY <3>1
    <2>6. Doing(s, "card") => EditOK(s)'
      <3>1. Doing(s, "card") /\ tx[s].pc = "commit" => tx[s].to \in Nodes \cup {None}
        BY <2>1 DEF CallOK, EditOK
      <3> QED BY <1>12, <2>1, <2>2, <3>1 DEF CallOK, EditOK
    <2> QED BY <1>12, <2>3, <2>4, <2>5, <2>6 DEF CallOK, Doing
  <1>13. loc' \in [Cards -> Nodes \cup {None}]
    BY <1>1 DEF TreeIInv, TreeTypes
  <1> QED BY <1>1, <1>8, <1>10, <1>11, <1>12, <1>13, CommitStep

LEMMA RenameCommits ==
    ASSUME TreeIInv, TreeConstants, NEW r \in Requests, Site!RenameCommit(r)
    PROVE  TreeIInv'
  <1>1. tx[r] \in RenameCalls /\ Doing(r, "rename") /\ tx[r].pc = "commit" /\ used' = used
        /\ loc' = loc /\ Site!Done(r)
    BY OpIs, ShapeIs DEF Site!RenameCommit, Site!At, TreeIInv
  <1>2. PICK n : n = tx[r].node
    OBVIOUS
  <1>3. n \in Nodes /\ Site!Exists(n) /\ row[n] \in PlaceRows /\ tx[r].name \in Names
    <2>1. RenameOK(r)
      BY <1>1 DEF TreeIInv, CallOK
    <2> QED BY <1>1, <1>2, <2>1 DEF RenameOK, RenameCalls, TreeIInv, TreeTypes, Site!Exists
  <1>4. PICK new : new = [row[n] EXCEPT !.name = tx[r].name]
    OBVIOUS
  <1>5. new \in PlaceRows /\ new.kind = row[n].kind /\ new.parent = row[n].parent /\ new # None
    <2>1. new \in PlaceRows /\ new.kind = row[n].kind /\ new.parent = row[n].parent
      BY <1>3, <1>4 DEF PlaceRows
    <2> QED BY <2>1 DEF TreeConstants
  <1>6. row' = [row EXCEPT ![n] = new]
    BY <1>2, <1>4 DEF Site!RenameCommit, TreeIInv, TreeTypes
  <1>7. /\ row' \in [Nodes -> PlaceRows \cup {None}]
        /\ \A m \in Nodes : /\ Site!Exists(m)' <=> Site!Exists(m)
                            /\ row'[m] # None <=> row[m] # None
                            /\ \/ row'[m] = row[m]
                               \/ row'[m].kind = row[m].kind /\ row'[m].parent = row[m].parent
                            /\ row[m] = None => row'[m] = None
    BY <1>3, <1>5, <1>6 DEF TreeIInv, TreeTypes, Site!Exists
  <1>8. \A m \in Nodes : row'[m].kind = row[m].kind /\ row'[m].parent = row[m].parent
    BY <1>7
  <1>9. Site!TreeIsSound'
    <2>1. ASSUME NEW m \in Nodes, Site!Exists(m)'
          PROVE  IF Site!RequiredParent[row'[m].kind] = None THEN row'[m].parent = None
                 ELSE row'[m].parent # None /\ row'[row'[m].parent] # None
                      /\ row'[row'[m].parent].kind = Site!RequiredParent[row'[m].kind]
      <3>1. Site!Exists(m) /\ row[m].parent \in Nodes \cup {None}
        BY <1>7, <2>1 DEF TreeIInv, TreeTypes, PlaceRows, Site!Exists
      <3>2. Site!Exists(row[m].parent) => row[m].parent \in Nodes
        BY <3>1 DEF Site!Exists
      <3> QED BY <1>7, <1>8, <3>1, <3>2 DEF TreeIInv, Site!TreeIsSound, Site!Exists
    <2>2. ASSUME NEW c \in Cards, loc'[c] # None PROVE row'[loc'[c]] # None
      BY <1>1, <1>7, <2>2 DEF TreeIInv, TreeTypes, Site!TreeIsSound, Site!Exists
    <2> QED BY <2>1, <2>2 DEF Site!TreeIsSound, Site!Exists
  <1>10. ASSUME NEW s \in Requests \ {r}, tx'[s] = tx[s] PROVE CallOK(s)'
    <2>1. CallOK(s)
      BY <1>10 DEF TreeIInv
    <2>2. Doing(s, "create") => CreateOK(s)'
      <3>1. ASSUME Doing(s, "create") PROVE CreateOK(s)'
        <4>1. tx[s] \in CreateCalls /\ CreateOK(s)
          BY <2>1, <3>1, ShapeIs DEF TreeIInv, CallOK
        <4>2. tx[s].node \in Nodes /\ row'[tx[s].node] = None
          BY <1>7, <4>1 DEF CreateOK, CreateCalls
        <4>3. tx[s].parent # None => /\ row'[tx[s].parent] # None <=> row[tx[s].parent] # None
                                     /\ row'[tx[s].parent].kind = row[tx[s].parent].kind
          BY <1>7, <1>8, <4>1 DEF CreateCalls
        <4> QED BY <1>1, <1>10, <4>1, <4>2, <4>3 DEF CreateOK, Site!Exists
      <3> QED BY <3>1
    <2>3. Doing(s, "rename") => RenameOK(s)'
      <3>1. Doing(s, "rename") => tx[s].node \in Nodes
        BY ShapeIs DEF TreeIInv, RenameCalls
      <3> QED BY <1>1, <1>7, <1>10, <2>1, <3>1 DEF CallOK, RenameOK
    <2>4. Doing(s, "delete") => DeleteOK(s)'
      <3>1. ASSUME Doing(s, "delete") PROVE DeleteOK(s)'
        <4>1. DeleteOK(s) /\ tx[s].gone \subseteq Nodes
          BY <2>1, <3>1, ShapeIs DEF CallOK, TreeIInv, DeleteCalls
        <4> QED BY <1>1, <1>7, <1>8, <1>10, <4>1 DEF DeleteOK, Site!Subtree
      <3> QED BY <3>1
    <2>5. Doing(s, "card") => EditOK(s)'
      <3>1. Doing(s, "card") /\ tx[s].pc = "commit" => tx[s].to \in Nodes \cup {None}
        BY <2>1 DEF CallOK, EditOK
      <3> QED BY <1>7, <1>10, <2>1, <3>1 DEF CallOK, EditOK
    <2> QED BY <1>10, <2>2, <2>3, <2>4, <2>5 DEF CallOK, Doing
  <1>11. \A m \in Nodes : row'[m] # None => m \in used
    BY <1>7 DEF TreeIInv, TreeTypes
  <1>12. loc' \in [Cards -> Nodes \cup {None}]
    BY <1>1 DEF TreeIInv, TreeTypes
  <1> QED BY <1>1, <1>7, <1>9, <1>10, <1>11, <1>12, CommitStep

LEMMA DeleteCommits ==
    ASSUME TreeIInv, TreeConstants, NEW r \in Requests, Site!DeleteCommit(r)
    PROVE  TreeIInv'
  <1>1. tx[r] \in DeleteCalls /\ Doing(r, "delete") /\ used' = used /\ Site!Done(r)
    BY OpIs, ShapeIs DEF Site!DeleteCommit, Site!At, TreeIInv
  <1>2. PICK gone, cleared : gone = tx[r].gone /\ cleared = tx[r].cleared
    OBVIOUS
  <1>3. /\ gone \subseteq Nodes /\ cleared \subseteq Cards
        /\ \A n \in gone : /\ row[n] # None
                           /\ \A m \in Nodes : row[m] # None /\ row[m].parent = n => m \in gone
                           /\ \A c \in Cards : loc[c] = n => c \in cleared
    BY <1>1, <1>2 DEF TreeIInv, CallOK, DeleteOK, DeleteCalls, Site!Exists, TreeConstants
  <1>4. /\ \A n \in Nodes : row'[n] = IF n \in gone THEN None ELSE row[n]
        /\ \A c \in Cards : loc'[c] = IF c \in cleared THEN None ELSE loc[c]
        /\ row' \in [Nodes -> PlaceRows \cup {None}] /\ loc' \in [Cards -> Nodes \cup {None}]
    BY <1>2 DEF Site!DeleteCommit, TreeIInv, TreeTypes
  <1>5. \A m \in Nodes : row'[m] # None => m \in used
    BY <1>4 DEF TreeIInv, TreeTypes
  <1>6. Site!TreeIsSound'
    <2>1. ASSUME NEW m \in Nodes, row'[m] # None
          PROVE  IF Site!RequiredParent[row'[m].kind] = None THEN row'[m].parent = None
                 ELSE row'[m].parent # None /\ row'[row'[m].parent] # None
                      /\ row'[row'[m].parent].kind = Site!RequiredParent[row'[m].kind]
      <3>1. m \notin gone /\ row'[m] = row[m] /\ m # None
        BY <1>4, <2>1 DEF TreeConstants
      <3>2. row[m].parent \in Nodes \cup {None}
        BY <2>1, <3>1 DEF TreeIInv, TreeTypes, PlaceRows
      <3>3. row[m].parent \notin gone
        BY <1>3, <2>1, <3>1
      <3>4. IF Site!RequiredParent[row[m].kind] = None THEN row[m].parent = None
            ELSE row[m].parent # None /\ row[row[m].parent] # None
                 /\ row[row[m].parent].kind = Site!RequiredParent[row[m].kind]
        BY <2>1, <3>1 DEF TreeIInv, Site!TreeIsSound, Site!Exists
      <3> QED BY <1>4, <3>1, <3>2, <3>3, <3>4
    <2>2. ASSUME NEW c \in Cards, loc'[c] # None PROVE row'[loc'[c]] # None
      <3>1. c \notin cleared /\ loc'[c] = loc[c] /\ loc[c] \in Nodes
        BY <1>4, <2>2
      <3>2. row[loc[c]] # None /\ loc[c] \notin gone
        BY <1>3, <2>2, <3>1 DEF TreeIInv, Site!TreeIsSound, Site!Exists
      <3> QED BY <1>4, <3>1, <3>2
    <2> QED BY <2>1, <2>2 DEF Site!TreeIsSound, Site!Exists
  <1>7. ASSUME NEW s \in Requests \ {r}, tx'[s] = tx[s] PROVE CallOK(s)'
    <2>1. CallOK(s) /\ ApartFrom(s, r)
      BY <1>7 DEF TreeIInv
    <2>2. StandsOn(s) \cap gone = {} /\ HeldBy(s) \cap cleared = {} /\ GoneBy(s) \cap gone = {}
      <3>1. GoneBy(r) = gone /\ HeldBy(r) = cleared
        BY <1>1, <1>2 DEF GoneBy, HeldBy
      <3> QED BY <2>1, <3>1 DEF ApartFrom
    <2>3. ASSUME Doing(s, "create") PROVE CreateOK(s)'
      <3>1. tx[s] \in CreateCalls /\ CreateOK(s) /\ tx[s].op = "create"
        BY <2>1, <2>3, ShapeIs DEF TreeIInv, CallOK, Doing
      <3>2. tx[s].node \in Nodes /\ row'[tx[s].node] = None
        BY <1>4, <3>1 DEF CreateOK, CreateCalls
      <3>3. tx[s].parent # None /\ row'[tx[s].parent] # None =>
              row'[tx[s].parent] = row[tx[s].parent]
        BY <1>4, <3>1 DEF CreateCalls
      <3>4. tx[s].pc = "commit" /\ tx[s].parent # None => row'[tx[s].parent] # None
        <4>1. tx[s].pc = "commit" => tx[s].parent \notin gone
          BY <2>2, <3>1 DEF StandsOn
        <4> QED BY <1>4, <3>1, <4>1 DEF CreateCalls, CreateOK, Site!Exists
      <3> QED BY <1>1, <1>7, <3>1, <3>2, <3>3, <3>4 DEF CreateOK, Site!Exists
    <2>4. ASSUME Doing(s, "rename") PROVE RenameOK(s)'
      <3>1. tx[s].node \in Nodes /\ RenameOK(s) /\ tx[s].op = "rename"
        BY <2>1, <2>4, ShapeIs DEF TreeIInv, RenameCalls, CallOK, Doing
      <3>2. tx[s].pc = "commit" => tx[s].node \notin gone
        BY <2>2, <3>1 DEF StandsOn
      <3> QED BY <1>1, <1>4, <1>7, <3>1, <3>2 DEF RenameOK, Site!Exists
    <2>5. ASSUME Doing(s, "delete") PROVE DeleteOK(s)'
      <3>1. DeleteOK(s) /\ tx[s].gone \subseteq Nodes /\ tx[s].cleared \subseteq Cards
        BY <2>1, <2>5, ShapeIs DEF CallOK, TreeIInv, DeleteCalls
      <3>2. tx[s].gone \cap gone = {} /\ tx[s].cleared \cap cleared = {}
        BY <2>2, <2>5 DEF GoneBy, HeldBy
      <3>3. \A n \in tx[s].gone :
               /\ n # None /\ row'[n] # None
               /\ \A m \in Nodes : row'[m] # None /\ row'[m].parent = n => m \in tx[s].gone
               /\ \A c \in Cards : loc'[c] = n => c \in tx[s].cleared
        BY <1>4, <3>1, <3>2 DEF DeleteOK, Site!Exists, TreeConstants
      <3>4. \A c \in tx[s].cleared : loc'[c] = loc[c]
        BY <1>4, <3>1, <3>2
      <3> QED BY <1>7, <3>1, <3>3, <3>4 DEF DeleteOK, Site!Subtree, Site!Exists
    <2>6. ASSUME Doing(s, "card") PROVE EditOK(s)'
      <3>1. EditOK(s) /\ tx[s].op = "card"
        BY <2>1, <2>6 DEF CallOK, Doing
      <3>2. tx[s].pc = "commit" => tx[s].to \notin gone /\ tx[s].to \in Nodes \cup {None}
        BY <2>2, <3>1 DEF StandsOn, EditOK
      <3> QED BY <1>4, <1>7, <3>1, <3>2 DEF EditOK, Site!Exists
    <2> QED BY <1>7, <2>3, <2>4, <2>5, <2>6 DEF CallOK, Doing
  <1> QED BY <1>1, <1>4, <1>5, <1>6, <1>7, CommitStep

LEMMA EditCommits ==
    ASSUME TreeIInv, TreeConstants, NEW r \in Requests, Site!EditCommit(r)
    PROVE  TreeIInv'
  <1>1. tx[r] \in EditCalls /\ Doing(r, "card") /\ tx[r].pc = "commit" /\ used' = used
        /\ row' = row /\ Site!Done(r)
    BY OpIs, ShapeIs DEF Site!EditCommit, Site!At, TreeIInv
  <1>2. PICK c, to : c = tx[r].card /\ to = tx[r].to
    OBVIOUS
  <1>3. c \in Cards /\ to \in Nodes \cup {None} /\ (to # None => row[to] # None)
    BY <1>1, <1>2 DEF EditCalls, TreeIInv, CallOK, EditOK, Site!Exists
  <1>4. loc' = [loc EXCEPT ![c] = to]
    BY <1>2 DEF Site!EditCommit
  <1>5. loc' \in [Cards -> Nodes \cup {None}] /\ loc'[c] = to
        /\ \A d \in Cards \ {c} : loc'[d] = loc[d]
    BY <1>3, <1>4 DEF TreeIInv, TreeTypes
  <1>6. Site!TreeIsSound'
    <2>1. ASSUME NEW d \in Cards, loc'[d] # None PROVE row[loc'[d]] # None
      BY <1>3, <1>5, <2>1 DEF TreeIInv, Site!TreeIsSound, Site!Exists
    <2> QED BY <1>1, <2>1 DEF Site!TreeIsSound, Site!Exists, TreeIInv
  <1>7. ASSUME NEW s \in Requests \ {r}, tx'[s] = tx[s] PROVE CallOK(s)'
    <2>1. CallOK(s) /\ ApartFrom(r, s)
      BY <1>7 DEF TreeIInv
    <2>2. to \notin GoneBy(s) /\ c \notin HeldBy(s)
      <3>1. StandsOn(r) = {to} /\ HeldBy(r) = {c}
        BY <1>1, <1>2 DEF StandsOn, HeldBy, Doing
      <3> QED BY <2>1, <3>1 DEF ApartFrom
    <2>3. ASSUME Doing(s, "delete") PROVE DeleteOK(s)'
      <3>1. DeleteOK(s) /\ tx[s].cleared \subseteq Cards
        BY <2>1, <2>3, ShapeIs DEF CallOK, TreeIInv, DeleteCalls
      <3>2. to \notin tx[s].gone /\ c \notin tx[s].cleared
        BY <2>2, <2>3 DEF GoneBy, HeldBy
      <3>3. \A n \in tx[s].gone : \A d \in Cards : loc'[d] = n => d \in tx[s].cleared
        BY <1>5, <3>1, <3>2 DEF DeleteOK
      <3>4. \A d \in tx[s].cleared : loc'[d] = loc[d]
        BY <1>5, <3>1, <3>2
      <3> QED BY <1>1, <1>7, <3>1, <3>3, <3>4 DEF DeleteOK, Site!Subtree, Site!Exists
    <2>4. Doing(s, "create") => CreateOK(s)'
      BY <1>1, <1>7, <2>1 DEF CallOK, CreateOK, Site!Exists
    <2>5. Doing(s, "rename") => RenameOK(s)'
      BY <1>1, <1>7, <2>1 DEF CallOK, RenameOK, Site!Exists
    <2>6. Doing(s, "card") => EditOK(s)'
      BY <1>1, <1>7, <2>1 DEF CallOK, EditOK, Site!Exists
    <2> QED BY <1>7, <2>3, <2>4, <2>5, <2>6 DEF CallOK, Doing
  <1>8. row' \in [Nodes -> PlaceRows \cup {None}] /\ \A m \in Nodes : row'[m] # None => m \in used
    BY <1>1 DEF TreeIInv, TreeTypes
  <1> QED BY <1>1, <1>5, <1>6, <1>7, <1>8, CommitStep

\* Every step of every call keeps it.
LEMMA TreeStep ==
    ASSUME TreeIInv, TreeConstants, [Site!Next]_(Site!vars)
    PROVE  TreeIInv'
  <1>1. CASE UNCHANGED Site!vars
    <2>1. TreeTypes' /\ Site!TreeIsSound'
      BY <1>1 DEF TreeIInv, Site!vars, TreeTypes, Site!TreeIsSound, Site!Exists
    <2>2. \A r \in Requests : CallOK(r)'
      BY <1>1 DEF TreeIInv, Site!vars, CallOK, Doing, CreateOK, RenameOK, DeleteOK, EditOK,
                  Site!Exists, Site!Subtree
    <2>3. \A r, s \in Requests : r # s => ApartFrom(r, s)'
      BY <1>1 DEF TreeIInv, Site!vars, ApartFrom, Doing, StandsOn, GoneBy, HeldBy
    <2> QED BY <2>1, <2>2, <2>3 DEF TreeIInv
  <1>2. ASSUME NEW r \in Requests, Site!Call(r) PROVE TreeIInv'
    BY <1>2, CreateBegins, RenameBegins, DeleteBegins, EditBegins DEF Site!Call
  <1>3. ASSUME NEW r \in Requests, Site!Step(r) PROVE TreeIInv'
    <2>1. CASE Site!CreateFind(r) \/ Site!CreateUnique(r) \/ Site!CreateInsert(r) \/ Site!CreateCommit(r)
      BY <2>1, CreateSteps, CreateCommits
    <2>2. CASE Site!RenameFind(r) \/ Site!RenameUnique(r) \/ Site!RenameWrite(r) \/ Site!RenameCommit(r)
      BY <2>2, RenameReads, RenameWrites, RenameCommits
    <2>3. CASE Site!DeleteFind(r) \/ Site!CollectSubtree(r) \/ Site!ClearCards(r) \/ Site!DeleteRow(r)
               \/ Site!DeleteCommit(r)
      BY <2>3, DeleteReads, ClearsCards, DeletesRow, DeleteCommits
    <2>4. CASE Site!EditFind(r) \/ Site!EditWrite(r) \/ Site!EditCommit(r)
      BY <2>4, EditReads, EditWrites, EditCommits
    <2>5. CASE Site!Deadlocked(r)
      BY <2>5, FailKeeps DEF Site!Deadlocked
    <2> QED BY <1>3, <2>1, <2>2, <2>3, <2>4, <2>5 DEF Site!Step
  <1> QED BY <1>1, <1>2, <1>3 DEF Site!Next

LEMMA TreeBegins ==
    ASSUME TreeConstants, Site!Init
    PROVE  TreeIInv
  <1>1. row \in [Nodes -> PlaceRows \cup {None}] /\ used = {n \in Nodes : row[n] # None}
    BY DEF TreeConstants, Site!Init
  <1>2. \A r \in Requests : tx[r].pc = "done"
    BY DEF Site!Init, Site!Idle
  <1>3. loc \in [Cards -> Nodes \cup {None}] /\ tx = [r \in Requests |-> tx[r]]
    BY <1>1 DEF Site!Init
  <1>4. TreeTypes
    BY <1>1, <1>2, <1>3 DEF TreeTypes, CallShape
  <1>5. Site!TreeIsSound
    <2>1. ASSUME NEW n \in Nodes, row[n] # None
          PROVE  IF Site!RequiredParent[row[n].kind] = None THEN row[n].parent = None
                 ELSE row[n].parent # None /\ row[row[n].parent] # None
                      /\ row[row[n].parent].kind = Site!RequiredParent[row[n].kind]
      BY <2>1 DEF TreeConstants, Site!Init
    <2>2. ASSUME NEW c \in Cards, loc[c] # None PROVE row[loc[c]] # None
      BY <1>1, <2>2 DEF Site!Init
    <2> QED BY <2>1, <2>2 DEF Site!TreeIsSound, Site!Exists
  <1>6. \A r \in Requests : CallOK(r)
    BY <1>2 DEF CallOK, Doing
  <1>7. \A r, s \in Requests : ApartFrom(r, s)
    BY <1>2 DEF ApartFrom, Doing, StandsOn, GoneBy, HeldBy
  <1> QED BY <1>4, <1>5, <1>6, <1>7 DEF TreeIInv

\* The tree of locations stays whole, on either adapter: whatever creations,
\* renames, removals and card edits overlap, no row is left without the row it
\* hangs under and no card points to a row that is gone.
THEOREM TreeStaysWhole == TreeConstants /\ Site!Spec => []Site!TreeIsSound
  <1> SUFFICES ASSUME TreeConstants PROVE Site!Spec => []Site!TreeIsSound
    OBVIOUS
  <1>1. Site!Init => TreeIInv
    BY TreeBegins
  <1>2. TreeIInv /\ [Site!Next]_(Site!vars) => TreeIInv'
    BY TreeStep
  <1>3. TreeIInv => Site!TreeIsSound
    BY DEF TreeIInv
  <1> QED BY <1>1, <1>2, <1>3, PTL DEF Site!Spec

LEMMA ClearingStep ==
    ASSUME TreeIInv, TreeConstants, [Site!Next]_(Site!vars)
    PROVE  [Site!ClearsWithTheNode]_(Site!vars)
  <1>1. CASE UNCHANGED loc
    BY <1>1 DEF Site!ClearsWithTheNode
  <1>2. ASSUME NEW r \in Requests, Site!DeleteCommit(r) PROVE Site!ClearsWithTheNode
    <2>1. tx[r] \in DeleteCalls /\ Doing(r, "delete") /\ tx[r].levels = << >> /\ DeleteOK(r)
      BY <1>2, OpIs, ShapeIs DEF Site!DeleteCommit, Site!At, TreeIInv, CallOK
    <2>2. Site!Subtree(r) = {}
      BY <2>1 DEF Site!Subtree
    <2>3. \A c \in Cards : c \in tx[r].cleared => loc[c] \in tx[r].gone /\ loc[c] \in Nodes
      BY <2>1, <2>2 DEF DeleteOK, DeleteCalls
    <2> QED BY <1>2, <2>3 DEF Site!ClearsWithTheNode, Site!DeleteCommit
  <1>3. ASSUME NEW r \in Requests, Site!EditCommit(r) PROVE Site!ClearsWithTheNode
    <2>1. \A c \in Cards : c # tx[r].card => loc'[c] = loc[c]
      BY <1>3 DEF Site!EditCommit, TreeIInv, TreeTypes
    <2> QED BY <1>3, <2>1 DEF Site!ClearsWithTheNode
  <1>4. ASSUME NEW r \in Requests, Site!Call(r) \/ Site!Step(r),
               ~Site!DeleteCommit(r), ~Site!EditCommit(r)
        PROVE  UNCHANGED loc
    <2>1. CASE Site!Call(r)
      BY <2>1 DEF Site!Call, Site!Create, Site!Rename, Site!Delete, Site!EditCard
    <2>2. CASE Site!CreateFind(r) \/ Site!CreateUnique(r) \/ Site!CreateInsert(r) \/ Site!CreateCommit(r)
      BY <2>2 DEF Site!CreateFind, Site!CreateUnique, Site!CreateInsert, Site!CreateCommit, Site!Unique, Site!Fail, Site!Go
    <2>3. CASE Site!RenameFind(r) \/ Site!RenameUnique(r) \/ Site!RenameWrite(r) \/ Site!RenameCommit(r)
      BY <2>3 DEF Site!RenameFind, Site!RenameUnique, Site!RenameWrite, Site!RenameCommit, Site!Unique, Site!Fail, Site!Go
    <2>4. CASE Site!DeleteFind(r) \/ Site!CollectSubtree(r) \/ Site!ClearCards(r)
      BY <2>4 DEF Site!DeleteFind, Site!CollectSubtree, Site!ClearCards, Site!Fail, Site!Go
    <2>5. CASE Site!DeleteRow(r)
      BY <2>5 DEF Site!DeleteRow, Site!Fail
    <2>6. CASE Site!EditFind(r) \/ Site!EditWrite(r) \/ Site!Deadlocked(r)
      BY <2>6 DEF Site!EditFind, Site!EditWrite, Site!Deadlocked, Site!Fail, Site!Go
    <2> QED BY <1>4, <2>1, <2>2, <2>3, <2>4, <2>5, <2>6 DEF Site!Step
  <1> QED BY <1>1, <1>2, <1>3, <1>4 DEF Site!Next, Site!vars

\* A card loses its place only by an edit of it or together with the row,
\* whatever calls overlap and on either adapter.
THEOREM PlacesClearTogether ==
    TreeConstants /\ Site!Spec => [][Site!ClearsWithTheNode]_(Site!vars)
  <1> SUFFICES ASSUME TreeConstants PROVE Site!Spec => [][Site!ClearsWithTheNode]_(Site!vars)
    OBVIOUS
  <1>1. Site!Init => TreeIInv
    BY TreeBegins
  <1>2. TreeIInv /\ [Site!Next]_(Site!vars) => TreeIInv'
    BY TreeStep
  <1>3. TreeIInv /\ [Site!Next]_(Site!vars) => [Site!ClearsWithTheNode]_(Site!vars)
    BY ClearingStep
  <1> QED BY <1>1, <1>2, <1>3, PTL DEF Site!Spec

-----------------------------------------------------------------------------
(* SQLite: one unit of work at a time.                                      *)

Depth == [building |-> 0, floor |-> 1, room |-> 2]

\* What a removal has collected: every level holds all the children of the one
\* above it, and the cards of all of them are cleared before a row goes.
SoleDelete(r) ==
    LET t == tx[r]
    IN  /\ t.pc = "walk" =>
              /\ t.levels # << >> /\ Site!Exists(t.node)
              /\ \A i \in DOMAIN t.levels : \A n \in t.levels[i] :
                    Depth[row[n].kind] + i = Depth[row[t.node].kind] + Len(t.levels)
        /\ t.pc # "find" => \A i \in DOMAIN t.levels :
              i > 1 => Site!Children(t.levels[i]) \subseteq t.levels[i - 1] \cup t.gone
        /\ t.pc \in {"clear", "rows"} /\ t.levels # << >> => Site!Children(t.levels[1]) \subseteq t.gone
        /\ t.pc = "rows" => \A c \in Cards : loc[c] \in Site!Subtree(r) => c \in t.cleared
        /\ t.pc = "find" => t.levels = <<{t.node}>>
        /\ t.pc # "find" => \A i \in DOMAIN t.levels : \A n \in t.levels[i] : Site!Exists(n)

SoleOK(r) ==
    LET t == tx[r]
    IN  /\ t.pc = "done" /\ t.op = "delete" => t.result \in {"ok", "missing"}
        /\ Doing(r, "create") /\ t.pc \in {"write", "commit"} => ~Site!Clash(t.parent, t.name, None)
        /\ Doing(r, "rename") /\ t.pc # "find" =>
              /\ Site!Exists(t.node) /\ t.parent = row[t.node].parent
              /\ t.pc # "unique" => ~Site!Clash(t.parent, t.name, t.node)
        /\ Doing(r, "delete") => SoleDelete(r)

SoleIInv ==
    /\ \A r, s \in Requests : r # s => tx[r].pc = "done" \/ tx[s].pc = "done"
    /\ Site!SiblingNamesDiffer
    /\ \A r \in Requests : SoleOK(r)

LEMMA NobodyElse ==
    ASSUME SoleIInv, ~Postgres, NEW r \in Requests, Site!Call(r) \/ Site!Step(r)
    PROVE  /\ \A s \in Requests \ {r} : tx[s].pc = "done"
           /\ ~Site!Deadlocked(r)
  <1>1. CASE Site!Call(r)
    <2>1. Site!Others(r) = {} /\ tx[r].pc = "done"
      BY <1>1 DEF Site!Call, Site!Create, Site!Rename, Site!Delete, Site!EditCard, Site!Begin, Site!Open
    <2>2. \A s \in Requests \ {r} : tx[s].pc = "done"
      BY <2>1 DEF Site!Others, Site!Open
    <2>3. ~Site!Deadlocked(r)
      BY <2>1 DEF Site!Deadlocked, Site!Waits
    <2> QED BY <2>2, <2>3
  <1>2. CASE Site!Deadlocked(r)
    <2>1. PICK s : s \in Site!Waits(r) /\ r \in Site!Waits(s)
      BY <1>2 DEF Site!Deadlocked
    <2>2. s \in Requests /\ s # r /\ Site!Open(s) /\ Site!Open(r)
      BY <2>1 DEF Site!Waits, Site!Others
    <2> QED BY <2>2 DEF SoleIInv, Site!Open
  <1>3. CASE Site!Step(r) /\ ~Site!Deadlocked(r)
    <2>1. tx[r].pc # "done"
      <3>1. CASE Site!CreateFind(r) \/ Site!CreateUnique(r) \/ Site!CreateInsert(r) \/ Site!CreateCommit(r)
        BY <3>1 DEF Site!CreateFind, Site!CreateUnique, Site!CreateInsert, Site!CreateCommit, Site!At
      <3>2. CASE Site!RenameFind(r) \/ Site!RenameUnique(r) \/ Site!RenameWrite(r) \/ Site!RenameCommit(r)
        BY <3>2 DEF Site!RenameFind, Site!RenameUnique, Site!RenameWrite, Site!RenameCommit, Site!At
      <3>3. CASE Site!DeleteFind(r) \/ Site!CollectSubtree(r) \/ Site!ClearCards(r) \/ Site!DeleteRow(r)
                 \/ Site!DeleteCommit(r)
        BY <3>3 DEF Site!DeleteFind, Site!CollectSubtree, Site!ClearCards, Site!DeleteRow, Site!DeleteCommit, Site!At
      <3>4. CASE Site!EditFind(r) \/ Site!EditWrite(r) \/ Site!EditCommit(r)
        BY <3>4 DEF Site!EditFind, Site!EditWrite, Site!EditCommit, Site!At
      <3> QED BY <1>3, <3>1, <3>2, <3>3, <3>4 DEF Site!Step
    <2> QED BY <1>3, <2>1 DEF SoleIInv
  <1> QED BY <1>1, <1>2, <1>3

\* A step of the only open unit of work.
LEMMA SoleStep ==
    ASSUME TreeIInv, SoleIInv, NEW r \in Requests, NEW t, tx' = [tx EXCEPT ![r] = t],
           \A s \in Requests \ {r} : tx[s].pc = "done",
           Site!SiblingNamesDiffer', SoleOK(r)'
    PROVE  SoleIInv'
  <1>1. tx'[r] = t /\ \A s \in Requests \ {r} : tx'[s] = tx[s]
    BY OthersStay DEF TreeIInv
  <1>2. ASSUME NEW s \in Requests \ {r} PROVE SoleOK(s)'
    BY <1>1, <1>2 DEF SoleIInv, SoleOK, Doing
  <1>3. \A s, q \in Requests : s # q => tx'[s].pc = "done" \/ tx'[q].pc = "done"
    BY <1>1
  <1> QED BY <1>2, <1>3 DEF SoleIInv

LEMMA SoleFails ==
    ASSUME TreeIInv, SoleIInv, NEW r \in Requests, NEW result, Site!Fail(r, result),
           \A s \in Requests \ {r} : tx[s].pc = "done",
           tx[r].op = "delete" => result = "missing"
    PROVE  SoleIInv'
  <1>1. PICK t : t = [op |-> tx[r].op, pc |-> "done", result |-> result]
    OBVIOUS
  <1>2. tx' = [tx EXCEPT ![r] = t] /\ row' = row
    BY <1>1 DEF Site!Fail
  <1>3. tx'[r] = t
    BY <1>2, OthersStay DEF TreeIInv
  <1>4. SoleOK(r)'
    BY <1>1, <1>3 DEF SoleOK, Doing
  <1>5. Site!SiblingNamesDiffer'
    BY <1>2 DEF SoleIInv, Site!SiblingNamesDiffer, Site!Exists
  <1> QED BY <1>2, <1>4, <1>5, SoleStep

LEMMA SoleCommits ==
    ASSUME TreeIInv, SoleIInv, NEW r \in Requests, Site!Done(r), Site!SiblingNamesDiffer',
           \A s \in Requests \ {r} : tx[s].pc = "done"
    PROVE  SoleIInv'
  <1>1. PICK t : t = [op |-> tx[r].op, pc |-> "done", result |-> "ok"]
    OBVIOUS
  <1>2. tx' = [tx EXCEPT ![r] = t]
    BY <1>1 DEF Site!Done
  <1>3. tx'[r] = t
    BY <1>2, OthersStay DEF TreeIInv
  <1>4. SoleOK(r)'
    BY <1>1, <1>3 DEF SoleOK, Doing
  <1> QED BY <1>2, <1>4, SoleStep

LEMMA SoleCreates ==
    ASSUME TreeIInv, TreeConstants, SoleIInv, NEW r \in Requests,
           \A s \in Requests \ {r} : tx[s].pc = "done",
           Site!CreateFind(r) \/ Site!CreateUnique(r) \/ Site!CreateInsert(r) \/ Site!CreateCommit(r)
    PROVE  SoleIInv'
  <1>1. tx[r] \in CreateCalls /\ Doing(r, "create") /\ tx[r].op = "create"
    BY OpIs, ShapeIs DEF Site!CreateFind, Site!CreateUnique, Site!CreateInsert, Site!CreateCommit, Site!At, TreeIInv
  <1>2. CASE \E result : Site!Fail(r, result)
    BY <1>1, <1>2, SoleFails
  <1>3. ASSUME NEW pc \in {"unique", "write", "commit"}, Site!Go(r, pc),
               pc # "unique" => ~Site!Clash(tx[r].parent, tx[r].name, None)
        PROVE  SoleIInv'
    <2>1. PICK t : t = [tx[r] EXCEPT !.pc = pc]
      OBVIOUS
    <2>2. tx' = [tx EXCEPT ![r] = t] /\ row' = row
      BY <1>3, <2>1 DEF Site!Go, TreeIInv, TreeTypes
    <2>3. tx'[r] = t
      BY <2>2, OthersStay DEF TreeIInv
    <2>4. t.op = "create" /\ t.pc = pc /\ t.parent = tx[r].parent /\ t.name = tx[r].name
      BY <1>1, <2>1 DEF CreateCalls
    <2>5. SoleOK(r)'
      BY <1>3, <2>2, <2>3, <2>4 DEF SoleOK, Doing, Site!Clash, Site!Exists
    <2>6. Site!SiblingNamesDiffer'
      BY <2>2 DEF SoleIInv, Site!SiblingNamesDiffer, Site!Exists
    <2> QED BY <2>2, <2>5, <2>6, SoleStep
  <1>4. CASE Site!CreateFind(r) /\ ~\E result : Site!Fail(r, result)
    <2>1. Site!Go(r, "unique")
      BY <1>4 DEF Site!CreateFind
    <2> QED BY <1>3, <2>1
  <1>5. CASE Site!CreateUnique(r) /\ ~\E result : Site!Fail(r, result)
    <2>1. Site!Go(r, "write") /\ ~Site!Clash(tx[r].parent, tx[r].name, None)
      BY <1>1, <1>5 DEF Site!CreateUnique, Site!Unique
    <2> QED BY <1>3, <2>1
  <1>6. CASE Site!CreateInsert(r) /\ ~\E result : Site!Fail(r, result)
    <2>1. Site!Go(r, "commit") /\ tx[r].pc = "write"
      BY <1>6 DEF Site!CreateInsert, Site!At
    <2>2. ~Site!Clash(tx[r].parent, tx[r].name, None)
      BY <1>1, <2>1 DEF SoleIInv, SoleOK
    <2> QED BY <1>3, <2>1, <2>2
  <1>7. CASE Site!CreateCommit(r)
    <2>1. PICK n, new : n = tx[r].node
             /\ new = [kind |-> tx[r].kind, parent |-> tx[r].parent, name |-> tx[r].name]
      OBVIOUS
    <2>2. row' = [row EXCEPT ![n] = new] /\ Site!Done(r) /\ tx[r].pc = "commit"
      BY <1>7, <2>1 DEF Site!CreateCommit, Site!At
    <2>3. n \in Nodes /\ row[n] = None
      BY <1>1, <2>1 DEF CreateCalls, TreeIInv, CallOK, CreateOK
    <2>4. row'[n] = new /\ \A m \in Nodes \ {n} : row'[m] = row[m]
      BY <2>2, <2>3 DEF TreeIInv, TreeTypes
    <2>5. ~Site!Clash(new.parent, new.name, None)
      BY <1>1, <2>1, <2>2 DEF SoleIInv, SoleOK
    <2>6. \A m \in Nodes \ {n} : row[m] # None /\ row[m].parent = new.parent => row[m].name # new.name
      BY <2>5 DEF Site!Clash, Site!Exists, TreeConstants
    <2>7. Site!SiblingNamesDiffer'
      BY <2>4, <2>6 DEF SoleIInv, Site!SiblingNamesDiffer, Site!Exists
    <2> QED BY <2>2, <2>7, SoleCommits
  <1> QED BY <1>2, <1>4, <1>5, <1>6, <1>7

LEMMA SoleRenames ==
    ASSUME TreeIInv, TreeConstants, SoleIInv, NEW r \in Requests,
           \A s \in Requests \ {r} : tx[s].pc = "done",
           Site!RenameFind(r) \/ Site!RenameUnique(r) \/ Site!RenameWrite(r) \/ Site!RenameCommit(r)
    PROVE  SoleIInv'
  <1>1. tx[r] \in RenameCalls /\ Doing(r, "rename") /\ tx[r].op = "rename"
    BY OpIs, ShapeIs DEF Site!RenameFind, Site!RenameUnique, Site!RenameWrite, Site!RenameCommit, Site!At, TreeIInv
  <1>2. CASE \E result : Site!Fail(r, result)
    BY <1>1, <1>2, SoleFails
  <1>3. ASSUME NEW t \in RenameCalls, tx' = [tx EXCEPT ![r] = t], row' = row,
               t.node = tx[r].node,
               Site!Exists(tx[r].node) /\ t.parent = row[tx[r].node].parent,
               t.pc # "unique" => ~Site!Clash(t.parent, tx[r].name, tx[r].node),
               t.name = tx[r].name
        PROVE  SoleIInv'
    <2>1. tx'[r] = t
      BY <1>3, OthersStay DEF TreeIInv
    <2>2. t.op = "rename" /\ t.pc # "done"
      BY DEF RenameCalls
    <2>3. SoleOK(r)'
      BY <1>3, <2>1, <2>2 DEF SoleOK, Doing, Site!Clash, Site!Exists
    <2>4. Site!SiblingNamesDiffer'
      BY <1>3 DEF SoleIInv, Site!SiblingNamesDiffer, Site!Exists
    <2> QED BY <1>3, <2>3, <2>4, SoleStep
  <1>4. CASE Site!RenameFind(r) /\ ~\E result : Site!Fail(r, result)
    <2>1. PICK t : t = [tx[r] EXCEPT !.pc = "unique", !.parent = row[tx[r].node].parent]
      OBVIOUS
    <2>2. Site!Exists(tx[r].node) /\ tx' = [tx EXCEPT ![r] = t] /\ row' = row
      BY <1>4, <2>1 DEF Site!RenameFind, TreeIInv, TreeTypes
    <2>3. row[tx[r].node].parent \in Nodes \cup {None}
      BY <1>1, <2>2 DEF Site!Exists, TreeIInv, TreeTypes, RenameCalls, PlaceRows
    <2>4. t \in RenameCalls /\ t.pc = "unique" /\ t.node = tx[r].node /\ t.name = tx[r].name
          /\ t.parent = row[tx[r].node].parent
      BY <1>1, <2>1, <2>3 DEF RenameCalls
    <2> QED BY <1>3, <2>2, <2>4
  <1>5. ASSUME NEW pc \in {"write", "commit"}, Site!Go(r, pc), tx[r].pc # "find",
               ~Site!Clash(tx[r].parent, tx[r].name, tx[r].node)
        PROVE  SoleIInv'
    <2>1. PICK t : t = [tx[r] EXCEPT !.pc = pc]
      OBVIOUS
    <2>2. tx' = [tx EXCEPT ![r] = t] /\ row' = row
      BY <1>5, <2>1 DEF Site!Go, TreeIInv, TreeTypes
    <2>3. t \in RenameCalls /\ t.node = tx[r].node /\ t.name = tx[r].name /\ t.parent = tx[r].parent
      BY <1>1, <2>1 DEF RenameCalls
    <2>4. Site!Exists(tx[r].node) /\ tx[r].parent = row[tx[r].node].parent
      BY <1>1, <1>5 DEF SoleIInv, SoleOK
    <2> QED BY <1>3, <1>5, <2>2, <2>3, <2>4
  <1>6. CASE Site!RenameUnique(r) /\ ~\E result : Site!Fail(r, result)
    <2>1. Site!Go(r, "write") /\ tx[r].pc # "find" /\ ~Site!Clash(tx[r].parent, tx[r].name, tx[r].node)
      BY <1>1, <1>6 DEF Site!RenameUnique, Site!Unique, Site!At
    <2> QED BY <1>5, <2>1
  <1>7. CASE Site!RenameWrite(r) /\ ~\E result : Site!Fail(r, result)
    <2>1. Site!Go(r, "commit") /\ tx[r].pc = "write"
      BY <1>7 DEF Site!RenameWrite, Site!At
    <2>2. ~Site!Clash(tx[r].parent, tx[r].name, tx[r].node)
      BY <1>1, <2>1 DEF SoleIInv, SoleOK
    <2> QED BY <1>5, <2>1, <2>2
  <1>8. CASE Site!RenameCommit(r)
    <2>1. PICK n, new : n = tx[r].node /\ new = [row[n] EXCEPT !.name = tx[r].name]
      OBVIOUS
    <2>2. row' = [row EXCEPT ![n] = new] /\ Site!Done(r) /\ tx[r].pc = "commit"
      BY <1>8, <2>1 DEF Site!RenameCommit, Site!At, TreeIInv, TreeTypes
    <2>3. n \in Nodes /\ Site!Exists(n) /\ tx[r].parent = row[n].parent
          /\ ~Site!Clash(tx[r].parent, tx[r].name, n)
      BY <1>1, <2>1, <2>2 DEF SoleIInv, SoleOK, RenameCalls
    <2>4. row[n] \in PlaceRows
      BY <2>3 DEF TreeIInv, TreeTypes, Site!Exists
    <2>5. new.parent = row[n].parent /\ new.name = tx[r].name
      BY <2>1, <2>4 DEF PlaceRows
    <2>6. row'[n] = new /\ \A m \in Nodes \ {n} : row'[m] = row[m]
      BY <2>2, <2>3 DEF TreeIInv, TreeTypes
    <2>7. \A m \in Nodes \ {n} : row[m] # None /\ row[m].parent = new.parent => row[m].name # new.name
      BY <2>3, <2>5 DEF Site!Clash, Site!Exists, TreeConstants
    <2>8. Site!SiblingNamesDiffer'
      BY <2>6, <2>7 DEF SoleIInv, Site!SiblingNamesDiffer, Site!Exists
    <2> QED BY <2>2, <2>8, SoleCommits
  <1> QED BY <1>2, <1>4, <1>6, <1>7, <1>8

LEMMA SoleEdits ==
    ASSUME TreeIInv, TreeConstants, SoleIInv, NEW r \in Requests,
           \A s \in Requests \ {r} : tx[s].pc = "done",
           Site!EditFind(r) \/ Site!EditWrite(r) \/ Site!EditCommit(r)
    PROVE  SoleIInv'
  <1>1. tx[r] \in EditCalls /\ Doing(r, "card") /\ tx[r].op = "card"
    BY OpIs, ShapeIs DEF Site!EditFind, Site!EditWrite, Site!EditCommit, Site!At, TreeIInv
  <1>2. CASE \E result : Site!Fail(r, result)
    BY <1>1, <1>2, SoleFails
  <1>3. ASSUME NEW t, tx' = [tx EXCEPT ![r] = t], row' = row, t.op = "card"
        PROVE  SoleIInv'
    <2>1. tx'[r] = t
      BY <1>3, OthersStay DEF TreeIInv
    <2>2. SoleOK(r)'
      BY <1>3, <2>1 DEF SoleOK, Doing
    <2>3. Site!SiblingNamesDiffer'
      BY <1>3 DEF SoleIInv, Site!SiblingNamesDiffer, Site!Exists
    <2> QED BY <1>3, <2>2, <2>3, SoleStep
  <1>4. CASE Site!EditFind(r) /\ ~\E result : Site!Fail(r, result)
    <2>1. PICK to : tx' = [tx EXCEPT ![r].pc = "write", ![r].to = to] /\ row' = row
      BY <1>4 DEF Site!EditFind
    <2>2. PICK t : t = [tx[r] EXCEPT !.pc = "write", !.to = to]
      OBVIOUS
    <2>3. tx' = [tx EXCEPT ![r] = t] /\ t.op = "card"
      BY <1>1, <2>1, <2>2 DEF TreeIInv, TreeTypes, EditCalls
    <2> QED BY <1>3, <2>1, <2>3
  <1>5. CASE Site!EditWrite(r) /\ ~\E result : Site!Fail(r, result)
    <2>1. Site!Go(r, "commit")
      BY <1>5 DEF Site!EditWrite
    <2>2. PICK t : t = [tx[r] EXCEPT !.pc = "commit"]
      OBVIOUS
    <2>3. tx' = [tx EXCEPT ![r] = t] /\ t.op = "card" /\ row' = row
      BY <1>1, <2>1, <2>2 DEF Site!Go, TreeIInv, TreeTypes, EditCalls
    <2> QED BY <1>3, <2>3
  <1>6. CASE Site!EditCommit(r)
    <2>1. Site!Done(r) /\ row' = row
      BY <1>6 DEF Site!EditCommit
    <2>2. Site!SiblingNamesDiffer'
      BY <2>1 DEF SoleIInv, Site!SiblingNamesDiffer, Site!Exists
    <2> QED BY <2>1, <2>2, SoleCommits
  <1> QED BY <1>2, <1>4, <1>5, <1>6

LEMMA SoleBegins ==
    ASSUME TreeIInv, TreeConstants, SoleIInv, NEW r \in Requests,
           \A s \in Requests \ {r} : tx[s].pc = "done", Site!Call(r)
    PROVE  SoleIInv'
  <1>1. ASSUME NEW t, Site!Begin(r, t), row' = row, t.pc = "find",
               t.op = "delete" => t.levels = <<{t.node}>> /\ t.op \notin {"create", "rename"}
        PROVE  SoleIInv'
    <2>1. tx' = [tx EXCEPT ![r] = t]
      BY <1>1 DEF Site!Begin
    <2>2. tx'[r] = t
      BY <2>1, OthersStay DEF TreeIInv
    <2>3. SoleOK(r)'
      BY <1>1, <2>2 DEF SoleOK, SoleDelete, Doing
    <2>4. Site!SiblingNamesDiffer'
      BY <1>1 DEF SoleIInv, Site!SiblingNamesDiffer, Site!Exists
    <2> QED BY <2>1, <2>3, <2>4, SoleStep
  <1>2. CASE Site!Create(r)
    <2>1. PICK n \in Nodes \ used, k \in Site!Kinds, p \in used \cup {None}, m \in Names :
             Site!Begin(r, [op |-> "create", pc |-> "find", node |-> n, kind |-> k,
                         parent |-> p, name |-> m]) /\ row' = row
      BY <1>2 DEF Site!Create
    <2>2. PICK t : t = [op |-> "create", pc |-> "find", node |-> n, kind |-> k,
                        parent |-> p, name |-> m]
      OBVIOUS
    <2>3. t.pc = "find" /\ t.op = "create"
      BY <2>2
    <2> QED BY <1>1, <2>1, <2>2, <2>3
  <1>3. CASE Site!Rename(r)
    <2>1. PICK n \in used, m \in Names :
             Site!Begin(r, [op |-> "rename", pc |-> "find", node |-> n, name |-> m, parent |-> None])
             /\ row' = row
      BY <1>3 DEF Site!Rename
    <2>2. PICK t : t = [op |-> "rename", pc |-> "find", node |-> n, name |-> m, parent |-> None]
      OBVIOUS
    <2>3. t.pc = "find" /\ t.op = "rename"
      BY <2>2
    <2> QED BY <1>1, <2>1, <2>2, <2>3
  <1>4. CASE Site!Delete(r)
    <2>1. PICK n \in used :
             Site!Begin(r, [op |-> "delete", pc |-> "find", node |-> n, levels |-> <<{n}>>,
                         cleared |-> {}, gone |-> {}]) /\ row' = row
      BY <1>4 DEF Site!Delete
    <2>2. PICK t : t = [op |-> "delete", pc |-> "find", node |-> n, levels |-> <<{n}>>,
                        cleared |-> {}, gone |-> {}]
      OBVIOUS
    <2>3. t.pc = "find" /\ t.op = "delete" /\ t.levels = <<{t.node}>>
      BY <2>2
    <2> QED BY <1>1, <2>1, <2>2, <2>3
  <1>5. CASE Site!EditCard(r)
    <2>1. PICK c \in Cards, to \in used \cup {None, "kept"} :
             Site!Begin(r, [op |-> "card", pc |-> "find", card |-> c, to |-> to]) /\ row' = row
      BY <1>5 DEF Site!EditCard
    <2>2. PICK t : t = [op |-> "card", pc |-> "find", card |-> c, to |-> to]
      OBVIOUS
    <2>3. t.pc = "find" /\ t.op = "card"
      BY <2>2
    <2> QED BY <1>1, <2>1, <2>2, <2>3
  <1> QED BY <1>2, <1>3, <1>4, <1>5 DEF Site!Call

LEMMA DeeperThanItsParent ==
    ASSUME TreeIInv, TreeConstants, NEW m \in Nodes, row[m] # None, row[m].parent \in Nodes
    PROVE  /\ row[row[m].parent] # None
           /\ Depth[row[m].kind] = Depth[row[row[m].parent].kind] + 1
           /\ Depth[row[m].kind] \in Nat /\ Depth[row[row[m].parent].kind] \in Nat
  <1>1. m # None /\ row[m].parent # None /\ row[m].kind \in Site!Kinds
    BY DEF TreeConstants, TreeIInv, TreeTypes, PlaceRows
  <1>2. PICK k : k = Site!RequiredParent[row[m].kind]
    OBVIOUS
  <1>3. k # None /\ row[row[m].parent] # None /\ row[row[m].parent].kind = k
    BY <1>1, <1>2 DEF TreeIInv, Site!TreeIsSound, Site!Exists
  <1>4. \/ row[m].kind = "floor" /\ k = "building"
        \/ row[m].kind = "room" /\ k = "floor"
    BY <1>1, <1>2, <1>3 DEF Site!Kinds, Site!RequiredParent
  <1> QED BY <1>3, <1>4 DEF Depth

\* The children of the deepest level are collected for the first time.
LEMMA NewLevel ==
    ASSUME TreeIInv, TreeConstants, SoleIInv, NEW r \in Requests,
           Doing(r, "delete"), tx[r].pc = "walk"
    PROVE  /\ Site!Children(tx[r].levels[1]) \cap Site!Subtree(r) = {}
           /\ 1 \in DOMAIN tx[r].levels /\ tx[r].levels[1] \subseteq Nodes
           /\ \A m \in Site!Children(tx[r].levels[1]) :
                 /\ row[m] # None
                 /\ Depth[row[m].kind] = Depth[row[tx[r].node].kind] + Len(tx[r].levels)
           /\ Depth[row[tx[r].node].kind] \in Nat
  <1>1. tx[r] \in DeleteCalls /\ SoleDelete(r)
    BY ShapeIs DEF TreeIInv, SoleIInv, SoleOK
  <1>2. PICK q, base : q = tx[r].levels /\ base = Depth[row[tx[r].node].kind]
    OBVIOUS
  <1>3. /\ q \in Seq(SUBSET Nodes) /\ q # << >>
        /\ \A i \in DOMAIN q : \A n \in q[i] : Depth[row[n].kind] + i = base + Len(q)
    BY <1>1, <1>2 DEF DeleteCalls, SoleDelete
  <1>4. base \in Nat
    <2>1. tx[r].node \in Nodes /\ row[tx[r].node] # None
      BY <1>1 DEF DeleteCalls, SoleDelete, Site!Exists
    <2>2. row[tx[r].node].kind \in Site!Kinds
      BY <2>1 DEF TreeIInv, TreeTypes, PlaceRows
    <2> QED BY <1>2, <2>2 DEF Site!Kinds, Depth
  <1>5. 1 \in DOMAIN q /\ q[1] \subseteq Nodes /\ Len(q) \in Nat
    BY <1>3
  <1>6. ASSUME NEW m \in Site!Children(q[1])
        PROVE  m \in Nodes /\ row[m] # None /\ Depth[row[m].kind] = base + Len(q)
    <2>1. m \in Nodes /\ row[m] # None /\ row[m].parent \in q[1]
      BY <1>6 DEF Site!Children, Site!Exists
    <2>2. Depth[row[row[m].parent].kind] + 1 = base + Len(q)
      BY <1>3, <1>5, <2>1
    <2> QED BY <1>5, <2>1, <2>2, DeeperThanItsParent
  <1>7. ASSUME NEW m \in Site!Children(q[1]), NEW i \in DOMAIN q, m \in q[i] PROVE FALSE
    <2>1. Depth[row[m].kind] + i = base + Len(q) /\ i \in 1..Len(q)
      BY <1>3, <1>7
    <2> QED BY <1>4, <1>5, <1>6, <1>7, <2>1
  <1>8. Site!Subtree(r) = UNION {q[i] : i \in DOMAIN q}
    BY <1>2 DEF Site!Subtree
  <1>9. Site!Children(q[1]) \cap Site!Subtree(r) = {}
    BY <1>7, <1>8
  <1> QED BY <1>2, <1>4, <1>5, <1>6, <1>9

LEMMA Prepended ==
    ASSUME NEW q \in Seq(SUBSET Nodes), NEW x \in SUBSET Nodes
    PROVE  /\ <<x>> \o q # << >> /\ Len(<<x>> \o q) = Len(q) + 1 /\ Len(q) \in Nat
           /\ (<<x>> \o q)[1] = x
           /\ \A i \in DOMAIN (<<x>> \o q) :
                 /\ i \in Nat
                 /\ i = 1 \/ (i > 1 /\ i - 1 \in DOMAIN q /\ (<<x>> \o q)[i] = q[i - 1])
  OBVIOUS

LEMMA SoleDeletesOn ==
    ASSUME TreeIInv, SoleIInv, NEW r \in Requests, NEW t \in DeleteCalls,
           tx' = [tx EXCEPT ![r] = t], UNCHANGED row, SoleDelete(r)',
           \A s \in Requests \ {r} : tx[s].pc = "done"
    PROVE  SoleIInv'
  <1>1. tx'[r] = t
    BY OthersStay DEF TreeIInv
  <1>2. t.op = "delete" /\ t.pc # "done"
    BY DEF DeleteCalls
  <1>3. SoleOK(r)'
    BY <1>1, <1>2 DEF SoleOK, Doing
  <1>4. Site!SiblingNamesDiffer'
    BY DEF SoleIInv, Site!SiblingNamesDiffer, Site!Exists
  <1> QED BY <1>3, <1>4, SoleStep

LEMMA SoleCollects ==
    ASSUME TreeIInv, TreeConstants, SoleIInv, NEW r \in Requests,
           \A s \in Requests \ {r} : tx[s].pc = "done",
           Site!DeleteFind(r) \/ Site!CollectSubtree(r) \/ Site!ClearCards(r)
    PROVE  SoleIInv'
  <1>1. tx[r] \in DeleteCalls /\ Doing(r, "delete") /\ tx[r].op = "delete" /\ SoleDelete(r)
    BY OpIs, ShapeIs DEF Site!DeleteFind, Site!CollectSubtree, Site!ClearCards, Site!At, TreeIInv,
                         SoleIInv, SoleOK
  <1>2. PICK q : q = tx[r].levels
    OBVIOUS
  <1>3. q \in Seq(SUBSET Nodes)
    BY <1>1, <1>2 DEF DeleteCalls
  <1>4. CASE Site!DeleteFind(r) /\ ~Site!Exists(tx[r].node)
    BY <1>1, <1>4, SoleFails DEF Site!DeleteFind
  <1>5. CASE Site!DeleteFind(r) /\ Site!Exists(tx[r].node)
    <2>1. PICK t : t = [tx[r] EXCEPT !.pc = "walk"]
      OBVIOUS
    <2>2. tx' = [tx EXCEPT ![r] = t] /\ row' = row /\ loc' = loc
      BY <1>5, <2>1 DEF Site!DeleteFind, Site!Go, TreeIInv, TreeTypes
    <2>3. t \in DeleteCalls /\ t.pc = "walk" /\ t.node = tx[r].node /\ t.levels = <<{t.node}>>
      BY <1>1, <1>5, <2>1 DEF DeleteCalls, SoleDelete, Site!DeleteFind, Site!At
    <2>4. tx'[r] = t
      BY <2>2, OthersStay DEF TreeIInv
    <2>5. DOMAIN t.levels = {1} /\ t.levels[1] = {t.node} /\ Len(t.levels) = 1 /\ t.levels # << >>
      BY <2>3
    <2>6. /\ t.levels # << >> /\ t.node # None /\ row[t.node] # None
          /\ \A i \in DOMAIN t.levels : \A n \in t.levels[i] :
                /\ Depth[row[n].kind] + i = Depth[row[t.node].kind] + Len(t.levels)
                /\ n # None /\ row[n] # None
          /\ \A i \in DOMAIN t.levels : ~(i > 1)
      BY <1>5, <2>3, <2>5 DEF Site!Exists
    <2>7. SoleDelete(r)'
      BY <2>2, <2>3, <2>4, <2>6 DEF SoleDelete, Site!Exists
    <2> QED BY <2>2, <2>3, <2>7, SoleDeletesOn
  <1>6. CASE Site!CollectSubtree(r)
    <2>1. tx[r].pc = "walk"
      BY <1>6 DEF Site!CollectSubtree, Site!At
    <2>2. PICK level : level = Site!Children(q[1]) \ Site!Subtree(r)
      OBVIOUS
    <2>3. level = Site!Children(q[1])
      BY <1>1, <1>2, <2>1, <2>2, NewLevel
    <2>4. /\ q # << >> /\ Site!Exists(tx[r].node)
          /\ \A i \in DOMAIN q : /\ i > 1 => Site!Children(q[i]) \subseteq q[i - 1] \cup tx[r].gone
                                 /\ \A n \in q[i] : /\ row[n] # None /\ n # None
                                                    /\ Depth[row[n].kind] + i
                                                         = Depth[row[tx[r].node].kind] + Len(q)
      BY <1>1, <1>2, <2>1 DEF SoleDelete, Site!Exists
    <2>5. CASE level = {}
      <3>1. PICK t : t = [tx[r] EXCEPT !.pc = "clear"]
        OBVIOUS
      <3>2. tx' = [tx EXCEPT ![r] = t] /\ row' = row /\ loc' = loc
        BY <1>2, <1>6, <2>2, <2>5, <3>1 DEF Site!CollectSubtree, Site!Go, TreeIInv, TreeTypes
      <3>3. t \in DeleteCalls /\ t.pc = "clear" /\ t.levels = q /\ t.gone = tx[r].gone
        BY <1>1, <1>2, <3>1 DEF DeleteCalls
      <3>4. tx'[r] = t
        BY <3>2, OthersStay DEF TreeIInv
      <3>5. SoleDelete(r)'
        BY <2>3, <2>4, <2>5, <3>2, <3>3, <3>4 DEF SoleDelete, Site!Exists, Site!Children
      <3> QED BY <3>2, <3>3, <3>5, SoleDeletesOn
    <2>6. CASE level # {}
      <3>1. PICK t, w : t = [tx[r] EXCEPT !.levels = <<level>> \o q] /\ w = <<level>> \o q
        OBVIOUS
      <3>2. tx' = [tx EXCEPT ![r] = t] /\ row' = row /\ loc' = loc
        BY <1>2, <1>6, <2>2, <2>6, <3>1 DEF Site!CollectSubtree, TreeIInv, TreeTypes
      <3>3. level \in SUBSET Nodes
        BY <2>3 DEF Site!Children
      <3>4. /\ w # << >> /\ Len(w) = Len(q) + 1 /\ Len(q) \in Nat /\ w[1] = level
            /\ \A i \in DOMAIN w : i \in Nat /\ (i = 1 \/ (i > 1 /\ i - 1 \in DOMAIN q /\ w[i] = q[i - 1]))
        BY <1>3, <3>1, <3>3, Prepended
      <3>5. w \in Seq(SUBSET Nodes)
        <4>1. <<level>> \in Seq(SUBSET Nodes)
          BY <3>3
        <4> QED BY <1>3, <3>1, <4>1
      <3>6. t \in DeleteCalls /\ t.pc = "walk" /\ t.levels = w /\ t.gone = tx[r].gone
            /\ t.node = tx[r].node
        BY <1>1, <2>1, <3>1, <3>5 DEF DeleteCalls
      <3>7. tx'[r] = t
        BY <3>2, OthersStay DEF TreeIInv
      <3>8. PICK base : base = Depth[row[tx[r].node].kind]
        OBVIOUS
      <3>9. base \in Nat /\ \A m \in level : row[m] # None /\ m \in Nodes
                                              /\ Depth[row[m].kind] = base + Len(q)
        BY <1>1, <1>2, <2>1, <2>3, <3>3, <3>8, NewLevel
      <3>10. ASSUME NEW i \in DOMAIN w, NEW n \in w[i]
             PROVE  row[n] # None /\ n # None /\ Depth[row[n].kind] + i = base + Len(w)
        <4>1. CASE i = 1
          BY <3>4, <3>9, <3>10, <4>1 DEF TreeConstants
        <4>2. CASE i # 1
          <5>1. i \in Nat /\ i - 1 \in DOMAIN q /\ n \in q[i - 1]
            BY <3>4, <3>10, <4>2
          <5>2. row[n] # None /\ n # None /\ Depth[row[n].kind] + (i - 1) = base + Len(q)
            BY <2>4, <3>8, <5>1
          <5>3. Depth[row[n].kind] \in Nat
            <6>1. n \in Nodes
              BY <1>3, <5>1
            <6>2. row[n].kind \in Site!Kinds
              BY <5>2, <6>1 DEF TreeIInv, TreeTypes, PlaceRows
            <6> QED BY <6>2 DEF Site!Kinds, Depth
          <5>4. PICK d, l : d = Depth[row[n].kind] /\ l = Len(q)
            OBVIOUS
          <5>5. d \in Nat /\ l \in Nat /\ base \in Nat /\ i \in Nat /\ d + (i - 1) = base + l
            BY <3>4, <3>9, <5>1, <5>2, <5>3, <5>4
          <5>6. d + i = base + (l + 1)
            BY <5>5
          <5> QED BY <3>4, <5>2, <5>4, <5>6
        <4> QED BY <4>1, <4>2
      <3>11. ASSUME NEW i \in DOMAIN w, i > 1
             PROVE  Site!Children(w[i]) \subseteq w[i - 1] \cup tx[r].gone
        <4>1. i \in Nat /\ i - 1 \in DOMAIN q /\ w[i] = q[i - 1]
          BY <3>4, <3>11
        <4>2. CASE i = 2
          BY <2>3, <3>4, <4>1, <4>2
        <4>3. CASE i # 2
          <5>1. i - 1 \in DOMAIN w /\ i - 1 > 1 /\ i - 2 = (i - 1) - 1
            BY <1>3, <3>4, <3>5, <3>11, <4>1, <4>3
          <5>2. w[i - 1] = q[(i - 1) - 1]
            BY <3>4, <5>1
          <5> QED BY <2>4, <4>1, <5>1, <5>2
        <4> QED BY <4>2, <4>3
      <3>12. SoleDelete(r)'
        <4>1. \A i \in DOMAIN t.levels : i > 1 => Site!Children(t.levels[i])' \subseteq t.levels[i - 1] \cup t.gone
          BY <3>2, <3>6, <3>11 DEF Site!Exists, Site!Children
        <4>2. /\ t.levels # << >> /\ t.node # None /\ row'[t.node] # None
              /\ \A i \in DOMAIN t.levels : \A n \in t.levels[i] :
                    /\ Depth[row'[n].kind] + i = Depth[row'[t.node].kind] + Len(t.levels)
                    /\ n # None /\ row'[n] # None
          BY <2>4, <3>2, <3>4, <3>6, <3>8, <3>10 DEF Site!Exists
        <4> QED BY <3>6, <3>7, <4>1, <4>2 DEF SoleDelete, Site!Exists
      <3> QED BY <3>2, <3>6, <3>12, SoleDeletesOn
    <2> QED BY <2>5, <2>6
  <1>7. CASE Site!ClearCards(r)
    <2>1. PICK cleared : /\ cleared = {c \in Cards : loc[c] \in Site!Subtree(r)}
                         /\ tx' = [tx EXCEPT ![r].pc = "rows", ![r].cleared = cleared]
                         /\ row' = row /\ loc' = loc /\ tx[r].pc = "clear"
      BY <1>7 DEF Site!ClearCards, Site!At
    <2>2. PICK t : t = [tx[r] EXCEPT !.pc = "rows", !.cleared = cleared]
      OBVIOUS
    <2>3. tx' = [tx EXCEPT ![r] = t]
      BY <2>1, <2>2 DEF TreeIInv, TreeTypes
    <2>4. t \in DeleteCalls /\ t.pc = "rows" /\ t.levels = q /\ t.gone = tx[r].gone
          /\ t.cleared = cleared
      BY <1>1, <1>2, <2>1, <2>2 DEF DeleteCalls
    <2>5. tx'[r] = t
      BY <2>3, OthersStay DEF TreeIInv
    <2>6. \A c \in Cards : loc[c] \in UNION {q[i] : i \in DOMAIN q} => c \in cleared
      BY <1>2, <2>1 DEF Site!Subtree
    <2>7. SoleDelete(r)'
      <3>1. /\ \A i \in DOMAIN q : i > 1 => Site!Children(q[i]) \subseteq q[i - 1] \cup t.gone
            /\ q # << >> => Site!Children(q[1]) \subseteq t.gone
            /\ \A i \in DOMAIN q : \A n \in q[i] : n # None /\ row[n] # None
        BY <1>1, <1>2, <2>1, <2>4 DEF SoleDelete, Site!Exists
      <3>2. /\ \A i \in DOMAIN q : i > 1 => Site!Children(q[i])' \subseteq q[i - 1] \cup t.gone
            /\ q # << >> => Site!Children(q[1])' \subseteq t.gone
        BY <2>1, <3>1 DEF Site!Exists, Site!Children
      <3>3. t.pc = "rows" /\ t.pc # "walk" /\ t.pc # "find"
        BY <2>4
      <3>4. /\ \A i \in DOMAIN t.levels : i > 1 => Site!Children(t.levels[i])' \subseteq t.levels[i - 1] \cup t.gone
            /\ t.levels # << >> => Site!Children(t.levels[1])' \subseteq t.gone
            /\ \A i \in DOMAIN t.levels : \A n \in t.levels[i] : n # None /\ row'[n] # None
            /\ \A c \in Cards : loc'[c] \in UNION {t.levels[i] : i \in DOMAIN t.levels} => c \in t.cleared
        BY <2>1, <2>4, <2>6, <3>1, <3>2
      <3> QED BY <2>5, <3>3, <3>4 DEF SoleDelete, Site!Exists, Site!Subtree
    <2> QED BY <2>1, <2>3, <2>4, <2>7, SoleDeletesOn
  <1> QED BY <1>4, <1>5, <1>6, <1>7

LEMMA TailOfLevels ==
    ASSUME NEW q \in Seq(SUBSET Nodes), q # << >>
    PROVE  /\ Tail(q) \in Seq(SUBSET Nodes)
           /\ \A i \in DOMAIN Tail(q) : i \in Nat /\ i + 1 \in DOMAIN q /\ Tail(q)[i] = q[i + 1]
           /\ Tail(q) # << >> => 2 \in DOMAIN q /\ Tail(q)[1] = q[2]
           /\ 1 \in DOMAIN q /\ Head(q) = q[1]
  OBVIOUS

LEMMA SoleRows ==
    ASSUME TreeIInv, TreeConstants, SoleIInv, NEW r \in Requests,
           \A s \in Requests \ {r} : tx[s].pc = "done",
           Site!DeleteRow(r) \/ Site!DeleteCommit(r)
    PROVE  SoleIInv'
  <1>1. tx[r] \in DeleteCalls /\ Doing(r, "delete") /\ tx[r].op = "delete" /\ tx[r].pc = "rows"
        /\ SoleDelete(r)
    BY OpIs, ShapeIs DEF Site!DeleteRow, Site!DeleteCommit, Site!At, TreeIInv, SoleIInv, SoleOK
  <1>2. PICK q, gone, cleared : q = tx[r].levels /\ gone = tx[r].gone /\ cleared = tx[r].cleared
    OBVIOUS
  <1>3. /\ q \in Seq(SUBSET Nodes) /\ gone \subseteq Nodes /\ cleared \subseteq Cards
        /\ \A i \in DOMAIN q : /\ i > 1 => Site!Children(q[i]) \subseteq q[i - 1] \cup gone
                               /\ \A n \in q[i] : row[n] # None /\ n # None
        /\ q # << >> => Site!Children(q[1]) \subseteq gone
        /\ \A c \in Cards : loc[c] \in UNION {q[i] : i \in DOMAIN q} => c \in cleared
    BY <1>1, <1>2 DEF DeleteCalls, SoleDelete, Site!Exists, Site!Subtree
  <1>4. ASSUME NEW t \in DeleteCalls, tx' = [tx EXCEPT ![r] = t], row' = row, loc' = loc,
               t.pc = "rows", t.cleared = cleared,
               \A i \in DOMAIN t.levels :
                  /\ i > 1 => Site!Children(t.levels[i]) \subseteq t.levels[i - 1] \cup t.gone
                  /\ \A n \in t.levels[i] : row[n] # None /\ n # None
                  /\ t.levels[i] \subseteq UNION {q[j] : j \in DOMAIN q},
               t.levels # << >> => Site!Children(t.levels[1]) \subseteq t.gone
        PROVE  SoleIInv'
    <2>1. tx'[r] = t
      BY <1>4, OthersStay DEF TreeIInv
    <2>2. \A ps : Site!Children(ps)' = Site!Children(ps)
      BY <1>4 DEF Site!Children, Site!Exists
    <2>3. \A c \in Cards : loc[c] \in UNION {t.levels[i] : i \in DOMAIN t.levels} => c \in cleared
      BY <1>3, <1>4
    <2>4. SoleDelete(r)'
      <3>1. t.pc # "walk" /\ t.pc # "find"
        BY <1>4
      <3>2. /\ \A i \in DOMAIN t.levels :
                  i > 1 => Site!Children(t.levels[i])' \subseteq t.levels[i - 1] \cup t.gone
            /\ t.levels # << >> => Site!Children(t.levels[1])' \subseteq t.gone
        BY <1>4 DEF Site!Children, Site!Exists
      <3> QED BY <1>4, <2>1, <2>3, <3>1, <3>2 DEF SoleDelete, Site!Exists, Site!Subtree
    <2> QED BY <1>4, <2>4, SoleDeletesOn
  <1>5. CASE Site!DeleteRow(r)
    <2>1. q # << >>
      BY <1>2, <1>5 DEF Site!DeleteRow
    <2>2. /\ Tail(q) \in Seq(SUBSET Nodes)
          /\ \A i \in DOMAIN Tail(q) : i \in Nat /\ i + 1 \in DOMAIN q /\ Tail(q)[i] = q[i + 1]
          /\ Tail(q) # << >> => 2 \in DOMAIN q /\ Tail(q)[1] = q[2]
          /\ 1 \in DOMAIN q /\ Head(q) = q[1]
      BY <1>3, <2>1, TailOfLevels
    <2>3. CASE Head(q) = {}
      <3>1. PICK t : t = [tx[r] EXCEPT !.levels = Tail(q)]
        OBVIOUS
      <3>2. tx' = [tx EXCEPT ![r] = t] /\ row' = row /\ loc' = loc
        BY <1>2, <1>5, <2>3, <3>1 DEF Site!DeleteRow, TreeIInv, TreeTypes
      <3>3. t \in DeleteCalls /\ t.pc = "rows" /\ t.cleared = cleared /\ t.gone = gone
            /\ t.levels = Tail(q)
        BY <1>1, <1>2, <2>2, <3>1 DEF DeleteCalls
      <3>4. ASSUME NEW i \in DOMAIN Tail(q)
            PROVE  /\ i > 1 => Site!Children(Tail(q)[i]) \subseteq Tail(q)[i - 1] \cup gone
                   /\ \A n \in Tail(q)[i] : row[n] # None /\ n # None
                   /\ Tail(q)[i] \subseteq UNION {q[j] : j \in DOMAIN q}
        <4>1. i \in Nat /\ i + 1 \in DOMAIN q /\ Tail(q)[i] = q[i + 1] /\ i \in 1..Len(Tail(q))
          BY <2>2
        <4>2. ASSUME i > 1 PROVE Site!Children(Tail(q)[i]) \subseteq Tail(q)[i - 1] \cup gone
          <5>1. i - 1 \in DOMAIN Tail(q)
            BY <2>2, <4>1, <4>2
          <5>2. Tail(q)[i - 1] = q[i] /\ i + 1 > 1 /\ (i + 1) - 1 = i
            BY <2>2, <4>1, <5>1
          <5> QED BY <1>3, <4>1, <5>2
        <4> QED BY <1>3, <4>1, <4>2
      <3>5. Tail(q) # << >> => Site!Children(Tail(q)[1]) \subseteq gone
        <4>1. Tail(q) # << >> => Site!Children(q[2]) \subseteq q[2 - 1] \cup gone
          BY <1>3, <2>2
        <4> QED BY <2>2, <2>3, <4>1
      <3> QED BY <1>4, <3>2, <3>3, <3>4, <3>5
    <2>4. CASE Head(q) # {}
      <3>1. PICK n \in q[1] :
               \/ Site!Exists(n) /\ Site!Referenced(r, n)
               \/ /\ tx' = [tx EXCEPT ![r].levels[1] = @ \ {n},
                                      ![r].gone = IF Site!Exists(n) THEN @ \cup {n} ELSE @]
                  /\ row' = row /\ loc' = loc
        BY <1>2, <1>5, <2>2, <2>4 DEF Site!DeleteRow
      <3>2. n \in Nodes /\ Site!Exists(n)
        BY <1>3, <2>2 DEF Site!Exists
      <3>3. ~Site!Referenced(r, n)
        <4>1. Site!Children({n}) \subseteq gone
          BY <1>3, <2>1, <3>1 DEF Site!Children
        <4>2. \A c \in Cards : loc[c] = n => c \in cleared
          BY <1>3, <2>2, <3>1
        <4> QED BY <1>2, <4>1, <4>2 DEF Site!Referenced
      <3>4. PICK t, w : /\ w = [q EXCEPT ![1] = @ \ {n}]
                        /\ t = [tx[r] EXCEPT !.levels = w, !.gone = gone \cup {n}]
        OBVIOUS
      <3>5. tx' = [tx EXCEPT ![r] = t] /\ row' = row /\ loc' = loc
        BY <1>1, <1>2, <3>1, <3>2, <3>3, <3>4 DEF TreeIInv, TreeTypes, DeleteCalls
      <3>6. w \in Seq(SUBSET Nodes)
        BY <1>3, <2>1, <3>2, <3>4, LevelsShrink
      <3>7. t \in DeleteCalls /\ t.pc = "rows" /\ t.cleared = cleared /\ t.gone = gone \cup {n}
            /\ t.levels = w
        BY <1>1, <1>2, <1>3, <3>2, <3>4, <3>6 DEF DeleteCalls
      <3>8. /\ DOMAIN w = DOMAIN q /\ w[1] = q[1] \ {n}
            /\ \A i \in DOMAIN q : i \in Nat /\ i >= 1 /\ (i > 1 => w[i] = q[i] /\ i - 1 \in DOMAIN q)
        BY <1>3, <2>2, <3>4
      <3>9. ASSUME NEW i \in DOMAIN w
            PROVE  /\ i > 1 => Site!Children(w[i]) \subseteq w[i - 1] \cup (gone \cup {n})
                   /\ \A m \in w[i] : row[m] # None /\ m # None
                   /\ w[i] \subseteq UNION {q[j] : j \in DOMAIN q}
        <4>1. i \in DOMAIN q /\ i \in Nat /\ i >= 1
          BY <3>8, <3>9
        <4>2. w[i] \subseteq q[i]
          BY <3>8, <4>1
        <4>3. ASSUME i > 1 PROVE Site!Children(w[i]) \subseteq w[i - 1] \cup (gone \cup {n})
          <5>1. w[i] = q[i] /\ Site!Children(q[i]) \subseteq q[i - 1] \cup gone
            BY <1>3, <3>8, <4>1, <4>3
          <5>2. q[i - 1] \subseteq w[i - 1] \cup {n}
            <6>1. CASE i - 1 = 1
              BY <3>8, <6>1
            <6>2. CASE i - 1 # 1
              <7>1. i - 1 \in DOMAIN q /\ i - 1 > 1
                BY <3>8, <4>1, <4>3, <6>2
              <7> QED BY <3>8, <7>1
            <6> QED BY <6>1, <6>2
          <5> QED BY <5>1, <5>2
        <4> QED BY <1>3, <4>1, <4>2, <4>3
      <3>10. Site!Children(w[1]) \subseteq gone \cup {n}
        BY <1>3, <2>1, <3>8 DEF Site!Children
      <3> QED BY <1>4, <3>5, <3>7, <3>9, <3>10
    <2> QED BY <2>3, <2>4
  <1>6. CASE Site!DeleteCommit(r)
    <2>1. Site!Done(r) /\ \A n \in Nodes : row'[n] = None \/ row'[n] = row[n]
      BY <1>6 DEF Site!DeleteCommit
    <2>2. Site!SiblingNamesDiffer'
      BY <2>1 DEF SoleIInv, Site!SiblingNamesDiffer, Site!Exists
    <2> QED BY <2>1, <2>2, SoleCommits
  <1> QED BY <1>5, <1>6

LEMMA SoleKeeps ==
    ASSUME TreeIInv, TreeConstants, ~Postgres, SoleIInv, [Site!Next]_(Site!vars)
    PROVE  SoleIInv'
  <1>1. CASE UNCHANGED Site!vars
    <2>1. Site!SiblingNamesDiffer'
      BY <1>1 DEF SoleIInv, Site!vars, Site!SiblingNamesDiffer, Site!Exists
    <2>2. ASSUME NEW r \in Requests PROVE SoleOK(r)'
      <3>1. SoleOK(r)
        BY DEF SoleIInv
      <3>2. (Doing(r, "delete") => SoleDelete(r))'
        BY <1>1, <3>1 DEF Site!vars, SoleOK, SoleDelete, Doing, Site!Exists, Site!Children, Site!Subtree
      <3> QED BY <1>1, <3>1, <3>2 DEF Site!vars, SoleOK, Doing, Site!Clash, Site!Exists
    <2> QED BY <1>1, <2>1, <2>2 DEF SoleIInv, Site!vars
  <1>2. ASSUME NEW r \in Requests, Site!Call(r) \/ Site!Step(r) PROVE SoleIInv'
    <2>1. ~Site!Deadlocked(r) /\ \A s \in Requests \ {r} : tx[s].pc = "done"
      BY <1>2, NobodyElse
    <2>2. CASE Site!Call(r)
      BY <2>1, <2>2, SoleBegins
    <2>3. CASE Site!CreateFind(r) \/ Site!CreateUnique(r) \/ Site!CreateInsert(r) \/ Site!CreateCommit(r)
      BY <2>1, <2>3, SoleCreates
    <2>4. CASE Site!RenameFind(r) \/ Site!RenameUnique(r) \/ Site!RenameWrite(r) \/ Site!RenameCommit(r)
      BY <2>1, <2>4, SoleRenames
    <2>5. CASE Site!DeleteFind(r) \/ Site!CollectSubtree(r) \/ Site!ClearCards(r)
      BY <2>1, <2>5, SoleCollects
    <2>6. CASE Site!DeleteRow(r) \/ Site!DeleteCommit(r)
      BY <2>1, <2>6, SoleRows
    <2>7. CASE Site!EditFind(r) \/ Site!EditWrite(r) \/ Site!EditCommit(r)
      BY <2>1, <2>7, SoleEdits
    <2> QED BY <1>2, <2>1, <2>2, <2>3, <2>4, <2>5, <2>6, <2>7 DEF Site!Step
  <1> QED BY <1>1, <1>2 DEF Site!Next

SeedNamesDiffer ==
    \A m, n \in Nodes : m # n /\ Seed[m] # None /\ Seed[n] # None /\ Seed[m].parent = Seed[n].parent
                        => Seed[m].name # Seed[n].name

\* On SQLite no two siblings ever share a name, and the removal of a place
\* fails for no other reason than that it is not there: what hangs under it and
\* the cards in it never make it fail.
THEOREM SiblingsAndRemovals ==
    TreeConstants /\ SeedNamesDiffer /\ ~Postgres /\ Site!Spec
    => [](Site!SiblingNamesDiffer /\ Site!MissingIsTheOnlyFailure)
  <1> SUFFICES ASSUME TreeConstants, SeedNamesDiffer, ~Postgres
               PROVE  Site!Spec => [](Site!SiblingNamesDiffer /\ Site!MissingIsTheOnlyFailure)
    OBVIOUS
  <1>1. Site!Init => TreeIInv
    BY TreeBegins
  <1>2. Site!Init => SoleIInv
    <2>1. ASSUME Site!Init PROVE SoleIInv
      <3>1. \A r \in Requests : tx[r].pc = "done" /\ tx[r].op # "delete"
        BY <2>1 DEF Site!Init, Site!Idle, TreeConstants
      <3>2. Site!SiblingNamesDiffer
        BY <2>1 DEF Site!Init, Site!SiblingNamesDiffer, Site!Exists, SeedNamesDiffer
      <3> QED BY <3>1, <3>2 DEF SoleIInv, SoleOK, Doing
    <2> QED BY <2>1
  <1>3. TreeIInv /\ [Site!Next]_(Site!vars) => TreeIInv'
    BY TreeStep
  <1>4. TreeIInv /\ SoleIInv /\ [Site!Next]_(Site!vars) => SoleIInv'
    BY SoleKeeps
  <1>5. SoleIInv => Site!SiblingNamesDiffer /\ Site!MissingIsTheOnlyFailure
    BY DEF SoleIInv, SoleOK, Site!MissingIsTheOnlyFailure, Site!Open
  <1> QED BY <1>1, <1>2, <1>3, <1>4, <1>5, PTL DEF Site!Spec

-----------------------------------------------------------------------------
(* Who is told of a change, for any users, boards and numbers of cards and  *)
(* events, with lost fan-outs, crashes, discards and changing access.       *)

NoticeConstants == MaxEvents \in Nat /\ None \notin Boards

\* The events of a change are about one card and name the same people, and
\* what there are events of is there.
EventsOK ==
    /\ \A e \in events :
          /\ e.id \in Nat /\ e.id <= issued /\ e.change \in Nat /\ e.change < e.id
          /\ e.card \in Told!Cards /\ home[e.card] # None
          /\ e.mentioned \subseteq Users /\ e.kind \in Told!Kinds
    /\ \A e, f \in events :
          /\ e.id = f.id => e = f
          /\ e.change = f.change => e.mentioned = f.mentioned

NoticeForm(n) ==
    n = [user |-> n.user, event |-> n.event, card |-> n.card, kind |-> n.kind, read |-> n.read]

\* A notice is of an event that is there; somebody mentioned has no other
\* notice of the change, and as long as its fan-out is due nobody else has one.
NoticesOK ==
    /\ \A n \in notices :
          /\ n.user \in Users /\ n.read \in BOOLEAN /\ n.event \in Nat /\ NoticeForm(n)
          /\ \E e \in events :
                /\ e.id = n.event /\ e.card = n.card
                /\ IF n.kind = "mention" THEN n.user \in e.mentioned ELSE n.user # e.actor
    /\ \A n, o \in notices, e, f \in events :
          e.id = n.event /\ f.id = o.event /\ e.change = f.change /\ n.user = o.user => n = o
    /\ \A h \in hints : h.event \in Nat /\ h.event <= issued /\ h.event >= 1 /\ h.card \in Told!Cards
                        /\ h = [card |-> h.card, event |-> h.event]
    /\ \A h \in hints, n \in notices, e, f \in events :
          e.id = h.event /\ f.id = n.event /\ e.change = f.change => n.kind = "mention"
    /\ \A h, g \in hints, e, f \in events :
          e.id = h.event /\ f.id = g.event /\ e.change = f.change => h = g

TellIInv ==
    /\ home \in [Told!Cards -> Boards \cup {None}]
    /\ watchers \in [Told!Cards -> SUBSET Users]
    /\ \A c \in Told!Cards : home[c] = None => watchers[c] = {}
    /\ sees \subseteq Users \X Boards /\ active \subseteq Users
    /\ issued \in Nat /\ issued <= MaxEvents
    /\ EventsOK
    /\ NoticesOK

LEMMA NewEventsAre ==
    ASSUME issued \in Nat, NEW c, NEW kinds \in Seq(Told!Kinds), NEW actor, NEW mentioned,
           NEW e \in Told!NewEvents(c, kinds, actor, mentioned)
    PROVE  /\ e.id \in Nat /\ e.id > issued /\ e.id <= issued + Len(kinds)
           /\ e.change = issued /\ e.card = c /\ e.kind \in Told!Kinds
           /\ e.actor = actor /\ e.mentioned = mentioned
           /\ \A f \in Told!NewEvents(c, kinds, actor, mentioned) :
                 e.id = f.id \/ Len(kinds) = 1 => e = f
  <1>1. PICK i \in DOMAIN kinds :
           e = [id |-> issued + i, change |-> issued, card |-> c, kind |-> kinds[i],
                actor |-> actor, mentioned |-> mentioned]
    BY DEF Told!NewEvents
  <1>2. i \in Nat /\ i >= 1 /\ i <= Len(kinds) /\ kinds[i] \in Told!Kinds
    OBVIOUS
  <1>3. ASSUME NEW f \in Told!NewEvents(c, kinds, actor, mentioned), e.id = f.id \/ Len(kinds) = 1
        PROVE  e = f
    <2>1. PICK j \in DOMAIN kinds :
             f = [id |-> issued + j, change |-> issued, card |-> c, kind |-> kinds[j],
                  actor |-> actor, mentioned |-> mentioned]
      BY DEF Told!NewEvents
    <2>2. j \in Nat /\ j >= 1 /\ j <= Len(kinds)
      OBVIOUS
    <2>3. i = j
      BY <1>1, <1>2, <1>3, <2>1, <2>2
    <2> QED BY <1>1, <2>1, <2>3
  <1> QED BY <1>1, <1>2, <1>3

LEMMA ChangeKeeps ==
    ASSUME TellIInv, NoticeConstants, NEW c \in Told!Cards, NEW kinds \in Seq(Told!Kinds),
           NEW actor, NEW readers \in SUBSET Users, NEW mentioned \in SUBSET Users,
           Told!Commit(c, kinds, actor, readers, mentioned),
           Len(kinds) > 0, mentioned # {} => Len(kinds) = 1,
           home' \in [Told!Cards -> Boards \cup {None}], home'[c] # None,
           \A d \in Told!Cards : home[d] # None => home'[d] # None,
           UNCHANGED <<sees, active>>
    PROVE  TellIInv'
  <1>1. PICK new : new = Told!NewEvents(c, kinds, actor, mentioned)
    OBVIOUS
  <1>2. /\ issued' = issued + Len(kinds) /\ issued + Len(kinds) <= MaxEvents
        /\ events' = events \cup new
        /\ hints' = hints \cup Told!Publish(new)
        /\ watchers' = [watchers EXCEPT ![c] = readers]
        /\ notices' = notices \cup {Told!Notice(u, e, "mention") : u \in mentioned, e \in new}
    BY <1>1 DEF Told!Commit
  <1>3. issued \in Nat /\ Len(kinds) \in Nat /\ issued' \in Nat
    BY <1>2 DEF TellIInv
  <1>4. \A e \in new : /\ e.id \in Nat /\ e.id > issued /\ e.id <= issued'
                       /\ e.change = issued /\ e.card = c /\ e.kind \in Told!Kinds
                       /\ e.actor = actor /\ e.mentioned = mentioned
                       /\ \A f \in new : e.id = f.id \/ Len(kinds) = 1 => e = f
    BY <1>1, <1>2, <1>3, NewEventsAre
  <1>5. \A e \in events : e.id \in Nat /\ e.id <= issued /\ e.change \in Nat /\ e.change < issued
    BY <1>3 DEF TellIInv, EventsOK
  <1>6. EventsOK'
    <2>1. ASSUME NEW e \in events'
          PROVE  /\ e.id \in Nat /\ e.id <= issued' /\ e.change \in Nat /\ e.change < e.id
                 /\ e.card \in Told!Cards /\ home'[e.card] # None
                 /\ e.mentioned \subseteq Users /\ e.kind \in Told!Kinds
      <3>1. CASE e \in events
        BY <1>2, <1>3, <3>1 DEF TellIInv, EventsOK
      <3>2. CASE e \in new
        BY <1>3, <1>4, <3>2
      <3> QED BY <1>2, <2>1, <3>1, <3>2
    <2>2. ASSUME NEW e \in events', NEW f \in events'
          PROVE  (e.id = f.id => e = f) /\ (e.change = f.change => e.mentioned = f.mentioned)
      <3>1. CASE e \in events /\ f \in events
        BY <3>1 DEF TellIInv, EventsOK
      <3>2. CASE e \in new /\ f \in new
        BY <1>4, <3>2
      <3>3. CASE (e \in events /\ f \in new) \/ (e \in new /\ f \in events)
        BY <1>3, <1>4, <1>5, <3>3
      <3> QED BY <1>2, <2>2, <3>1, <3>2, <3>3
    <2> QED BY <2>1, <2>2 DEF EventsOK
  \* What is of an earlier event is not of the change, and the reverse.
  <1>7. ASSUME NEW e \in events'
        PROVE  /\ e.id <= issued => e \in events /\ e.change # issued
               /\ e.id > issued => e \in new /\ e.change = issued
    BY <1>2, <1>3, <1>4, <1>5, <1>7
  <1>8. ASSUME NEW h \in hints'
        PROVE  \/ h \in hints /\ h.event \in Nat /\ h.event <= issued
               \/ /\ h = [card |-> h.card, event |-> h.event]
                  /\ h.event \in Nat /\ h.event > issued /\ h.event <= issued' /\ h.card = c
                  /\ \A e \in new : e.id <= h.event
                  /\ \E e \in new : e.id = h.event
    <2>1. CASE h \in hints
      BY <2>1 DEF TellIInv, NoticesOK
    <2>2. CASE h \in Told!Publish(new)
      <3>1. PICK e \in new : (\A y \in new : y.id <= e.id) /\ h = [card |-> e.card, event |-> e.id]
        BY <2>2 DEF Told!Publish
      <3> QED BY <1>4, <3>1
    <2> QED BY <1>2, <1>8, <2>1, <2>2
  <1>9. ASSUME NEW n \in notices'
        PROVE  \/ /\ n \in notices /\ n.event \in Nat /\ n.event <= issued
               \/ /\ n.event \in Nat /\ n.event > issued /\ n.kind = "mention"
                  /\ \E e \in new : n = Told!Notice(n.user, e, "mention")
                  /\ n.user \in mentioned
    <2>1. CASE n \in notices
      <3>1. PICK e \in events : e.id = n.event
        BY <2>1 DEF TellIInv, NoticesOK
      <3> QED BY <1>5, <2>1, <3>1
    <2>2. CASE n \in {Told!Notice(u, e, "mention") : u \in mentioned, e \in new}
      <3>1. PICK u \in mentioned, e \in new : n = Told!Notice(u, e, "mention")
        BY <2>2
      <3>2. n.event = e.id /\ n.kind = "mention" /\ n.user = u
        BY <3>1 DEF Told!Notice
      <3> QED BY <1>4, <3>1, <3>2
    <2> QED BY <1>2, <1>9, <2>1, <2>2
  <1>10. NoticesOK'
    <2>1. ASSUME NEW n \in notices'
          PROVE  /\ n.user \in Users /\ n.read \in BOOLEAN /\ n.event \in Nat /\ NoticeForm(n)
                 /\ \E e \in events' :
                       /\ e.id = n.event /\ e.card = n.card
                       /\ IF n.kind = "mention" THEN n.user \in e.mentioned ELSE n.user # e.actor
      <3>1. CASE n \in notices
        BY <1>2, <3>1 DEF TellIInv, NoticesOK
      <3>2. CASE n \notin notices
        <4>1. PICK e \in new : n = Told!Notice(n.user, e, "mention") /\ n.user \in mentioned
          BY <1>9, <2>1, <3>2
        <4>2. n.event = e.id /\ n.kind = "mention" /\ n.read = FALSE /\ n.card = e.card
              /\ NoticeForm(n)
          BY <4>1 DEF Told!Notice, NoticeForm
        <4> QED BY <1>2, <1>4, <4>1, <4>2
      <3> QED BY <3>1, <3>2
    <2>2. ASSUME NEW n \in notices', NEW o \in notices', NEW e \in events', NEW f \in events',
                 e.id = n.event, f.id = o.event, e.change = f.change, n.user = o.user
          PROVE  n = o
      <3>1. CASE n.event <= issued /\ o.event <= issued
        <4>1. n \in notices /\ o \in notices /\ e \in events /\ f \in events
          BY <1>3, <1>7, <1>9, <2>2, <3>1
        <4> QED BY <2>2, <4>1 DEF TellIInv, NoticesOK
      <3>2. CASE n.event > issued /\ o.event > issued
        <4>1. /\ \E x \in new : n = Told!Notice(n.user, x, "mention")
              /\ \E x \in new : o = Told!Notice(o.user, x, "mention")
              /\ n.user \in mentioned
          BY <1>3, <1>9, <2>2, <3>2
        <4>2. PICK x \in new, y \in new : /\ n = Told!Notice(n.user, x, "mention")
                                          /\ o = Told!Notice(o.user, y, "mention")
          BY <4>1
        <4>3. x = y
          BY <1>4, <4>1
        <4> QED BY <2>2, <4>2, <4>3
      <3>3. n.event \in Nat /\ o.event \in Nat
        BY <1>9, <2>2
      <3>4. (n.event <= issued) <=> (o.event <= issued)
        BY <1>3, <1>7, <2>2, <3>3
      <3> QED BY <1>3, <3>1, <3>2, <3>3, <3>4
    <2>3. ASSUME NEW h \in hints'
          PROVE  /\ h.event \in Nat /\ h.event <= issued' /\ h.event >= 1 /\ h.card \in Told!Cards
                 /\ h = [card |-> h.card, event |-> h.event]
      <3>1. CASE h \in hints
        BY <1>2, <1>3, <3>1 DEF TellIInv, NoticesOK
      <3>2. CASE h \notin hints
        BY <1>3, <1>8, <2>3, <3>2
      <3> QED BY <3>1, <3>2
    <2>4. ASSUME NEW h \in hints', NEW n \in notices', NEW e \in events', NEW f \in events',
                 e.id = h.event, f.id = n.event, e.change = f.change
          PROVE  n.kind = "mention"
      <3>1. CASE h.event <= issued /\ n.event <= issued
        <4>1. h \in hints /\ n \in notices /\ e \in events /\ f \in events
          BY <1>3, <1>7, <1>8, <1>9, <2>4, <3>1
        <4> QED BY <2>4, <4>1 DEF TellIInv, NoticesOK
      <3>2. CASE n.event > issued
        BY <1>3, <1>9, <2>4, <3>2
      <3>3. n.event \in Nat /\ h.event \in Nat
        BY <1>8, <1>9, <2>4
      <3>4. (n.event <= issued) <=> (h.event <= issued)
        BY <1>3, <1>7, <2>4, <3>3
      <3> QED BY <1>3, <3>1, <3>2, <3>3, <3>4
    <2>5. ASSUME NEW h \in hints', NEW g \in hints', NEW e \in events', NEW f \in events',
                 e.id = h.event, f.id = g.event, e.change = f.change
          PROVE  h = g
      <3>1. CASE h.event <= issued /\ g.event <= issued
        <4>1. h \in hints /\ g \in hints /\ e \in events /\ f \in events
          BY <1>3, <1>7, <1>8, <2>5, <3>1
        <4> QED BY <2>5, <4>1 DEF TellIInv, NoticesOK
      <3>2. CASE h.event > issued /\ g.event > issued
        <4>1. /\ h = [card |-> h.card, event |-> h.event] /\ g = [card |-> g.card, event |-> g.event]
              /\ h.card = c /\ g.card = c
              /\ \A x \in new : x.id <= h.event /\ x.id <= g.event
              /\ e \in new /\ f \in new /\ h.event \in Nat /\ g.event \in Nat
          BY <1>3, <1>7, <1>8, <2>5, <3>2
        <4>2. h.event <= g.event /\ g.event <= h.event
          BY <2>5, <4>1
        <4>3. h.event = g.event
          BY <4>1, <4>2
        <4> QED BY <4>1, <4>3
      <3>3. h.event \in Nat /\ g.event \in Nat
        BY <1>8, <2>5
      <3>4. (g.event <= issued) <=> (h.event <= issued)
        BY <1>3, <1>7, <2>5, <3>3
      <3> QED BY <1>3, <3>1, <3>2, <3>3, <3>4
    <2> QED BY <2>1, <2>2, <2>3, <2>4, <2>5 DEF NoticesOK
  <1>11. watchers' \in [Told!Cards -> SUBSET Users]
         /\ \A d \in Told!Cards : home'[d] = None => watchers'[d] = {}
    BY <1>2 DEF TellIInv
  <1> QED BY <1>2, <1>3, <1>6, <1>10, <1>11 DEF TellIInv

LEMMA EventIs ==
    ASSUME EventsOK, NEW e \in events
    PROVE  Told!Event(e.id) = e /\ Told!Known(e.id)
  <1>1. \A f \in events : f.id = e.id <=> f = e
    BY DEF EventsOK
  <1>2. (CHOOSE f \in events : f.id = e.id) = e
    BY <1>1
  <1> QED BY <1>2 DEF Told!Event, Told!Known

\* A change to the table of notices alone: fewer of them, or one's own read or
\* unread; and fewer hints.
LEMMA FewerNotices ==
    ASSUME TellIInv, UNCHANGED <<home, watchers, sees, events, issued>>,
           active' \subseteq Users, hints' \subseteq hints,
           \A n \in notices' : \E o \in notices :
              /\ n.user = o.user /\ n.event = o.event /\ n.card = o.card /\ n.kind = o.kind
              /\ n.read \in BOOLEAN /\ NoticeForm(n),
           \A n, m \in notices' : n.user = m.user /\ n.event = m.event => n = m
    PROVE  TellIInv'
  <1>1. EventsOK'
    BY DEF TellIInv, EventsOK
  <1>2. NoticesOK'
    <2>1. ASSUME NEW n \in notices'
          PROVE  /\ n.user \in Users /\ n.read \in BOOLEAN /\ n.event \in Nat /\ NoticeForm(n)
                 /\ \E e \in events :
                       /\ e.id = n.event /\ e.card = n.card
                       /\ IF n.kind = "mention" THEN n.user \in e.mentioned ELSE n.user # e.actor
      BY <2>1 DEF TellIInv, NoticesOK
    <2>2. ASSUME NEW n \in notices', NEW m \in notices', NEW e \in events, NEW f \in events,
                 e.id = n.event, f.id = m.event, e.change = f.change, n.user = m.user
          PROVE  n = m
      <3>1. PICK o \in notices :
               n.user = o.user /\ n.event = o.event /\ n.card = o.card /\ n.kind = o.kind
        OBVIOUS
      <3>2. PICK q \in notices :
               m.user = q.user /\ m.event = q.event /\ m.card = q.card /\ m.kind = q.kind
        OBVIOUS
      <3>3. e.id = o.event /\ f.id = q.event /\ o.user = q.user
        BY <2>2, <3>1, <3>2
      <3>4. o = q
        BY <2>2, <3>3 DEF TellIInv, NoticesOK
      <3>5. n.event = m.event
        BY <3>1, <3>2, <3>4
      <3> QED BY <2>2, <3>5
    <2>3. ASSUME NEW h \in hints', NEW n \in notices', NEW e \in events, NEW f \in events,
                 e.id = h.event, f.id = n.event, e.change = f.change
          PROVE  n.kind = "mention"
      <3>1. PICK o \in notices : n.event = o.event /\ n.kind = o.kind
        OBVIOUS
      <3>2. h \in hints
        OBVIOUS
      <3> QED BY <2>3, <3>1, <3>2 DEF TellIInv, NoticesOK
    <2> QED BY <2>1, <2>2, <2>3 DEF TellIInv, NoticesOK
  <1> QED BY <1>1, <1>2 DEF TellIInv

LEMMA SameNotices ==
    ASSUME TellIInv, UNCHANGED <<home, events, issued>>,
           watchers' \in [Told!Cards -> SUBSET Users],
           \A d \in Told!Cards : home[d] = None => watchers'[d] = {},
           sees' \subseteq Users \X Boards, active' \subseteq Users, hints' \subseteq hints,
           notices' \subseteq notices
    PROVE  TellIInv'
  <1>1. EventsOK'
    BY DEF TellIInv, EventsOK
  <1>2. NoticesOK'
    BY DEF TellIInv, NoticesOK
  <1> QED BY <1>1, <1>2 DEF TellIInv

\* hardDelete: with the card goes what speaks of it.
LEMMA DiscardKeeps ==
    ASSUME TellIInv, NEW actor, NEW c \in Told!Cards, Told!Discard(actor, c)
    PROVE  TellIInv'
  <1>1. /\ home' = [home EXCEPT ![c] = None] /\ watchers' = [watchers EXCEPT ![c] = {}]
        /\ events' = {e \in events : e.card # c} /\ notices' = {n \in notices : n.card # c}
        /\ UNCHANGED <<sees, active, issued, hints>>
    BY DEF Told!Discard
  <1>2. EventsOK'
    <2>1. \A d \in Told!Cards : d # c => home'[d] = home[d]
      BY <1>1 DEF TellIInv
    <2> QED BY <1>1, <2>1 DEF TellIInv, EventsOK
  <1>3. NoticesOK'
    <2>1. ASSUME NEW n \in notices'
          PROVE  /\ n.user \in Users /\ n.read \in BOOLEAN /\ n.event \in Nat /\ NoticeForm(n)
                 /\ \E e \in events' :
                       /\ e.id = n.event /\ e.card = n.card
                       /\ IF n.kind = "mention" THEN n.user \in e.mentioned ELSE n.user # e.actor
      BY <1>1 DEF TellIInv, NoticesOK
    <2>2. events' \subseteq events /\ notices' \subseteq notices /\ hints' = hints /\ issued' = issued
      BY <1>1
    <2> QED BY <2>1, <2>2 DEF TellIInv, NoticesOK
  <1>4. /\ home' \in [Told!Cards -> Boards \cup {None}] /\ watchers' \in [Told!Cards -> SUBSET Users]
        /\ \A d \in Told!Cards : home'[d] = None => watchers'[d] = {}
    BY <1>1 DEF TellIInv
  <1> QED BY <1>1, <1>2, <1>3, <1>4 DEF TellIInv

\* The one fan-out of a change: nobody who was mentioned, and not the actor.
LEMMA FanOutKeeps ==
    ASSUME TellIInv, NEW h, Told!FanOut(h)
    PROVE  TellIInv'
  <1>1. h \in hints /\ hints' = hints \ {h} /\ UNCHANGED <<home, watchers, sees, active, events, issued>>
    BY DEF Told!FanOut
  <1>2. CASE ~Told!Triggers(h)
    <2>1. notices' = notices
      BY <1>2 DEF Told!FanOut
    <2> QED BY <1>1, <2>1, SameNotices DEF TellIInv
  <1>3. CASE Told!Triggers(h)
    <2>1. PICK e \in events : e.id = h.event
      BY <1>3 DEF Told!Triggers, Told!Known
    <2>2. Told!Event(h.event) = e
      BY <2>1, EventIs DEF TellIInv
    <2>3. notices' = notices \cup {Told!Notice(u, e, e.kind) : u \in Told!Recipients(e)}
      BY <1>3, <2>2 DEF Told!FanOut
    <2>4. /\ e.id \in Nat /\ e.id <= issued /\ e.card \in Told!Cards /\ e.kind # "mention"
          /\ issued \in Nat
      BY DEF TellIInv, EventsOK, Told!Kinds
    <2>5. \A u \in Told!Recipients(e) : u \in Users /\ u # e.actor /\ u \notin e.mentioned
      BY <2>4 DEF Told!Recipients, Told!Excluded, TellIInv
    <2>6. ASSUME NEW n \in notices', n \notin notices
          PROVE  /\ n.event = e.id /\ n.kind = e.kind /\ n.card = e.card /\ n.read = FALSE
                 /\ n.user \in Users /\ n.user # e.actor /\ n.user \notin e.mentioned
                 /\ n = Told!Notice(n.user, e, e.kind) /\ NoticeForm(n)
      <3>1. PICK u \in Told!Recipients(e) : n = Told!Notice(u, e, e.kind)
        BY <2>3, <2>6
      <3>2. n.user = u /\ n.event = e.id /\ n.kind = e.kind /\ n.card = e.card /\ n.read = FALSE
            /\ NoticeForm(n)
        BY <3>1 DEF Told!Notice, NoticeForm
      <3> QED BY <2>5, <3>1, <3>2
    <2>7. \A f, g \in events : f.id = g.id => f = g
      BY DEF TellIInv, EventsOK
    \* A notice of the change from before the fan-out is a mention.
    <2>8. ASSUME NEW o \in notices, NEW f \in events, f.id = o.event, f.change = e.change
          PROVE  o.user \in e.mentioned
      <3>1. o.kind = "mention"
        BY <1>1, <2>1, <2>8 DEF TellIInv, NoticesOK
      <3>2. PICK g \in events : g.id = o.event /\ o.user \in g.mentioned
        BY <2>8, <3>1 DEF TellIInv, NoticesOK
      <3>3. g = f /\ f.mentioned = e.mentioned
        BY <2>7, <2>8, <3>2 DEF TellIInv, EventsOK
      <3> QED BY <3>2, <3>3
    <2>9. NoticesOK'
      <3>1. ASSUME NEW n \in notices'
            PROVE  /\ n.user \in Users /\ n.read \in BOOLEAN /\ n.event \in Nat /\ NoticeForm(n)
                   /\ \E f \in events :
                         /\ f.id = n.event /\ f.card = n.card
                         /\ IF n.kind = "mention" THEN n.user \in f.mentioned ELSE n.user # f.actor
        <4>1. CASE n \in notices
          BY <4>1 DEF TellIInv, NoticesOK
        <4>2. CASE n \notin notices
          BY <2>4, <2>6, <3>1, <4>2
        <4> QED BY <4>1, <4>2
      <3>2. ASSUME NEW n \in notices', NEW o \in notices', NEW f \in events, NEW g \in events,
                   f.id = n.event, g.id = o.event, f.change = g.change, n.user = o.user
            PROVE  n = o
        <4>1. CASE n \in notices /\ o \in notices
          BY <3>2, <4>1 DEF TellIInv, NoticesOK
        <4>2. CASE n \notin notices /\ o \notin notices
          BY <2>6, <3>2, <4>2
        <4>3. CASE n \notin notices /\ o \in notices
          <5>1. f = e
            BY <2>6, <2>7, <3>2, <4>3
          <5> QED BY <2>6, <2>8, <3>2, <4>3, <5>1
        <4>4. CASE n \in notices /\ o \notin notices
          <5>1. g = e
            BY <2>6, <2>7, <3>2, <4>4
          <5> QED BY <2>6, <2>8, <3>2, <4>4, <5>1
        <4> QED BY <4>1, <4>2, <4>3, <4>4
      <3>3. ASSUME NEW k \in hints', NEW n \in notices', NEW f \in events, NEW g \in events,
                   f.id = k.event, g.id = n.event, f.change = g.change
            PROVE  n.kind = "mention"
        <4>1. k \in hints /\ k # h
          BY <1>1
        <4>2. CASE n \in notices
          BY <3>3, <4>1, <4>2 DEF TellIInv, NoticesOK
        <4>3. CASE n \notin notices
          <5>1. g = e
            BY <2>6, <2>7, <3>3, <4>3
          <5>2. k = h
            BY <1>1, <2>1, <3>3, <4>1, <5>1 DEF TellIInv, NoticesOK
          <5> QED BY <4>1, <5>2
        <4> QED BY <4>2, <4>3
      <3>4. hints' \subseteq hints /\ events' = events /\ issued' = issued
        BY <1>1
      <3> QED BY <3>1, <3>2, <3>3, <3>4 DEF TellIInv, NoticesOK
    <2>10. EventsOK'
      BY <1>1 DEF TellIInv, EventsOK
    <2> QED BY <1>1, <2>9, <2>10 DEF TellIInv
  <1> QED BY <1>2, <1>3

LEMMA OneOfAnEvent ==
    ASSUME TellIInv, NEW n \in notices, NEW o \in notices, n.user = o.user, n.event = o.event
    PROVE  n = o
  <1>1. PICK e \in events : e.id = n.event
    BY DEF TellIInv, NoticesOK
  <1> QED BY <1>1 DEF TellIInv, NoticesOK

LEMMA BecomesKeeps ==
    ASSUME TellIInv, NEW old \in SUBSET notices, NEW read \in BOOLEAN,
           notices' = Told!Becomes(old, read),
           UNCHANGED <<home, watchers, sees, active, events, issued, hints>>
    PROVE  TellIInv'
  <1>1. ASSUME NEW o \in notices
        PROVE  /\ [o EXCEPT !.read = read].user = o.user /\ [o EXCEPT !.read = read].event = o.event
               /\ [o EXCEPT !.read = read].card = o.card /\ [o EXCEPT !.read = read].kind = o.kind
               /\ [o EXCEPT !.read = read].read = read /\ NoticeForm([o EXCEPT !.read = read])
    BY DEF TellIInv, NoticesOK, NoticeForm
  <1>2. ASSUME NEW n \in notices'
        PROVE  \E o \in notices : IF o \in old THEN n = [o EXCEPT !.read = read] ELSE n = o
    BY DEF Told!Becomes
  <1>3. ASSUME NEW n \in notices'
        PROVE  \E o \in notices : /\ n.user = o.user /\ n.event = o.event /\ n.card = o.card
                                  /\ n.kind = o.kind /\ n.read \in BOOLEAN /\ NoticeForm(n)
                                  /\ IF o \in old THEN n = [o EXCEPT !.read = read] ELSE n = o
    <2>1. PICK o \in notices : IF o \in old THEN n = [o EXCEPT !.read = read] ELSE n = o
      BY <1>2
    <2>2. o.read \in BOOLEAN /\ NoticeForm(o)
      BY DEF TellIInv, NoticesOK
    <2> QED BY <1>1, <2>1, <2>2
  <1>4. ASSUME NEW n \in notices', NEW m \in notices', n.user = m.user, n.event = m.event
        PROVE  n = m
    <2>1. PICK o \in notices : /\ n.user = o.user /\ n.event = o.event
                               /\ IF o \in old THEN n = [o EXCEPT !.read = read] ELSE n = o
      BY <1>3
    <2>2. PICK q \in notices : /\ m.user = q.user /\ m.event = q.event
                               /\ IF q \in old THEN m = [q EXCEPT !.read = read] ELSE m = q
      BY <1>3
    <2>3. o = q
      BY <1>4, <2>1, <2>2, OneOfAnEvent
    <2> QED BY <2>1, <2>2, <2>3
  <1>5. active' \subseteq Users /\ hints' \subseteq hints
    BY DEF TellIInv
  <1>6. \A n \in notices' : \E o \in notices :
              /\ n.user = o.user /\ n.event = o.event /\ n.card = o.card /\ n.kind = o.kind
              /\ n.read \in BOOLEAN /\ NoticeForm(n)
    BY <1>3
  <1> QED BY <1>4, <1>5, <1>6, FewerNotices

LEMMA TellingStep ==
    ASSUME TellIInv, NoticeConstants, [Told!Next]_(Told!vars)
    PROVE  TellIInv'
  <1>1. CASE UNCHANGED Told!vars
    BY <1>1, SameNotices DEF TellIInv, Told!vars
  <1>2. ASSUME NEW actor, NEW into \in Boards, NEW reporter \in Told!People,
               NEW assignees \in {{}} \cup {{u} : u \in Told!People},
               Told!Create(actor, reporter, assignees, into)
        PROVE  TellIInv'
    <2>1. PICK c, kinds, readers : /\ c = Told!NextCard /\ kinds = <<"created">>
                                   /\ readers = {reporter} \cup assignees
      OBVIOUS
    <2>2. /\ c \in Told!Cards /\ home' = [home EXCEPT ![c] = into] /\ UNCHANGED <<sees, active>>
          /\ Told!Commit(c, kinds, actor, readers, {})
      BY <1>2, <2>1 DEF Told!Create
    <2>3. home' \in [Told!Cards -> Boards \cup {None}] /\ home'[c] # None
          /\ \A d \in Told!Cards : home[d] # None => home'[d] # None
      BY <2>2 DEF TellIInv, NoticeConstants
    <2>4. kinds \in Seq(Told!Kinds) /\ Len(kinds) > 0
      BY <2>1 DEF Told!Kinds
    <2>5. readers \in SUBSET Users
      BY <2>1 DEF Told!People
    <2> QED BY <2>2, <2>3, <2>4, <2>5, ChangeKeeps
  <1>3. ASSUME NEW c \in Told!Cards, NEW kinds \in Seq(Told!Kinds), NEW actor,
               NEW readers \in SUBSET Users, NEW mentioned \in SUBSET Users,
               Told!Commit(c, kinds, actor, readers, mentioned), Told!MayAct(actor, c),
               Len(kinds) > 0, mentioned # {} => Len(kinds) = 1, UNCHANGED <<home, sees, active>>
        PROVE  TellIInv'
    <2>1. home' \in [Told!Cards -> Boards \cup {None}] /\ home'[c] # None
          /\ \A d \in Told!Cards : home[d] # None => home'[d] # None
      BY <1>3 DEF TellIInv, Told!MayAct, Told!Exists
    <2> QED BY <1>3, <2>1, ChangeKeeps
  <1>4. ASSUME NEW actor, NEW c \in Told!Cards, NEW fields \in 1 .. 2,
               NEW assignees \in {{}} \cup {{u} : u \in Told!People},
               Told!Update(actor, c, fields, assignees)
        PROVE  TellIInv'
    <2>1. PICK kinds : kinds = [i \in 1 .. fields |-> "changed"]
      OBVIOUS
    <2>2. kinds \in Seq(Told!Kinds) /\ Len(kinds) > 0
      BY <2>1 DEF Told!Kinds
    <2>3. PICK readers : readers = watchers[c] \cup assignees
      OBVIOUS
    <2>4. readers \in SUBSET Users
      BY <2>3 DEF TellIInv, Told!People
    <2>5. Told!Commit(c, kinds, actor, readers, {}) /\ Told!MayAct(actor, c)
          /\ UNCHANGED <<home, sees, active>>
      BY <1>4, <2>1, <2>3 DEF Told!Update
    <2> QED BY <1>3, <2>2, <2>4, <2>5
  <1>5. ASSUME NEW actor, NEW c \in Told!Cards, Told!Quietly(actor, c)
        PROVE  TellIInv'
    <2>1. PICK kinds, readers : kinds = <<"quiet">> /\ readers = watchers[c]
      OBVIOUS
    <2>2. kinds \in Seq(Told!Kinds) /\ Len(kinds) > 0 /\ readers \in SUBSET Users
      BY <2>1 DEF Told!Kinds, TellIInv
    <2>3. Told!Commit(c, kinds, actor, readers, {}) /\ Told!MayAct(actor, c)
          /\ UNCHANGED <<home, sees, active>>
      BY <1>5, <2>1 DEF Told!Quietly
    <2> QED BY <1>3, <2>2, <2>3
  <1>6. ASSUME NEW actor, NEW c \in Told!Cards, NEW author \in Users,
               NEW mentions \in SUBSET Told!People, Told!Comment(actor, author, c, mentions)
        PROVE  TellIInv'
    <2>1. PICK kinds, told, readers :
             /\ kinds = <<"comment.added">> /\ told = Told!ResolveMentions(mentions, author, c)
             /\ readers = (watchers[c] \cup {author}) \cup told
      OBVIOUS
    <2>2. kinds \in Seq(Told!Kinds) /\ Len(kinds) = 1
      BY <2>1 DEF Told!Kinds
    <2>3. told \in SUBSET Users /\ readers \in SUBSET Users
      BY <2>1 DEF Told!ResolveMentions, Told!People, TellIInv
    <2>4. Told!Commit(c, kinds, actor, readers, told) /\ Told!MayAct(actor, c)
          /\ UNCHANGED <<home, sees, active>>
      BY <1>6, <2>1 DEF Told!Comment
    <2> QED BY <1>3, <2>2, <2>3, <2>4
  <1>7. ASSUME NEW h, Told!FanOutFails(h) \/ Told!Crash
        PROVE  TellIInv'
    BY <1>7, SameNotices DEF Told!FanOutFails, Told!Crash, TellIInv
  <1>8. ASSUME NEW u \in Told!People, NEW c \in Told!Cards, Told!Watch(u, c) \/ Told!Unwatch(u, c)
        PROVE  TellIInv'
    <2>1. UNCHANGED <<home, sees, active, events, issued, hints, notices>>
      BY <1>8 DEF Told!Watch, Told!Unwatch
    <2>2. watchers' \in [Told!Cards -> SUBSET Users]
          /\ \A d \in Told!Cards : home[d] = None => watchers'[d] = {}
      <3>1. home[c] # None
        BY <1>8 DEF Told!Watch, Told!Unwatch, Told!Informed, Told!Reaches, Told!Exists
      <3>2. \/ watchers' = [watchers EXCEPT ![c] = @ \cup {u}]
            \/ watchers' = [watchers EXCEPT ![c] = @ \ {u}]
        BY <1>8 DEF Told!Watch, Told!Unwatch
      <3> QED BY <3>1, <3>2 DEF TellIInv, Told!People
    <2> QED BY <2>1, <2>2, SameNotices DEF TellIInv
  <1>9. ASSUME NEW n \in notices, Told!Clear(n) \/ \E read \in BOOLEAN : Told!MarkOne(n, read)
        PROVE  TellIInv'
    <2>1. CASE Told!Clear(n)
      BY <2>1, SameNotices DEF Told!Clear, TellIInv
    <2>2. CASE \E read \in BOOLEAN : Told!MarkOne(n, read)
      BY <2>2, BecomesKeeps DEF Told!MarkOne
    <2> QED BY <1>9, <2>1, <2>2
  <1>10. ASSUME NEW u \in Told!People, Told!MarkAllRead(u) \/ Told!ClearAll(u)
         PROVE  TellIInv'
    <2>1. Told!Unread(u) \in SUBSET notices /\ TRUE \in BOOLEAN
      BY DEF Told!Unread, Told!Inbox, Told!Own
    <2>2. CASE Told!MarkAllRead(u)
      BY <2>1, <2>2, BecomesKeeps DEF Told!MarkAllRead
    <2>3. CASE Told!ClearAll(u)
      BY <2>3, SameNotices DEF Told!ClearAll, TellIInv
    <2> QED BY <1>10, <2>2, <2>3
  <1>11. ASSUME NEW u \in Told!People, NEW b \in Boards, Told!ChangeAccess(u, b)
         PROVE  TellIInv'
    <2>1. UNCHANGED <<home, watchers, active, events, issued, hints, notices>>
          /\ (sees' = sees \ {<<u, b>>} \/ sees' = sees \cup {<<u, b>>})
      BY <1>11 DEF Told!ChangeAccess
    <2>2. sees' \subseteq Users \X Boards
      BY <2>1 DEF TellIInv, Told!People
    <2> QED BY <2>1, <2>2, SameNotices DEF TellIInv
  <1>12. ASSUME NEW u \in Told!People, Told!ChangeActive(u)
         PROVE  TellIInv'
    <2>1. UNCHANGED <<home, watchers, sees, events, issued, hints, notices>>
          /\ (active' = active \ {u} \/ active' = active \cup {u})
      BY <1>12 DEF Told!ChangeActive
    <2>2. active' \subseteq Users
      BY <2>1 DEF TellIInv, Told!People
    <2> QED BY <2>1, <2>2, SameNotices DEF TellIInv
  <1> QED BY <1>1, <1>2, <1>4, <1>5, <1>6, <1>7, <1>8, <1>9, <1>10, <1>11, <1>12, DiscardKeeps,
             FanOutKeeps DEF Told!Next

LEMMA TellingBegins ==
    ASSUME NoticeConstants, Told!Init
    PROVE  TellIInv
  BY DEF NoticeConstants, Told!Init, TellIInv, EventsOK, NoticesOK

LEMMA WhatANoticeTells ==
    ASSUME TellIInv
    PROVE  Told!NotificationsTypeOK /\ Told!ToldOnce /\ Told!NoStrayNotice
  <1>1. ASSUME NEW n \in notices
        PROVE  \E e \in events : /\ e.id = n.event /\ e.card = n.card /\ Told!Event(n.event) = e
                                 /\ Told!Known(n.event)
                                 /\ IF n.kind = "mention" THEN n.user \in e.mentioned ELSE n.user # e.actor
    <2>1. PICK e \in events :
             /\ e.id = n.event /\ e.card = n.card
             /\ IF n.kind = "mention" THEN n.user \in e.mentioned ELSE n.user # e.actor
      BY DEF TellIInv, NoticesOK
    <2>2. Told!Event(e.id) = e /\ Told!Known(e.id)
      BY EventIs DEF TellIInv
    <2> QED BY <2>1, <2>2
  <1>2. Told!NotificationsTypeOK
    <2>1. issued \in 0 .. MaxEvents
      BY DEF TellIInv
    <2>2. \A e \in events : /\ e.id \in 1 .. issued /\ e.card \in Told!Cards
                            /\ e.kind \in Told!Kinds /\ e.mentioned \subseteq Users
      BY DEF TellIInv, EventsOK
    <2>3. hints \subseteq [card : Told!Cards, event : 1 .. issued]
      BY DEF TellIInv, NoticesOK
    <2>4. \A n \in notices : n.user \in Users /\ n.event \in 1 .. issued /\ n.read \in BOOLEAN
      BY <1>1, <2>2 DEF TellIInv, NoticesOK
    <2> QED BY <2>1, <2>2, <2>3, <2>4 DEF TellIInv, Told!NotificationsTypeOK, Told!Exists
  <1>3. Told!ToldOnce
    <2>1. ASSUME NEW n \in notices, NEW o \in notices, n.user = o.user,
                 Told!Event(n.event).change = Told!Event(o.event).change
          PROVE  n = o
      BY <1>1, <2>1 DEF TellIInv, NoticesOK
    <2>2. ASSUME NEW n \in notices, n.kind # "mention" PROVE Told!Event(n.event).actor # n.user
      BY <1>1, <2>2
    <2> QED BY <2>1, <2>2 DEF Told!ToldOnce
  <1>4. Told!NoStrayNotice
    <2>1. ASSUME NEW n \in notices
          PROVE  Told!Exists(n.card) /\ Told!Known(n.event) /\ Told!Event(n.event).card = n.card
      BY <1>1 DEF TellIInv, EventsOK, Told!Exists
    <2> QED BY <2>1 DEF Told!NoStrayNotice
  <1> QED BY <1>2, <1>3, <1>4

\* However late a fan-out comes, and whatever is lost, discarded and closed
\* before it: a change tells a user once and nobody of what they did, and no
\* notice outlives its card or speaks of the number's earlier owner.
THEOREM NoticesCorrect ==
    NoticeConstants /\ Told!Spec
    => [](Told!NotificationsTypeOK /\ Told!ToldOnce /\ Told!NoStrayNotice)
  <1> SUFFICES ASSUME NoticeConstants
               PROVE  Told!Spec => [](Told!NotificationsTypeOK /\ Told!ToldOnce /\ Told!NoStrayNotice)
    OBVIOUS
  <1>1. Told!Init => TellIInv
    BY TellingBegins
  <1>2. TellIInv /\ [Told!Next]_(Told!vars) => TellIInv'
    BY TellingStep
  <1>3. TellIInv => Told!NotificationsTypeOK /\ Told!ToldOnce /\ Told!NoStrayNotice
    BY WhatANoticeTells
  <1> QED BY <1>1, <1>2, <1>3, PTL DEF Told!Spec

LEMMA HidingStep ==
    ASSUME TellIInv, [Told!Next]_(Told!vars)
    PROVE  [Told!KeepsTheHidden]_(Told!vars)
  <1>1. ASSUME notices \subseteq notices' PROVE Told!KeepsTheHidden
    BY <1>1 DEF Told!KeepsTheHidden, Told!Inbox, Told!Own
  <1>2. ASSUME NEW actor, NEW c \in Told!Cards, Told!Discard(actor, c) PROVE home' # home
    BY <1>2 DEF Told!Discard, Told!MayAct, Told!Exists, TellIInv
  <1>3. ASSUME NEW n \in notices, Told!Clear(n) \/ \E read \in BOOLEAN : Told!MarkOne(n, read)
        PROVE  Told!KeepsTheHidden
    <2>1. notices \ {n} \subseteq notices'
      BY <1>3 DEF Told!Clear, Told!MarkOne, Told!Becomes
    <2> QED BY <2>1 DEF Told!KeepsTheHidden, Told!Inbox, Told!Own
  <1>4. ASSUME NEW v, Told!MarkAllRead(v) \/ Told!ClearAll(v)
        PROVE  Told!KeepsTheHidden
    <2>1. notices \ Told!Inbox(v) \subseteq notices'
      BY <1>4 DEF Told!MarkAllRead, Told!ClearAll, Told!Becomes, Told!Unread
    <2>2. \A u : (Told!Own(u) \ Told!Inbox(u)) \cap Told!Inbox(v) = {}
      BY DEF Told!Own, Told!Inbox
    <2> QED BY <2>1, <2>2 DEF Told!KeepsTheHidden, Told!Own
  <1>5. ASSUME NEW actor, NEW c, NEW kinds, NEW readers, NEW mentioned,
               Told!Commit(c, kinds, actor, readers, mentioned)
        PROVE  notices \subseteq notices'
    BY <1>5 DEF Told!Commit
  <1>6. ASSUME NEW h, Told!FanOut(h) \/ Told!FanOutFails(h) \/ Told!Crash
        PROVE  notices \subseteq notices'
    BY <1>6 DEF Told!FanOut, Told!FanOutFails, Told!Crash
  <1>7. ASSUME NEW u, NEW c,
               Told!Watch(u, c) \/ Told!Unwatch(u, c) \/ Told!ChangeActive(u) \/ Told!ChangeAccess(u, c)
        PROVE  notices \subseteq notices'
    BY <1>7 DEF Told!Watch, Told!Unwatch, Told!ChangeActive, Told!ChangeAccess
  <1>8. ASSUME NEW actor, NEW c, NEW fields, NEW assignees, NEW author, NEW mentions, NEW into, NEW reporter,
               \/ Told!Create(actor, reporter, assignees, into) \/ Told!Update(actor, c, fields, assignees)
               \/ Told!Quietly(actor, c) \/ Told!Comment(actor, author, c, mentions)
        PROVE  notices \subseteq notices'
    BY <1>5, <1>8 DEF Told!Create, Told!Update, Told!Quietly, Told!Comment
  <1>9. CASE UNCHANGED Told!vars
    BY <1>9 DEF Told!vars
  <1>10. ASSUME Told!Next PROVE Told!KeepsTheHidden
    <2>1. home' # home => Told!KeepsTheHidden
      BY DEF Told!KeepsTheHidden
    <2>2. \/ \E actor, c, fields, assignees, author, mentions, into, reporter :
                \/ Told!Create(actor, reporter, assignees, into)
                \/ Told!Update(actor, c, fields, assignees)
                \/ Told!Quietly(actor, c) \/ Told!Comment(actor, author, c, mentions)
          \/ \E actor : \E c \in Told!Cards : Told!Discard(actor, c)
          \/ \E h : Told!FanOut(h) \/ Told!FanOutFails(h) \/ Told!Crash
          \/ \E u, c : \/ Told!Watch(u, c) \/ Told!Unwatch(u, c)
                       \/ Told!ChangeActive(u) \/ Told!ChangeAccess(u, c)
          \/ \E n \in notices : Told!Clear(n) \/ \E read \in BOOLEAN : Told!MarkOne(n, read)
          \/ \E v : Told!MarkAllRead(v) \/ Told!ClearAll(v)
      <3> USE <1>10 DEF Told!Next
      <3> QED BY Zenon
    <2>3. CASE \E actor, c, fields, assignees, author, mentions, into, reporter :
                \/ Told!Create(actor, reporter, assignees, into)
                \/ Told!Update(actor, c, fields, assignees)
                \/ Told!Quietly(actor, c) \/ Told!Comment(actor, author, c, mentions)
      BY <1>1, <1>8, <2>3
    <2>4. CASE \E actor : \E c \in Told!Cards : Told!Discard(actor, c)
      BY <1>2, <2>1, <2>4
    <2>5. CASE \E h : Told!FanOut(h) \/ Told!FanOutFails(h) \/ Told!Crash
      BY <1>1, <1>6, <2>5
    <2>6. CASE \E u, c : \/ Told!Watch(u, c) \/ Told!Unwatch(u, c)
                         \/ Told!ChangeActive(u) \/ Told!ChangeAccess(u, c)
      BY <1>1, <1>7, <2>6
    <2> QED BY <1>3, <1>4, <2>2, <2>3, <2>4, <2>5, <2>6
  <1> QED BY <1>9, <1>10

\* Emptying the inbox, or marking it read, leaves what a closed board hides.
THEOREM HiddenNoticesStay ==
    NoticeConstants /\ Told!Spec => [][Told!KeepsTheHidden]_(Told!vars)
  <1> SUFFICES ASSUME NoticeConstants PROVE Told!Spec => [][Told!KeepsTheHidden]_(Told!vars)
    OBVIOUS
  <1>1. Told!Init => TellIInv
    BY TellingBegins
  <1>2. TellIInv /\ [Told!Next]_(Told!vars) => TellIInv'
    BY TellingStep
  <1>3. TellIInv /\ [Told!Next]_(Told!vars) => [Told!KeepsTheHidden]_(Told!vars)
    BY HidingStep
  <1> QED BY <1>1, <1>2, <1>3, PTL DEF Told!Spec
-----------------------------------------------------------------------------
(* Slack: the limits on what a sender may ask for.                          *)
(*                                                                         *)
(* The times a limiter keeps are the newest of those it gave slots at, and  *)
(* whatever it has dropped had expired, so that a slot given now is at      *)
(* least a window later than the one Limit slots before it.                 *)

\* The ends of g that h still has.
TailOf(h, g) == Len(h) <= Len(g) /\ \A i \in DOMAIN h : h[i] = g[Len(g) - Len(h) + i]

Ascending(g) == \A i, j \in DOMAIN g : i <= j => g[i] <= g[j]

\* One meter with n slots in a window of w, at the time t.
MeterOK(h, g, t, n, w) ==
    /\ h \in Seq(Nat) /\ g \in Seq(Nat) /\ t \in Nat
    /\ Ascending(g) /\ \A i \in DOMAIN g : g[i] <= t
    /\ TailOf(h, g)
    /\ \A i \in DOMAIN g : i <= Len(g) - Len(h) => g[i] <= t - w
    /\ \A i \in DOMAIN g : i > n => g[i - n] <= g[i] - w

MetersIInv ==
    /\ now \in Nat /\ crashes = 0
    /\ hits \in [Slack!Meters -> Seq(Nat)] /\ granted \in [Slack!Meters -> Seq(Nat)]
    /\ \A m \in Slack!Meters : MeterOK(hits[m], granted[m], now, Limit[m[1]], Window[m[1]])

\* slack-app.ts: any counts, over any spans.
MeterConstants ==
    Limit \in [Slack!Limiters -> Nat] /\ Window \in [Slack!Limiters -> Nat]

LEMMA OneMeter ==
    ASSUME MeterConstants, NEW m \in Slack!Meters
    PROVE  Limit[m[1]] \in Nat /\ Window[m[1]] \in Nat
  BY DEF MeterConstants, Slack!Meters

\* What has expired of an ascending sequence is its beginning.
LEMMA ExpiredFirst ==
    ASSUME NEW h \in Seq(Nat), Ascending(h), NEW c \in Int
    PROVE  \E k \in 0 .. Len(h) : /\ {i \in DOMAIN h : h[i] <= c} = 1 .. k
                                  /\ Cardinality({i \in DOMAIN h : h[i] <= c}) = k
  <1>1. Len(h) \in Nat /\ DOMAIN h = 1 .. Len(h) /\ \A i \in DOMAIN h : h[i] \in Nat
    BY LenProperties, ElementOfSeq
  <1> DEFINE fresh == {i \in DOMAIN h : h[i] > c}
             expired == {i \in DOMAIN h : h[i] <= c}
  <1>2. CASE fresh = {}
    <2>1. expired = 1 .. Len(h)
      BY <1>1, <1>2
    <2>2. \A l \in Nat : Cardinality(1 .. l) = l
      BY FS_Interval
    <2>3. Len(h) \in 0 .. Len(h) /\ Cardinality(expired) = Len(h)
      <3>1. Len(h) \in 0 .. Len(h) /\ Len(h) \in Nat
        BY <1>1
      <3>2. Cardinality(1 .. Len(h)) = Len(h)
        BY <2>2, <3>1
      <3>3. Cardinality(expired) = Cardinality(1 .. Len(h))
        BY <2>1, Zenon
      <3> QED BY <3>1, <3>2, <3>3
    <2> QED BY <2>1, <2>3
  <1>3. CASE fresh # {}
    <2>1. fresh \subseteq Nat
      BY <1>1
    <2>2. PICK j \in fresh : \A i \in fresh : j <= i
      <3>1. PICK j \in fresh : \A i \in fresh : <<i, j>> \notin OpToRel(<, Nat)
        BY <1>3, <2>1, NatLessThanWellFounded, WFMin, Zenon
      <3>2. ASSUME NEW i \in fresh, i < j PROVE FALSE
        <4>1. <<i, j>> \in Nat \X Nat /\ <<i, j>>[1] = i /\ <<i, j>>[2] = j
          BY <2>1
        <4> QED BY <3>1, <3>2, <4>1, Zenon DEF OpToRel
      <3>3. \A i \in fresh : j <= i
        BY <2>1, <3>2
      <3> QED BY <3>3
    <2>3. j \in 1 .. Len(h) /\ h[j] > c
      BY <1>1
    <2>4. \A i \in DOMAIN h : h[i] <= c <=> i < j
      <3>1. ASSUME NEW i \in DOMAIN h, i < j PROVE h[i] <= c
        <4>1. i \notin fresh /\ h[i] \in Nat
          BY <1>1, <2>2, <2>3, <3>1
        <4> QED BY <4>1
      <3>2. ASSUME NEW i \in DOMAIN h, ~(i < j) PROVE ~(h[i] <= c)
        <4>1. h[j] <= h[i] /\ h[i] \in Nat /\ h[j] \in Nat
          BY <1>1, <2>3, <3>2 DEF Ascending
        <4> QED BY <2>3, <4>1
      <3> QED BY <3>1, <3>2
    <2>5. expired = 1 .. j - 1 /\ j - 1 \in 0 .. Len(h)
      BY <1>1, <2>3, <2>4
    <2>6. Cardinality(1 .. j - 1) = j - 1
      BY <2>3, <2>5, FS_Interval
    <2> QED BY <2>5, <2>6
  <1> QED BY <1>2, <1>3

\* Dropping what has expired.
LEMMA Expiring ==
    ASSUME MeterConstants, MetersIInv, NEW m \in Slack!Meters, NEW u, u = Slack!Kept(m)
    PROVE  /\ MeterOK(u, granted[m], now, Limit[m[1]], Window[m[1]])
           /\ u \in Seq(Nat)
  <1> DEFINE n == Limit[m[1]]
             w == Window[m[1]]
             h == hits[m]
             g == granted[m]
             expired == {i \in DOMAIN h : h[i] <= now - w}
  <1>0. n \in Nat /\ w \in Nat /\ now \in Nat
    BY OneMeter DEF MetersIInv
  <1>1. MeterOK(h, g, now, n, w)
    BY DEF MetersIInv
  <1>a. u = SubSeq(h, Cardinality(expired) + 1, Len(h))
    <2>1. Slack!Cardinality(expired) = Cardinality(expired)
      BY DEF Slack!Cardinality, Cardinality
    <2> QED BY <2>1 DEF Slack!Kept
  <1> HIDE DEF n, w, h, g
  <1>2. /\ h \in Seq(Nat) /\ g \in Seq(Nat) /\ Len(h) \in Nat /\ Len(g) \in Nat
        /\ DOMAIN h = 1 .. Len(h) /\ DOMAIN g = 1 .. Len(g)
        /\ \A i \in 1 .. Len(h) : h[i] = g[Len(g) - Len(h) + i]
        /\ Len(h) <= Len(g)
        /\ \A i \in 1 .. Len(g) : g[i] \in Nat
    BY <1>1, LenProperties, ElementOfSeq DEF MeterOK, TailOf
  <1>3. Ascending(h)
    <2> SUFFICES ASSUME NEW i \in DOMAIN h, NEW j \in DOMAIN h, i <= j PROVE h[i] <= h[j]
      BY DEF Ascending
    <2>1. /\ Len(g) - Len(h) + i \in DOMAIN g /\ Len(g) - Len(h) + j \in DOMAIN g
          /\ Len(g) - Len(h) + i <= Len(g) - Len(h) + j
      <3>1. /\ Len(h) \in Nat /\ Len(g) \in Nat /\ Len(h) <= Len(g)
            /\ DOMAIN h = 1 .. Len(h) /\ DOMAIN g = 1 .. Len(g)
        BY <1>2
      <3> QED BY <3>1
    <2>2. g[Len(g) - Len(h) + i] <= g[Len(g) - Len(h) + j]
      BY <1>1, <2>1 DEF MeterOK, Ascending
    <2>3. h[i] = g[Len(g) - Len(h) + i] /\ h[j] = g[Len(g) - Len(h) + j]
      BY <1>2
    <2> QED BY <2>2, <2>3
  <1>4. now - w \in Int
    BY <1>0
  <1>5. PICK k \in 0 .. Len(h) : expired = 1 .. k /\ Cardinality(expired) = k
    BY <1>2, <1>3, <1>4, ExpiredFirst
  <1>6. u = SubSeq(h, k + 1, Len(h))
    BY <1>a, <1>5
  <1>7. /\ u \in Seq(Nat) /\ Len(u) = Len(h) - k /\ DOMAIN u = 1 .. Len(h) - k
        /\ \A i \in 1 .. Len(h) - k : u[i] = h[k + i]
    <2>1. k \in Nat /\ k <= Len(h) /\ Len(h) \in Nat
      BY <1>2, <1>5
    <2>2. \A i \in (k + 1) .. Len(h) : h[i] \in Nat
      BY <1>2, <2>1, ElementOfSeq
    <2>3. /\ u \in Seq(Nat)
          /\ Len(u) = IF k + 1 <= Len(h) THEN Len(h) - (k + 1) + 1 ELSE 0
          /\ \A i \in 1 .. Len(h) - (k + 1) + 1 : u[i] = h[(k + 1) + i - 1]
      <3>1. k + 1 \in Int /\ Len(h) \in Int
        BY <2>1
      <3> QED BY <1>6, <2>2, <3>1, SubSeqProperties
    <2>4. Len(u) = Len(h) - k /\ Len(h) - (k + 1) + 1 = Len(h) - k
      BY <2>1, <2>3
    <2>5. ASSUME NEW i \in 1 .. Len(h) - k PROVE u[i] = h[k + i]
      <3>1. (k + 1) + i - 1 = k + i
        BY <2>1
      <3> QED BY <2>3, <2>4, <3>1
    <2>6. DOMAIN u = 1 .. Len(h) - k
      BY <2>3, <2>4, LenProperties
    <2> QED BY <2>3, <2>4, <2>5, <2>6
  <1>8. TailOf(u, g)
    <2>1. ASSUME NEW i \in DOMAIN u PROVE u[i] = g[Len(g) - Len(u) + i]
      <3>1. i \in 1 .. Len(h) - k /\ k + i \in 1 .. Len(h)
        <4>1. i \in 1 .. Len(h) - k
          BY <1>7
        <4>2. Len(h) \in Nat /\ k \in Nat
          BY <1>2, <1>5
        <4> QED BY <4>1, <4>2
      <3>2. Len(g) - Len(h) + (k + i) = Len(g) - Len(u) + i
        BY <1>2, <1>5, <1>7, <3>1
      <3> QED BY <1>2, <1>7, <3>1, <3>2
    <2> QED BY <1>2, <1>5, <1>7, <2>1 DEF TailOf
  <1>9. ASSUME NEW i \in DOMAIN g, i <= Len(g) - Len(u) PROVE g[i] <= now - w
    <2>1. CASE i <= Len(g) - Len(h)
      BY <1>1, <2>1 DEF MeterOK
    <2>2. CASE ~(i <= Len(g) - Len(h))
      <3>1. i - (Len(g) - Len(h)) \in 1 .. k /\ i - (Len(g) - Len(h)) \in 1 .. Len(h)
        <4>1. Len(u) = Len(h) - k /\ i \in 1 .. Len(g) /\ k \in Nat /\ k <= Len(h)
          BY <1>2, <1>5, <1>7
        <4>2. Len(h) \in Nat /\ Len(g) \in Nat
          BY <1>2
        <4>3. i <= Len(g) - Len(h) + k
          BY <1>9, <4>1, <4>2
        <4> QED BY <2>2, <4>1, <4>2, <4>3
      <3>2. h[i - (Len(g) - Len(h))] <= now - w
        BY <1>5, <3>1
      <3>3. Len(g) - Len(h) + (i - (Len(g) - Len(h))) = i
        BY <1>2, <2>2
      <3> QED BY <1>2, <3>1, <3>2, <3>3
    <2> QED BY <2>1, <2>2
  <1> QED
    BY <1>1, <1>7, <1>8, <1>9 DEF MeterOK, n, w, h, g

\* Giving a slot that is free.
LEMMA Giving ==
    ASSUME NEW n \in Nat, NEW w \in Nat, NEW h, NEW g, NEW t, MeterOK(h, g, t, n, w),
           Len(h) < n
    PROVE  MeterOK(Append(h, t), Append(g, t), t, n, w)
  <1>1. /\ h \in Seq(Nat) /\ g \in Seq(Nat) /\ Len(h) \in Nat /\ Len(g) \in Nat /\ t \in Nat
        /\ DOMAIN h = 1 .. Len(h) /\ DOMAIN g = 1 .. Len(g) /\ Len(h) <= Len(g)
        /\ \A i \in 1 .. Len(h) : h[i] = g[Len(g) - Len(h) + i]
        /\ \A i \in 1 .. Len(g) : g[i] \in Nat /\ g[i] <= t
    BY LenProperties, ElementOfSeq DEF MeterOK, TailOf
  <1>2. PICK v, f : v = Append(h, t) /\ f = Append(g, t)
    OBVIOUS
  <1>3. /\ v \in Seq(Nat) /\ Len(v) = Len(h) + 1 /\ DOMAIN v = 1 .. Len(h) + 1
        /\ v[Len(h) + 1] = t /\ \A i \in 1 .. Len(h) : v[i] = h[i]
    BY <1>1, <1>2
  <1>4. /\ f \in Seq(Nat) /\ Len(f) = Len(g) + 1 /\ DOMAIN f = 1 .. Len(g) + 1
        /\ f[Len(g) + 1] = t /\ \A i \in 1 .. Len(g) : f[i] = g[i]
    BY <1>1, <1>2
  <1>5. \A i \in DOMAIN f : i \in 1 .. Len(g) \/ i = Len(g) + 1
    BY <1>1, <1>4
  <1>6. \A i \in DOMAIN f : f[i] <= t
    <2>1. \A i \in 1 .. Len(g) : f[i] <= t
      BY <1>1, <1>4
    <2>2. f[Len(g) + 1] <= t
      BY <1>1, <1>4
    <2> QED BY <1>5, <2>1, <2>2
  <1>7. Ascending(f)
    <2> SUFFICES ASSUME NEW i \in DOMAIN f, NEW j \in DOMAIN f, i <= j PROVE f[i] <= f[j]
      BY DEF Ascending
    <2>1. CASE j = Len(g) + 1
      BY <1>4, <1>6, <2>1
    <2>2. CASE j \in 1 .. Len(g)
      <3>1. i \in 1 .. Len(g)
        BY <1>1, <1>5, <2>2
      <3>2. g[i] <= g[j]
        BY <1>1, <2>2, <3>1 DEF MeterOK, Ascending
      <3> QED BY <1>4, <2>2, <3>1, <3>2
    <2> QED BY <1>5, <2>1, <2>2
  <1>8. TailOf(v, f)
    <2>1. ASSUME NEW i \in DOMAIN v PROVE v[i] = f[Len(f) - Len(v) + i]
      <3>0. Len(h) \in Nat /\ Len(g) \in Nat
        BY <1>1
      <3>1. Len(f) - Len(v) = Len(g) - Len(h)
        <4>1. Len(v) = Len(h) + 1 /\ Len(f) = Len(g) + 1
          BY <1>3, <1>4
        <4> QED BY <3>0, <4>1
      <3>2. CASE i = Len(h) + 1
        <4>1. Len(f) - Len(v) + i = Len(g) + 1
          BY <3>0, <3>1, <3>2
        <4>2. f[Len(g) + 1] = t /\ v[Len(h) + 1] = t
          BY <1>3, <1>4
        <4> QED BY <3>2, <4>1, <4>2
      <3>3. CASE i \in 1 .. Len(h)
        <4>1. Len(g) - Len(h) + i \in 1 .. Len(g)
          BY <1>1, <3>3
        <4> QED BY <1>1, <1>3, <1>4, <3>1, <3>3, <4>1
      <3> QED BY <1>1, <1>3, <3>2, <3>3
    <2> QED BY <1>1, <1>3, <1>4, <2>1 DEF TailOf
  <1>9. ASSUME NEW i \in DOMAIN f, i <= Len(f) - Len(v) PROVE f[i] <= t - w
    <2>1. i \in 1 .. Len(g) /\ i <= Len(g) - Len(h)
      BY <1>1, <1>3, <1>4, <1>9
    <2>2. g[i] <= t - w
      BY <1>1, <2>1 DEF MeterOK
    <2> QED BY <1>4, <2>1, <2>2
  <1>10. ASSUME NEW i \in DOMAIN f, i > n PROVE f[i - n] <= f[i] - w
    <2>1. CASE i \in 1 .. Len(g)
      <3>1. i - n \in 1 .. Len(g)
        BY <1>1, <1>10, <2>1
      <3>2. g[i - n] <= g[i] - w
        BY <1>1, <1>10, <2>1 DEF MeterOK
      <3> QED BY <1>4, <2>1, <3>1, <3>2
    <2>2. CASE i = Len(g) + 1
      <3>1. i - n \in 1 .. Len(g) /\ i - n <= Len(g) - Len(h)
        BY <1>1, <1>10, <2>2
      <3>2. g[i - n] <= t - w
        BY <1>1, <3>1 DEF MeterOK
      <3> QED BY <1>4, <2>2, <3>1, <3>2
    <2> QED BY <1>5, <2>1, <2>2
  <1> QED
    BY <1>1, <1>2, <1>3, <1>4, <1>6, <1>7, <1>8, <1>9, <1>10 DEF MeterOK

\* Time passes.
LEMMA Waiting ==
    ASSUME NEW n \in Nat, NEW w \in Nat, NEW h, NEW g, NEW t \in Nat,
           MeterOK(h, g, t, n, w)
    PROVE  MeterOK(h, g, t + 1, n, w)
  <1>1. /\ g \in Seq(Nat) /\ \A i \in DOMAIN g : g[i] \in Nat /\ g[i] <= t
    BY ElementOfSeq DEF MeterOK
  <1>2. \A i \in DOMAIN g : g[i] <= t + 1
    BY <1>1
  <1>3. \A i \in DOMAIN g : i <= Len(g) - Len(h) => g[i] <= (t + 1) - w
    <2> SUFFICES ASSUME NEW i \in DOMAIN g, i <= Len(g) - Len(h) PROVE g[i] <= (t + 1) - w
      OBVIOUS
    <2>1. g[i] <= t - w /\ g[i] \in Nat
      BY <1>1 DEF MeterOK
    <2> QED BY <2>1
  <1> QED BY <1>2, <1>3 DEF MeterOK

\* No window has more than n slots.
LEMMA FitsTheWindow ==
    ASSUME NEW n \in Nat, NEW w \in Nat, NEW h, NEW g, NEW t, MeterOK(h, g, t, n, w),
           NEW i \in DOMAIN g
    PROVE  Cardinality({j \in DOMAIN g : g[j] <= g[i] /\ g[j] > g[i] - w}) <= n
  <1> DEFINE near == {j \in DOMAIN g : g[j] <= g[i] /\ g[j] > g[i] - w}
  <1>1. /\ g \in Seq(Nat) /\ Len(g) \in Nat /\ DOMAIN g = 1 .. Len(g)
        /\ \A j \in DOMAIN g : g[j] \in Nat /\ j \in Nat
    BY LenProperties, ElementOfSeq DEF MeterOK
  <1>2. CASE near = {}
    BY <1>2, FS_EmptySet
  <1>3. CASE near # {}
    <2>1. near \subseteq Nat
      BY <1>1
    <2>2. PICK k \in near : \A j \in near : k <= j
      <3>1. PICK k \in near : \A j \in near : <<j, k>> \notin OpToRel(<, Nat)
        BY <1>3, <2>1, NatLessThanWellFounded, WFMin, Zenon
      <3>2. ASSUME NEW j \in near, j < k PROVE FALSE
        <4>1. <<j, k>> \in Nat \X Nat /\ <<j, k>>[1] = j /\ <<j, k>>[2] = k
          BY <2>1
        <4> QED BY <3>1, <3>2, <4>1, Zenon DEF OpToRel
      <3>3. \A j \in near : k <= j
        BY <2>1, <3>2
      <3> QED BY <3>3
    <2>3. k \in DOMAIN g /\ k \in Nat /\ g[k] > g[i] - w
      BY <1>1
    <2>4. ASSUME NEW j \in near PROVE j \in k .. k + n - 1
      <3>1. j \in DOMAIN g /\ j \in Nat /\ k <= j /\ g[j] <= g[i]
        BY <1>1, <2>2
      <3>2. ASSUME j > k + n - 1 PROVE FALSE
        <4>1. j - n \in DOMAIN g /\ k <= j - n /\ j > n
          <5>1. Len(g) \in Nat /\ DOMAIN g = 1 .. Len(g)
            BY <1>1
          <5>2. k >= 1 /\ k \in Nat /\ j \in Nat /\ j <= Len(g)
            BY <2>3, <3>1, <5>1
          <5> QED BY <3>2, <5>1, <5>2
        <4>2. g[j - n] <= g[j] - w
          BY <3>1, <4>1 DEF MeterOK
        <4>3. g[k] <= g[j - n]
          BY <2>3, <4>1 DEF MeterOK, Ascending
        <4> QED BY <1>1, <2>3, <3>1, <4>1, <4>2, <4>3
      <3> QED BY <2>3, <3>1, <3>2
    <2>5. IsFiniteSet(k .. k + n - 1) /\ Cardinality(k .. k + n - 1) = n
      <3>1. k \in Int /\ k + n - 1 \in Int /\ (k + n - 1) - k + 1 = n
        BY <2>3
      <3>2. n = 0 <=> k > k + n - 1
        BY <2>3
      <3> QED BY <3>1, <3>2, FS_Interval
    <2>6. near \subseteq k .. k + n - 1
      BY <2>4
    <2>7. Cardinality(near) <= Cardinality(k .. k + n - 1)
      BY <2>5, <2>6, FS_Subset
    <2> QED BY <2>5, <2>7
  <1> QED BY <1>2, <1>3

LEMMA MetersBegin == ASSUME MeterConstants, Slack!Init PROVE MetersIInv
  <1>1. /\ hits = [m \in Slack!Meters |-> << >>] /\ granted = [m \in Slack!Meters |-> << >>]
        /\ now = 0 /\ crashes = 0
    BY DEF Slack!Init
  <1>2. /\ << >> \in Seq(Nat) /\ Len(<< >>) = 0 /\ DOMAIN << >> = {}
    OBVIOUS
  <1>3. \A n, w : MeterOK(<< >>, << >>, 0, n, w)
    BY <1>2 DEF MeterOK, TailOf, Ascending
  <1> QED BY <1>1, <1>2, <1>3 DEF MetersIInv

LEMMA AcquireKeeps ==
    ASSUME MeterConstants, MetersIInv, NEW meters, NEW taken, Slack!Acquire(meters, taken),
           \A m \in taken : Slack!Free(m), now' = now, crashes' = crashes
    PROVE  MetersIInv'
  <1>1. ASSUME NEW m \in Slack!Meters
        PROVE  /\ hits'[m] \in Seq(Nat) /\ granted'[m] \in Seq(Nat)
               /\ MeterOK(hits'[m], granted'[m], now, Limit[m[1]], Window[m[1]])
    <2>1. PICK u : u = Slack!Kept(m)
      OBVIOUS
    <2>2. MeterOK(u, granted[m], now, Limit[m[1]], Window[m[1]]) /\ u \in Seq(Nat)
      BY <2>1, Expiring
    <2>3. Limit[m[1]] \in Nat /\ Window[m[1]] \in Nat
      BY OneMeter
    <2>4. CASE m \in taken
      <3>1. hits'[m] = Append(u, now) /\ granted'[m] = Append(granted[m], now)
        BY <2>1, <2>4 DEF Slack!Acquire
      <3>2. Len(u) < Limit[m[1]]
        BY <2>1, <2>4 DEF Slack!Free
      <3>3. MeterOK(hits'[m], granted'[m], now, Limit[m[1]], Window[m[1]])
        BY <2>2, <2>3, <3>1, <3>2, Giving
      <3> QED BY <3>3 DEF MeterOK
    <2>5. CASE m \notin taken /\ m \in meters
      <3>1. hits'[m] = u /\ granted'[m] = granted[m]
        BY <2>1, <2>5 DEF Slack!Acquire
      <3> QED BY <2>2, <3>1 DEF MeterOK
    <2>6. CASE m \notin taken /\ m \notin meters
      <3>1. hits'[m] = hits[m] /\ granted'[m] = granted[m]
        BY <2>6 DEF Slack!Acquire
      <3> QED BY <3>1 DEF MetersIInv, MeterOK
    <2> QED BY <2>4, <2>5, <2>6
  <1>2. /\ hits' = [m \in Slack!Meters |-> hits'[m]] /\ granted' = [m \in Slack!Meters |-> granted'[m]]
    BY DEF Slack!Acquire
  <1>3. hits' \in [Slack!Meters -> Seq(Nat)] /\ granted' \in [Slack!Meters -> Seq(Nat)]
    BY <1>1, <1>2
  <1>4. now \in Nat /\ now' = now /\ crashes' = 0
    BY DEF MetersIInv
  <1> QED BY <1>1, <1>3, <1>4 DEF MetersIInv

LEMMA MetersStep ==
    MeterConstants /\ MaxCrashes = 0 /\ MetersIInv /\ [Slack!Next]_(Slack!vars) => MetersIInv'
  <1> SUFFICES ASSUME MeterConstants, MaxCrashes = 0, MetersIInv, [Slack!Next]_(Slack!vars)
               PROVE  MetersIInv'
    OBVIOUS
  <1>1. ASSUME UNCHANGED <<hits, granted, now, crashes>> PROVE MetersIInv'
    BY <1>1 DEF MetersIInv
  <1>2. ASSUME NEW r \in Slack!Intakes, Slack!Deliver(r) PROVE MetersIInv'
    BY <1>1, <1>2 DEF Slack!Deliver
  <1>3. ASSUME NEW s \in Shortcuts, Slack!OpenModal(s) \/ Slack!Submit(s) \/ Slack!GiveUp(s)
        PROVE  MetersIInv'
    BY <1>1, <1>3 DEF Slack!OpenModal, Slack!Submit, Slack!GiveUp, Slack!server
  <1>4. ASSUME NEW s \in Shortcuts, Slack!Draft(s) PROVE MetersIInv'
    <2> DEFINE own == Slack!MeterOf("summary", s)
               global == Slack!GlobalMeter
               taken == IF ~Slack!Free(own) THEN {}
                        ELSE IF ~Slack!Free(global) THEN {own} ELSE {own, global}
    <2>1. /\ \/ Slack!Acquire({own, global}, taken)
             \/ UNCHANGED <<hits, granted>>
          /\ now' = now /\ crashes' = crashes
      BY <1>4 DEF Slack!Draft
    <2>2. \A m \in taken : Slack!Free(m)
      OBVIOUS
    <2> HIDE DEF own, global, taken
    <2> QED BY <1>1, <2>1, <2>2, AcquireKeeps
  <1>5. ASSUME NEW t \in Slack!Tries, Slack!Decide(t) PROVE MetersIInv'
    <2> DEFINE meter == Slack!MeterOf("card", t[1])
    <2>1. /\ \/ Slack!Acquire({meter}, IF Slack!Free(meter) THEN {meter} ELSE {})
             \/ Slack!Free(meter) /\ Slack!Acquire({meter}, {meter})
             \/ UNCHANGED <<hits, granted>>
          /\ now' = now /\ crashes' = crashes
      BY <1>5 DEF Slack!Decide
    <2> HIDE DEF meter
    <2>2. \A m \in (IF Slack!Free(meter) THEN {meter} ELSE {}) : Slack!Free(m)
      OBVIOUS
    <2>3. Slack!Free(meter) => \A m \in {meter} : Slack!Free(m)
      OBVIOUS
    <2> QED BY <1>1, <2>1, <2>2, <2>3, AcquireKeeps
  <1>6. ASSUME NEW t \in Slack!Tries, Slack!Create(t) \/ Slack!Say(t) PROVE MetersIInv'
    BY <1>1, <1>6 DEF Slack!Create, Slack!Say
  <1>7. ~Slack!Crash
    BY DEF Slack!Crash, MetersIInv
  <1>8. CASE Slack!Tick
    <2>1. now' = now + 1 /\ UNCHANGED <<hits, granted, crashes>> /\ now \in Nat /\ crashes = 0
      BY <1>8 DEF Slack!Tick, Slack!server, MetersIInv
    <2>2. ASSUME NEW m \in Slack!Meters
          PROVE  MeterOK(hits[m], granted[m], now + 1, Limit[m[1]], Window[m[1]])
      <3>1. Limit[m[1]] \in Nat /\ Window[m[1]] \in Nat
        BY OneMeter
      <3>2. MeterOK(hits[m], granted[m], now, Limit[m[1]], Window[m[1]])
        BY DEF MetersIInv
      <3> QED BY <2>1, <3>1, <3>2, Waiting
    <2> QED BY <2>1, <2>2 DEF MetersIInv
  <1>9. CASE UNCHANGED Slack!vars
    BY <1>1, <1>9 DEF Slack!vars, Slack!server
  <1> QED BY <1>2, <1>3, <1>4, <1>5, <1>6, <1>7, <1>8, <1>9 DEF Slack!Next

\* However requests are spread over a span of a limiter's window, it gives no
\* more than its limit of slots in it, as long as the process that counts them
\* runs (throttle.ts tryAcquire).
THEOREM LimitsAreKept ==
    MeterConstants /\ MaxCrashes = 0 /\ Slack!Spec => []Slack!WithinLimits
  <1> SUFFICES ASSUME MeterConstants, MaxCrashes = 0 PROVE Slack!Spec => []Slack!WithinLimits
    OBVIOUS
  <1>1. Slack!Init => MetersIInv
    BY MetersBegin
  <1>2. MetersIInv /\ [Slack!Next]_(Slack!vars) => MetersIInv'
    BY MetersStep
  <1>3. MetersIInv => Slack!WithinLimits
    <2> SUFFICES ASSUME MetersIInv, NEW m \in Slack!Meters,
                        NEW i \in DOMAIN granted[m]
                 PROVE  Cardinality({j \in DOMAIN granted[m] :
                            /\ granted[m][j] <= granted[m][i]
                            /\ granted[m][j] > granted[m][i] - Window[m[1]]}) <= Limit[m[1]]
      BY DEF Slack!WithinLimits, Slack!Cardinality, Cardinality
    <2>1. Limit[m[1]] \in Nat /\ Window[m[1]] \in Nat
      BY OneMeter
    <2>2. MeterOK(hits[m], granted[m], now, Limit[m[1]], Window[m[1]])
      BY DEF MetersIInv
    <2> QED BY <2>1, <2>2, FitsTheWindow
  <1> QED BY <1>1, <1>2, <1>3, PTL DEF Slack!Spec

-----------------------------------------------------------------------------
(* Slack: one ticket a mention.                                             *)
(*                                                                         *)
(* The guard remembers the last of the requests in the order of their last  *)
(* deliveries, and one that was handled and is delivered again is among     *)
(* them.                                                                    *)

Single(s) == \A i, j \in DOMAIN s : s[i] = s[j] => i = j

SeenOK(rec, ded) ==
    /\ rec \in Seq(Slack!Intakes) /\ ded \in Seq(Slack!Intakes)
    /\ Single(rec) /\ TailOf(ded, rec)
    /\ Len(ded) = Len(rec) \/ Len(ded) = Capacity
    /\ Len(ded) <= Capacity

\* What one mention has come to.
MentionOK(m) ==
    /\ tries[m] = IF Slack!Contains(recency, m) THEN 1 ELSE 0
    /\ tickets[m] = 0 \/ (tickets[m] = 1 /\ tries[m] = 1)
    /\ \A t \in Slack!Tries : t[1] = m /\ step[t] # "idle" => t[2] = 1 /\ tries[m] = 1
    /\ \A t \in Slack!Tries : t[1] = m /\ step[t] \in {"deciding", "creating"} => tickets[m] = 0

OnceIInv ==
    /\ crashes = 0
    /\ SeenOK(recency, dedup)
    /\ tries \in [Slack!Intakes -> Nat] /\ tickets \in [Slack!Intakes -> Nat]
    /\ DOMAIN step = Slack!Tries
    /\ \A m \in Mentions : MentionOK(m)

OnceConstants ==
    Mentions \cap Shortcuts = {} /\ Capacity \in Nat \ {0} /\ MaxCrashes = 0

\* A sequence without one of its places.
LEMMA TakenOut ==
    ASSUME NEW R, NEW s \in Seq(R), NEW k \in DOMAIN s
    PROVE  /\ Slack!RemoveAt(s, k) \in Seq(R)
           /\ Len(Slack!RemoveAt(s, k)) = Len(s) - 1
           /\ DOMAIN Slack!RemoveAt(s, k) = 1 .. Len(s) - 1
           /\ \A i \in 1 .. Len(s) - 1 :
                 Slack!RemoveAt(s, k)[i] = IF i < k THEN s[i] ELSE s[i + 1]
  <1>1. k \in 1 .. Len(s) /\ Len(s) \in Nat
    BY LenProperties
  <1>2. PICK u, v : u = SubSeq(s, 1, k - 1) /\ v = SubSeq(s, k + 1, Len(s))
    OBVIOUS
  <1>3. u \in Seq(R) /\ Len(u) = k - 1 /\ \A i \in 1 .. k - 1 : u[i] = s[i]
    BY <1>1, <1>2
  <1>4. v \in Seq(R) /\ Len(v) = Len(s) - k /\ \A i \in 1 .. Len(s) - k : v[i] = s[i + k]
    BY <1>1, <1>2
  <1>5. PICK w : w = u \o v
    OBVIOUS
  <1>6. /\ w \in Seq(R) /\ Len(w) = Len(s) - 1
        /\ \A i \in 1 .. Len(w) : w[i] = IF i <= Len(u) THEN u[i] ELSE v[i - Len(u)]
    <2>1. /\ w \in Seq(R) /\ Len(w) = Len(u) + Len(v)
          /\ \A i \in 1 .. Len(u) + Len(v) : w[i] = IF i <= Len(u) THEN u[i] ELSE v[i - Len(u)]
      BY <1>3, <1>4, <1>5, ConcatProperties
    <2>2. Len(u) + Len(v) = Len(s) - 1
      BY <1>1, <1>3, <1>4
    <2> QED BY <2>1, <2>2
  <1>7. ASSUME NEW i \in 1 .. Len(s) - 1
        PROVE  w[i] = IF i < k THEN s[i] ELSE s[i + 1]
    <2>1. CASE i < k
      BY <1>1, <1>3, <1>6, <2>1
    <2>2. CASE ~(i < k)
      <3>1. i - (k - 1) \in 1 .. Len(s) - k /\ (i - (k - 1)) + k = i + 1
        BY <1>1, <2>2
      <3>2. w[i] = v[i - (k - 1)]
        BY <1>1, <1>3, <1>6, <2>2
      <3>3. v[i - (k - 1)] = s[i + 1]
        BY <1>4, <3>1
      <3> QED BY <2>2, <3>2, <3>3
    <2> QED BY <2>1, <2>2
  <1>8. Slack!RemoveAt(s, k) = w
    BY <1>2, <1>5 DEF Slack!RemoveAt
  <1>9. DOMAIN w = 1 .. Len(s) - 1
    BY <1>6, LenProperties
  <1> QED BY <1>6, <1>7, <1>8, <1>9

\* The place of a request in a list that has it once.
LEMMA ThePlace ==
    ASSUME NEW s, Single(s), NEW i \in DOMAIN s
    PROVE  Slack!PlaceOf(s, s[i]) = i
  <1>1. \E j \in DOMAIN s : s[j] = s[i]
    OBVIOUS
  <1>2. /\ Slack!PlaceOf(s, s[i]) \in DOMAIN s /\ s[Slack!PlaceOf(s, s[i])] = s[i]
    BY <1>1, Zenon DEF Slack!PlaceOf
  <1> QED BY <1>2 DEF Single

\* A list that had the request, after it came again.
LEMMA CameAgain ==
    ASSUME NEW R, NEW s \in Seq(R), Single(s), NEW k \in DOMAIN s, NEW u, u = Slack!Newest(s, s[k])
    PROVE  /\ u \in Seq(R) /\ Len(u) = Len(s) /\ DOMAIN u = DOMAIN s
           /\ u[Len(s)] = s[k]
           /\ \A i \in 1 .. Len(s) - 1 : u[i] = IF i < k THEN s[i] ELSE s[i + 1]
  <1>1. Len(s) \in Nat /\ DOMAIN s = 1 .. Len(s) /\ k \in 1 .. Len(s) /\ s[k] \in R
    BY LenProperties, ElementOfSeq
  <1>2. PICK v : v = Slack!RemoveAt(s, k)
    OBVIOUS
  <1>3. /\ v \in Seq(R) /\ Len(v) = Len(s) - 1 /\ DOMAIN v = 1 .. Len(s) - 1
        /\ \A i \in 1 .. Len(s) - 1 : v[i] = IF i < k THEN s[i] ELSE s[i + 1]
    BY <1>2, TakenOut
  <1>4. u = Append(v, s[k])
    <2>1. Slack!PlaceOf(s, s[k]) = k
      BY ThePlace
    <2>2. Slack!Contains(s, s[k])
      BY <1>1 DEF Slack!Contains
    <2> QED BY <1>2, <2>1, <2>2 DEF Slack!Newest
  <1>5. /\ u \in Seq(R) /\ Len(u) = Len(v) + 1 /\ u[Len(v) + 1] = s[k]
        /\ \A i \in 1 .. Len(v) : u[i] = v[i]
    <2>1. v \in Seq(R) /\ s[k] \in R
      BY <1>1, <1>3
    <2> QED BY <1>4, <2>1, AppendProperties
  <1>6. Len(v) + 1 = Len(s) /\ DOMAIN u = 1 .. Len(s)
    BY <1>1, <1>3, <1>5, LenProperties
  <1> QED BY <1>1, <1>3, <1>5, <1>6

\* A list that did not have it.
LEMMA CameFirst ==
    ASSUME NEW R, NEW s \in Seq(R), NEW r \in R, ~Slack!Contains(s, r), NEW u, u = Slack!Newest(s, r)
    PROVE  /\ u \in Seq(R) /\ Len(u) = Len(s) + 1 /\ DOMAIN u = 1 .. Len(s) + 1
           /\ u[Len(s) + 1] = r
           /\ \A i \in 1 .. Len(s) : u[i] = s[i]
  <1>1. u = Append(s, r)
    BY DEF Slack!Newest
  <1>2. /\ u \in Seq(R) /\ Len(u) = Len(s) + 1 /\ u[Len(s) + 1] = r
        /\ \A i \in 1 .. Len(s) : u[i] = s[i]
    BY <1>1, AppendProperties
  <1> QED BY <1>2, LenProperties

LEMMA StillSingle ==
    ASSUME NEW R, NEW s \in Seq(R), Single(s), NEW k \in DOMAIN s, NEW u, u = Slack!Newest(s, s[k])
    PROVE  /\ Single(u)
           /\ \A q : Slack!Contains(u, q) <=> Slack!Contains(s, q)
  <1>1. Len(s) \in Nat /\ DOMAIN s = 1 .. Len(s) /\ k \in 1 .. Len(s)
    BY LenProperties
  <1>2. /\ u \in Seq(R) /\ Len(u) = Len(s) /\ DOMAIN u = DOMAIN s
        /\ u[Len(s)] = s[k]
        /\ \A i \in 1 .. Len(s) - 1 : u[i] = IF i < k THEN s[i] ELSE s[i + 1]
    BY CameAgain
  <1>3. PICK l : l = Len(s)
    OBVIOUS
  <1>4. PICK at : at = [i \in 1 .. l |-> IF i = l THEN k ELSE IF i < k THEN i ELSE i + 1]
    OBVIOUS
  <1>5. l \in Nat /\ k \in 1 .. l
    BY <1>1, <1>3
  <1>6. ASSUME NEW i \in 1 .. l PROVE at[i] \in 1 .. l /\ u[i] = s[at[i]]
    <2>1. CASE i = l
      BY <1>2, <1>3, <1>4, <1>5, <2>1
    <2>2. CASE i # l
      <3>1. i \in 1 .. l - 1 /\ at[i] = IF i < k THEN i ELSE i + 1
        BY <1>4, <1>5, <2>2
      <3>2. u[i] = IF i < k THEN s[i] ELSE s[i + 1]
        BY <1>2, <1>3, <3>1
      <3> QED BY <1>5, <3>1, <3>2
    <2> QED BY <2>1, <2>2
  <1>7. \A i, j \in 1 .. l : at[i] = at[j] => i = j
    BY <1>4, <1>5
  <1>8. ASSUME NEW j \in 1 .. l PROVE \E i \in 1 .. l : at[i] = j
    <2>1. CASE j < k
      <3>1. at[j] = j
        BY <1>4, <1>5, <2>1
      <3> QED BY <3>1
    <2>2. CASE j = k
      <3>1. at[l] = k /\ l \in 1 .. l
        BY <1>4, <1>5
      <3> QED BY <2>2, <3>1
    <2>3. CASE j > k
      <3>1. j - 1 \in 1 .. l /\ at[j - 1] = j
        BY <1>4, <1>5, <2>3
      <3> QED BY <3>1
    <2> QED BY <1>5, <2>1, <2>2, <2>3
  <1>9. Single(u)
    <2> SUFFICES ASSUME NEW i \in 1 .. l, NEW j \in 1 .. l, u[i] = u[j] PROVE i = j
      BY <1>1, <1>2, <1>3 DEF Single
    <2>1. s[at[i]] = s[at[j]] /\ at[i] \in DOMAIN s /\ at[j] \in DOMAIN s
      BY <1>1, <1>3, <1>6
    <2>2. at[i] = at[j]
      BY <2>1 DEF Single
    <2> QED BY <1>7, <2>2
  <1>10. ASSUME NEW q PROVE Slack!Contains(u, q) <=> Slack!Contains(s, q)
    <2>1. Slack!Contains(u, q) => Slack!Contains(s, q)
      BY <1>2, <1>3, <1>6 DEF Slack!Contains
    <2>2. ASSUME NEW j \in 1 .. l, s[j] = q PROVE \E i \in 1 .. l : u[i] = q
      <3>1. PICK i \in 1 .. l : at[i] = j
        BY <1>8
      <3> QED BY <1>6, <2>2, <3>1
    <2>3. Slack!Contains(s, q) => Slack!Contains(u, q)
      BY <1>2, <1>3, <2>2 DEF Slack!Contains
    <2> QED BY <2>1, <2>3
  <1> QED BY <1>9, <1>10

\* A delivery, of whatever Slack still delivers again, keeps the guard's list
\* the end of the requests there were, and the guard knows what was there.
LEMMA DeliveredIs ==
    ASSUME Capacity \in Nat \ {0}, SeenOK(recency, dedup), NEW r \in Slack!Intakes, Slack!Recent(r),
           NEW u, u = Slack!Newest(recency, r), NEW v, v = Slack!Added(r)
    PROVE  /\ SeenOK(u, v)
           /\ Slack!Contains(dedup, r) <=> Slack!Contains(recency, r)
           /\ \A q : Slack!Contains(u, q) <=> (Slack!Contains(recency, q) \/ q = r)
  <1>1. PICK n, l : n = Len(dedup) /\ l = Len(recency)
    OBVIOUS
  <1>2. /\ n \in Nat /\ l \in Nat /\ n <= l /\ (n = l \/ n = Capacity)
        /\ n <= Capacity
        /\ DOMAIN dedup = 1 .. n /\ DOMAIN recency = 1 .. l
        /\ \A i \in 1 .. n : dedup[i] = recency[l - n + i]
    BY <1>1, LenProperties DEF SeenOK, TailOf
  <1>3. recency \in Seq(Slack!Intakes) /\ dedup \in Seq(Slack!Intakes) /\ Single(recency)
    BY DEF SeenOK
  <1>4. Single(dedup)
    <2> SUFFICES ASSUME NEW i \in 1 .. n, NEW j \in 1 .. n, dedup[i] = dedup[j] PROVE i = j
      BY <1>2 DEF Single
    <2>1. l - n + i \in 1 .. l /\ l - n + j \in 1 .. l
      BY <1>2
    <2>2. recency[l - n + i] = recency[l - n + j]
      BY <1>2
    <2>3. l - n + i = l - n + j
      BY <1>2, <1>3, <2>1, <2>2 DEF Single
    <2> QED BY <1>2, <2>3
  <1>5. PICK w : w = Slack!Newest(dedup, r)
    OBVIOUS
  <1>6. v = IF Len(w) > Capacity THEN Tail(w) ELSE w
    BY <1>5 DEF Slack!Added, Slack!Trimmed
  <1>7. CASE Slack!Contains(recency, r)
    <2>1. PICK p \in 1 .. l : recency[p] = r
      BY <1>1, <1>7 DEF Slack!Contains
    <2>2. l - p < Capacity
      <3>1. Slack!PlaceOf(recency, r) = p
        BY <1>2, <1>3, <2>1, ThePlace
      <3> QED BY <1>1, <1>7, <3>1 DEF Slack!Recent
    <2>3. PICK k : k = p - (l - n)
      OBVIOUS
    <2>4. k \in 1 .. n /\ l - n + k = p
      BY <1>2, <2>1, <2>2, <2>3
    <2>5. dedup[k] = r
      BY <1>2, <2>1, <2>4
    <2>6. Slack!Contains(dedup, r)
      BY <1>1, <2>4, <2>5 DEF Slack!Contains
    <2>7. /\ u \in Seq(Slack!Intakes) /\ Len(u) = l /\ u[l] = r
          /\ \A i \in 1 .. l - 1 : u[i] = IF i < p THEN recency[i] ELSE recency[i + 1]
          /\ Single(u) /\ \A q : Slack!Contains(u, q) <=> Slack!Contains(recency, q)
      <3>1. p \in DOMAIN recency /\ u = Slack!Newest(recency, recency[p])
        BY <1>2, <2>1
      <3>2. /\ u \in Seq(Slack!Intakes) /\ Len(u) = Len(recency) /\ u[Len(recency)] = recency[p]
            /\ \A i \in 1 .. Len(recency) - 1 :
                  u[i] = IF i < p THEN recency[i] ELSE recency[i + 1]
        BY <1>3, <3>1, CameAgain
      <3>3. Single(u) /\ \A q : Slack!Contains(u, q) <=> Slack!Contains(recency, q)
        BY <1>3, <3>1, StillSingle
      <3> QED BY <1>1, <2>1, <3>2, <3>3
    <2>8. /\ w \in Seq(Slack!Intakes) /\ Len(w) = n /\ w[n] = r
          /\ \A i \in 1 .. n - 1 : w[i] = IF i < k THEN dedup[i] ELSE dedup[i + 1]
      BY <1>1, <1>2, <1>3, <1>4, <1>5, <2>4, <2>5, CameAgain
    <2>9. v = w
      BY <1>2, <1>6, <2>8
    <2>10. ASSUME NEW i \in 1 .. n PROVE w[i] = u[l - n + i]
      <3>1. CASE i = n
        <4>1. l - n + i = l
          BY <1>2, <3>1
        <4> QED BY <2>7, <2>8, <3>1, <4>1
      <3>2. CASE i < k /\ i # n
        <4>1. /\ i \in 1 .. n - 1 /\ l - n + i \in 1 .. l - 1 /\ l - n + i < p
          BY <1>2, <2>4, <3>2
        <4>2. w[i] = dedup[i] /\ u[l - n + i] = recency[l - n + i]
          BY <2>7, <2>8, <3>2, <4>1
        <4> QED BY <1>2, <4>2
      <3>3. CASE ~(i < k) /\ i # n
        <4>1. /\ i \in 1 .. n - 1 /\ l - n + i \in 1 .. l - 1 /\ ~(l - n + i < p)
              /\ i + 1 \in 1 .. n /\ l - n + (i + 1) = (l - n + i) + 1
          BY <1>2, <2>4, <3>3
        <4>2. w[i] = dedup[i + 1] /\ u[l - n + i] = recency[(l - n + i) + 1]
          BY <2>7, <2>8, <3>3, <4>1
        <4>3. dedup[i + 1] = recency[l - n + (i + 1)]
          BY <1>2, <4>1
        <4> QED BY <4>1, <4>2, <4>3
      <3> QED BY <3>1, <3>2, <3>3
    <2>11. TailOf(w, u)
      <3>1. DOMAIN w = 1 .. n
        BY <2>8, LenProperties
      <3> QED BY <1>2, <2>7, <2>8, <2>10, <3>1 DEF TailOf
    <2>12. SeenOK(u, v)
      BY <1>2, <2>7, <2>8, <2>9, <2>11 DEF SeenOK
    <2> QED BY <1>7, <2>6, <2>7, <2>12
  <1>8. CASE ~Slack!Contains(recency, r)
    <2>1. ~Slack!Contains(dedup, r)
      <3> SUFFICES ASSUME NEW i \in 1 .. n, dedup[i] = r PROVE FALSE
        BY <1>1 DEF Slack!Contains
      <3>1. l - n + i \in 1 .. l /\ recency[l - n + i] = r
        BY <1>2
      <3> QED BY <1>1, <1>8, <3>1 DEF Slack!Contains
    <2>2. /\ u \in Seq(Slack!Intakes) /\ Len(u) = l + 1 /\ DOMAIN u = 1 .. l + 1
          /\ u[l + 1] = r /\ \A i \in 1 .. l : u[i] = recency[i]
      BY <1>1, <1>3, <1>8, CameFirst
    <2>3. /\ w \in Seq(Slack!Intakes) /\ Len(w) = n + 1 /\ DOMAIN w = 1 .. n + 1
          /\ w[n + 1] = r /\ \A i \in 1 .. n : w[i] = dedup[i]
      BY <1>1, <1>3, <1>5, <2>1, CameFirst
    <2>4. Single(u)
      <3> SUFFICES ASSUME NEW i \in 1 .. l + 1, NEW j \in 1 .. l + 1, u[i] = u[j] PROVE i = j
        BY <2>2 DEF Single
      <3>1. \A k \in 1 .. l : u[k] # r
        BY <1>1, <1>8, <2>2 DEF Slack!Contains
      <3>2. \A k \in 1 .. l + 1 : k \in 1 .. l \/ k = l + 1
        BY <1>2
      <3>3. CASE i \in 1 .. l /\ j \in 1 .. l
        BY <1>2, <1>3, <2>2, <3>3 DEF Single
      <3>4. CASE i = l + 1 \/ j = l + 1
        BY <2>2, <3>1, <3>2, <3>4
      <3> QED BY <3>2, <3>3, <3>4
    <2>5. ASSUME NEW q PROVE Slack!Contains(u, q) <=> (Slack!Contains(recency, q) \/ q = r)
      <3>1. \A k \in 1 .. l + 1 : k \in 1 .. l \/ k = l + 1
        BY <1>2
      <3>2. l + 1 \in 1 .. l + 1 /\ \A k \in 1 .. l : k \in 1 .. l + 1
        BY <1>2
      <3>3. Slack!Contains(u, q) <=> \E k \in 1 .. l + 1 : u[k] = q
        BY <2>2 DEF Slack!Contains
      <3>4. Slack!Contains(recency, q) <=> \E k \in 1 .. l : recency[k] = q
        BY <1>1 DEF Slack!Contains
      <3> QED BY <2>2, <3>1, <3>2, <3>3, <3>4
    <2>6. CASE n + 1 > Capacity
      <3>1. n = Capacity
        BY <1>2, <2>6
      <3>2. v = Tail(w) /\ w # << >>
        BY <1>6, <2>3, <2>6, EmptySeq
      <3>3. v \in Seq(Slack!Intakes) /\ Len(v) = n /\ \A i \in 1 .. n : v[i] = w[i + 1]
        BY <1>2, <2>3, <3>2, HeadTailProperties
      <3>4. ASSUME NEW i \in 1 .. n PROVE v[i] = u[(l + 1) - n + i]
        <4>1. CASE i = n
          <5>1. (l + 1) - n + i = l + 1
            BY <1>2, <4>1
          <5> QED BY <2>2, <2>3, <3>3, <4>1, <5>1
        <4>2. CASE i # n
          <5>1. /\ i + 1 \in 1 .. n /\ l - n + (i + 1) = (l + 1) - n + i
                /\ (l + 1) - n + i \in 1 .. l
            <6>1. n \in Nat /\ l \in Nat /\ n <= l
              BY <1>2
            <6>2. i \in Nat /\ i >= 1 /\ i < n
              BY <4>2, <6>1
            <6> QED BY <6>1, <6>2
          <5>2. v[i] = dedup[i + 1]
            BY <2>3, <3>3, <5>1
          <5>3. dedup[i + 1] = recency[(l + 1) - n + i]
            BY <1>2, <5>1
          <5> QED BY <2>2, <5>1, <5>2, <5>3
        <4> QED BY <4>1, <4>2
      <3>5. TailOf(v, u)
        <4>1. DOMAIN v = 1 .. n
          BY <3>3, LenProperties
        <4>2. Len(u) - Len(v) = (l + 1) - n /\ Len(v) <= Len(u)
          BY <1>2, <2>2, <3>3
        <4> QED BY <3>4, <4>1, <4>2 DEF TailOf
      <3>6. SeenOK(u, v)
        BY <1>2, <2>2, <2>4, <3>1, <3>3, <3>5 DEF SeenOK
      <3> QED BY <1>8, <2>1, <2>5, <3>6
    <2>7. CASE ~(n + 1 > Capacity)
      <3>1. n = l /\ v = w /\ n + 1 <= Capacity
        BY <1>2, <1>6, <2>3, <2>7
      <3>2. ASSUME NEW i \in 1 .. n + 1 PROVE w[i] = u[(l + 1) - (n + 1) + i]
        <4>1. (l + 1) - (n + 1) + i = i /\ l - n + i = i
          BY <1>2, <3>1
        <4>2. CASE i = n + 1
          BY <2>2, <2>3, <3>1, <4>1, <4>2
        <4>3. CASE i \in 1 .. n
          BY <1>2, <2>2, <2>3, <3>1, <4>1, <4>3
        <4> QED BY <1>2, <4>2, <4>3
      <3>3. TailOf(w, u)
        BY <1>2, <2>2, <2>3, <3>1, <3>2 DEF TailOf
      <3>4. SeenOK(u, v)
        BY <2>2, <2>3, <2>4, <3>1, <3>3 DEF SeenOK
      <3> QED BY <1>8, <2>1, <2>5, <3>4
    <2> QED BY <2>6, <2>7
  <1> QED BY <1>7, <1>8

LEMMA OnceBegins == ASSUME OnceConstants, Slack!Init PROVE OnceIInv
  <1>1. /\ recency = << >> /\ dedup = << >> /\ crashes = 0
        /\ tries = [r \in Slack!Intakes |-> 0] /\ tickets = [r \in Slack!Intakes |-> 0]
        /\ step = [t \in Slack!Tries |-> "idle"]
    BY DEF Slack!Init
  <1>2. << >> \in Seq(Slack!Intakes) /\ Len(<< >>) = 0 /\ DOMAIN << >> = {}
    OBVIOUS
  <1>3. SeenOK(recency, dedup)
    BY <1>1, <1>2 DEF SeenOK, Single, TailOf, OnceConstants
  <1>4. \A m : ~Slack!Contains(recency, m)
    BY <1>1, <1>2 DEF Slack!Contains
  <1>5. \A m \in Mentions : MentionOK(m)
    BY <1>1, <1>4 DEF MentionOK, Slack!Intakes
  <1> QED BY <1>1, <1>3, <1>5 DEF OnceIInv

\* A step of one listener, or of something that is none of this.
LEMMA ListenerKeeps ==
    ASSUME OnceIInv, NEW t \in Slack!Tries, NEW next,
           step' = [step EXCEPT ![t] = next], next \in {"deciding", "creating"} =>
               step[t] \in {"deciding", "creating"},
           step[t] # "idle",
           \/ tickets' = tickets
           \/ /\ tickets' = [tickets EXCEPT ![t[1]] = @ + 1]
              /\ step[t] = "creating" /\ next \notin {"deciding", "creating"},
           UNCHANGED <<recency, dedup, tries, crashes>>
    PROVE  OnceIInv'
  <1>1. /\ DOMAIN step' = Slack!Tries /\ t[1] \in Slack!Intakes
        /\ \A x \in Slack!Tries : step'[x] = IF x = t THEN next ELSE step[x]
    BY DEF OnceIInv, Slack!Tries
  <1>2. /\ tickets' \in [Slack!Intakes -> Nat]
        /\ \A m \in Slack!Intakes : m # t[1] => tickets'[m] = tickets[m]
    BY <1>1 DEF OnceIInv
  <1>3. ASSUME NEW m \in Mentions PROVE MentionOK(m)'
    <2>1. MentionOK(m) /\ m \in Slack!Intakes
      BY DEF OnceIInv, Slack!Intakes
    <2>2. \A x \in Slack!Tries : x[1] = m /\ step'[x] # "idle" => x[2] = 1 /\ tries[m] = 1
      BY <1>1, <2>1 DEF MentionOK
    <2>3. \A x \in Slack!Tries : x[1] = m /\ step'[x] \in {"deciding", "creating"} => tickets[m] = 0
      BY <1>1, <2>1 DEF MentionOK
    <2>4. CASE tickets' = tickets \/ m # t[1]
      <3>1. tickets'[m] = tickets[m]
        BY <1>2, <2>1, <2>4
      <3> QED BY <2>1, <2>2, <2>3, <3>1 DEF MentionOK
    <2>5. CASE tickets' = [tickets EXCEPT ![t[1]] = @ + 1] /\ m = t[1] /\ tickets' # tickets
      <3>1. step[t] = "creating" /\ next \notin {"deciding", "creating"}
        BY <2>5
      <3>2. tickets[m] = 0 /\ tries[m] = 1 /\ t[2] = 1
        BY <2>1, <2>5, <3>1 DEF MentionOK
      <3>3. tickets'[m] = 1
        BY <1>1, <2>5, <3>2 DEF OnceIInv
      <3>4. ASSUME NEW x \in Slack!Tries, x[1] = m, step'[x] \in {"deciding", "creating"}
            PROVE  FALSE
        <4>1. x[2] = 1
          BY <2>2, <3>4
        <4>2. x = t
          BY <2>5, <3>2, <3>4, <4>1 DEF Slack!Tries
        <4> QED BY <1>1, <3>1, <3>4, <4>2
      <3> QED BY <2>1, <2>2, <3>2, <3>3, <3>4 DEF MentionOK
    <2> QED BY <2>4, <2>5
  <1>4. crashes' = 0 /\ SeenOK(recency, dedup)' /\ tries' \in [Slack!Intakes -> Nat]
    BY DEF OnceIInv
  <1> QED BY <1>1, <1>2, <1>3, <1>4 DEF OnceIInv

LEMMA DeliverKeeps ==
    ASSUME OnceConstants, OnceIInv, NEW r \in Slack!Intakes, Slack!Deliver(r)
    PROVE  OnceIInv'
  <1>1. /\ recency' = Slack!Newest(recency, r) /\ dedup' = Slack!Added(r) /\ Slack!Recent(r)
        /\ tickets' = tickets /\ crashes' = crashes
        /\ IF Slack!Contains(dedup, r) THEN UNCHANGED <<tries, step, modal>> ELSE Slack!Handled(r)
    BY DEF Slack!Deliver
  <1>2. /\ SeenOK(recency', dedup')
        /\ Slack!Contains(dedup, r) <=> Slack!Contains(recency, r)
        /\ \A q : Slack!Contains(recency', q) <=> (Slack!Contains(recency, q) \/ q = r)
    BY <1>1, DeliveredIs DEF OnceConstants, OnceIInv
  <1>3. crashes' = 0 /\ SeenOK(recency, dedup)' /\ tickets' \in [Slack!Intakes -> Nat]
    BY <1>1, <1>2 DEF OnceIInv
  <1>4. CASE Slack!Contains(dedup, r)
    <2>1. tries' = tries /\ step' = step
      BY <1>1, <1>4
    <2>2. \A q : Slack!Contains(recency', q) <=> Slack!Contains(recency, q)
      BY <1>2, <1>4
    <2>3. \A m \in Mentions : MentionOK(m)'
      BY <1>1, <2>1, <2>2 DEF MentionOK, OnceIInv
    <2> QED BY <1>3, <2>1, <2>3 DEF OnceIInv
  <1>5. CASE ~Slack!Contains(dedup, r) /\ r \notin Mentions
    <2>1. tries' = tries /\ step' = step
      BY <1>1, <1>5 DEF Slack!Handled
    <2>2. \A m \in Mentions : Slack!Contains(recency', m) <=> Slack!Contains(recency, m)
      BY <1>2, <1>5
    <2>3. \A m \in Mentions : MentionOK(m)'
      BY <1>1, <2>1, <2>2 DEF MentionOK, OnceIInv
    <2> QED BY <1>3, <2>1, <2>3 DEF OnceIInv
  <1>6. CASE ~Slack!Contains(dedup, r) /\ r \in Mentions
    <2>1. /\ tries' = [tries EXCEPT ![r] = @ + 1]
          /\ step' = [step EXCEPT ![<<r, tries[r] + 1>>] = "deciding"]
      BY <1>1, <1>6 DEF Slack!Handled
    <2>2. MentionOK(r) /\ ~Slack!Contains(recency, r) /\ Slack!Contains(recency', r)
      BY <1>2, <1>6 DEF OnceIInv
    <2>3. tries[r] = 0 /\ tickets[r] = 0
      BY <2>2 DEF MentionOK
    <2>4. /\ tries' \in [Slack!Intakes -> Nat] /\ tries'[r] = 1
          /\ \A q \in Slack!Intakes : q # r => tries'[q] = tries[q]
      BY <2>1, <2>3 DEF OnceIInv
    <2>5. /\ DOMAIN step' = Slack!Tries
          /\ \A t \in Slack!Tries : step'[t] = IF t = <<r, 1>> THEN "deciding" ELSE step[t]
      BY <2>1, <2>3 DEF OnceIInv
    <2>6. MentionOK(r)'
      <3>1. \A t \in Slack!Tries : t[1] = r /\ step'[t] # "idle" => t[2] = 1
        BY <2>2, <2>5 DEF MentionOK
      <3> QED BY <1>1, <2>2, <2>3, <2>4, <3>1 DEF MentionOK
    <2>7. ASSUME NEW m \in Mentions, m # r PROVE MentionOK(m)'
      <3>1. /\ MentionOK(m) /\ tries'[m] = tries[m] /\ tickets'[m] = tickets[m]
            /\ Slack!Contains(recency', m) <=> Slack!Contains(recency, m)
        BY <1>1, <1>2, <2>4, <2>7 DEF OnceIInv, Slack!Intakes
      <3>2. \A t \in Slack!Tries : t[1] = m => step'[t] = step[t]
        BY <2>5, <2>7
      <3> QED BY <3>1, <3>2 DEF MentionOK
    <2>8. \A m \in Mentions : MentionOK(m)'
      BY <2>6, <2>7
    <2> QED BY <1>3, <2>4, <2>5, <2>8 DEF OnceIInv
  <1> QED BY <1>4, <1>5, <1>6

LEMMA SubmitKeeps ==
    ASSUME OnceConstants, OnceIInv, NEW s \in Shortcuts, Slack!Submit(s)
    PROVE  OnceIInv'
  <1>1. /\ s \notin Mentions /\ s \in Slack!Intakes
        /\ tries' = [tries EXCEPT ![s] = @ + 1]
        /\ step' = [step EXCEPT ![<<s, tries[s] + 1>>] = "deciding"]
        /\ UNCHANGED <<recency, dedup, tickets, crashes>>
    BY DEF Slack!Submit, Slack!Intakes, OnceConstants
  <1>2. /\ tries' \in [Slack!Intakes -> Nat] /\ DOMAIN step' = Slack!Tries
        /\ \A q \in Slack!Intakes : q # s => tries'[q] = tries[q]
        /\ \A t \in Slack!Tries : t[1] # s => step'[t] = step[t]
    BY <1>1 DEF OnceIInv
  <1>3. ASSUME NEW m \in Mentions PROVE MentionOK(m)'
    <2>1. MentionOK(m) /\ tries'[m] = tries[m] /\ \A t \in Slack!Tries : t[1] = m => step'[t] = step[t]
      BY <1>1, <1>2 DEF OnceIInv, Slack!Intakes
    <2> QED BY <1>1, <2>1 DEF MentionOK
  <1> QED BY <1>1, <1>2, <1>3 DEF OnceIInv

LEMMA OnceStep ==
    OnceConstants /\ OnceIInv /\ [Slack!Next]_(Slack!vars) => OnceIInv'
  <1> SUFFICES ASSUME OnceConstants, OnceIInv, [Slack!Next]_(Slack!vars) PROVE OnceIInv'
    OBVIOUS
  <1>1. ASSUME UNCHANGED <<recency, dedup, tries, step, tickets, crashes>> PROVE OnceIInv'
    BY <1>1 DEF OnceIInv, MentionOK
  <1>2. ASSUME NEW r \in Slack!Intakes, Slack!Deliver(r) PROVE OnceIInv'
    BY <1>2, DeliverKeeps
  <1>3. ASSUME NEW s \in Shortcuts, Slack!OpenModal(s) \/ Slack!Draft(s) \/ Slack!GiveUp(s)
        PROVE  OnceIInv'
    BY <1>1, <1>3 DEF Slack!OpenModal, Slack!Draft, Slack!GiveUp, Slack!server
  <1>4. ASSUME NEW s \in Shortcuts, Slack!Submit(s) PROVE OnceIInv'
    BY <1>4, SubmitKeeps
  <1>5. ASSUME NEW t \in Slack!Tries, Slack!Decide(t) PROVE OnceIInv'
    <2>1. /\ step[t] = "deciding"
          /\ \E next : step' = [step EXCEPT ![t] = next]
          /\ UNCHANGED <<recency, dedup, tries, tickets, crashes>>
      BY <1>5 DEF Slack!Decide, Slack!Refused, Slack!Goes
    <2> QED BY <2>1, ListenerKeeps
  <1>6. ASSUME NEW t \in Slack!Tries, Slack!Create(t) PROVE OnceIInv'
    <2>1. /\ step[t] = "creating"
          /\ \/ /\ step' = [step EXCEPT ![t] = "created"]
                /\ tickets' = [tickets EXCEPT ![t[1]] = @ + 1]
             \/ step' = [step EXCEPT ![t] = "failed"] /\ tickets' = tickets
          /\ UNCHANGED <<recency, dedup, tries, crashes>>
      BY <1>6 DEF Slack!Create, Slack!Goes, Slack!slack
    <2> QED BY <2>1, ListenerKeeps
  <1>7. ASSUME NEW t \in Slack!Tries, Slack!Say(t) PROVE OnceIInv'
    <2>1. /\ step[t] # "idle"
          /\ \/ step' = [step EXCEPT ![t] = "idle"]
             \/ step' = [step EXCEPT ![t] = "failed"]
          /\ UNCHANGED <<recency, dedup, tries, tickets, crashes>>
      BY <1>7 DEF Slack!Say, Slack!Goes, Slack!slack, Slack!Messages
    <2> QED BY <2>1, ListenerKeeps
  <1>8. ~Slack!Crash
    BY DEF Slack!Crash, OnceIInv, OnceConstants
  <1>9. CASE Slack!Tick \/ UNCHANGED Slack!vars
    BY <1>1, <1>9 DEF Slack!Tick, Slack!vars, Slack!slack, Slack!server
  <1> QED BY <1>2, <1>3, <1>4, <1>5, <1>6, <1>7, <1>8, <1>9 DEF Slack!Next

\* A mention makes one ticket at most, however often Slack delivers it and
\* however many others come between, while the process runs (slack/guards.ts,
\* dedup.ts).
THEOREM MentionsCountOnce == OnceConstants /\ Slack!Spec => []Slack!OnceEach
  <1> SUFFICES ASSUME OnceConstants PROVE Slack!Spec => []Slack!OnceEach
    OBVIOUS
  <1>1. Slack!Init => OnceIInv
    BY OnceBegins
  <1>2. OnceIInv /\ [Slack!Next]_(Slack!vars) => OnceIInv'
    BY OnceStep
  <1>3. OnceIInv => Slack!OnceEach
    BY DEF OnceIInv, MentionOK, Slack!OnceEach
  <1> QED BY <1>1, <1>2, <1>3, PTL DEF Slack!Spec
=============================================================================
