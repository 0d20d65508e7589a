------------------------------- MODULE Boards -------------------------------
(***************************************************************************)
(* Boards, groups and the catalogue of roles, administered by several       *)
(* people at once (BoardService, PolicyService).  Every administrative      *)
(* transaction first locks the row of the initial board, which stays there  *)
(* for good, then reads what it depends on, and writes at its commit.       *)
(* Access, defaults and grants are about subjects: everybody, a role, a     *)
(* group, a user.                                                           *)
(***************************************************************************)
EXTENDS Integers, FiniteSetsExt

CONSTANTS
    NBoards,        \* boards 1 .. NBoards, in the order of their creation
    Groups, Roles, Users,
    RoleOf,         \* user -> role
    Requests,       \* administrative requests at one time
    Ops,            \* what they ask for
    MayAbort,       \* a transaction may be given up
    None

Boards == 1 .. NBoards
Initial == 1
Everybody == <<"all", "all">>
RoleSubject(k) == <<"role", k>>
GroupSubject(g) == <<"group", g>>
UserSubject(u) == <<"user", u>>
Subjects == {Everybody} \cup {RoleSubject(k) : k \in Roles}
            \cup {GroupSubject(g) : g \in Groups} \cup {UserSubject(u) : u \in Users}
Permissions == {"managePolicy", "manageRoles"}

\* Create and Update: of a board.  Roles: a policy document.
Kinds == {"create", "update", "remove", "save group", "remove group", "roles", "prefer"}

ASSUME BoardsAssumption ==
    /\ NBoards \in Nat \ {0}
    /\ RoleOf \in [Users -> Roles]
    /\ None \notin Boards /\ None \notin Requests
    /\ MayAbort \in BOOLEAN

\* What the schemas of the requests let through.
ASSUME OpsAssumption ==
    \A op \in Ops :
        /\ op.kind \in Kinds
        /\ op.kind \in {"create", "update", "remove"} => op.board \in Boards
        /\ op.kind \in {"create", "update"} => op.access \cup op.defaults \subseteq Subjects
        /\ op.kind \in {"save group", "remove group"} => op.group \in Groups
        /\ op.kind = "save group" => op.users # None /\ op.users \subseteq Users
        /\ op.kind = "roles" => op.role \in [Roles -> {None} \cup SUBSET Permissions]
        /\ op.kind = "prefer" => op.user \in Users /\ op.board \in Boards \cup {None}

VARIABLES
    board,      \* board -> "none", "open" or "archived"
    access,     \* board -> the subjects it is open to
    default,    \* subject -> its default board, or None
    members,    \* group -> its users, None: no such group
    role,       \* role -> its permissions, None: no such role
    lock,       \* the request that holds the lock, or None
    req         \* request -> where it is

stores == <<board, access, default, members, role>>
vars == <<board, access, default, members, role, lock, req>>

Init ==
    /\ board = [b \in Boards |-> IF b = Initial THEN "open" ELSE "none"]
    /\ access = [b \in Boards |-> IF b = Initial THEN {Everybody} ELSE {}]
    /\ default = [s \in Subjects |-> None]
    /\ members = [g \in Groups |-> None]
    /\ role = [k \in Roles |-> IF \E u \in Users : RoleOf[u] = k THEN Permissions ELSE None]
    /\ lock = None
    /\ req = [r \in Requests |-> [at |-> "over"]]

(***************************************************************************)
(* Who sees what                                                           *)
(***************************************************************************)

Manages(u) == "managePolicy" \in role[RoleOf[u]]
GroupsOf(u) == {g \in Groups : members[g] # None /\ u \in members[g]}
SubjectsOf(u) == {Everybody, RoleSubject(RoleOf[u]), UserSubject(u)}
                 \cup {GroupSubject(g) : g \in GroupsOf(u)}

\* canAccessBoard
Sees(u, b) == board[b] = "open" /\ (Manages(u) \/ access[b] \cap SubjectsOf(u) # {})
Visible(u) == {b \in Boards : Sees(u, b)}

\* A default counts where the user may see it.
Defaults(u, subjects) == {default[s] : s \in subjects} \cap Visible(u)

\* The catalogue's defaultBoardId: the user's own choice, what the groups
\* agree on, the role's, everybody's, the oldest.
Landing(u) ==
    LET candidates == << Defaults(u, {UserSubject(u)}),
                         Defaults(u, {GroupSubject(g) : g \in GroupsOf(u)}),
                         Defaults(u, {RoleSubject(RoleOf[u])}),
                         Defaults(u, {Everybody}),
                         IF Visible(u) = {} THEN {None} ELSE {Min(Visible(u))} >>
        clear == {i \in DOMAIN candidates : Cardinality(candidates[i]) = 1}
    IN  CHOOSE b \in candidates[Min(clear)] : TRUE

(***************************************************************************)
(* Administrative transactions                                             *)
(***************************************************************************)

Goes(r, at) == [req EXCEPT ![r].at = at]

Ask(r, op, u) ==
    /\ req[r].at \in {"done", "over"}
    /\ op.kind = "prefer" => op.user = u
    /\ req' = [req EXCEPT ![r] = [at |-> "waiting", op |-> op, by |-> u]]
    /\ UNCHANGED <<stores, lock>>

\* A lock on the newest policy row: who waits for it gets it together with
\* who finds a newer one.
LockNewestPolicy(r) ==
    /\ req[r].at = "waiting"
    /\ lock' = r /\ req' = Goes(r, "holding")
    /\ UNCHANGED stores
Lock(r) ==
    /\ req[r].at = "waiting" /\ lock = None
    /\ lock' = r /\ req' = Goes(r, "holding")
    /\ UNCHANGED stores

Known(subjects) ==
    \A s \in subjects : /\ s[1] = "role" => role[s[2]] # None
                        /\ s[1] = "group" => members[s[2]] # None
OpenBoards == {b \in Boards : board[b] = "open"}

\* What each operation asks of what it reads (validateAccess, remove,
\* removeGroup, ensureNoOrphanedRole, the schema of a policy).
Fits(op, by) ==
    CASE op.kind = "create" -> board[op.board] = "none" /\ Known(op.access \cup op.defaults)
      [] op.kind = "update" -> Sees(by, op.board) /\ Known(op.access \cup op.defaults)
      [] op.kind = "remove" -> Sees(by, op.board) /\ Cardinality(OpenBoards) > 1
      [] op.kind = "save group" -> TRUE
      [] op.kind = "remove group" ->
            /\ members[op.group] # None
            /\ \A b \in OpenBoards : GroupSubject(op.group) \notin access[b]
      [] op.kind = "roles" ->
            /\ \E k \in Roles : op.role[k] # None /\ "manageRoles" \in op.role[k]
            /\ \A u \in Users : op.role[RoleOf[u]] # None
            /\ \A b \in OpenBoards, k \in Roles :
                  op.role[k] = None => RoleSubject(k) \notin access[b]
      [] op.kind = "prefer" -> op.board # None => Sees(by, op.board)

Permitted(op, by) == op.kind = "prefer" \/ Manages(by)

Release(r, at) ==
    /\ lock' = IF lock = r THEN None ELSE lock
    /\ req' = [req EXCEPT ![r] = [at |-> at]]

Check(r) ==
    /\ req[r].at = "holding"
    /\ Permitted(req[r].op, req[r].by) /\ Fits(req[r].op, req[r].by)
    /\ req' = Goes(r, "checked")
    /\ UNCHANGED <<stores, lock>>
Refuse(r) ==
    /\ req[r].at = "holding"
    /\ ~(Permitted(req[r].op, req[r].by) /\ Fits(req[r].op, req[r].by))
    /\ Release(r, "over")
    /\ UNCHANGED stores

\* The defaults of a board are these subjects' and nobody else's but users'.
SavedDefaults(b, subjects) ==
    [s \in Subjects |-> IF s \in subjects THEN b
                        ELSE IF default[s] = b /\ s[1] # "user" THEN None ELSE default[s]]

WriteBoard(op) ==
    /\ op.kind \in {"create", "update"}
    /\ board' = [board EXCEPT ![op.board] = "open"]
    /\ access' = [access EXCEPT ![op.board] = op.access]
    /\ default' = SavedDefaults(op.board, op.defaults)
    /\ UNCHANGED <<members, role>>
ArchiveBoard(op) ==
    /\ op.kind = "remove"
    /\ board' = [board EXCEPT ![op.board] = "archived"]
    /\ UNCHANGED <<access, default, members, role>>
\* Saved under its id, or inserted under a new one: a group of the model that
\* is not there is one that was not made yet.
SaveGroup(op) ==
    /\ op.kind = "save group"
    /\ members' = [members EXCEPT ![op.group] = op.users]
    /\ UNCHANGED <<board, access, default, role>>
RemoveGroup(op) ==
    /\ op.kind = "remove group"
    /\ members' = [members EXCEPT ![op.group] = None]
    /\ default' = [default EXCEPT ![GroupSubject(op.group)] = None]
    /\ UNCHANGED <<board, access, role>>
ApplyPolicy(op) ==
    /\ op.kind = "roles"
    /\ role' = op.role
    /\ default' = [s \in Subjects |->
                     IF s[1] = "role" /\ op.role[s[2]] = None THEN None ELSE default[s]]
    /\ UNCHANGED <<board, access, members>>
Prefer(op) ==
    /\ op.kind = "prefer"
    /\ default' = [default EXCEPT ![UserSubject(op.user)] = op.board]
    /\ UNCHANGED <<board, access, members, role>>

Commit(r) ==
    /\ req[r].at = "checked"
    /\ LET op == req[r].op
       IN  \/ WriteBoard(op) \/ ArchiveBoard(op) \/ SaveGroup(op)
           \/ RemoveGroup(op) \/ ApplyPolicy(op) \/ Prefer(op)
    /\ Release(r, "done")

\* A lost connection, a stopped process: nothing was written.
Abort(r) ==
    /\ MayAbort /\ req[r].at \in {"holding", "checked"}
    /\ Release(r, "over")
    /\ UNCHANGED stores

-----------------------------------------------------------------------------

Runs(r) == Check(r) \/ Refuse(r) \/ Commit(r)

Next == \E r \in Requests : \/ \E op \in Ops, u \in Users : Ask(r, op, u)
                            \/ Lock(r) \/ Runs(r) \/ Abort(r)

\* Who waits for a row lock, or for the write queue of SQLite, waits in line;
\* a transaction that has it runs to its end.
Fairness == \A r \in Requests : SF_vars(Lock(r)) /\ WF_vars(Runs(r))

Spec == Init /\ [][Next]_vars /\ Fairness

-----------------------------------------------------------------------------

\* remove: two removals at once never take the last two boards.
LastBoardStays == OpenBoards # {}

\* validateAccess, removeGroup, ensureNoOrphanedRole: what an open board
\* grants, and what has a default, exists: a new role under an old key
\* inherits nothing, no board is closed to all because its group is gone.
GrantsResolve ==
    /\ \A b \in OpenBoards : Known(access[b])
    /\ Known({s \in Subjects : default[s] # None})

StoresType ==
    /\ board \in [Boards -> {"none", "open", "archived"}]
    /\ access \in [Boards -> SUBSET Subjects]
    /\ default \in [Subjects -> Boards \cup {None}]
    /\ members \in [Groups -> (SUBSET Users) \cup {None}]
    /\ role \in [Roles -> (SUBSET Permissions) \cup {None}]

Rows == [at : {"done", "over"}]
        \cup [at : {"waiting", "holding", "checked"}, op : Ops, by : Users]

Exclusive ==
    /\ lock \in Requests \cup {None}
    /\ req \in [Requests -> Rows]
    /\ \A r \in Requests : req[r].at \in {"holding", "checked"} <=> lock = r

\* What was checked under the lock still fits until it is released, whatever
\* the other requests do meanwhile.
StillFits ==
    \A r \in Requests : req[r].at = "checked" =>
        Permitted(req[r].op, req[r].by) /\ Fits(req[r].op, req[r].by)

StoresInv == StoresType /\ LastBoardStays /\ GrantsResolve

\* However many removals, policies and groups are under way: one transaction
\* is past the lock, what it checked still fits, a board is open, and what
\* boards grant exists (lockAdministration and what runs under it).
BoardsInv == StoresInv /\ Exclusive /\ StillFits

\* Whatever was archived, restricted or regrouped since the defaults were
\* chosen, the catalogue leads to a board that the user may see, if any (list).
LandsOnVisible ==
    \A u \in Users : Landing(u) \in (IF Visible(u) = {} THEN {None} ELSE Visible(u))

\* lockAdministration: a change is made under the policy of the moment it is
\* committed in, also when that policy changed while the request waited; and
\* a preference is for a board the user may see then (setPreference).
AuthorityIsCurrent ==
    [][\A r \in Requests : req[r].at = "checked" /\ req'[r].at = "done" =>
         LET op == req[r].op
         IN  IF op.kind # "prefer" THEN Manages(req[r].by)
             ELSE op.board # None => Sees(req[r].by, op.board)]_vars

\* policy-service.ts: at least one role grants manageRoles, so that editing
\* can never lock itself out: there is always somebody to edit the policy.
PolicyStaysEditable == \E u \in Users : Manages(u)

\* Whoever waits for the lock is answered.
EveryoneIsAnswered ==
    \A r \in Requests : (req[r].at = "waiting") ~> (req[r].at \in {"done", "over"})
=============================================================================
