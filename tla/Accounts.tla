------------------------------ MODULE Accounts ------------------------------
(***************************************************************************)
(* Accounts, roles and sessions: first-boot setup (setup-service.ts), user  *)
(* administration (user-admin-service.ts), login and password change        *)
(* (auth-service.ts), profile saves, the role policy (policy-service.ts),   *)
(* the create-admin command and the Slack binding (slack/identity.ts).      *)
(*                                                                         *)
(* Each of them reads something before its unit of work, argon2 or a        *)
(* request's authentication in between; so a call is at least two steps.    *)
(* SQLite runs a unit of work alone.  On Postgres a unit that locks its     *)
(* user row (FOR UPDATE) is still one step; user administration, profile    *)
(* saves and setup lock nothing, and read in one step and write in another. *)
(***************************************************************************)
EXTENDS Integers, FiniteSets

CONSTANTS
    Users,
    Clients,        \* calls that may be in flight at once
    Policies,       \* role documents: defined role -> the permissions it grants
    Seeded,         \* DEFAULT_POLICY_DOCUMENT
    Postgres,       \* the adapter
    Slack,          \* the Slack adapter is configured
    CliForce,       \* create-admin is run with --force
    MaxPasswords,   \* bound: passwords ever set
    MaxSessions,    \* bound: sessions ever opened
    None

VARIABLES
    users,      \* user -> the row, or None
    policy,     \* the active role document
    sessions,   \* the session rows
    calls,      \* client -> the call in flight, with what it read
    passwords,  \* passwords set so far
    opened      \* sessions opened so far

vars == <<users, policy, sessions, calls, passwords, opened>>

Idle == [op |-> None]
Exists(u) == users[u] # None
Humans == {u \in Users : Exists(u)}
Grants(doc, role, permission) == role \in DOMAIN doc /\ permission \in doc[role]

\* The active accounts whose role grants `permission`.
Holding(permission) ==
    {u \in Humans : users[u].active /\ Grants(policy, users[u].role, permission)}
Admins == Holding("manageUsers")

Init ==
    /\ users = [u \in Users |-> None]
    /\ policy = Seeded
    /\ sessions = {}
    /\ calls = [c \in Clients |-> Idle]
    /\ passwords = 0
    /\ opened = 0

(***************************************************************************)
(* Steps the services share                                                *)
(***************************************************************************)

Goes(c, call) == calls' = [calls EXCEPT ![c] = call]
Ends(c) == Goes(c, Idle)

\* UPDATE users sets every column but password_hash.
Written(u, row) == [row EXCEPT !.hash = users[u].hash]

Fresh(temp) == [n |-> passwords + 1, temp |-> temp]
SetPassword == passwords < MaxPasswords /\ passwords' = passwords + 1

\* A session, with the password and the role it was opened under.
Session(u, hash, role) == [id |-> opened + 1, user |-> u, hash |-> hash, role |-> role]
OpenSession(u, hash, role) ==
    /\ opened < MaxSessions
    /\ opened' = opened + 1
    /\ sessions' = sessions \cup {Session(u, hash, role)}

RevokeNothing(u, kept) == sessions
\* revokeUserCredentials; `kept` is the caller's own session, or 0.
Revoke(u, kept) == {s \in sessions : s.user # u \/ s.id = kept}

\* What a request carries on from authenticate(): the caller as it was then.
Authenticated(c, s, op) ==
    /\ calls[c] = Idle
    /\ users[s.user].active
    /\ Goes(c, [op |-> op, user |-> s.user, role |-> users[s.user].role,
                sid |-> s.id, hash |-> users[s.user].hash])

Refuse(c) == Ends(c) /\ UNCHANGED <<users, policy, sessions, passwords, opened>>

NewRow(role, must, hash) ==
    [role |-> role, active |-> TRUE, must |-> must, slack |-> FALSE, hash |-> hash]

(***************************************************************************)
(* Setup and create-admin                                                  *)
(***************************************************************************)

SetupHash(c) ==
    /\ calls[c] = Idle
    /\ Goes(c, [op |-> "setup"])
    /\ UNCHANGED <<users, policy, sessions, passwords, opened>>

\* Postgres: the count is one statement, the insert a later one.
SetupCount(c) ==
    /\ Postgres
    /\ calls[c].op = "setup"
    /\ IF Humans = {} THEN Goes(c, [op |-> "setup insert"]) ELSE Ends(c)
    /\ UNCHANGED <<users, policy, sessions, passwords, opened>>

\* The insert follows a count of zero: the same step on SQLite.
AtSetup(c) ==
    \/ calls[c].op = "setup insert"
    \/ ~Postgres /\ calls[c].op = "setup" /\ Humans = {}

SetupInsert(c) ==
    /\ AtSetup(c)
    /\ SetPassword
    /\ \E u \in Users :
        /\ ~Exists(u)
        /\ users' = [users EXCEPT ![u] = NewRow("admin", FALSE, Fresh(FALSE))]
        /\ OpenSession(u, Fresh(FALSE), "admin")
    /\ Ends(c)
    /\ UNCHANGED policy

SetupRefused(c) == ~Postgres /\ calls[c].op = "setup" /\ Humans # {} /\ Refuse(c)

\* One unit of work lists the accounts, a second one finds the email.
CliList(c) ==
    /\ calls[c] = Idle
    /\ CliForce \/ \A u \in Humans : ~(users[u].role = "admin" /\ users[u].active)
    /\ Goes(c, [op |-> "cli"])
    /\ UNCHANGED <<users, policy, sessions, passwords, opened>>

CliFind(c) ==
    /\ calls[c].op = "cli"
    /\ \E u \in Users : Goes(c, [op |-> "cli write", user |-> u, row |-> users[u]])
    /\ UNCHANGED <<users, policy, sessions, passwords, opened>>

\* A third one writes back the row as found, promoted, or inserts it.
CliWrite(c) ==
    /\ calls[c].op = "cli write"
    /\ SetPassword
    /\ LET u == calls[c].user
           row == calls[c].row
           found == [row EXCEPT !.role = "admin", !.active = TRUE, !.must = TRUE,
                                !.hash = Fresh(TRUE)]
       IN IF row = None
          THEN /\ ~Exists(u)
               /\ users' = [users EXCEPT ![u] = NewRow("admin", TRUE, Fresh(TRUE))]
               /\ sessions' = sessions
          ELSE /\ users' = [users EXCEPT ![u] = found]
               /\ sessions' = Revoke(u, 0)
    /\ Ends(c)
    /\ UNCHANGED <<policy, opened>>

\* The email was taken since it was looked up: the UNIQUE index refuses.
CliConflict(c) ==
    /\ calls[c].op = "cli write"
    /\ calls[c].row = None /\ Exists(calls[c].user)
    /\ Refuse(c)

(***************************************************************************)
(* Login, logout and change of password                                    *)
(***************************************************************************)

LoginVerify(c, u) ==
    /\ calls[c] = Idle
    /\ Exists(u) /\ users[u].active
    /\ Goes(c, [op |-> "login", user |-> u, hash |-> users[u].hash])
    /\ UNCHANGED <<users, policy, sessions, passwords, opened>>

StillActive(c) == users[calls[c].user].active
\* findByIdForUpdate: what was verified must still be so.
StillTrue(c) ==
    /\ users[calls[c].user].active
    /\ users[calls[c].user].hash = calls[c].hash

LoginCommit(c) ==
    /\ calls[c].op = "login"
    /\ StillTrue(c)
    /\ OpenSession(calls[c].user, calls[c].hash, users[calls[c].user].role)
    /\ Ends(c)
    /\ UNCHANGED <<users, policy, passwords>>

LoginRefused(c) == calls[c].op = "login" /\ ~StillTrue(c) /\ Refuse(c)

Logout(s) ==
    /\ sessions' = sessions \ {s}
    /\ UNCHANGED <<users, policy, calls, passwords, opened>>

PasswordVerify(c, s) ==
    /\ Authenticated(c, s, "password")
    /\ UNCHANGED <<users, policy, sessions, passwords, opened>>

StillSignedIn(c) == \E s \in sessions : s.id = calls[c].sid /\ s.user = calls[c].user

PasswordCommit(c) ==
    /\ calls[c].op = "password"
    /\ StillTrue(c) /\ StillSignedIn(c)
    /\ SetPassword
    /\ LET u == calls[c].user
           kept == calls[c].sid
       IN /\ users' = [users EXCEPT ![u].hash = Fresh(FALSE), ![u].must = FALSE]
          /\ sessions' = {IF s.id = kept THEN [s EXCEPT !.hash = Fresh(FALSE)] ELSE s :
                              s \in Revoke(u, kept)}
    /\ Ends(c)
    /\ UNCHANGED <<policy, opened>>

PasswordRefused(c) ==
    calls[c].op = "password" /\ ~(StillTrue(c) /\ StillSignedIn(c)) /\ Refuse(c)

(***************************************************************************)
(* User administration                                                     *)
(***************************************************************************)

AdminArrives(c, s) ==
    /\ Authenticated(c, s, "admin")
    /\ ~users[s.user].must
    /\ UNCHANGED <<users, policy, sessions, passwords, opened>>

MayManage(c) == Grants(policy, calls[c].role, "manageUsers")

CreateUser(c) ==
    /\ calls[c].op = "admin"
    /\ MayManage(c)
    /\ SetPassword
    /\ \E u \in Users, role \in DOMAIN policy :
        /\ ~Exists(u)
        /\ users' = [users EXCEPT ![u] = NewRow(role, TRUE, Fresh(TRUE))]
    /\ Ends(c)
    /\ UNCHANGED <<policy, sessions, opened>>

\* updateUserInputSchema: what is left out stays as it was.
Inputs == [role : DOMAIN policy \cup {None}, active : BOOLEAN \cup {None}, reset : BOOLEAN]
Given(value, kept) == IF value = None THEN kept ELSE value

NoAdminLost(u, in) == TRUE
\* The last-admin guard, on the accounts as this transaction lists them.
LeavesAnAdmin(u, in) ==
    LET demotes == in.role # None /\ ~Grants(policy, in.role, "manageUsers")
        deactivates == in.active = FALSE
    IN u \in Admins /\ (demotes \/ deactivates) => Admins \ {u} # {}

Edited(u, in) ==
    [users[u] EXCEPT !.role = Given(in.role, @), !.active = Given(in.active, @),
                     !.must = @ \/ in.reset]

\* A changed role, a deactivation or a reset ends what the user holds.
Revokes(u, row, in) ==
    row.role # users[u].role \/ (users[u].active /\ ~row.active) \/ in.reset

WriteUser(u, row, reset, revokes) ==
    /\ IF reset
       THEN /\ SetPassword
            /\ users' = [users EXCEPT ![u] = [row EXCEPT !.hash = Fresh(TRUE), !.must = TRUE]]
       ELSE /\ users' = [users EXCEPT ![u] = Written(u, row)]
            /\ UNCHANGED passwords
    /\ sessions' = IF revokes THEN Revoke(u, 0) ELSE sessions

UpdateUser(c) ==
    /\ ~Postgres
    /\ calls[c].op = "admin"
    /\ MayManage(c)
    /\ \E u \in Humans, in \in Inputs :
        /\ LeavesAnAdmin(u, in)
        /\ WriteUser(u, Edited(u, in), in.reset, Revokes(u, Edited(u, in), in))
    /\ Ends(c)
    /\ UNCHANGED <<policy, opened>>

\* Postgres: the policy, the row and the list are read in earlier statements.
UpdateRead(c) ==
    /\ Postgres
    /\ calls[c].op = "admin"
    /\ MayManage(c)
    /\ \E u \in Humans, in \in Inputs :
        /\ LeavesAnAdmin(u, in)
        /\ Goes(c, [op |-> "admin write", user |-> u, row |-> Edited(u, in),
                    reset |-> in.reset, revokes |-> Revokes(u, Edited(u, in), in)])
    /\ UNCHANGED <<users, policy, sessions, passwords, opened>>

UpdateWrite(c) ==
    /\ calls[c].op = "admin write"
    /\ WriteUser(calls[c].user, calls[c].row, calls[c].reset, calls[c].revokes)
    /\ Ends(c)
    /\ UNCHANGED <<policy, opened>>

\* No permission, or no change it may make.
AdminRefused(c) == calls[c].op = "admin" /\ Refuse(c)

(***************************************************************************)
(* Profile, Slack binding and policy                                       *)
(***************************************************************************)

ProfileArrives(c, s) ==
    /\ Authenticated(c, s, "profile")
    /\ ~users[s.user].must
    /\ UNCHANGED <<users, policy, sessions, passwords, opened>>

\* Time zone and theme are not in the model: all a save can do is put back
\* what it read.  SQLite reads in the unit of work that writes.
ProfileSave(c) ==
    /\ ~Postgres
    /\ calls[c].op = "profile"
    /\ Refuse(c)

ProfileRead(c) ==
    /\ Postgres
    /\ calls[c].op = "profile"
    /\ Goes(c, [op |-> "profile write", user |-> calls[c].user, row |-> users[calls[c].user]])
    /\ UNCHANGED <<users, policy, sessions, passwords, opened>>

ProfileWrite(c) ==
    /\ calls[c].op = "profile write"
    /\ LET u == calls[c].user
       IN users' = [users EXCEPT ![u] = Written(u, calls[c].row)]
    /\ Ends(c)
    /\ UNCHANGED <<policy, sessions, passwords, opened>>

\* The resolver finds an active user by email, or the notifier a recipient.
SlackFind(c, u) ==
    /\ Slack
    /\ calls[c] = Idle
    /\ Exists(u) /\ users[u].active /\ ~users[u].slack
    /\ Goes(c, [op |-> "slack", user |-> u, row |-> users[u]])
    /\ UNCHANGED <<users, policy, sessions, passwords, opened>>

\* bindSlackIdentity writes the row as found, in a unit of work of its own.
SlackBind(c) ==
    /\ calls[c].op = "slack"
    /\ LET u == calls[c].user
       IN users' = [users EXCEPT ![u] = Written(u, [calls[c].row EXCEPT !.slack = TRUE])]
    /\ Ends(c)
    /\ UNCHANGED <<policy, sessions, passwords, opened>>

PolicyArrives(c, s) ==
    /\ Authenticated(c, s, "policy")
    /\ ~users[s.user].must
    /\ UNCHANGED <<users, policy, sessions, passwords, opened>>

\* ensureNoOrphanedRole: deactivated users do not count.
NoneOrphaned(doc) == \A u \in Humans : users[u].active => users[u].role \in DOMAIN doc

ApplyPolicy(c) ==
    /\ calls[c].op = "policy"
    /\ Grants(policy, calls[c].role, "managePolicy")
    /\ \E doc \in Policies \ {policy} : NoneOrphaned(doc) /\ policy' = doc
    /\ Ends(c)
    /\ UNCHANGED <<users, sessions, passwords, opened>>

PolicyRefused(c) == calls[c].op = "policy" /\ Refuse(c)

Step(c) ==
    \/ SetupHash(c) \/ SetupCount(c) \/ SetupInsert(c) \/ SetupRefused(c)
    \/ CliList(c) \/ CliFind(c) \/ CliWrite(c) \/ CliConflict(c)
    \/ LoginCommit(c) \/ LoginRefused(c) \/ PasswordCommit(c) \/ PasswordRefused(c)
    \/ CreateUser(c) \/ UpdateUser(c) \/ UpdateRead(c) \/ UpdateWrite(c) \/ AdminRefused(c)
    \/ ProfileSave(c) \/ ProfileRead(c) \/ ProfileWrite(c)
    \/ SlackBind(c) \/ ApplyPolicy(c) \/ PolicyRefused(c)

Arrive(c) ==
    \/ \E u \in Users : LoginVerify(c, u) \/ SlackFind(c, u)
    \/ \E s \in sessions : \/ PasswordVerify(c, s) \/ AdminArrives(c, s)
                           \/ ProfileArrives(c, s) \/ PolicyArrives(c, s)

Next == (\E c \in Clients : Step(c) \/ Arrive(c)) \/ \E s \in sessions : Logout(s)

Spec == Init /\ [][Next]_vars

(***************************************************************************)
(* Properties                                                              *)
(***************************************************************************)

Roles == (UNION {DOMAIN doc : doc \in Policies}) \cup {"admin"}
Passwords == [n : 1 .. MaxPasswords, temp : BOOLEAN]
Rows == [role : Roles, active : BOOLEAN, must : BOOLEAN, slack : BOOLEAN, hash : Passwords]

\* Rows and sessions are what the schema says; a session's id is its own and
\* its user exists (sessions.userId references users).
AccountsTypeOK ==
    /\ users \in [Users -> Rows \cup {None}]
    /\ policy \in Policies
    /\ sessions \subseteq [id : 1 .. opened, user : Humans, hash : Passwords, role : Roles]
    /\ \A s, t \in sessions : s.id = t.id => s = t
    /\ passwords \in 0 .. MaxPasswords /\ opened \in 0 .. MaxSessions
    /\ \A u \in Humans : users[u].hash.n <= passwords

\* A live session belongs to an active user and was opened, or kept, under the
\* password that is current: a login or a change of password verified outside
\* its unit of work cannot outlive a reset that commits in between.
SessionsUnderCurrentPassword ==
    \A s \in sessions : s.hash = users[s.user].hash

SessionsOfActiveUsers == \A s \in sessions : users[s.user].active

\* No session survives a change of its user's role.
SessionsUnderCurrentRole == \A s \in sessions : s.role = users[s.user].role

\* A one-time password is never the account's password without the flag that
\* makes its holder change it.
TempIsMarked == \A u \in Humans : users[u].hash.temp => users[u].must

\* While the policy stays, the last active account that can manage users is
\* not lost, whatever two administrators do to each other at the same time;
\* create-admin, the recovery of an operator, is apart.
AdminRemains ==
    \/ Admins = {} \/ Admins' # {}
    \/ policy' # policy
    \/ \E c \in Clients : calls[c].op = "cli write" /\ CliWrite(c)

\* A setup that ends well made the only account there is.
OneFirstAdmin == \A c \in Clients : SetupInsert(c) => Cardinality(Humans') = 1

\* A profile save leaves role, status and password flag as they are.
ProfileSaveIsOnlyPreferences ==
    \A c \in Clients : calls[c].op = "profile write" /\ calls'[c] = Idle => users' = users

\* Every active account has a role the policy defines.
NobodyOrphaned == \A u \in Humans : users[u].active => users[u].role \in DOMAIN policy
=============================================================================
