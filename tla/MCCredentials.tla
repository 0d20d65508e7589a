--------------------------- MODULE MCCredentials ---------------------------
(***************************************************************************)
(* Accounts, OAuth grants, service tokens, the expiry of sessions and the   *)
(* throttle of logins.  A behaviour follows the one, and the adapter, that  *)
(* `part` names; they share the clock and the counter of minted secrets.    *)
(***************************************************************************)
EXTENDS TokenGrants, TLC

CONSTANTS
    People, Clients,        \* of Accounts; Clients of ServiceTokens as well
    Tokens,                 \* of ServiceTokens
    Sessions,               \* of SessionExpiry
    Attempts, Logins        \* of LoginThrottle, with the accounts they try

VARIABLES
    part,
    users, policy, sessions, accountCalls, passwords, opened,
    appCalls,
    roles, tokens, units, told, retired,
    row, queue, born, lastUse, revoked,
    attempt, prior, tail, entries, outcomes

accountVars  == <<users, policy, sessions, accountCalls, passwords, opened>>
grantVars    == <<accounts, codes, access, refresh, calls, appCalls, burnt>>
tokenVars    == <<roles, tokens, units, told, retired>>
sessionVars  == <<row, queue, born, lastUse, revoked>>
throttleVars == <<attempt, prior, tail, entries, outcomes>>
partVars ==
    <<part, now, minted, accountVars, grantVars, tokenVars, sessionVars, throttleVars>>

\* The seeded roles, and a second one that manages users.
All == {"manageUsers", "manageRoles", "managePolicy"}
SeededRoles == ("user" :> {}) @@ ("admin" :> All)
WithLead    == SeededRoles @@ ("lead" :> {"manageUsers"})

Sqlite == INSTANCE Accounts WITH
    Users <- People, calls <- accountCalls,
    Policies <- {SeededRoles, WithLead}, Seeded <- SeededRoles, Postgres <- FALSE,
    Slack <- FALSE, CliForce <- TRUE, MaxPasswords <- 3, MaxSessions <- 2
WithSlack == INSTANCE Accounts WITH
    Users <- People, calls <- accountCalls,
    Policies <- {SeededRoles}, Seeded <- SeededRoles, Postgres <- FALSE,
    Slack <- TRUE, CliForce <- FALSE, MaxPasswords <- 2, MaxSessions <- 2
OnPostgres == INSTANCE Accounts WITH
    Users <- People, calls <- accountCalls,
    Policies <- {SeededRoles}, Seeded <- SeededRoles, Postgres <- TRUE,
    Slack <- FALSE, CliForce <- FALSE, MaxPasswords <- 2, MaxSessions <- 2

\* Two requests of one app; one of two, with tokens that live longer; or one
\* after another, for a second grant after the first is revoked.
OneApp == INSTANCE TokenGrants WITH Apps <- {CHOOSE a \in Apps : TRUE}
TwoApps == INSTANCE TokenGrants WITH
    Requests <- {"p"}, RefreshTtl <- 2, MaxTime <- 2, calls <- appCalls
OneByOne == INSTANCE TokenGrants WITH
    Apps <- {CHOOSE a \in Apps : TRUE}, Requests <- {CHOOSE r \in Requests : TRUE},
    MaxMinted <- 6, MaxTime <- 0

Service == INSTANCE ServiceTokens WITH
    Roles <- {"admin", "technician", "vendor"}, Admin <- "admin", MaxSecrets <- 4,
    Postgres <- FALSE, calls <- units
ServiceOnPostgres == INSTANCE ServiceTokens WITH
    Roles <- {"admin", "technician", "vendor"}, Admin <- "admin", MaxSecrets <- 4,
    Postgres <- TRUE, calls <- units

Expiry == INSTANCE SessionExpiry WITH
    Idle <- 3, Absolute <- 5, Throttle <- 2, Postgres <- FALSE, LosesWrites <- FALSE,
    MaxTime <- 6, MaxQueue <- 2
ExpiryOnPostgres == INSTANCE SessionExpiry WITH
    Idle <- 3, Absolute <- 4, Throttle <- 2, Postgres <- TRUE, LosesWrites <- TRUE,
    MaxTime <- 5, MaxQueue <- 2

\* A burst on one account; or three accounts, of which two are remembered.
Burst == INSTANCE LoginThrottle WITH
    Accounts <- {"ada"}, MaxEntries <- 1, CapDelay <- 3, MaxTime <- 6
ThreeAccounts == INSTANCE LoginThrottle WITH
    Accounts <- Logins, MaxEntries <- 2, CapDelay <- 1, MaxTime <- 3

-----------------------------------------------------------------------------
AccountParts  == {"accounts", "slack", "accounts on postgres"}
GrantParts    == {"grants", "two apps", "one by one"}
TokenParts    == {"tokens", "tokens on postgres"}
SessionParts  == {"sessions", "sessions on postgres"}
ThrottleParts == {"burst", "three accounts"}
Parts == AccountParts \cup GrantParts \cup TokenParts \cup SessionParts \cup ThrottleParts

PartsInit ==
    /\ part \in Parts
    /\ Sqlite!Init /\ Service!Init /\ Expiry!Init
    /\ Init /\ TwoApps!Init
    /\ IF part = "three accounts" THEN ThreeAccounts!Init ELSE Burst!Init

AccountStep ==
    /\ \/ part = "accounts" /\ Sqlite!Next
       \/ part = "slack" /\ WithSlack!Next
       \/ part = "accounts on postgres" /\ OnPostgres!Next
    /\ UNCHANGED <<part, now, minted, grantVars, tokenVars, sessionVars, throttleVars>>

GrantStep ==
    /\ \/ part = "grants" /\ OneApp!Next /\ UNCHANGED appCalls
       \/ part = "two apps" /\ TwoApps!Next /\ UNCHANGED calls
       \/ part = "one by one" /\ OneByOne!Next /\ UNCHANGED appCalls
    /\ UNCHANGED <<part, accountVars, tokenVars, sessionVars, throttleVars>>

TokenStep ==
    /\ \/ part = "tokens" /\ Service!Next
       \/ part = "tokens on postgres" /\ ServiceOnPostgres!Next
    /\ UNCHANGED <<part, now, accountVars, grantVars, sessionVars, throttleVars>>

SessionStep ==
    /\ \/ part = "sessions" /\ Expiry!Next
       \/ part = "sessions on postgres" /\ ExpiryOnPostgres!Next
    /\ UNCHANGED <<part, minted, accountVars, grantVars, tokenVars, throttleVars>>

ThrottleStep ==
    /\ \/ part = "burst" /\ Burst!Next
       \/ part = "three accounts" /\ ThreeAccounts!Next
    /\ UNCHANGED <<part, minted, accountVars, grantVars, tokenVars, sessionVars>>

PartsNext == AccountStep \/ GrantStep \/ TokenStep \/ SessionStep \/ ThrottleStep

PartsSpec == PartsInit /\ [][PartsNext]_partVars

-----------------------------------------------------------------------------
\* GrantsInv of TokenGrants is checked of all its parts; the rest as follows.

\* No session outlives a change of password, role or status (Accounts).
SessionsFollowTheAccount ==
    /\ part \in AccountParts => Sqlite!AccountsTypeOK /\ Sqlite!SessionsUnderCurrentPassword
    /\ part \in {"accounts", "slack"} => Sqlite!SessionsOfActiveUsers
    /\ part = "accounts" => Sqlite!SessionsUnderCurrentRole /\ Sqlite!TempIsMarked

\* What has ended does not come back: a retired secret, a session logged out or
\* past its cap; and what has not ended works, on SQLite: secrets that were
\* shown, tokens with a role, sessions that are used (ServiceTokens,
\* SessionExpiry).
EndedOrUsable ==
    /\ part \in TokenParts => Service!TokensTypeOK /\ Service!RetiredStaysDead
    /\ part = "tokens" => Service!ShownSecretsOpen /\ Service!LiveTokensHaveRoles
    /\ part \in SessionParts =>
          Expiry!SessionsTypeOK /\ Expiry!RevokedStaysDead /\ Expiry!AbsoluteCap
    /\ part = "sessions on postgres" => ExpiryOnPostgres!AbsoluteCap
    /\ part = "sessions" => Expiry!UseKeepsAlive

\* There is one first administrator, and a last one stays (Accounts).
AdministratorsRemain ==
    [][part = "accounts" => Sqlite!AdminRemains /\ Sqlite!OneFirstAdmin]_partVars

\* Guesses are spaced and idle sessions end (LoginThrottle, SessionExpiry).
LimitsHold ==
    /\ [](/\ part = "burst" => Burst!ThrottleTypeOK
          /\ part = "three accounts" =>
                ThreeAccounts!ThrottleTypeOK /\ ThreeAccounts!DropsTheStalest
          /\ part \in ThrottleParts => Burst!OneVerification)
    /\ [][/\ part = "burst" => Burst!SpacedGuesses
          /\ part = "sessions" => Expiry!IdleEnds
          /\ part = "sessions on postgres" => ExpiryOnPostgres!IdleEnds]_partVars
=============================================================================
