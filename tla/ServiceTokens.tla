---------------------------- MODULE ServiceTokens ----------------------------
(***************************************************************************)
(* Service tokens (tokens/service-token-service.ts and its repositories):   *)
(* create, rotate, revoke, and the role policy (policy-service.ts) that     *)
(* they must have a role in.  SQLite runs a unit of work alone.  On         *)
(* Postgres what a unit reads and what it writes are two steps; saves of    *)
(* the policy lock the policy's row and exclude one another.                *)
(* The caller holds the permission; one who does not is refused and changes *)
(* nothing.                                                                 *)
(***************************************************************************)
EXTENDS Naturals

CONSTANTS
    Tokens,
    Roles,
    Admin,          \* a role no policy is without
    Clients,        \* calls that may be in flight at once
    MaxSecrets,     \* bound: secrets ever minted
    Postgres,       \* the adapter
    None

VARIABLES
    roles,      \* the roles the active policy defines
    tokens,     \* token -> [role, secret, revoked], or None
    calls,      \* client -> the unit of work under way, or None
    minted,     \* secrets minted so far
    told,       \* <<token, secret>> whose creation or rotation was answered
    retired     \* history: those of told that a later revocation or rotation ended

vars == <<roles, tokens, calls, minted, told, retired>>

Exists(t) == tokens[t] # None
Live(t) == Exists(t) /\ ~tokens[t].revoked
Secrets == 1 .. MaxSecrets

Init ==
    /\ roles = Roles
    /\ tokens = [t \in Tokens |-> None]
    /\ calls = [c \in Clients |-> None]
    /\ minted = 0
    /\ told = {} /\ retired = {}

Goes(c, call) == calls' = [calls EXCEPT ![c] = call]

\* The check of a unit, and then, in the same step or in a later one, its write.
Checked(c, check, call) ==
    IF Postgres THEN calls[c] = call
    ELSE calls[c] = None /\ check

Check(c, check, call) ==
    /\ Postgres /\ calls[c] = None
    /\ check
    /\ Goes(c, call)
    /\ UNCHANGED <<roles, tokens, minted, told, retired>>

Done(c) == Goes(c, None)

\* Of Postgres: the transaction is rolled back.
Abort(c) ==
    /\ calls[c] # None
    /\ Done(c)
    /\ UNCHANGED <<roles, tokens, minted, told, retired>>

Mint == minted < MaxSecrets /\ minted' = minted + 1
Tell(t) == told' = told \cup {<<t, minted + 1>>}
Retire(t) == retired' = retired \cup (told \cap {<<t, k>> : k \in Secrets})

(***************************************************************************)
(* Create                                                                  *)
(***************************************************************************)

\* roleExists
Creatable(t, r) == ~Exists(t) /\ r \in roles
Creation(t, r) == [op |-> "create", token |-> t, role |-> r]

Create(c, t, r) ==
    /\ Checked(c, Creatable(t, r), Creation(t, r))
    /\ ~Exists(t)
    /\ Mint /\ Tell(t)
    /\ tokens' = [tokens EXCEPT ![t] = [role |-> r, secret |-> minted + 1, revoked |-> FALSE]]
    /\ Done(c)
    /\ UNCHANGED <<roles, retired>>

(***************************************************************************)
(* Rotate, revoke                                                          *)
(***************************************************************************)

RotatableAlways(t) == Exists(t)
\* rotateHash reads the row: a revoked one is a conflict.
Rotatable(t) == Live(t)
Rotation(t) == [op |-> "rotate", token |-> t]

Rotate(c, t) ==
    /\ Checked(c, Rotatable(t), Rotation(t))
    /\ Mint /\ Tell(t) /\ Retire(t)
    /\ tokens' = [tokens EXCEPT ![t].secret = minted + 1]
    /\ Done(c)
    /\ UNCHANGED roles

\* The row exists; the UPDATE has its own condition.
Revoke(t) ==
    /\ Live(t)
    /\ tokens' = [tokens EXCEPT ![t].revoked = TRUE]
    /\ Retire(t)
    /\ UNCHANGED <<roles, calls, minted, told>>

(***************************************************************************)
(* The policy                                                              *)
(***************************************************************************)

OrphansNobody(kept) == \A t \in Tokens : Live(t) => tokens[t].role \in kept
\* policyDocumentSchema; ensureNoOrphanedRole, of tokens; and getActiveForUpdate holds the row.
Savable(kept) ==
    /\ Admin \in kept
    /\ OrphansNobody(kept)
    /\ \A c \in Clients : calls[c] # None => calls[c].op # "save"
Saving(kept) == [op |-> "save", kept |-> kept]

Save(c, kept) ==
    /\ Checked(c, Savable(kept), Saving(kept))
    /\ roles' = kept
    /\ Done(c)
    /\ UNCHANGED <<tokens, minted, told, retired>>

Begin(c) ==
    \/ \E t \in Tokens, r \in Roles : Check(c, Creatable(t, r), Creation(t, r))
    \/ \E t \in Tokens : Check(c, Rotatable(t), Rotation(t))
    \/ \E kept \in SUBSET Roles : Check(c, Savable(kept), Saving(kept))

Next ==
    \/ \E c \in Clients :
          \/ Begin(c) \/ Abort(c)
          \/ \E t \in Tokens, r \in Roles : Create(c, t, r)
          \/ \E t \in Tokens : Rotate(c, t)
          \/ \E kept \in SUBSET Roles : Save(c, kept)
    \/ \E t \in Tokens : Revoke(t)

Spec == Init /\ [][Next]_vars

-----------------------------------------------------------------------------

TokensTypeOK ==
    /\ Admin \in roles /\ roles \subseteq Roles
    /\ \A t \in Tokens : Exists(t) => tokens[t].role \in Roles /\ tokens[t].secret \in 1 .. minted
    /\ retired \subseteq told

\* service-token-service.ts: a token must never carry an unknown role; and
\* policy-service.ts keeps the roles of live tokens.
LiveTokensHaveRoles == OrphansNobody(roles)

\* A secret that was shown to an administrator opens its token until it is
\* rotated away or revoked: rotate answers only of a token that lives.
ShownSecretsOpen ==
    \A s \in told \ retired : Live(s[1]) /\ tokens[s[1]].secret = s[2]

\* And it never opens it again.
RetiredStaysDead ==
    \A s \in retired : ~Live(s[1]) \/ tokens[s[1]].secret # s[2]
=============================================================================
