---------------------------- MODULE TokenGrants ----------------------------
(***************************************************************************)
(* The OAuth grants of one deployment: authorization codes, access tokens   *)
(* and rotating refresh tokens (authorization-service.ts, token-service.ts) *)
(* against changes of the account (revoke-user-credentials.ts), replays,    *)
(* revocations, expiry and answers that get lost.                           *)
(*                                                                         *)
(* A grant finds its row, then locks the user's row and reads again: on     *)
(* either adapter everything from the lock to the commit is one step, and   *)
(* what was found before it may be stale.  Anybody may present any code or  *)
(* token: whether an answer reached its client makes no difference here.    *)
(***************************************************************************)
EXTENDS Integers, FiniteSets

CONSTANTS
    Users,
    Apps,           \* registered OAuth clients
    Requests,       \* token and revocation requests in flight at once
    CodeTtl, AccessTtl, RefreshTtl,
    MaxTime,        \* bound on the clock
    MaxMinted,      \* bound: codes and tokens ever minted
    MaxEpoch,       \* bound: changes of one account
    None

\* Times to live are whole numbers of the clock's unit.
ASSUME NumbersAssumption ==
    {CodeTtl, AccessTtl, RefreshTtl, MaxEpoch} \subseteq Nat

\* What stands for no request is not the name of one.
ASSUME NoneAssumption == None \notin {"code", "refresh", "revoke"}

VARIABLES
    accounts,   \* user -> active, must change the password, changes so far
    codes,      \* the authorization codes not yet exchanged
    access,     \* every access token issued
    refresh,    \* every refresh token issued
    calls,      \* request -> what it presented, and the row it found
    minted,     \* secrets minted so far
    burnt,      \* families in which a replay was detected
    now

vars == <<accounts, codes, access, refresh, calls, minted, burnt, now>>
stores == <<codes, access, refresh>>

Idle == [op |-> None]
Init ==
    /\ accounts = [u \in Users |-> [active |-> TRUE, must |-> FALSE, epoch |-> 0]]
    /\ codes = {} /\ access = {} /\ refresh = {}
    /\ calls = [r \in Requests |-> Idle]
    /\ minted = 0 /\ burnt = {} /\ now = 0

Available(u) == accounts[u].active /\ ~accounts[u].must
Ends(r) == calls' = [calls EXCEPT ![r] = Idle]
Refuse(r) == Ends(r) /\ UNCHANGED <<accounts, codes, access, refresh, minted, burnt, now>>

(***************************************************************************)
(* Updates of the token tables                                             *)
(***************************************************************************)

Revoked(tokens, which) ==
    (tokens \ which) \cup {[t EXCEPT !.revoked = TRUE] : t \in which}
FamilyRolledBack(f) == refresh
FamilyRevoked(f) == Revoked(refresh, {t \in refresh : t.family = f})
AccessRevokedForUser(u) == Revoked(access, {t \in access : t.user = u})
AccessRevokedForClient(u, a) == Revoked(access, {t \in access : t.user = u /\ t.client = a})
\* markUsed: the claim of a rotation.
Spent(tokens, id) == {IF t.id = id THEN [t EXCEPT !.used = TRUE] ELSE t : t \in tokens}

\* The two tokens of one answer, for the grant `g`: the code that starts the
\* family or the refresh token that goes on with it.
AccessToken(g, at) ==
    [id |-> minted + 1, user |-> g.user, client |-> g.client, family |-> g.family,
     revoked |-> FALSE, expires |-> at + AccessTtl, epoch |-> g.epoch]
RefreshToken(g, at) ==
    [id |-> minted + 2, user |-> g.user, client |-> g.client, family |-> g.family,
     used |-> FALSE, revoked |-> FALSE, expires |-> at + RefreshTtl, epoch |-> g.epoch,
     origin |-> g.origin]
Issue(tokens, g, at) ==
    /\ minted + 2 <= MaxMinted
    /\ minted' = minted + 2
    /\ access' = access \cup {AccessToken(g, at)}
    /\ refresh' = tokens \cup {RefreshToken(g, at)}

(***************************************************************************)
(* Consent and the code grant                                              *)
(***************************************************************************)

Authorize(u, a) ==
    /\ Available(u)
    /\ minted < MaxMinted
    /\ minted' = minted + 1
    /\ codes' = codes \cup {[id |-> minted + 1, user |-> u, client |-> a,
                             expires |-> now + CodeTtl, epoch |-> accounts[u].epoch]}
    /\ UNCHANGED <<accounts, access, refresh, calls, burnt, now>>

\* The clock is read, then the code is found, both before the lock.
PresentCode(r) ==
    /\ calls[r] = Idle
    /\ \E c \in codes, a \in Apps, proof \in BOOLEAN :
          calls' = [calls EXCEPT ![r] = [op |-> "code", id |-> c.id, row |-> c, client |-> a,
                                         proof |-> proof, at |-> now]]
    /\ UNCHANGED <<accounts, stores, minted, burnt, now>>

\* consume() deletes and returns the row: none if it was spent meanwhile.
Consumed(r) == {c \in codes : c.id = calls[r].id}

ValidCode(c, r) ==
    /\ c.expires > calls[r].at
    /\ c.client = calls[r].client
    /\ calls[r].proof

Exchange(r) ==
    /\ calls[r].op = "code"
    /\ \E c \in Consumed(r) :
        /\ ValidCode(c, r) /\ Available(c.user)
        /\ Issue(refresh, [user |-> c.user, client |-> c.client, family |-> minted + 1,
                           epoch |-> c.epoch, origin |-> c.id], calls[r].at)
        /\ codes' = codes \ {c}
    /\ Ends(r)
    /\ UNCHANGED <<accounts, burnt, now>>

\* The error is returned as a value: the failed attempt burns the code.
ExchangeBurns(r) ==
    /\ calls[r].op = "code"
    /\ \E c \in Consumed(r) :
        /\ ~(ValidCode(c, r) /\ Available(c.user))
        /\ codes' = codes \ {c}
    /\ Ends(r)
    /\ UNCHANGED <<accounts, access, refresh, minted, burnt, now>>

ExchangeFindsNothing(r) == calls[r].op = "code" /\ Consumed(r) = {} /\ Refuse(r)

(***************************************************************************)
(* The refresh grant                                                       *)
(***************************************************************************)

PresentRefresh(r, op) ==
    /\ calls[r] = Idle
    /\ \E t \in refresh, a \in Apps :
          calls' = [calls EXCEPT ![r] = [op |-> op, id |-> t.id, row |-> t, client |-> a,
                                         at |-> now]]
    /\ UNCHANGED <<accounts, stores, minted, burnt, now>>

\* Read again under the lock.
Row(r) == CHOOSE t \in refresh : t.id = calls[r].id

Alive(r) == ~Row(r).revoked /\ Row(r).expires > calls[r].at
Mine(r) == Row(r).client = calls[r].client

\* markUsed claims the rotation; the next token is of the same family.
Rotate(r) ==
    /\ calls[r].op = "refresh"
    /\ Alive(r) /\ Mine(r) /\ ~Row(r).used
    /\ Available(Row(r).user)
    /\ Issue(Spent(refresh, Row(r).id), Row(r), calls[r].at)
    /\ Ends(r)
    /\ UNCHANGED <<accounts, codes, burnt, now>>

\* A spent token is presented: the family is revoked, and the access tokens
\* of its user; the refusal is a value, so this commits.
DetectReplay(r) ==
    /\ calls[r].op = "refresh"
    /\ Alive(r) /\ Mine(r) /\ Row(r).used
    /\ refresh' = FamilyRevoked(Row(r).family)
    /\ access' = AccessRevokedForUser(Row(r).user)
    /\ burnt' = burnt \cup {Row(r).family}
    /\ Ends(r)
    /\ UNCHANGED <<accounts, codes, minted, now>>

\* Revoked, expired, another client's: nothing is written.  (A throw in
\* issue(), for an account not available, would take the claim back.)
RefreshRefused(r) ==
    /\ calls[r].op = "refresh"
    /\ ~(Alive(r) /\ Mine(r) /\ (Row(r).used \/ Available(Row(r).user)))
    /\ Refuse(r)

(***************************************************************************)
(* Revocation, the account, and time                                       *)
(***************************************************************************)

\* An access token presented by the client it was issued to.
RevokeAccess(t) ==
    /\ ~t.revoked
    /\ access' = Revoked(access, {s \in access : s.id = t.id})
    /\ UNCHANGED <<accounts, codes, refresh, calls, minted, burnt, now>>

WorthUnlessExpired(r) == Row(r).expires > now     \* mutant: whoever asks again
\* A repeated revocation stops here.
StillWorthRevoking(r) == Row(r).revoked = FALSE /\ Row(r).expires > now

RevokeFamily(r) ==
    /\ calls[r].op = "revoke"
    /\ Mine(r) /\ StillWorthRevoking(r)
    /\ refresh' = FamilyRevoked(Row(r).family)
    /\ access' = AccessRevokedForClient(Row(r).user, calls[r].client)
    /\ Ends(r)
    /\ UNCHANGED <<accounts, codes, minted, burnt, now>>

RevokeNothing(r) ==
    calls[r].op = "revoke" /\ ~(Mine(r) /\ StillWorthRevoking(r)) /\ Refuse(r)

\* Every change of role, status or password ends in revokeUserCredentials.
CodesRevoked(u) == {c \in codes : c.user # u}

ChangeAccount(u) ==
    /\ accounts[u].epoch < MaxEpoch
    /\ \E active, must \in BOOLEAN :
          accounts' = [accounts EXCEPT ![u] = [active |-> active, must |-> must,
                                               epoch |-> @.epoch + 1]]
    /\ codes' = CodesRevoked(u)
    /\ access' = AccessRevokedForUser(u)
    /\ refresh' = Revoked(refresh, {t \in refresh : t.user = u})
    /\ UNCHANGED <<calls, minted, burnt, now>>

\* Activation alone revokes nothing.
Reactivate(u) ==
    /\ ~accounts[u].active
    /\ accounts' = [accounts EXCEPT ![u].active = TRUE]
    /\ UNCHANGED <<stores, calls, minted, burnt, now>>

Tick ==
    /\ now < MaxTime
    /\ now' = now + 1
    /\ UNCHANGED <<accounts, stores, calls, minted, burnt>>

Answer(r) ==
    \/ Exchange(r) \/ ExchangeBurns(r) \/ ExchangeFindsNothing(r)
    \/ Rotate(r) \/ DetectReplay(r) \/ RefreshRefused(r)
    \/ RevokeFamily(r) \/ RevokeNothing(r)

Next ==
    \/ \E u \in Users : ChangeAccount(u) \/ Reactivate(u) \/ \E a \in Apps : Authorize(u, a)
    \/ \E r \in Requests : Answer(r) \/ PresentCode(r) \/ PresentRefresh(r, "refresh")
                           \/ PresentRefresh(r, "revoke")
    \/ \E t \in access : RevokeAccess(t)
    \/ Tick

Spec == Init /\ [][Next]_vars

(***************************************************************************)
(* Properties                                                              *)
(***************************************************************************)

Known == [user : Users, client : Apps, epoch : 0 .. MaxEpoch]

\* Rows are what the schema says, and no secret is minted twice.
GrantsTypeOK ==
    /\ accounts \in [Users -> [active : BOOLEAN, must : BOOLEAN, epoch : 0 .. MaxEpoch]]
    /\ codes \cup access \cup refresh \subseteq
          {t \in codes \cup access \cup refresh :
              /\ t.id \in 1 .. minted
              /\ [user |-> t.user, client |-> t.client, epoch |-> t.epoch] \in Known}
    /\ \A s, t \in access \cup refresh : s.id = t.id => s = t
    /\ minted \in Nat /\ now \in Nat

\* Rotation leaves one usable refresh token in a family, so that presenting
\* any other one is a replay.
OneLiveMember ==
    \A s, t \in refresh :
        s.family = t.family /\ ~s.used /\ ~t.used /\ ~s.revoked /\ ~t.revoked => s = t

\* A code is good for one grant, however often it is presented at once.
OneGrantPerCode == \A s, t \in refresh : s.origin = t.origin => s.family = t.family

\* No consent from before a change of the account is worth anything after it:
\* no code, nor a token whose family it started, whatever was in flight when
\* the change committed.
NothingOutlivesTheAccount ==
    \A t \in codes \cup {s \in access \cup refresh : ~s.revoked} :
        t.epoch = accounts[t.user].epoch

\* After a replay was detected in a family nothing of it works again, and
\* nothing is ever issued in it.
BurntStaysDead == \A t \in access \cup refresh : t.family \in burnt => t.revoked

\* What a consent is worth: of the rows, one usable member in a family, one
\* grant for a code, nothing of a family with a replay, and nothing from before
\* a change of the account.
GrantsInv ==
    /\ GrantsTypeOK
    /\ OneLiveMember
    /\ OneGrantPerCode
    /\ NothingOutlivesTheAccount
    /\ BurntStaysDead

\* An access token comes to an end with a live refresh token, a replay or the
\* account; the revocation of a family that is dead already, sent twice or
\* late, ends no newer grant.
RepeatedRevocationHarmless ==
    \A r \in Requests :
       /\ calls[r].op = "revoke" /\ calls'[r] = Idle
       /\ \A t \in refresh : t.family = Row(r).family => t.revoked
       => access' = access /\ refresh' = refresh

\* The same over a behaviour.
RevocationsSpareNewerGrants == [][RepeatedRevocationHarmless]_vars
=============================================================================
