------------------------- MODULE CredentialsProofs -------------------------
(***************************************************************************)
(* What a consent, a service token and a session are worth, proved for any  *)
(* number of users, apps, requests, codes, tokens and sessions.             *)
(*                                                                         *)
(* GrantsInv is not inductive: a rotation copies the user, the epoch and    *)
(* the origin of the row it spends, and takes a family for new because no   *)
(* row has its number.  GrantsOK adds what that rests on: rows are apart in *)
(* their ids, families and origins were minted before, no code that is      *)
(* still to be exchanged is the origin of anything, and a family is of one  *)
(* user.  It is stated of the tables as parameters, so that a rotation can  *)
(* be followed in two halves: the claim of the old row, then the issue.     *)
(*                                                                         *)
(* Service tokens, accounts and sessions follow, each with the invariant of *)
(* its own: what a unit of work has read is current on SQLite because it    *)
(* runs alone, and on Postgres only what a constraint or a lock keeps.      *)
(*                                                                         *)
(* Last come password attempts: the promises chained on an account are a    *)
(* queue, and the map of failures is in the order of the failures.          *)
(***************************************************************************)
EXTENDS TokenGrants, Sequences, FiniteSetTheorems, SequenceTheorems, TLAPS

CONSTANTS
    Clients, Postgres,      \* of ServiceTokens and of Accounts
    Tokens, Roles, Admin, MaxSecrets,                               \* of ServiceTokens
    People, Policies, Seeded, Slack, CliForce, MaxPasswords, MaxSessions,   \* of Accounts
    Sessions, IdleLimit, Absolute, Throttle, LosesWrites, MaxQueue  \* of SessionExpiry

VARIABLES
    roles, tokens, units, secrets, told, retired,                   \* of ServiceTokens
    users, policy, sessions, accountCalls, passwords, opened,       \* of Accounts
    rowOf, writes, born, lastUse, ended                             \* of SessionExpiry

S == INSTANCE ServiceTokens WITH calls <- units, minted <- secrets
A == INSTANCE Accounts WITH Users <- People, calls <- accountCalls
E == INSTANCE SessionExpiry WITH
        Idle <- IdleLimit, row <- rowOf, queue <- writes, revoked <- ended

CONSTANTS Attempts, Logins, MaxEntries, CapDelay                    \* of LoginThrottle
VARIABLES attempt, prior, tail, entries, outcomes

L == INSTANCE LoginThrottle WITH Accounts <- Logins

-----------------------------------------------------------------------------
(* The inductive invariant                                                 *)

CodeRows(m) ==
    [id : 1 .. m, user : Users, client : Apps, expires : Int, epoch : 0 .. MaxEpoch]
AccessRows(m) ==
    [id : 1 .. m, user : Users, client : Apps, family : 1 .. m, revoked : BOOLEAN,
     expires : Int, epoch : 0 .. MaxEpoch]
RefreshRows(m) ==
    [id : 1 .. m, user : Users, client : Apps, family : 1 .. m, used : BOOLEAN,
     revoked : BOOLEAN, expires : Int, epoch : 0 .. MaxEpoch, origin : 1 .. m]

AccountRows == [Users -> [active : BOOLEAN, must : BOOLEAN, epoch : 0 .. MaxEpoch]]

Typed(cs, ac, rf, m, b) ==
    /\ m \in Nat
    /\ cs \subseteq CodeRows(m) /\ ac \subseteq AccessRows(m) /\ rf \subseteq RefreshRows(m)
    /\ b \subseteq 1 .. m

Distinct(rows) == \A s, t \in rows : s.id = t.id => s = t

\* Ids are primary keys, and a token of one table has no twin in the other.
Apart(cs, ac, rf) ==
    /\ Distinct(cs) /\ Distinct(ac) /\ Distinct(rf)
    /\ \A s \in ac, t \in rf : s.id # t.id

Unspent(cs, rf) == \A c \in cs, t \in rf : t.origin # c.id

Usable(t) == ~t.used /\ ~t.revoked
OneUsable(rf) == \A s, t \in rf : s.family = t.family /\ Usable(s) /\ Usable(t) => s = t

Origins(rf) == \A s, t \in rf : s.origin = t.origin => s.family = t.family

OfOneUser(ac, rf) ==
    /\ \A s, t \in rf : s.family = t.family => s.user = t.user
    /\ \A s \in ac, t \in rf : s.family = t.family => s.user = t.user

Current(rows, acc) == \A t \in rows : t.epoch = acc[t.user].epoch
CurrentIfLive(rows, acc) == \A t \in rows : t.revoked \/ t.epoch = acc[t.user].epoch

Dead(rows, b) == \A t \in rows : t.family \in b => t.revoked

GrantsOK(cs, ac, rf, m, b, acc) ==
    /\ acc \in AccountRows
    /\ Typed(cs, ac, rf, m, b)
    /\ Apart(cs, ac, rf)
    /\ Unspent(cs, rf)
    /\ OneUsable(rf) /\ Origins(rf) /\ OfOneUser(ac, rf)
    /\ Current(cs, acc) /\ CurrentIfLive(ac, acc) /\ CurrentIfLive(rf, acc)
    /\ Dead(ac, b) /\ Dead(rf, b)

\* A request for a refresh token found a row, and rows stay.
CallOK(k, rf) ==
    \/ k = Idle
    \/ k.op = "code" /\ k.at \in Nat
    \/ k.op \in {"refresh", "revoke"} /\ k.at \in Nat /\ \E t \in rf : t.id = k.id

CallsOK(ks, rf) ==
    /\ ks = [r \in Requests |-> ks[r]]
    /\ \A r \in Requests : CallOK(ks[r], rf)

GrantsIInv ==
    /\ now \in Nat
    /\ GrantsOK(codes, access, refresh, minted, burnt, accounts)
    /\ CallsOK(calls, refresh)

\* The inductive invariant is what the runs check.
LEMMA IInvIsEnough == GrantsIInv => GrantsInv
  <1> SUFFICES ASSUME GrantsIInv PROVE GrantsInv
    OBVIOUS
  <1> USE DEF GrantsIInv, GrantsOK
  <1>1. GrantsTypeOK
    <2>1. \A t \in codes \cup access \cup refresh :
             t.id \in 1 .. minted /\ t.user \in Users /\ t.client \in Apps
             /\ t.epoch \in 0 .. MaxEpoch
      BY DEF Typed, CodeRows, AccessRows, RefreshRows
    <2>2. \A s, t \in access \cup refresh : s.id = t.id => s = t
      BY DEF Apart, Distinct
    <2> QED
      BY <2>1, <2>2 DEF GrantsTypeOK, Known, Typed, AccountRows
  <1>2. OneLiveMember
    BY DEF OneLiveMember, OneUsable, Usable
  <1>3. OneGrantPerCode
    BY DEF OneGrantPerCode, Origins
  <1>4. NothingOutlivesTheAccount
    BY DEF NothingOutlivesTheAccount, Current, CurrentIfLive
  <1>5. BurntStaysDead
    BY DEF BurntStaysDead, Dead
  <1> QED
    BY <1>1, <1>2, <1>3, <1>4, <1>5 DEF GrantsInv

LEMMA InitGrants == Init => GrantsIInv
  <1> SUFFICES ASSUME Init PROVE GrantsIInv
    OBVIOUS
  <1>1. accounts \in AccountRows
    BY NumbersAssumption DEF Init, AccountRows
  <1>2. Typed(codes, access, refresh, minted, burnt)
    BY DEF Init, Typed
  <1>3. CallsOK(calls, refresh)
    BY DEF Init, CallsOK, CallOK
  <1> QED
    BY <1>1, <1>2, <1>3
    DEF Init, GrantsIInv, GrantsOK, Apart, Distinct, Unspent, OneUsable, Origins, OfOneUser,
        Current, CurrentIfLive, Dead

-----------------------------------------------------------------------------
(* Rows that wear out: marked as used or revoked, and otherwise as before  *)

AccessWears(s, t) ==
    /\ s.id = t.id /\ s.user = t.user /\ s.family = t.family /\ s.epoch = t.epoch
    /\ t.revoked => s.revoked
RefreshWears(s, t) ==
    /\ s.id = t.id /\ s.user = t.user /\ s.family = t.family /\ s.epoch = t.epoch
    /\ s.origin = t.origin
    /\ t.revoked => s.revoked
    /\ t.used => s.used

WornAccess(new, old, m) ==
    /\ new \subseteq AccessRows(m)
    /\ \A s \in new : \E t \in old : AccessWears(s, t)
    /\ Distinct(new)
WornRefresh(new, old, m) ==
    /\ new \subseteq RefreshRows(m)
    /\ \A s \in new : \E t \in old : RefreshWears(s, t)
    /\ Distinct(new)
    /\ \A t \in old : \E s \in new : s.id = t.id

\* Rows may be marked as long as nothing but what is revoked loses its account
\* and everything is revoked in a family that is burnt.
LEMMA Wearing ==
    ASSUME NEW cs, NEW ac, NEW rf, NEW m, NEW b, NEW acc,
           GrantsOK(cs, ac, rf, m, b, acc),
           NEW ds \in SUBSET cs, NEW ad, NEW rd, NEW bd \in SUBSET (1 .. m), NEW ace \in AccountRows,
           WornAccess(ad, ac, m), WornRefresh(rd, rf, m),
           Current(ds, ace), CurrentIfLive(ad, ace), CurrentIfLive(rd, ace),
           Dead(ad, bd), Dead(rd, bd)
    PROVE  GrantsOK(ds, ad, rd, m, bd, ace)
  <1> USE DEF GrantsOK
  <1>1. Typed(ds, ad, rd, m, bd)
    BY DEF Typed, WornAccess, WornRefresh
  <1>2. Apart(ds, ad, rd)
    <2>1. ASSUME NEW s \in ad, NEW t \in rd PROVE s.id # t.id
      <3>1. PICK s0 \in ac : s.id = s0.id
        BY DEF WornAccess, AccessWears
      <3>2. PICK t0 \in rf : t.id = t0.id
        BY DEF WornRefresh, RefreshWears
      <3> QED
        BY <3>1, <3>2 DEF Apart
    <2> QED
      BY <2>1 DEF Apart, Distinct, WornAccess, WornRefresh
  <1>3. Unspent(ds, rd)
    BY DEF Unspent, WornRefresh, RefreshWears
  <1>4. OneUsable(rd)
    <2> SUFFICES ASSUME NEW s \in rd, NEW t \in rd, s.family = t.family, Usable(s), Usable(t)
                 PROVE  s = t
      BY DEF OneUsable
    <2>1. PICK s0 \in rf : RefreshWears(s, s0)
      BY DEF WornRefresh
    <2>2. PICK t0 \in rf : RefreshWears(t, t0)
      BY DEF WornRefresh
    <2>3. s0 = t0
      BY <2>1, <2>2 DEF OneUsable, Usable, RefreshWears
    <2>4. s.id = t.id
      BY <2>1, <2>2, <2>3 DEF RefreshWears
    <2> QED
      BY <2>4 DEF WornRefresh, Distinct
  <1>5. Origins(rd)
    <2> SUFFICES ASSUME NEW s \in rd, NEW t \in rd, s.origin = t.origin
                 PROVE  s.family = t.family
      BY DEF Origins
    <2>1. PICK s0 \in rf : RefreshWears(s, s0)
      BY DEF WornRefresh
    <2>2. PICK t0 \in rf : RefreshWears(t, t0)
      BY DEF WornRefresh
    <2> QED
      BY <2>1, <2>2 DEF Origins, RefreshWears
  <1>6. OfOneUser(ad, rd)
    <2>1. \A t \in rd : \E t0 \in rf : t.family = t0.family /\ t.user = t0.user
      BY DEF WornRefresh, RefreshWears
    <2>2. \A s \in ad : \E s0 \in ac : s.family = s0.family /\ s.user = s0.user
      BY DEF WornAccess, AccessWears
    <2>3. ASSUME NEW s \in rd, NEW t \in rd, s.family = t.family PROVE s.user = t.user
      <3>1. PICK s0 \in rf : s.family = s0.family /\ s.user = s0.user
        BY <2>1
      <3>2. PICK t0 \in rf : t.family = t0.family /\ t.user = t0.user
        BY <2>1
      <3> QED
        BY <2>3, <3>1, <3>2 DEF OfOneUser
    <2>4. ASSUME NEW s \in ad, NEW t \in rd, s.family = t.family PROVE s.user = t.user
      <3>1. PICK s0 \in ac : s.family = s0.family /\ s.user = s0.user
        BY <2>2
      <3>2. PICK t0 \in rf : t.family = t0.family /\ t.user = t0.user
        BY <2>1
      <3> QED
        BY <2>4, <3>1, <3>2 DEF OfOneUser
    <2> QED
      BY <2>3, <2>4 DEF OfOneUser
  <1> QED
    BY <1>1, <1>2, <1>3, <1>4, <1>5, <1>6

\* Revoked marks exactly the rows it is given.
LEMMA RevokedIs ==
    ASSUME NEW rows, NEW which \in SUBSET rows
    PROVE  /\ \A s \in Revoked(rows, which) :
                 \/ s \in rows /\ s \notin which
                 \/ \E t \in which : s = [t EXCEPT !.revoked = TRUE]
           /\ \A t \in rows : \/ t \in Revoked(rows, which)
                              \/ t \in which /\ [t EXCEPT !.revoked = TRUE] \in Revoked(rows, which)
  BY DEF Revoked

LEMMA RevokingAccess ==
    ASSUME NEW m, NEW ac \in SUBSET AccessRows(m), Distinct(ac), NEW which \in SUBSET ac
    PROVE  /\ WornAccess(Revoked(ac, which), ac, m)
           /\ \A s \in Revoked(ac, which) : s.revoked \/ s \in ac \ which
  <1> DEFINE new == Revoked(ac, which)
  <1>1. ASSUME NEW s \in new
        PROVE  \E t \in ac :
                  /\ \/ s = t /\ t \notin which
                     \/ t \in which /\ s = [t EXCEPT !.revoked = TRUE]
                  /\ s.id = t.id /\ s \in AccessRows(m) /\ AccessWears(s, t)
                  /\ s.revoked \/ s \in ac \ which
    <2>1. CASE s \in ac /\ s \notin which
      <3>1. s \in ac /\ AccessWears(s, s) /\ s \in AccessRows(m) /\ s \in ac \ which
        BY <2>1 DEF AccessWears
      <3> QED
        BY <2>1, <3>1
    <2>2. CASE \E t \in which : s = [t EXCEPT !.revoked = TRUE]
      <3>1. PICK t \in which : s = [t EXCEPT !.revoked = TRUE]
        BY <2>2
      <3>2. t \in AccessRows(m) /\ t \in ac
        OBVIOUS
      <3>3. s \in AccessRows(m) /\ s.id = t.id /\ s.user = t.user /\ s.family = t.family
            /\ s.epoch = t.epoch /\ s.revoked = TRUE
        BY <3>1, <3>2 DEF AccessRows
      <3> QED
        BY <3>1, <3>2, <3>3 DEF AccessWears
    <2> QED
      BY <2>1, <2>2, RevokedIs
  <1>2. ASSUME NEW s \in new, NEW t \in new, s.id = t.id PROVE s = t
    <2>1. PICK s0 \in ac :
                ((s = s0 /\ s0 \notin which) \/
                 (s0 \in which /\ s = [s0 EXCEPT !.revoked = TRUE]))
                /\ s.id = s0.id
      BY <1>1
    <2>2. PICK t0 \in ac :
                ((t = t0 /\ t0 \notin which) \/
                 (t0 \in which /\ t = [t0 EXCEPT !.revoked = TRUE]))
                /\ t.id = t0.id
      BY <1>1
    <2>3. s0 = t0
      BY <1>2, <2>1, <2>2 DEF Distinct
    <2> QED
      BY <2>1, <2>2, <2>3
  <1> QED
    BY <1>1, <1>2 DEF WornAccess, Distinct

LEMMA RevokingRefresh ==
    ASSUME NEW m, NEW rf \in SUBSET RefreshRows(m), Distinct(rf), NEW which \in SUBSET rf
    PROVE  /\ WornRefresh(Revoked(rf, which), rf, m)
           /\ \A s \in Revoked(rf, which) : s.revoked \/ s \in rf \ which
  <1> DEFINE new == Revoked(rf, which)
  <1>1. ASSUME NEW s \in new
        PROVE  \E t \in rf :
                  /\ \/ s = t /\ t \notin which
                     \/ t \in which /\ s = [t EXCEPT !.revoked = TRUE]
                  /\ s.id = t.id /\ s \in RefreshRows(m) /\ RefreshWears(s, t)
                  /\ s.revoked \/ s \in rf \ which
    <2>1. CASE s \in rf /\ s \notin which
      <3>1. s \in rf /\ RefreshWears(s, s) /\ s \in RefreshRows(m) /\ s \in rf \ which
        BY <2>1 DEF RefreshWears
      <3> QED
        BY <2>1, <3>1
    <2>2. CASE \E t \in which : s = [t EXCEPT !.revoked = TRUE]
      <3>1. PICK t \in which : s = [t EXCEPT !.revoked = TRUE]
        BY <2>2
      <3>2. t \in RefreshRows(m) /\ t \in rf
        OBVIOUS
      <3>3. s \in RefreshRows(m) /\ s.id = t.id /\ s.user = t.user /\ s.family = t.family
            /\ s.epoch = t.epoch /\ s.revoked = TRUE /\ s.used = t.used /\ s.origin = t.origin
        BY <3>1, <3>2 DEF RefreshRows
      <3> QED
        BY <3>1, <3>2, <3>3 DEF RefreshWears
    <2> QED
      BY <2>1, <2>2, RevokedIs
  <1>2. ASSUME NEW s \in new, NEW t \in new, s.id = t.id PROVE s = t
    <2>1. PICK s0 \in rf :
                ((s = s0 /\ s0 \notin which) \/
                 (s0 \in which /\ s = [s0 EXCEPT !.revoked = TRUE]))
                /\ s.id = s0.id
      BY <1>1
    <2>2. PICK t0 \in rf :
                ((t = t0 /\ t0 \notin which) \/
                 (t0 \in which /\ t = [t0 EXCEPT !.revoked = TRUE]))
                /\ t.id = t0.id
      BY <1>1
    <2>3. s0 = t0
      BY <1>2, <2>1, <2>2 DEF Distinct
    <2> QED
      BY <2>1, <2>2, <2>3
  <1>3. ASSUME NEW t \in rf PROVE \E s \in new : s.id = t.id
    <2>1. CASE t \in new
      BY <2>1
    <2>2. CASE t \in which /\ [t EXCEPT !.revoked = TRUE] \in new
      <3>1. t \in RefreshRows(m)
        OBVIOUS
      <3>2. [t EXCEPT !.revoked = TRUE].id = t.id
        BY <3>1 DEF RefreshRows
      <3> QED
        BY <2>2, <3>2
    <2> QED
      BY <2>1, <2>2, RevokedIs
  <1> QED
    BY <1>1, <1>2, <1>3 DEF WornRefresh, Distinct

\* The claim of a rotation marks one row.
LEMMA SpendingRefresh ==
    ASSUME NEW m, NEW rf \in SUBSET RefreshRows(m), Distinct(rf), NEW x \in rf
    PROVE  /\ WornRefresh(Spent(rf, x.id), rf, m)
           /\ \A s \in Spent(rf, x.id) : \E t \in rf : RefreshWears(s, t) /\ s.revoked = t.revoked
           /\ \A s \in Spent(rf, x.id) : s.id = x.id => s.used
  <1> DEFINE Mark(t) == IF t.id = x.id THEN [t EXCEPT !.used = TRUE] ELSE t
  <1>1. ASSUME NEW t \in rf
        PROVE  Mark(t) \in RefreshRows(m) /\ RefreshWears(Mark(t), t) /\ Mark(t).revoked = t.revoked
               /\ (t.id = x.id => Mark(t).used)
    <2>1. t \in RefreshRows(m)
      OBVIOUS
    <2> QED
      BY <2>1 DEF RefreshRows, RefreshWears
  <1>2. Spent(rf, x.id) = {Mark(t) : t \in rf}
    BY DEF Spent
  <1> HIDE DEF Mark
  <1>3. Distinct(Spent(rf, x.id))
    BY <1>1, <1>2 DEF Distinct, RefreshWears
  <1> QED
    BY <1>1, <1>2, <1>3 DEF WornRefresh, RefreshWears

\* Rows that no one touches wear as well.
LEMMA Untouched ==
    ASSUME NEW m, NEW ac \in SUBSET AccessRows(m), NEW rf \in SUBSET RefreshRows(m),
           Distinct(ac), Distinct(rf)
    PROVE  WornAccess(ac, ac, m) /\ WornRefresh(rf, rf, m)
  BY DEF WornAccess, WornRefresh, AccessWears, RefreshWears

-----------------------------------------------------------------------------
(* Secrets that are minted                                                 *)

\* Everything stays lawful when the counter moves on.
LEMMA Later ==
    ASSUME NEW cs, NEW ac, NEW rf, NEW m, NEW b, NEW acc,
           GrantsOK(cs, ac, rf, m, b, acc), NEW n \in Nat, m <= n
    PROVE  GrantsOK(cs, ac, rf, n, b, acc)
  <1>1. m \in Nat /\ 1 .. m \subseteq 1 .. n
    BY DEF GrantsOK, Typed
  <1>2. CodeRows(m) \subseteq CodeRows(n) /\ AccessRows(m) \subseteq AccessRows(n)
    BY <1>1 DEF CodeRows, AccessRows
  <1>3. RefreshRows(m) \subseteq RefreshRows(n)
    BY <1>1 DEF RefreshRows
  <1> QED
    BY <1>1, <1>2, <1>3 DEF GrantsOK, Typed

\* A pair of tokens is issued in a family that is neither burnt nor has a
\* usable member, for an origin that is its own and no code.
LEMMA Issuing ==
    ASSUME NEW cs, NEW ac, NEW rf, NEW m, NEW n, NEW b, NEW acc,
           GrantsOK(cs, ac, rf, m, b, acc), n = m + 2,
           NEW x \in AccessRows(n), NEW y \in RefreshRows(n),
           x.id = m + 1, y.id = m + 2, x.family = y.family, x.user = y.user,
           y.family \notin b,
           x.epoch = acc[x.user].epoch, y.epoch = acc[y.user].epoch,
           \A c \in cs : c.id # y.origin,
           \A t \in rf : t.family = y.family => ~Usable(t) /\ t.user = y.user,
           \A t \in rf : t.origin = y.origin => t.family = y.family,
           \A s \in ac : s.family = y.family => s.user = y.user
    PROVE  GrantsOK(cs, ac \cup {x}, rf \cup {y}, n, b, acc)
  <1>1. m \in Nat /\ n \in Nat /\ m <= n
    BY DEF GrantsOK, Typed
  <1>2. GrantsOK(cs, ac, rf, n, b, acc)
    BY <1>1, Later
  <1>3. Typed(cs, ac \cup {x}, rf \cup {y}, n, b)
    BY <1>2 DEF GrantsOK, Typed
  <1>4. Apart(cs, ac \cup {x}, rf \cup {y})
    <2>1. \A t \in ac : t.id \in 1 .. m
      BY DEF GrantsOK, Typed, AccessRows
    <2>2. \A t \in rf : t.id \in 1 .. m
      BY DEF GrantsOK, Typed, RefreshRows
    <2>3. \A t \in ac \cup rf : t.id # m + 1 /\ t.id # m + 2
      BY <1>1, <2>1, <2>2
    <2>4. m + 1 # m + 2
      BY <1>1
    <2> QED
      BY <1>2, <2>3, <2>4 DEF GrantsOK, Apart, Distinct
  <1>5. Unspent(cs, rf \cup {y})
    BY <1>2 DEF GrantsOK, Unspent
  <1>6. OneUsable(rf \cup {y})
    BY <1>2 DEF GrantsOK, OneUsable
  <1>7. Origins(rf \cup {y})
    BY <1>2 DEF GrantsOK, Origins
  <1>8. OfOneUser(ac \cup {x}, rf \cup {y})
    BY <1>2 DEF GrantsOK, OfOneUser
  <1>9. /\ CurrentIfLive(ac \cup {x}, acc) /\ CurrentIfLive(rf \cup {y}, acc)
        /\ Dead(ac \cup {x}, b) /\ Dead(rf \cup {y}, b)
    BY <1>2 DEF GrantsOK, CurrentIfLive, Dead
  <1> QED
    BY <1>2, <1>3, <1>4, <1>5, <1>6, <1>7, <1>8, <1>9 DEF GrantsOK

-----------------------------------------------------------------------------
(* Requests                                                                *)

\* Requests keep what they found while rows stay.
LEMMA RowsStay ==
    ASSUME NEW ks, NEW rf, NEW rd, CallsOK(ks, rf), \A t \in rf : \E s \in rd : s.id = t.id
    PROVE  CallsOK(ks, rd)
  <1>1. ASSUME NEW k, CallOK(k, rf) PROVE CallOK(k, rd)
    BY <1>1 DEF CallOK
  <1> QED
    BY <1>1 DEF CallsOK

\* A request that gets its answer.
LEMMA Answered ==
    ASSUME NEW ks, NEW rf, CallsOK(ks, rf), NEW r \in Requests, NEW k, CallOK(k, rf)
    PROVE  CallsOK([ks EXCEPT ![r] = k], rf)
  BY DEF CallsOK

LEMMA IdleOK == \A rf : CallOK(Idle, rf)
  BY DEF CallOK

\* What it reads again under the lock is a row of the table.
LEMMA RowIs ==
    ASSUME GrantsIInv, NEW r \in Requests, calls[r].op \in {"refresh", "revoke"}
    PROVE  Row(r) \in refresh /\ Row(r).id = calls[r].id /\ calls[r].at \in Nat
  <1>1. calls[r] # Idle /\ calls[r].op # "code"
    BY NoneAssumption DEF Idle
  <1>2. CallOK(calls[r], refresh)
    BY DEF GrantsIInv, CallsOK
  <1>3. \E t \in refresh : t.id = calls[r].id
    BY <1>1, <1>2 DEF CallOK
  <1> QED
    BY <1>1, <1>2, <1>3 DEF CallOK, Row

-----------------------------------------------------------------------------
(* The steps                                                               *)

\* What every step starts from.
LEMMA Given ==
    ASSUME GrantsIInv
    PROVE  /\ accounts \in AccountRows /\ minted \in Nat /\ now \in Nat /\ burnt \subseteq 1 .. minted
           /\ codes \subseteq CodeRows(minted) /\ access \subseteq AccessRows(minted)
           /\ refresh \subseteq RefreshRows(minted)
           /\ Distinct(codes) /\ Distinct(access) /\ Distinct(refresh)
           /\ WornAccess(access, access, minted) /\ WornRefresh(refresh, refresh, minted)
           /\ Current(codes, accounts)
           /\ CurrentIfLive(access, accounts) /\ CurrentIfLive(refresh, accounts)
           /\ Dead(access, burnt) /\ Dead(refresh, burnt)
  <1>1. /\ accounts \in AccountRows /\ minted \in Nat /\ now \in Nat /\ burnt \subseteq 1 .. minted
        /\ codes \subseteq CodeRows(minted) /\ access \subseteq AccessRows(minted)
        /\ refresh \subseteq RefreshRows(minted)
        /\ Distinct(codes) /\ Distinct(access) /\ Distinct(refresh)
    BY DEF GrantsIInv, GrantsOK, Typed, Apart
  <1> QED
    BY <1>1, Untouched DEF GrantsIInv, GrantsOK

\* The pair that answers grant `g`.
LEMMA PairIs ==
    ASSUME minted \in Nat, NEW at \in Nat, NEW g,
           g.user \in Users, g.client \in Apps, g.family \in 1 .. minted + 2,
           g.epoch \in 0 .. MaxEpoch, g.origin \in 1 .. minted
    PROVE  /\ AccessToken(g, at) \in AccessRows(minted + 2)
           /\ RefreshToken(g, at) \in RefreshRows(minted + 2)
           /\ ~RefreshToken(g, at).used
  <1>1. at + AccessTtl \in Int /\ at + RefreshTtl \in Int
    BY NumbersAssumption
  <1>2. minted + 1 \in 1 .. minted + 2 /\ minted + 2 \in 1 .. minted + 2
        /\ g.origin \in 1 .. minted + 2
    OBVIOUS
  <1>3. AccessToken(g, at) \in AccessRows(minted + 2)
    BY <1>1, <1>2 DEF AccessToken, AccessRows
  <1>4. RefreshToken(g, at) \in RefreshRows(minted + 2) /\ ~RefreshToken(g, at).used
    BY <1>1, <1>2 DEF RefreshToken, RefreshRows
  <1> QED
    BY <1>3, <1>4

LEMMA ExchangeStep ==
    ASSUME GrantsIInv, NEW r \in Requests, Exchange(r) PROVE GrantsIInv'
  <1>1. PICK c \in Consumed(r) :
           /\ Issue(refresh, [user |-> c.user, client |-> c.client, family |-> minted + 1,
                              epoch |-> c.epoch, origin |-> c.id], calls[r].at)
           /\ codes' = codes \ {c}
    BY DEF Exchange
  <1> DEFINE g == [user |-> c.user, client |-> c.client, family |-> minted + 1,
                   epoch |-> c.epoch, origin |-> c.id]
             x == AccessToken(g, calls[r].at)
             y == RefreshToken(g, calls[r].at)
  <1>2. c \in codes /\ c \in CodeRows(minted) /\ minted \in Nat
    BY Given DEF Consumed
  <1>3. calls[r].at \in Nat /\ CallsOK(calls, refresh)
    <2>1. calls[r].op = "code" /\ calls[r] # Idle /\ calls[r].op \notin {"refresh", "revoke"}
      BY NoneAssumption DEF Exchange, Idle
    <2> QED
      BY <2>1 DEF GrantsIInv, CallsOK, CallOK
  <1>4. /\ access' = access \cup {x} /\ refresh' = refresh \cup {y} /\ minted' = minted + 2
        /\ accounts' = accounts /\ burnt' = burnt /\ now' = now
        /\ calls' = [calls EXCEPT ![r] = Idle] /\ codes' = codes \ {c}
    BY <1>1 DEF Exchange, Issue, Ends
  <1>5. /\ g.user = c.user /\ g.client = c.client /\ g.family = minted + 1
        /\ g.epoch = c.epoch /\ g.origin = c.id
    OBVIOUS
  <1>6. g.user \in Users /\ g.client \in Apps /\ g.family \in 1 .. minted + 2
        /\ g.epoch \in 0 .. MaxEpoch /\ g.origin \in 1 .. minted
    BY <1>2, <1>5 DEF CodeRows
  <1>7. x.id = minted + 1 /\ y.id = minted + 2 /\ x.family = g.family /\ y.family = g.family
        /\ x.user = g.user /\ y.user = g.user /\ x.epoch = g.epoch /\ y.epoch = g.epoch
        /\ y.origin = g.origin
    BY DEF AccessToken, RefreshToken
  <1> HIDE DEF g
  <1>8. x \in AccessRows(minted + 2) /\ y \in RefreshRows(minted + 2)
    BY <1>2, <1>3, <1>6, PairIs
  <1> HIDE DEF x, y
  <1>9. GrantsOK(codes \ {c}, access, refresh, minted, burnt, accounts)
    BY Wearing, Given DEF GrantsIInv, Current
  <1>10. /\ \A t \in refresh : t.family \in 1 .. minted
         /\ \A s \in access : s.family \in 1 .. minted
    BY Given DEF RefreshRows, AccessRows
  <1>11. minted + 1 \notin 1 .. minted
    BY <1>2
  <1>12. /\ y.family \notin burnt
         /\ \A t \in refresh : t.family # y.family
         /\ \A s \in access : s.family # y.family
    BY <1>5, <1>7, <1>10, <1>11, Given
  <1>13. /\ x.epoch = accounts[x.user].epoch /\ y.epoch = accounts[y.user].epoch
         /\ \A t \in refresh : t.origin # y.origin
    BY <1>2, <1>5, <1>7, Given DEF Current, GrantsIInv, GrantsOK, Unspent
  <1>14. \A d \in codes \ {c} : d.id # y.origin
    BY <1>2, <1>5, <1>7, Given DEF Distinct
  <1>15. GrantsOK(codes \ {c}, access \cup {x}, refresh \cup {y}, minted + 2, burnt, accounts)
    BY <1>7, <1>8, <1>9, <1>12, <1>13, <1>14, Issuing
  <1>16. CallsOK(calls', refresh')
    <2>1. CallsOK(calls, refresh \cup {y})
      BY <1>3, RowsStay
    <2> QED
      BY <1>4, <2>1, Answered, IdleOK
  <1> QED
    BY <1>4, <1>15, <1>16, Given DEF GrantsIInv

LEMMA RotateStep ==
    ASSUME GrantsIInv, NEW r \in Requests, Rotate(r) PROVE GrantsIInv'
  <1> DEFINE g == Row(r)
             x == AccessToken(g, calls[r].at)
             y == RefreshToken(g, calls[r].at)
             rd == Spent(refresh, g.id)
  <1>1. g \in refresh /\ calls[r].at \in Nat
    BY RowIs DEF Rotate
  <1>2. g \in RefreshRows(minted) /\ minted \in Nat /\ CallsOK(calls, refresh)
    BY <1>1, Given DEF GrantsIInv
  <1>3. /\ access' = access \cup {x} /\ refresh' = rd \cup {y} /\ minted' = minted + 2
        /\ accounts' = accounts /\ burnt' = burnt /\ now' = now
        /\ calls' = [calls EXCEPT ![r] = Idle] /\ codes' = codes
    BY DEF Rotate, Issue, Ends
  <1>4. ~g.used /\ ~g.revoked
    BY DEF Rotate, Alive
  <1>5. g.user \in Users /\ g.client \in Apps /\ g.family \in 1 .. minted + 2
        /\ g.epoch \in 0 .. MaxEpoch /\ g.origin \in 1 .. minted
    BY <1>2 DEF RefreshRows
  <1>6. x.id = minted + 1 /\ y.id = minted + 2 /\ x.family = g.family /\ y.family = g.family
        /\ x.user = g.user /\ y.user = g.user /\ x.epoch = g.epoch /\ y.epoch = g.epoch
        /\ y.origin = g.origin
    BY DEF AccessToken, RefreshToken
  <1> HIDE DEF g
  <1>7. x \in AccessRows(minted + 2) /\ y \in RefreshRows(minted + 2)
    BY <1>1, <1>2, <1>5, PairIs
  <1>8. /\ WornRefresh(rd, refresh, minted)
        /\ \A s \in rd : \E t \in refresh : RefreshWears(s, t) /\ s.revoked = t.revoked
        /\ \A s \in rd : s.id = g.id => s.used
    BY <1>1, SpendingRefresh, Given
  <1> HIDE DEF x, y, rd
  <1>9. CurrentIfLive(rd, accounts) /\ Dead(rd, burnt)
    BY <1>8, Given DEF CurrentIfLive, Dead, RefreshWears
  <1>10. GrantsOK(codes, access, rd, minted, burnt, accounts)
    <2>1. codes \in SUBSET codes /\ burnt \in SUBSET (1 .. minted)
      BY Given
    <2> QED
      BY <1>8, <1>9, <2>1, Wearing, Given DEF GrantsIInv
  <1>11. y.family \notin burnt
    BY <1>1, <1>4, <1>6, Given DEF Dead
  <1>12. x.epoch = accounts[x.user].epoch /\ y.epoch = accounts[y.user].epoch
    BY <1>1, <1>4, <1>6, Given DEF CurrentIfLive
  <1>13. \A c \in codes : c.id # y.origin
    BY <1>1, <1>6 DEF GrantsIInv, GrantsOK, Unspent
  <1>14. ASSUME NEW t \in rd, t.family = y.family PROVE ~Usable(t) /\ t.user = y.user
    <2>1. PICK t0 \in refresh : RefreshWears(t, t0)
      BY <1>8
    <2>2. t0.user = g.user
      BY <1>1, <1>6, <1>14, <2>1 DEF GrantsIInv, GrantsOK, OfOneUser, RefreshWears
    <2>3. ASSUME Usable(t) PROVE FALSE
      <3>1. t0 = g
        BY <1>1, <1>4, <1>6, <1>14, <2>1, <2>3
        DEF GrantsIInv, GrantsOK, OneUsable, Usable, RefreshWears
      <3> QED
        BY <1>8, <2>1, <2>3, <3>1 DEF Usable, RefreshWears
    <2> QED
      BY <1>6, <2>1, <2>2, <2>3 DEF RefreshWears
  <1>15. ASSUME NEW t \in rd, t.origin = y.origin PROVE t.family = y.family
    <2>1. PICK t0 \in refresh : RefreshWears(t, t0)
      BY <1>8
    <2> QED
      BY <1>1, <1>6, <1>15, <2>1 DEF GrantsIInv, GrantsOK, Origins, RefreshWears
  <1>16. \A s \in access : s.family = y.family => s.user = y.user
    BY <1>1, <1>6 DEF GrantsIInv, GrantsOK, OfOneUser
  <1>17. GrantsOK(codes, access \cup {x}, rd \cup {y}, minted + 2, burnt, accounts)
    BY <1>6, <1>7, <1>10, <1>11, <1>12, <1>13, <1>14, <1>15, <1>16, Issuing
  <1>18. CallsOK(calls', refresh')
    <2>1. \A t \in refresh : \E s \in rd \cup {y} : s.id = t.id
      BY <1>8 DEF WornRefresh
    <2>2. CallsOK(calls, rd \cup {y})
      BY <1>2, <2>1, RowsStay
    <2> QED
      BY <1>3, <2>2, Answered, IdleOK
  <1> QED
    BY <1>3, <1>17, <1>18, Given DEF GrantsIInv

\* What a step that writes marks on rows, and nothing else, has to leave.
LEMMA MarkingStep ==
    ASSUME GrantsIInv, NEW ds \in SUBSET codes, NEW ad, NEW rd, NEW bd \in SUBSET (1 .. minted),
           NEW ace \in AccountRows,
           WornAccess(ad, access, minted), WornRefresh(rd, refresh, minted),
           Current(ds, ace), CurrentIfLive(ad, ace), CurrentIfLive(rd, ace),
           Dead(ad, bd), Dead(rd, bd),
           codes' = ds, access' = ad, refresh' = rd, burnt' = bd, accounts' = ace,
           minted' = minted, now' = now,
           calls' = calls \/ \E r \in Requests : calls' = [calls EXCEPT ![r] = Idle]
    PROVE  GrantsIInv'
  <1>1. GrantsOK(codes, access, refresh, minted, burnt, accounts) /\ CallsOK(calls, refresh)
    BY DEF GrantsIInv
  <1>2. GrantsOK(ds, ad, rd, minted, bd, ace)
    BY <1>1, Wearing
  <1>3. CallsOK(calls, rd)
    BY <1>1, RowsStay DEF WornRefresh
  <1>4. CallsOK(calls', rd)
    BY <1>3, Answered, IdleOK
  <1> QED
    BY <1>2, <1>4, Given DEF GrantsIInv

\* A family is revoked, and access tokens: all of it stays current.
LEMMA RevocationsAre ==
    ASSUME GrantsIInv, NEW f, NEW which \in SUBSET access
    PROVE  /\ WornAccess(Revoked(access, which), access, minted)
           /\ CurrentIfLive(Revoked(access, which), accounts)
           /\ Dead(Revoked(access, which), burnt)
           /\ \A s \in Revoked(access, which) : s.revoked \/ s \in access \ which
           /\ WornRefresh(FamilyRevoked(f), refresh, minted)
           /\ CurrentIfLive(FamilyRevoked(f), accounts)
           /\ Dead(FamilyRevoked(f), burnt \cup {f})
  <1>1. /\ WornAccess(Revoked(access, which), access, minted)
        /\ \A s \in Revoked(access, which) : s.revoked \/ s \in access \ which
    BY RevokingAccess, Given
  <1> DEFINE members == {t \in refresh : t.family = f}
  <1>2. /\ WornRefresh(Revoked(refresh, members), refresh, minted)
        /\ \A s \in Revoked(refresh, members) : s.revoked \/ s \in refresh \ members
    BY RevokingRefresh, Given
  <1>3. FamilyRevoked(f) = Revoked(refresh, members)
    BY DEF FamilyRevoked
  <1>4. CurrentIfLive(Revoked(access, which), accounts) /\ Dead(Revoked(access, which), burnt)
    BY <1>1, Given DEF CurrentIfLive, Dead
  <1>5. \A s \in FamilyRevoked(f) : s.revoked \/ (s \in refresh /\ s.family # f)
    BY <1>2, <1>3
  <1>6. CurrentIfLive(FamilyRevoked(f), accounts) /\ Dead(FamilyRevoked(f), burnt \cup {f})
    BY <1>5, Given DEF CurrentIfLive, Dead
  <1> QED
    BY <1>1, <1>2, <1>3, <1>4, <1>6

LEMMA ReplayStep ==
    ASSUME GrantsIInv, NEW r \in Requests, DetectReplay(r) PROVE GrantsIInv'
  <1> DEFINE x == Row(r)
             which == {t \in access : t.user = x.user}
  <1>1. x \in refresh
    BY RowIs DEF DetectReplay
  <1>2. /\ refresh' = FamilyRevoked(x.family) /\ access' = Revoked(access, which)
        /\ burnt' = burnt \cup {x.family} /\ accounts' = accounts /\ codes' = codes
        /\ minted' = minted /\ now' = now /\ calls' = [calls EXCEPT ![r] = Idle]
    BY DEF DetectReplay, AccessRevokedForUser, Ends
  <1> HIDE DEF x
  <1>3. burnt \cup {x.family} \in SUBSET (1 .. minted)
    BY <1>1, Given DEF RefreshRows
  <1>4. /\ WornAccess(Revoked(access, which), access, minted)
        /\ CurrentIfLive(Revoked(access, which), accounts)
        /\ Dead(Revoked(access, which), burnt)
        /\ \A s \in Revoked(access, which) : s.revoked \/ s \in access \ which
        /\ WornRefresh(FamilyRevoked(x.family), refresh, minted)
        /\ CurrentIfLive(FamilyRevoked(x.family), accounts)
        /\ Dead(FamilyRevoked(x.family), burnt \cup {x.family})
    BY RevocationsAre
  <1>5. \A s \in access : s.family = x.family => s.user = x.user
    BY <1>1 DEF GrantsIInv, GrantsOK, OfOneUser
  <1>6. Dead(Revoked(access, which), burnt \cup {x.family})
    BY <1>4, <1>5 DEF Dead
  <1> QED
    BY <1>2, <1>3, <1>4, <1>6, MarkingStep, Given

LEMMA RevokeFamilyStep ==
    ASSUME GrantsIInv, NEW r \in Requests, RevokeFamily(r) PROVE GrantsIInv'
  <1> DEFINE f == Row(r).family
             which == {t \in access : t.user = Row(r).user /\ t.client = calls[r].client}
  <1>1. /\ refresh' = FamilyRevoked(f) /\ access' = Revoked(access, which)
        /\ burnt' = burnt /\ accounts' = accounts /\ codes' = codes
        /\ minted' = minted /\ now' = now /\ calls' = [calls EXCEPT ![r] = Idle]
    BY DEF RevokeFamily, AccessRevokedForClient, Ends
  <1>2. which \in SUBSET access
    OBVIOUS
  <1> HIDE DEF f, which
  <1>3. /\ WornAccess(Revoked(access, which), access, minted)
        /\ CurrentIfLive(Revoked(access, which), accounts)
        /\ Dead(Revoked(access, which), burnt)
        /\ WornRefresh(FamilyRevoked(f), refresh, minted)
        /\ CurrentIfLive(FamilyRevoked(f), accounts)
        /\ Dead(FamilyRevoked(f), burnt \cup {f})
    BY <1>2, RevocationsAre
  <1>4. Dead(FamilyRevoked(f), burnt)
    BY <1>3 DEF Dead
  <1> QED
    BY <1>1, <1>3, <1>4, MarkingStep, Given

LEMMA RevokeAccessStep ==
    ASSUME GrantsIInv, NEW t \in access, RevokeAccess(t) PROVE GrantsIInv'
  <1> DEFINE which == {s \in access : s.id = t.id}
  <1>1. /\ access' = Revoked(access, which) /\ refresh' = refresh
        /\ burnt' = burnt /\ accounts' = accounts /\ codes' = codes
        /\ minted' = minted /\ now' = now /\ calls' = calls
    BY DEF RevokeAccess
  <1>2. which \in SUBSET access
    OBVIOUS
  <1> HIDE DEF which
  <1>3. /\ WornAccess(Revoked(access, which), access, minted)
        /\ CurrentIfLive(Revoked(access, which), accounts)
        /\ Dead(Revoked(access, which), burnt)
    BY <1>2, RevocationsAre
  <1> QED
    BY <1>1, <1>3, MarkingStep, Given

LEMMA ChangeAccountStep ==
    ASSUME GrantsIInv, NEW u \in Users, ChangeAccount(u) PROVE GrantsIInv'
  <1> DEFINE ofU == {t \in refresh : t.user = u}
             which == {t \in access : t.user = u}
             ds == CodesRevoked(u)
             ad == Revoked(access, which)
             rd == Revoked(refresh, ofU)
  <1>1. /\ access' = ad /\ refresh' = rd /\ codes' = ds
        /\ burnt' = burnt /\ minted' = minted /\ now' = now /\ calls' = calls
    BY DEF ChangeAccount, AccessRevokedForUser
  <1>2. PICK active \in BOOLEAN, must \in BOOLEAN :
           accounts' = [accounts EXCEPT ![u] = [active |-> active, must |-> must,
                                                epoch |-> @.epoch + 1]]
    BY DEF ChangeAccount
  <1>3. accounts[u].epoch + 1 \in 0 .. MaxEpoch
    BY NumbersAssumption, Given DEF ChangeAccount, AccountRows
  <1>4. accounts' \in AccountRows /\ \A v \in Users : v # u => accounts'[v] = accounts[v]
    BY <1>2, <1>3, Given DEF AccountRows
  <1>5. ds \in SUBSET codes /\ \A c \in ds : c.user # u
    BY DEF CodesRevoked
  <1>6. WornAccess(ad, access, minted) /\ \A s \in ad : s.revoked \/ s \in access \ which
    BY RevokingAccess, Given
  <1>7. WornRefresh(rd, refresh, minted) /\ \A s \in rd : s.revoked \/ s \in refresh \ ofU
    BY RevokingRefresh, Given
  <1>8. /\ \A s \in ad : s.revoked \/ (s \in access /\ s.user # u)
        /\ \A s \in rd : s.revoked \/ (s \in refresh /\ s.user # u)
    BY <1>6, <1>7
  <1> HIDE DEF ds, ad, rd
  <1>9. /\ \A c \in codes : c.user \in Users
        /\ \A t \in access : t.user \in Users
        /\ \A t \in refresh : t.user \in Users
    BY Given DEF CodeRows, AccessRows, RefreshRows
  <1>10. PICK ace : ace = accounts'
    OBVIOUS
  <1>11. Current(ds, ace) /\ CurrentIfLive(ad, ace) /\ CurrentIfLive(rd, ace)
    BY <1>4, <1>5, <1>8, <1>9, <1>10, Given DEF Current, CurrentIfLive
  <1>12. Dead(ad, burnt) /\ Dead(rd, burnt) /\ burnt \in SUBSET (1 .. minted)
    BY <1>8, Given DEF Dead
  <1> QED
    BY <1>1, <1>4, <1>5, <1>6, <1>7, <1>10, <1>11, <1>12, MarkingStep

LEMMA ReactivateStep ==
    ASSUME GrantsIInv, NEW u \in Users, Reactivate(u) PROVE GrantsIInv'
  <1>1. accounts' \in AccountRows /\ \A v \in Users : accounts'[v].epoch = accounts[v].epoch
    BY Given DEF Reactivate, AccountRows
  <1>2. /\ access' = access /\ refresh' = refresh /\ codes' = codes
        /\ burnt' = burnt /\ minted' = minted /\ now' = now /\ calls' = calls
    BY DEF Reactivate, stores
  <1>3. /\ \A c \in codes : c.user \in Users
        /\ \A t \in access : t.user \in Users
        /\ \A t \in refresh : t.user \in Users
    BY Given DEF CodeRows, AccessRows, RefreshRows
  <1>4. PICK ace : ace = accounts'
    OBVIOUS
  <1>5. Current(codes, ace) /\ CurrentIfLive(access, ace) /\ CurrentIfLive(refresh, ace)
    BY <1>1, <1>3, <1>4, Given DEF Current, CurrentIfLive
  <1> QED
    BY <1>1, <1>2, <1>4, <1>5, MarkingStep, Given

LEMMA AuthorizeStep ==
    ASSUME GrantsIInv, NEW u \in Users, NEW a \in Apps, Authorize(u, a) PROVE GrantsIInv'
  <1> DEFINE c == [id |-> minted + 1, user |-> u, client |-> a, expires |-> now + CodeTtl,
                   epoch |-> accounts[u].epoch]
  <1>1. /\ codes' = codes \cup {c} /\ minted' = minted + 1
        /\ accounts' = accounts /\ access' = access /\ refresh' = refresh
        /\ calls' = calls /\ burnt' = burnt /\ now' = now
    BY DEF Authorize
  <1>2. now + CodeTtl \in Int /\ minted + 1 \in Nat /\ minted <= minted + 1
        /\ minted + 1 \in 1 .. minted + 1
    BY NumbersAssumption, Given
  <1>3. c \in CodeRows(minted + 1)
    BY <1>2, Given DEF CodeRows, AccountRows
  <1>4. c.id = minted + 1 /\ c.epoch = accounts[c.user].epoch
    OBVIOUS
  <1> HIDE DEF c
  <1>5. GrantsOK(codes, access, refresh, minted, burnt, accounts)
    BY DEF GrantsIInv
  <1>6. GrantsOK(codes, access, refresh, minted + 1, burnt, accounts)
    BY <1>2, <1>5, Later
  <1>7. \A d \in codes : d.id \in 1 .. minted
    BY Given DEF CodeRows
  <1>8. \A t \in refresh : t.origin \in 1 .. minted
    BY Given DEF RefreshRows
  <1>9. minted + 1 \notin 1 .. minted
    BY Given
  <1>10. /\ \A d \in codes : d.id # c.id
         /\ \A t \in refresh : t.origin # c.id
    BY <1>4, <1>7, <1>8, <1>9
  <1>11. GrantsOK(codes \cup {c}, access, refresh, minted + 1, burnt, accounts)
    BY <1>3, <1>4, <1>6, <1>10 DEF GrantsOK, Typed, Apart, Distinct, Unspent, Current
  <1> QED
    BY <1>1, <1>11 DEF GrantsIInv

LEMMA PresentStep ==
    ASSUME GrantsIInv, NEW r \in Requests,
           \/ PresentCode(r)
           \/ \E op \in {"refresh", "revoke"} : PresentRefresh(r, op)
    PROVE  GrantsIInv'
  <1>1. PICK k : calls' = [calls EXCEPT ![r] = k] /\ CallOK(k, refresh)
    <2>1. CASE PresentCode(r)
      <3>1. PICK c \in codes, a \in Apps, proof \in BOOLEAN :
               calls' = [calls EXCEPT ![r] = [op |-> "code", id |-> c.id, row |-> c,
                                              client |-> a, proof |-> proof, at |-> now]]
        BY <2>1 DEF PresentCode
      <3> DEFINE k == [op |-> "code", id |-> c.id, row |-> c, client |-> a, proof |-> proof,
                       at |-> now]
      <3>2. CallOK(k, refresh)
        BY Given DEF CallOK
      <3> QED
        BY <3>1, <3>2
    <2>2. ASSUME NEW op \in {"refresh", "revoke"}, PresentRefresh(r, op)
          PROVE \E k : calls' = [calls EXCEPT ![r] = k] /\ CallOK(k, refresh)
      BY <2>2, Given DEF PresentRefresh, CallOK
    <2> QED
      BY <2>1, <2>2
  <1>2. /\ accounts' = accounts /\ codes' = codes /\ access' = access /\ refresh' = refresh
        /\ minted' = minted /\ burnt' = burnt /\ now' = now
    BY DEF PresentCode, PresentRefresh, stores
  <1>3. CallsOK(calls', refresh)
    BY <1>1, Answered DEF GrantsIInv
  <1> QED
    BY <1>2, <1>3 DEF GrantsIInv

\* What writes nothing to the tables, or only burns a code.
LEMMA PlainStep ==
    ASSUME GrantsIInv, NEW r \in Requests,
           \/ ExchangeBurns(r) \/ ExchangeFindsNothing(r) \/ RefreshRefused(r) \/ RevokeNothing(r)
    PROVE  GrantsIInv'
  <1>1. /\ codes' \in SUBSET codes
        /\ access' = access /\ refresh' = refresh /\ burnt' = burnt /\ accounts' = accounts
        /\ minted' = minted /\ now' = now /\ calls' = [calls EXCEPT ![r] = Idle]
    BY DEF ExchangeBurns, ExchangeFindsNothing, RefreshRefused, RevokeNothing, Refuse, Ends
  <1>2. PICK ds : ds = codes'
    OBVIOUS
  <1>3. Current(ds, accounts)
    BY <1>1, <1>2, Given DEF Current
  <1> QED
    BY <1>1, <1>2, <1>3, MarkingStep, Given

LEMMA GrantStep == GrantsIInv /\ [Next]_vars => GrantsIInv'
  <1> SUFFICES ASSUME GrantsIInv, [Next]_vars PROVE GrantsIInv'
    OBVIOUS
  <1>1. CASE UNCHANGED vars
    BY <1>1 DEF vars, GrantsIInv
  <1>2. CASE Tick
    <2>1. now' \in Nat
      BY <1>2, Given DEF Tick
    <2> QED
      BY <1>2, <2>1 DEF Tick, stores, GrantsIInv
  <1>3. ASSUME NEW t \in access, RevokeAccess(t) PROVE GrantsIInv'
    BY <1>3, RevokeAccessStep
  <1>4. ASSUME NEW u \in Users, ChangeAccount(u) \/ Reactivate(u) \/ \E a \in Apps : Authorize(u, a)
        PROVE  GrantsIInv'
    BY <1>4, ChangeAccountStep, ReactivateStep, AuthorizeStep
  <1>5. ASSUME NEW r \in Requests,
               \/ PresentCode(r) \/ PresentRefresh(r, "refresh") \/ PresentRefresh(r, "revoke")
        PROVE  GrantsIInv'
    BY <1>5, PresentStep
  <1>6. ASSUME NEW r \in Requests, Answer(r) PROVE GrantsIInv'
    BY <1>6, ExchangeStep, RotateStep, ReplayStep, RevokeFamilyStep, PlainStep DEF Answer
  <1> QED
    BY <1>1, <1>2, <1>3, <1>4, <1>5, <1>6 DEF Next

\* What a consent is worth, whatever is presented, replayed, revoked or changed
\* in whatever order: one usable refresh token in a family, one grant for a
\* code, nothing of a family in which a replay was detected, and nothing of
\* before a change of the account.
THEOREM ConsentIsWorth == Spec => []GrantsInv
  <1>1. Spec => []GrantsIInv
    BY InitGrants, GrantStep, PTL DEF Spec
  <1> QED
    BY <1>1, IInvIsEnough, PTL

\* A revocation that comes again, or late, finds its family dead and touches
\* nothing: no newer grant of the same user and app is cut off.
THEOREM RepeatedRevocationsSpare == Spec => RevocationsSpareNewerGrants
  <1>1. GrantsIInv /\ [Next]_vars => [RepeatedRevocationHarmless]_vars
    <2> SUFFICES ASSUME GrantsIInv, Next, NEW r \in Requests,
                        calls[r].op = "revoke", calls'[r] = Idle,
                        \A t \in refresh : t.family = Row(r).family => t.revoked
                 PROVE  access' = access /\ refresh' = refresh
      BY DEF RepeatedRevocationHarmless
    <2>1. Row(r) \in refresh
      BY RowIs
    <2>2. calls[r] # Idle /\ calls[r].op # "code" /\ calls[r].op # "refresh"
      BY NoneAssumption DEF Idle
    <2>3. ASSUME NEW q \in Requests, calls' = [calls EXCEPT ![q] = Idle] PROVE q = r
      BY <2>2, <2>3 DEF GrantsIInv, CallsOK
    <2>4. CASE calls' = calls
      BY <2>2, <2>4
    <2>5. ASSUME NEW q \in Requests, NEW op, PresentCode(q) \/ PresentRefresh(q, op) PROVE FALSE
      BY <2>2, <2>5 DEF PresentCode, PresentRefresh, GrantsIInv, CallsOK, stores, Idle
    <2>6. ASSUME NEW q \in Requests, Answer(q) PROVE access' = access /\ refresh' = refresh
      <3>1. calls' = [calls EXCEPT ![q] = Idle]
        BY <2>6 DEF Answer, Exchange, ExchangeBurns, ExchangeFindsNothing, Rotate, DetectReplay,
                    RefreshRefused, RevokeFamily, RevokeNothing, Refuse, Ends
      <3>2. q = r
        BY <2>3, <3>1
      <3>3. CASE RevokeFamily(q)
        BY <2>1, <3>2, <3>3 DEF RevokeFamily, StillWorthRevoking
      <3>4. CASE RevokeNothing(q)
        BY <3>4 DEF RevokeNothing, Refuse
      <3> QED
        BY <2>2, <2>6, <3>2, <3>3, <3>4
        DEF Answer, Exchange, ExchangeBurns, ExchangeFindsNothing, Rotate, DetectReplay,
            RefreshRefused
    <2> QED
      BY <2>4, <2>5, <2>6
      DEF Next, Tick, RevokeAccess, ChangeAccount, Reactivate, Authorize
  <1>2. Spec => []GrantsIInv
    BY InitGrants, GrantStep, PTL DEF Spec
  <1> QED
    BY <1>1, <1>2, PTL DEF Spec, RevocationsSpareNewerGrants

-----------------------------------------------------------------------------
(* Service tokens (ServiceTokens)                                          *)

TokenRows == [role : Roles, secret : 1 .. MaxSecrets, revoked : BOOLEAN]

\* What the constants stand for: a policy always has the administrator's role,
\* and None is no row and no call.
ServiceConstants ==
    /\ Admin \in Roles /\ MaxSecrets \in Nat /\ Postgres \in BOOLEAN
    /\ None \notin TokenRows
    /\ \A t \in Tokens : None # S!Rotation(t) /\ \A r \in Roles : None # S!Creation(t, r)
    /\ \A kept \in SUBSET Roles : None # S!Saving(kept)

ServiceTypes ==
    /\ Admin \in roles /\ roles \in SUBSET Roles
    /\ tokens \in [Tokens -> TokenRows \cup {None}]
    /\ secrets \in 0 .. MaxSecrets
    /\ \A t \in Tokens : S!Exists(t) => tokens[t].secret <= secrets
    /\ told \subseteq Tokens \X (1 .. secrets)
    /\ \A s \in told : S!Exists(s[1])
    /\ retired \subseteq told

\* What was read before the write of a unit: of a creation the role may be gone
\* and of a rotation the token may be revoked, but not gone; a save is lawful.
UnitOK(k) ==
    \/ k = None
    \/ \E t \in Tokens, r \in Roles : k = S!Creation(t, r)
    \/ \E t \in Tokens : k = S!Rotation(t) /\ S!Exists(t)
    \/ \E kept \in SUBSET Roles : k = S!Saving(kept) /\ Admin \in kept

UnitsOK ==
    /\ units \in [Clients -> {units[c] : c \in Clients}]
    /\ \A c \in Clients : UnitOK(units[c])
    /\ ~Postgres => \A c \in Clients : units[c] = None

OnSqlite == ~Postgres => S!ShownSecretsOpen /\ S!LiveTokensHaveRoles

ServiceIInv == ServiceTypes /\ UnitsOK /\ S!RetiredStaysDead /\ OnSqlite

LEMMA InitService == ServiceConstants /\ S!Init => ServiceIInv
  <1> SUFFICES ASSUME ServiceConstants, S!Init PROVE ServiceIInv
    OBVIOUS
  <1>1. ServiceTypes
    BY DEF ServiceTypes, S!Init, S!Exists, ServiceConstants
  <1>2. UnitsOK
    BY DEF UnitsOK, UnitOK, S!Init
  <1>3. S!RetiredStaysDead /\ OnSqlite
    BY DEF S!RetiredStaysDead, OnSqlite, S!ShownSecretsOpen, S!LiveTokensHaveRoles,
           S!OrphansNobody, S!Live, S!Exists, S!Init
  <1> QED
    BY <1>1, <1>2, <1>3 DEF ServiceIInv

LEMMA UnitsGo ==
    ASSUME UnitsOK, NEW c \in Clients, NEW k, UnitOK(k), ~Postgres => k = None,
           units' = [units EXCEPT ![c] = k],
           \A t \in Tokens : S!Exists(t) => S!Exists(t)'
    PROVE  UnitsOK'
  <1>1. \A d \in Clients : units'[d] = IF d = c THEN k ELSE units[d]
    BY DEF UnitsOK
  <1>2. \A j : UnitOK(j) => UnitOK(j)'
    BY DEF UnitOK, S!Rotation, S!Creation, S!Saving
  <1>3. units' \in [Clients -> {units'[d] : d \in Clients}]
    BY DEF UnitsOK
  <1> QED
    BY <1>1, <1>2, <1>3 DEF UnitsOK

LEMMA CreateStep ==
    ASSUME ServiceConstants, ServiceIInv,
           NEW c \in Clients, NEW t \in Tokens, NEW r \in Roles, S!Create(c, t, r)
    PROVE  ServiceIInv'
  <1> DEFINE new == [role |-> r, secret |-> secrets + 1, revoked |-> FALSE]
  <1>1. /\ roles' = roles /\ retired' = retired /\ secrets' = secrets + 1
        /\ told' = told \cup {<<t, secrets + 1>>}
        /\ tokens' = [tokens EXCEPT ![t] = new]
        /\ units' = [units EXCEPT ![c] = None]
        /\ secrets + 1 \in 1 .. MaxSecrets /\ secrets \in Nat /\ ~S!Exists(t)
    BY DEF S!Create, S!Mint, S!Tell, S!Done, S!Goes, ServiceConstants, ServiceIInv, ServiceTypes
  <1>2. new \in TokenRows /\ new # None /\ new.secret = secrets + 1 /\ new.role = r
        /\ new.revoked = FALSE
    <2>1. new \in TokenRows
      BY <1>1 DEF TokenRows
    <2>2. None \notin TokenRows
      BY DEF ServiceConstants
    <2> QED
      BY <2>1, <2>2
  <1> HIDE DEF new
  <1>3. \A d \in Tokens : tokens'[d] = IF d = t THEN new ELSE tokens[d]
    BY <1>1 DEF ServiceIInv, ServiceTypes
  <1>4. \A d \in Tokens : S!Exists(d)' <=> (d = t \/ S!Exists(d))
    BY <1>2, <1>3 DEF S!Exists
  <1>5. \A d \in Tokens : S!Live(d)' <=> (d = t \/ S!Live(d))
    BY <1>2, <1>3, <1>4 DEF S!Live
  <1>6. \A s \in told : s[1] \in Tokens /\ s[2] \in 1 .. secrets /\ s[1] # t
    BY <1>1 DEF ServiceIInv, ServiceTypes
  <1>7. ServiceTypes'
    <2>1. tokens' \in [Tokens -> TokenRows \cup {None}]
      BY <1>1, <1>2 DEF ServiceIInv, ServiceTypes
    <2>2. told' \subseteq Tokens \X (1 .. secrets')
      BY <1>1 DEF ServiceIInv, ServiceTypes
    <2>3. \A d \in Tokens : S!Exists(d)' => tokens'[d].secret <= secrets'
      <3>1. ASSUME NEW d \in Tokens, S!Exists(d)' PROVE tokens'[d].secret <= secrets'
        <4>1. CASE d = t
          BY <1>1, <1>2, <1>3, <4>1
        <4>2. CASE d # t
          <5>1. S!Exists(d) /\ tokens'[d] = tokens[d] /\ tokens[d] \in TokenRows
            BY <1>3, <1>4, <3>1, <4>2 DEF ServiceIInv, ServiceTypes, S!Exists
          <5>2. tokens[d].secret \in Nat /\ tokens[d].secret <= secrets
            BY <5>1 DEF TokenRows, ServiceIInv, ServiceTypes
          <5> QED
            BY <1>1, <5>1, <5>2
        <4> QED
          BY <4>1, <4>2
      <3> QED
        BY <3>1
    <2>4. \A s \in told' : S!Exists(s[1])'
      BY <1>1, <1>4, <1>6 DEF ServiceIInv, ServiceTypes
    <2> QED
      BY <1>1, <2>1, <2>2, <2>3, <2>4 DEF ServiceIInv, ServiceTypes, ServiceConstants
  <1>8. UnitsOK'
    <2>1. UnitOK(None)
      BY DEF UnitOK
    <2> QED
      BY <1>1, <1>4, <2>1, UnitsGo DEF ServiceIInv
  <1>9. S!RetiredStaysDead'
    BY <1>1, <1>3, <1>5, <1>6 DEF ServiceIInv, ServiceTypes, S!RetiredStaysDead
  <1>10. OnSqlite'
    <2> SUFFICES ASSUME ~Postgres PROVE S!ShownSecretsOpen' /\ S!LiveTokensHaveRoles'
      BY DEF OnSqlite
    <2>1. S!ShownSecretsOpen'
      BY <1>1, <1>2, <1>3, <1>5, <1>6 DEF ServiceIInv, OnSqlite, S!ShownSecretsOpen
    <2>2. r \in roles
      BY DEF S!Create, S!Checked, S!Creatable
    <2>3. S!LiveTokensHaveRoles'
      BY <1>1, <1>2, <1>3, <1>5, <2>2
      DEF ServiceIInv, OnSqlite, S!LiveTokensHaveRoles, S!OrphansNobody
    <2> QED
      BY <2>1, <2>3
  <1> QED
    BY <1>7, <1>8, <1>9, <1>10 DEF ServiceIInv

LEMMA RotateTokenStep ==
    ASSUME ServiceConstants, ServiceIInv, NEW c \in Clients, NEW t \in Tokens, S!Rotate(c, t)
    PROVE  ServiceIInv'
  <1> DEFINE new == [tokens[t] EXCEPT !.secret = secrets + 1]
             mine == told \cap {<<t, k>> : k \in S!Secrets}
  <1>1. /\ roles' = roles /\ secrets' = secrets + 1
        /\ told' = told \cup {<<t, secrets + 1>>} /\ retired' = retired \cup mine
        /\ tokens' = [tokens EXCEPT ![t] = new]
        /\ units' = [units EXCEPT ![c] = None]
        /\ secrets + 1 \in 1 .. MaxSecrets /\ secrets \in Nat
    BY DEF S!Rotate, S!Mint, S!Tell, S!Retire, S!Done, S!Goes,
           ServiceConstants, ServiceIInv, ServiceTypes
  <1>2. S!Exists(t)
    <2>1. CASE Postgres
      <3>1. UnitOK(S!Rotation(t)) /\ S!Rotation(t) # None
        BY <2>1 DEF S!Rotate, S!Checked, ServiceIInv, UnitsOK, ServiceConstants
      <3>2. /\ \A d \in Tokens : S!Rotation(t) = S!Rotation(d) => d = t
            /\ \A d \in Tokens, r \in Roles : S!Rotation(t) # S!Creation(d, r)
            /\ \A kept : S!Rotation(t) # S!Saving(kept)
        BY DEF S!Rotation, S!Creation, S!Saving
      <3> QED
        BY <3>1, <3>2 DEF UnitOK
    <2>2. CASE ~Postgres
      BY <2>2 DEF S!Rotate, S!Checked, S!Rotatable, S!Live
    <2> QED
      BY <2>1, <2>2
  <1>3. tokens[t] \in TokenRows
    BY <1>2 DEF S!Exists, ServiceIInv, ServiceTypes
  <1>4. new \in TokenRows /\ new # None /\ new.secret = secrets + 1
        /\ new.role = tokens[t].role /\ new.revoked = tokens[t].revoked
    BY <1>1, <1>3 DEF TokenRows, ServiceConstants
  <1> HIDE DEF new
  <1>5. \A d \in Tokens : tokens'[d] = IF d = t THEN new ELSE tokens[d]
    BY <1>1 DEF ServiceIInv, ServiceTypes
  <1>6. \A d \in Tokens : S!Exists(d)' <=> S!Exists(d)
    BY <1>2, <1>4, <1>5 DEF S!Exists
  <1>7. \A d \in Tokens : S!Live(d)' <=> S!Live(d)
    BY <1>4, <1>5, <1>6 DEF S!Live
  <1>8. \A s \in told : s[1] \in Tokens /\ s[2] \in 1 .. secrets /\ (s[1] = t => s \in mine)
    BY <1>1 DEF ServiceIInv, ServiceTypes, S!Secrets, ServiceConstants
  <1>9. \A s \in mine : s \in told /\ s[1] = t
    OBVIOUS
  <1> HIDE DEF mine
  <1>10. ServiceTypes'
    <2>1. tokens' \in [Tokens -> TokenRows \cup {None}]
      BY <1>1, <1>4 DEF ServiceIInv, ServiceTypes
    <2>2. told' \subseteq Tokens \X (1 .. secrets')
      BY <1>1 DEF ServiceIInv, ServiceTypes
    <2>3. \A d \in Tokens : S!Exists(d)' => tokens'[d].secret <= secrets'
      <3>1. ASSUME NEW d \in Tokens, S!Exists(d)' PROVE tokens'[d].secret <= secrets'
        <4>1. CASE d = t
          BY <1>1, <1>4, <1>5, <4>1
        <4>2. CASE d # t
          <5>1. S!Exists(d) /\ tokens'[d] = tokens[d] /\ tokens[d] \in TokenRows
            BY <1>5, <1>6, <3>1, <4>2 DEF ServiceIInv, ServiceTypes, S!Exists
          <5>2. tokens[d].secret \in Nat /\ tokens[d].secret <= secrets
            BY <5>1 DEF TokenRows, ServiceIInv, ServiceTypes
          <5> QED
            BY <1>1, <5>1, <5>2
        <4> QED
          BY <4>1, <4>2
      <3> QED
        BY <3>1
    <2>4. \A s \in told' : S!Exists(s[1])'
      BY <1>1, <1>2, <1>6, <1>8 DEF ServiceIInv, ServiceTypes
    <2> QED
      BY <1>1, <1>9, <2>1, <2>2, <2>3, <2>4 DEF ServiceIInv, ServiceTypes, ServiceConstants
  <1>11. UnitsOK'
    <2>1. UnitOK(None)
      BY DEF UnitOK
    <2> QED
      BY <1>1, <1>6, <2>1, UnitsGo DEF ServiceIInv
  <1>12. S!RetiredStaysDead'
    <2>1. ASSUME NEW s \in retired', s[1] = t PROVE tokens'[s[1]].secret # s[2]
      <3>1. s[2] \in 1 .. secrets
        BY <1>1, <1>8, <1>9 DEF ServiceIInv, ServiceTypes
      <3> QED
        BY <1>1, <1>4, <1>5, <2>1, <3>1
    <2>2. ASSUME NEW s \in retired', s[1] # t PROVE ~S!Live(s[1])' \/ tokens'[s[1]].secret # s[2]
      <3>1. s \in retired /\ s[1] \in Tokens
        BY <1>1, <1>8, <1>9, <2>2 DEF ServiceIInv, ServiceTypes
      <3> QED
        BY <1>5, <1>7, <2>2, <3>1 DEF ServiceIInv, S!RetiredStaysDead
    <2> QED
      BY <2>1, <2>2 DEF S!RetiredStaysDead
  <1>13. OnSqlite'
    <2> SUFFICES ASSUME ~Postgres PROVE S!ShownSecretsOpen' /\ S!LiveTokensHaveRoles'
      BY DEF OnSqlite
    <2>1. S!Live(t)
      BY DEF S!Rotate, S!Checked, S!Rotatable
    <2>2. ASSUME NEW s \in told' \ retired' PROVE S!Live(s[1])' /\ tokens'[s[1]].secret = s[2]
      <3>1. CASE s = <<t, secrets + 1>>
        BY <1>4, <1>5, <1>7, <2>1, <3>1
      <3>2. CASE s \in told \ retired /\ s[1] # t /\ s[1] \in Tokens
        BY <1>5, <1>7, <3>2 DEF ServiceIInv, OnSqlite, S!ShownSecretsOpen
      <3> QED
        BY <1>1, <1>8, <2>2, <3>1, <3>2
    <2>3. S!LiveTokensHaveRoles'
      BY <1>1, <1>4, <1>5, <1>7
      DEF ServiceIInv, OnSqlite, S!LiveTokensHaveRoles, S!OrphansNobody
    <2> QED
      BY <2>2, <2>3 DEF S!ShownSecretsOpen
  <1> QED
    BY <1>10, <1>11, <1>12, <1>13 DEF ServiceIInv

LEMMA RevokeTokenStep ==
    ASSUME ServiceConstants, ServiceIInv, NEW t \in Tokens, S!Revoke(t)
    PROVE  ServiceIInv'
  <1> DEFINE new == [tokens[t] EXCEPT !.revoked = TRUE]
             mine == told \cap {<<t, k>> : k \in S!Secrets}
  <1>1. /\ roles' = roles /\ secrets' = secrets /\ told' = told /\ units' = units
        /\ retired' = retired \cup mine
        /\ tokens' = [tokens EXCEPT ![t] = new]
    BY DEF S!Revoke, S!Retire
  <1>2. S!Exists(t) /\ tokens[t] \in TokenRows
    BY DEF S!Revoke, S!Live, S!Exists, ServiceIInv, ServiceTypes
  <1>3. new \in TokenRows /\ new # None /\ new.secret = tokens[t].secret
        /\ new.role = tokens[t].role /\ new.revoked = TRUE
    BY <1>2 DEF TokenRows, ServiceConstants
  <1> HIDE DEF new
  <1>4. \A d \in Tokens : tokens'[d] = IF d = t THEN new ELSE tokens[d]
    BY <1>1 DEF ServiceIInv, ServiceTypes
  <1>5. \A d \in Tokens : S!Exists(d)' <=> S!Exists(d)
    BY <1>2, <1>3, <1>4 DEF S!Exists
  <1>6. \A d \in Tokens : S!Live(d)' <=> (S!Live(d) /\ d # t)
    BY <1>3, <1>4, <1>5 DEF S!Live
  <1>7. \A s \in told : s[1] \in Tokens /\ s[2] \in 1 .. secrets /\ (s[1] = t => s \in mine)
    BY DEF ServiceIInv, ServiceTypes, S!Secrets, ServiceConstants
  <1>8. \A s \in mine : s \in told /\ s[1] = t
    OBVIOUS
  <1> HIDE DEF mine
  <1>9. ServiceTypes'
    BY <1>1, <1>3, <1>4, <1>5, <1>8 DEF ServiceIInv, ServiceTypes, ServiceConstants
  <1>10. UnitsOK'
    <2>1. \A j : UnitOK(j) => UnitOK(j)'
      BY <1>5 DEF UnitOK, S!Rotation, S!Creation, S!Saving
    <2> QED
      BY <1>1, <2>1 DEF ServiceIInv, UnitsOK
  <1>11. S!RetiredStaysDead'
    BY <1>1, <1>4, <1>6, <1>7, <1>8 DEF ServiceIInv, ServiceTypes, S!RetiredStaysDead
  <1>12. S!ShownSecretsOpen => S!ShownSecretsOpen'
    BY <1>1, <1>4, <1>6, <1>7 DEF S!ShownSecretsOpen
  <1>13. S!LiveTokensHaveRoles => S!LiveTokensHaveRoles'
    BY <1>1, <1>4, <1>6 DEF S!LiveTokensHaveRoles, S!OrphansNobody
  <1> QED
    BY <1>9, <1>10, <1>11, <1>12, <1>13 DEF ServiceIInv, OnSqlite

\* Steps that leave the tokens alone: reads, roll-backs, and saves of the policy.
LEMMA TokensAloneStep ==
    ASSUME ServiceConstants, ServiceIInv, NEW c \in Clients, NEW k, UnitOK(k), ~Postgres => k = None,
           units' = [units EXCEPT ![c] = k],
           tokens' = tokens, secrets' = secrets, told' = told, retired' = retired,
           roles' \in SUBSET Roles, Admin \in roles', ~Postgres => S!OrphansNobody(roles')
    PROVE  ServiceIInv'
  <1>1. ServiceTypes'
    BY DEF ServiceIInv, ServiceTypes, S!Exists
  <1>2. UnitsOK'
    BY UnitsGo DEF ServiceIInv, S!Exists
  <1>3. S!RetiredStaysDead'
    BY DEF ServiceIInv, S!RetiredStaysDead, S!Live, S!Exists
  <1>4. OnSqlite'
    BY DEF ServiceIInv, OnSqlite, S!ShownSecretsOpen, S!LiveTokensHaveRoles, S!OrphansNobody,
           S!Live, S!Exists
  <1> QED
    BY <1>1, <1>2, <1>3, <1>4 DEF ServiceIInv

LEMMA ServiceStep == ServiceConstants /\ ServiceIInv /\ [S!Next]_(S!vars) => ServiceIInv'
  <1> SUFFICES ASSUME ServiceConstants, ServiceIInv, [S!Next]_(S!vars) PROVE ServiceIInv'
    OBVIOUS
  <1>1. CASE UNCHANGED S!vars
    BY <1>1 DEF S!vars, ServiceIInv, ServiceTypes, UnitsOK, UnitOK, S!RetiredStaysDead, OnSqlite,
                S!ShownSecretsOpen, S!LiveTokensHaveRoles, S!OrphansNobody, S!Live, S!Exists
  <1>2. UnitOK(None) /\ roles \in SUBSET Roles /\ Admin \in roles
        /\ (~Postgres => S!OrphansNobody(roles))
    BY DEF UnitOK, ServiceIInv, ServiceTypes, OnSqlite, S!LiveTokensHaveRoles
  <1>3. ASSUME NEW c \in Clients, S!Begin(c) PROVE ServiceIInv'
    <2>1. PICK k : /\ UnitOK(k) /\ Postgres /\ S!Goes(c, k)
                   /\ UNCHANGED <<roles, tokens, secrets, told, retired>>
      BY <1>3 DEF S!Begin, S!Check, UnitOK, S!Rotatable, S!Live, S!Savable
    <2> QED
      BY <1>2, <2>1, TokensAloneStep DEF S!Goes
  <1>4. ASSUME NEW c \in Clients, S!Abort(c) PROVE ServiceIInv'
    BY <1>2, <1>4, TokensAloneStep DEF S!Abort, S!Done, S!Goes
  <1>5. ASSUME NEW c \in Clients, NEW kept \in SUBSET Roles, S!Save(c, kept) PROVE ServiceIInv'
    <2>1. Admin \in kept
      <3>1. CASE Postgres
        <4>1. UnitOK(S!Saving(kept)) /\ S!Saving(kept) # None
          BY <1>5, <3>1 DEF S!Save, S!Checked, ServiceIInv, UnitsOK, ServiceConstants
        <4>2. /\ \A d : S!Saving(kept) # S!Rotation(d)
              /\ \A d, r : S!Saving(kept) # S!Creation(d, r)
              /\ \A other : S!Saving(kept) = S!Saving(other) => kept = other
          BY DEF S!Rotation, S!Creation, S!Saving
        <4> QED
          BY <4>1, <4>2 DEF UnitOK
      <3>2. CASE ~Postgres
        BY <1>5, <3>2 DEF S!Save, S!Checked, S!Savable
      <3> QED
        BY <3>1, <3>2
    <2>2. ~Postgres => S!OrphansNobody(kept)
      BY <1>5 DEF S!Save, S!Checked, S!Savable
    <2>3. ~Postgres => S!OrphansNobody(roles')
      BY <1>5, <2>2 DEF S!Save
    <2> QED
      BY <1>2, <1>5, <2>1, <2>3, TokensAloneStep DEF S!Save, S!Done, S!Goes
  <1> QED
    BY <1>1, <1>3, <1>4, <1>5, CreateStep, RotateTokenStep, RevokeTokenStep DEF S!Next

\* A secret that a rotation or a revocation ended never opens its token again,
\* on either adapter, however units of work interleave.
THEOREM RetiredSecretsStayDead ==
    ServiceConstants /\ S!Spec => [](S!TokensTypeOK /\ S!RetiredStaysDead)
  <1> SUFFICES ASSUME ServiceConstants PROVE S!Spec => [](S!TokensTypeOK /\ S!RetiredStaysDead)
    OBVIOUS
  <1>1. S!Init => ServiceIInv
    BY InitService
  <1>2. ServiceIInv /\ [S!Next]_(S!vars) => ServiceIInv'
    BY ServiceStep
  <1>3. ServiceIInv => S!TokensTypeOK /\ S!RetiredStaysDead
    <2> SUFFICES ASSUME ServiceIInv PROVE S!TokensTypeOK
      BY DEF ServiceIInv
    <2>1. ASSUME NEW t \in Tokens, S!Exists(t)
          PROVE  tokens[t].role \in Roles /\ tokens[t].secret \in 1 .. secrets
      <3>1. tokens[t] \in TokenRows /\ tokens[t].secret <= secrets /\ secrets \in Nat
        BY <2>1 DEF ServiceIInv, ServiceTypes, S!Exists
      <3> QED
        BY <3>1 DEF TokenRows
    <2> QED
      BY <2>1 DEF S!TokensTypeOK, ServiceIInv, ServiceTypes
  <1> QED
    BY <1>1, <1>2, <1>3, PTL DEF S!Spec

\* Where one unit of work runs at a time, on SQLite: a secret that was answered
\* opens its token until it is rotated away or revoked, and no live token is
\* left without a role by a save of the policy.
THEOREM ShownSecretsAreGood ==
    ServiceConstants /\ ~Postgres /\ S!Spec => [](S!ShownSecretsOpen /\ S!LiveTokensHaveRoles)
  <1> SUFFICES ASSUME ServiceConstants, ~Postgres
               PROVE  S!Spec => [](S!ShownSecretsOpen /\ S!LiveTokensHaveRoles)
    OBVIOUS
  <1>1. S!Init => ServiceIInv
    BY InitService
  <1>2. ServiceIInv /\ [S!Next]_(S!vars) => ServiceIInv'
    BY ServiceStep
  <1>3. ServiceIInv => S!ShownSecretsOpen /\ S!LiveTokensHaveRoles
    BY DEF ServiceIInv, OnSqlite
  <1> QED
    BY <1>1, <1>2, <1>3, PTL DEF S!Spec

-----------------------------------------------------------------------------
(* Accounts and sessions (Accounts)                                        *)

AccountOps == {"setup", "setup insert", "cli", "cli write", "login", "password", "admin",
               "admin write", "profile", "profile write", "slack", "policy"}

\* The seeded document is one of the policies; None is no row and no call.
AccountConstants ==
    /\ Seeded \in Policies
    /\ MaxPasswords \in Nat /\ MaxSessions \in Nat
    /\ Postgres \in BOOLEAN /\ Slack \in BOOLEAN
    /\ None \notin A!Rows /\ None \notin AccountOps

SessionRows(n) == [id : 1 .. n, user : People, hash : A!Passwords, role : A!Roles]

AccountTypes ==
    /\ users \in [People -> A!Rows \cup {None}]
    /\ policy \in Policies
    /\ sessions \subseteq SessionRows(opened) /\ Distinct(sessions)
    /\ \A s \in sessions : A!Exists(s.user)
    /\ passwords \in 0 .. MaxPasswords /\ opened \in 0 .. MaxSessions
    /\ \A u \in People : A!Exists(u) => users[u].hash.n <= passwords

\* What a call read of a user stays the row of a user; it may be out of date in
\* everything else, but for what follows.
ReadOK(k) ==
    /\ k.op \in {"login", "password", "admin", "admin write", "profile", "profile write",
                 "slack", "policy"} => k.user \in People /\ A!Exists(k.user)
    /\ k.op \in {"admin write", "profile write", "slack"} => k.row \in A!Rows
    /\ k.op = "cli write" =>
          /\ k.user \in People /\ k.row \in A!Rows \cup {None}
          /\ k.row # None => A!Exists(k.user)
    /\ k.op = "admin write" => k.reset \in BOOLEAN /\ (k.reset => k.revokes = TRUE)
    /\ k.op = "slack" => Slack /\ k.row.active = TRUE
    /\ ~Postgres => k.op \notin {"setup insert", "admin write", "profile write"}

ReadsOK ==
    /\ accountCalls \in [Clients -> {accountCalls[c] : c \in Clients}]
    /\ \A c \in Clients : ReadOK(accountCalls[c])

\* One session of a user whose row is `row`.
UpToDate(s, row) ==
    /\ s.hash = row.hash
    /\ ~Postgres => row.active = TRUE
    /\ ~Postgres /\ ~Slack => s.role = row.role
MarkedRow(row) == ~Postgres /\ ~Slack => (row.hash.temp => row.must)

AccountsIInv ==
    /\ AccountTypes
    /\ ReadsOK
    /\ \A s \in sessions : UpToDate(s, users[s.user])
    /\ \A u \in People : A!Exists(u) => MarkedRow(users[u])

LEMMA InitAccounts == AccountConstants /\ A!Init => AccountsIInv
  <1> SUFFICES ASSUME AccountConstants, A!Init PROVE AccountsIInv
    OBVIOUS
  <1>1. AccountTypes
    BY DEF AccountTypes, Distinct, A!Init, A!Exists, AccountConstants
  <1>2. ReadsOK
    BY DEF ReadsOK, ReadOK, A!Init, A!Idle, AccountConstants, AccountOps
  <1> QED
    BY <1>1, <1>2 DEF AccountsIInv, A!Init, A!Exists

LEMMA IdleRead == AccountConstants => ReadOK(A!Idle)
  BY DEF ReadOK, A!Idle, AccountConstants, AccountOps

\* Nobody is deleted, so that what calls have read stands.
LEMMA ReadsStay ==
    ASSUME ReadsOK, NEW c \in Clients, NEW k, ReadOK(k), accountCalls' = [accountCalls EXCEPT ![c] = k],
           \A u \in People : A!Exists(u) => A!Exists(u)'
    PROVE  ReadsOK'
  <1>1. \A d \in Clients : accountCalls'[d] = IF d = c THEN k ELSE accountCalls[d]
    BY DEF ReadsOK
  <1>2. \A j : ReadOK(j) => ReadOK(j)'
    <2>1. ASSUME NEW j, ReadOK(j) PROVE ReadOK(j)'
      BY <2>1 DEF ReadOK, A!Rows, A!Roles, A!Passwords
    <2> QED
      BY <2>1
  <1>3. accountCalls' \in [Clients -> {accountCalls'[d] : d \in Clients}]
    BY DEF ReadsOK
  <1> QED
    BY <1>1, <1>2, <1>3 DEF ReadsOK

\* A step that writes the row of one user, and no other user's sessions.
LEMMA WriteStep ==
    ASSUME AccountConstants, AccountsIInv,
           NEW c \in Clients, NEW u \in People, NEW row \in A!Rows,
           users' = [users EXCEPT ![u] = row], policy' = policy,
           accountCalls' = [accountCalls EXCEPT ![c] = A!Idle],
           passwords' \in 0 .. MaxPasswords, passwords <= passwords', row.hash.n <= passwords',
           opened' \in 0 .. MaxSessions, opened <= opened',
           MarkedRow(row),
           sessions' \subseteq SessionRows(opened'), Distinct(sessions'),
           \A s \in sessions' : \/ s \in sessions /\ s.user # u
                                \/ s.user = u /\ UpToDate(s, row)
    PROVE  AccountsIInv'
  <1>1. \A v \in People : users'[v] = IF v = u THEN row ELSE users[v]
    BY DEF AccountsIInv, AccountTypes
  <1>2. row # None
    BY DEF AccountConstants
  <1>3. \A v \in People : A!Exists(v)' <=> (v = u \/ A!Exists(v))
    BY <1>1, <1>2 DEF A!Exists
  <1>4. \A s \in sessions' : s.user \in People
    BY DEF SessionRows
  <1>5. AccountTypes'
    <2>1. users' \in [People -> A!Rows \cup {None}]
      BY DEF AccountsIInv, AccountTypes
    <2>2. \A s \in sessions' : A!Exists(s.user)'
      BY <1>3, <1>4 DEF AccountsIInv, AccountTypes
    <2>3. ASSUME NEW v \in People, A!Exists(v)' PROVE users'[v].hash.n <= passwords'
      <3>1. CASE v = u
        BY <1>1, <3>1
      <3>2. CASE v # u
        <4>1. users'[v] = users[v] /\ users[v] \in A!Rows /\ users[v].hash.n <= passwords
          BY <1>1, <1>3, <2>3, <3>2 DEF AccountsIInv, AccountTypes, A!Exists
        <4>2. users[v].hash.n \in Nat /\ passwords \in Nat
          BY <4>1, AccountConstants DEF A!Rows, A!Passwords, AccountsIInv, AccountTypes
        <4> QED
          BY <4>1, <4>2
      <3> QED
        BY <3>1, <3>2
    <2>4. policy' \in Policies
      BY DEF AccountsIInv, AccountTypes
    <2>5. (SessionRows(opened))' = SessionRows(opened')
      BY DEF SessionRows, A!Passwords, A!Roles
    <2>6. (A!Rows)' = A!Rows
      BY DEF A!Rows, A!Passwords, A!Roles
    <2>7. (Distinct(sessions))'
      BY DEF Distinct
    <2> QED
      BY <2>1, <2>2, <2>3, <2>4, <2>5, <2>6, <2>7 DEF AccountTypes
  <1>6. ReadsOK'
    BY <1>3, IdleRead, ReadsStay DEF AccountsIInv
  <1>7. ASSUME NEW s \in sessions' PROVE UpToDate(s, users[s.user])'
    BY <1>1, <1>4 DEF AccountsIInv, UpToDate
  <1>8. ASSUME NEW v \in People, A!Exists(v)' PROVE MarkedRow(users[v])'
    BY <1>1, <1>3, <1>8 DEF AccountsIInv, MarkedRow
  <1> QED
    BY <1>5, <1>6, <1>7, <1>8 DEF AccountsIInv

\* A step that changes no row and opens no session.
LEMMA KeepStep ==
    ASSUME AccountConstants, AccountsIInv,
           users' = users, passwords' = passwords, opened' = opened, policy' \in Policies,
           sessions' \subseteq sessions,
           \/ accountCalls' = accountCalls
           \/ \E c \in Clients : \E k : ReadOK(k) /\ accountCalls' = [accountCalls EXCEPT ![c] = k]
    PROVE  AccountsIInv'
  <1>1. \A u : A!Exists(u)' <=> A!Exists(u)
    BY DEF A!Exists
  <1>2. ReadsOK'
    <2>1. CASE accountCalls' = accountCalls
      <3>1. ASSUME NEW j, ReadOK(j) PROVE ReadOK(j)'
        BY <1>1, <3>1 DEF ReadOK, A!Rows, A!Roles, A!Passwords
      <3> QED
        BY <2>1, <3>1 DEF AccountsIInv, ReadsOK
    <2>2. CASE \E c \in Clients : \E k : ReadOK(k) /\ accountCalls' = [accountCalls EXCEPT ![c] = k]
      BY <1>1, <2>2, ReadsStay DEF AccountsIInv
    <2> QED
      BY <2>1, <2>2
  <1>3. AccountTypes'
    <2>1. (SessionRows(opened))' = SessionRows(opened) /\ (A!Rows)' = A!Rows
      BY DEF SessionRows, A!Rows, A!Passwords, A!Roles
    <2> QED
      BY <1>1, <2>1 DEF AccountsIInv, AccountTypes, Distinct
  <1>4. \A s \in sessions' : UpToDate(s, users[s.user])'
    BY DEF AccountsIInv, UpToDate
  <1>5. \A u \in People : A!Exists(u)' => MarkedRow(users[u])'
    BY <1>1 DEF AccountsIInv, MarkedRow
  <1> QED
    BY <1>2, <1>3, <1>4, <1>5 DEF AccountsIInv

\* What the invariant gives of the row of a user and of a fresh password.
LEMMA RowFacts ==
    ASSUME AccountsIInv, NEW u \in People, A!Exists(u)
    PROVE  /\ users[u] \in A!Rows /\ users[u].hash \in A!Passwords /\ users[u].role \in A!Roles
           /\ users[u].active \in BOOLEAN /\ users[u].must \in BOOLEAN
           /\ users[u].hash.n \in Nat /\ users[u].hash.n <= passwords
           /\ MarkedRow(users[u])
  <1>1. users[u] \in A!Rows /\ users[u].hash.n <= passwords /\ MarkedRow(users[u])
    BY DEF AccountsIInv, AccountTypes, A!Exists
  <1> QED
    BY <1>1 DEF A!Rows, A!Passwords

LEMMA Counters ==
    ASSUME AccountConstants, AccountsIInv
    PROVE  passwords \in Nat /\ opened \in Nat /\ passwords <= MaxPasswords /\ opened <= MaxSessions
           /\ MaxPasswords \in Nat /\ MaxSessions \in Nat
  BY DEF AccountConstants, AccountsIInv, AccountTypes

LEMMA FreshIs ==
    ASSUME AccountConstants, AccountsIInv, A!SetPassword, NEW temp \in BOOLEAN
    PROVE  /\ A!Fresh(temp) \in A!Passwords
           /\ A!Fresh(temp).n = passwords' /\ A!Fresh(temp).temp = temp
           /\ passwords' = passwords + 1 /\ passwords' \in 0 .. MaxPasswords /\ passwords <= passwords'
           /\ passwords' \in Nat
  <1>1. passwords' = passwords + 1 /\ passwords' \in 1 .. MaxPasswords
    BY Counters DEF A!SetPassword
  <1> QED
    BY <1>1, Counters DEF A!Fresh, A!Passwords

\* Sessions that a revocation leaves are those of the others.
LEMMA OthersSessions ==
    ASSUME AccountConstants, AccountsIInv, NEW ss \in SUBSET sessions
    PROVE  ss \subseteq SessionRows(opened) /\ Distinct(ss)
  BY DEF AccountsIInv, AccountTypes, Distinct

LEMMA RevokedAll ==
    ASSUME AccountConstants, AccountsIInv, NEW u
    PROVE  A!Revoke(u, 0) \subseteq sessions /\ \A s \in A!Revoke(u, 0) : s.user # u
  <1>1. \A s \in sessions : s.id \in 1 .. opened /\ opened \in Nat
    BY Counters DEF AccountsIInv, AccountTypes, SessionRows
  <1> QED
    BY <1>1 DEF A!Revoke

\* A role the policy defines is a role.
LEMMA RolesAre ==
    ASSUME AccountConstants, AccountsIInv
    PROVE  DOMAIN policy \subseteq A!Roles /\ "admin" \in A!Roles
  <1>1. policy \in Policies
    BY DEF AccountsIInv, AccountTypes
  <1>2. DOMAIN policy \in {DOMAIN doc : doc \in Policies}
    BY <1>1
  <1>3. DOMAIN policy \subseteq A!Roles
    BY <1>2 DEF A!Roles
  <1>4. "admin" \in A!Roles
    BY DEF A!Roles
  <1> QED
    BY <1>3, <1>4

LEMMA NewRowIs ==
    ASSUME NEW role \in A!Roles, NEW must \in BOOLEAN, NEW hash \in A!Passwords
    PROVE  /\ A!NewRow(role, must, hash) \in A!Rows
           /\ A!NewRow(role, must, hash).hash = hash
           /\ A!NewRow(role, must, hash).role = role
           /\ A!NewRow(role, must, hash).active = TRUE
           /\ A!NewRow(role, must, hash).must = must
  BY DEF A!NewRow, A!Rows

\* A new session goes beside those there are.
LEMMA Opening ==
    ASSUME AccountConstants, AccountsIInv, NEW u \in People, NEW hash \in A!Passwords,
           NEW role \in A!Roles, A!OpenSession(u, hash, role)
    PROVE  /\ opened' \in 0 .. MaxSessions /\ opened <= opened'
           /\ sessions' \subseteq SessionRows(opened') /\ Distinct(sessions')
           /\ \A s \in sessions' : s \in sessions \/ (s.user = u /\ s.hash = hash /\ s.role = role)
  <1> DEFINE new == A!Session(u, hash, role)
  <1>1. opened' = opened + 1 /\ opened' \in 1 .. MaxSessions /\ sessions' = sessions \cup {new}
    BY Counters DEF A!OpenSession
  <1>2. new \in SessionRows(opened') /\ new.id = opened + 1 /\ new.user = u /\ new.hash = hash
        /\ new.role = role
    BY <1>1, Counters DEF A!Session, SessionRows
  <1> HIDE DEF new
  <1>3. sessions \subseteq SessionRows(opened) /\ Distinct(sessions)
    BY DEF AccountsIInv, AccountTypes
  <1>4. SessionRows(opened) \subseteq SessionRows(opened')
    BY <1>1, Counters DEF SessionRows
  <1>5. \A s \in sessions : s.id # opened + 1
    BY <1>3, Counters DEF SessionRows
  <1> QED
    BY <1>1, <1>2, <1>3, <1>4, <1>5, Counters DEF Distinct

LEMMA SetupStep ==
    ASSUME AccountConstants, AccountsIInv, NEW c \in Clients, A!SetupInsert(c) PROVE AccountsIInv'
  <1> DEFINE hash == A!Fresh(FALSE)
             row == A!NewRow("admin", FALSE, hash)
  <1>1. PICK u \in People :
           /\ ~A!Exists(u) /\ users' = [users EXCEPT ![u] = row]
           /\ A!OpenSession(u, hash, "admin")
    BY DEF A!SetupInsert
  <1>2. /\ policy' = policy /\ A!SetPassword
        /\ accountCalls' = [accountCalls EXCEPT ![c] = A!Idle]
    BY DEF A!SetupInsert, A!Ends, A!Goes
  <1>3. /\ hash \in A!Passwords /\ hash.n = passwords' /\ hash.temp = FALSE
        /\ passwords' \in 0 .. MaxPasswords /\ passwords <= passwords' /\ passwords' \in Nat
    BY <1>2, FreshIs
  <1> HIDE DEF hash
  <1>4. /\ row \in A!Rows /\ row.hash = hash /\ row.role = "admin" /\ row.active = TRUE
        /\ row.must = FALSE
    BY <1>3, NewRowIs, RolesAre, ZenonT(60)
  <1> HIDE DEF row
  <1>5. /\ opened' \in 0 .. MaxSessions /\ opened <= opened'
        /\ sessions' \subseteq SessionRows(opened') /\ Distinct(sessions')
        /\ \A s \in sessions' : s \in sessions \/ (s.user = u /\ s.hash = hash /\ s.role = "admin")
    BY <1>1, <1>3, RolesAre, Opening
  <1>6. \A s \in sessions : s.user # u
    BY <1>1 DEF AccountsIInv, AccountTypes
  <1>7. \A s \in sessions' : \/ s \in sessions /\ s.user # u
                             \/ s.user = u /\ UpToDate(s, row)
    BY <1>4, <1>5, <1>6 DEF UpToDate
  <1>8. row.hash.n <= passwords' /\ MarkedRow(row)
    BY <1>3, <1>4 DEF MarkedRow
  <1> QED
    BY <1>1, <1>2, <1>3, <1>4, <1>5, <1>7, <1>8, WriteStep

LEMMA CliStep ==
    ASSUME AccountConstants, AccountsIInv, NEW c \in Clients, A!CliWrite(c) PROVE AccountsIInv'
  <1> DEFINE u == accountCalls[c].user
             old == accountCalls[c].row
             hash == A!Fresh(TRUE)
             row == IF old = None THEN A!NewRow("admin", TRUE, hash)
                    ELSE [old EXCEPT !.role = "admin", !.active = TRUE, !.must = TRUE, !.hash = hash]
  <1>1. u \in People /\ old \in A!Rows \cup {None} /\ (old # None => A!Exists(u))
    BY DEF A!CliWrite, AccountsIInv, ReadsOK, ReadOK
  <1>2. /\ policy' = policy /\ A!SetPassword /\ opened' = opened
        /\ accountCalls' = [accountCalls EXCEPT ![c] = A!Idle]
        /\ users' = [users EXCEPT ![u] = row]
        /\ sessions' = IF old = None THEN sessions ELSE A!Revoke(u, 0)
        /\ old = None => ~A!Exists(u)
    BY DEF A!CliWrite, A!Ends, A!Goes
  <1>3. /\ hash \in A!Passwords /\ hash.n = passwords' /\ hash.temp = TRUE
        /\ passwords' \in 0 .. MaxPasswords /\ passwords <= passwords' /\ passwords' \in Nat
    BY <1>2, FreshIs
  <1> HIDE DEF hash
  <1>4. row \in A!Rows /\ row.hash = hash /\ row.must = TRUE
    <2>1. CASE old = None
      BY <1>3, <2>1, NewRowIs, RolesAre, ZenonT(60)
    <2>2. CASE old # None
      <3>1. old \in A!Rows
        BY <1>1, <2>2
      <3>2. "admin" \in A!Roles
        BY RolesAre
      <3>3. row = [old EXCEPT !.role = "admin", !.active = TRUE, !.must = TRUE, !.hash = hash]
        BY <2>2
      <3> QED
        BY <1>3, <3>1, <3>2, <3>3 DEF A!Rows
    <2> QED
      BY <2>1, <2>2
  <1> HIDE DEF row
  <1>5. sessions' \subseteq sessions /\ \A s \in sessions' : s.user # u
    BY <1>2, RevokedAll DEF AccountsIInv, AccountTypes
  <1>6. row.hash.n <= passwords' /\ MarkedRow(row)
    BY <1>3, <1>4 DEF MarkedRow
  <1>7. opened' \in 0 .. MaxSessions /\ opened <= opened'
    BY <1>2, Counters
  <1>8. sessions' \subseteq SessionRows(opened') /\ Distinct(sessions')
    BY <1>2, <1>5, OthersSessions
  <1> HIDE DEF u, old
  <1> QED
    BY <1>1, <1>2, <1>3, <1>4, <1>5, <1>6, <1>7, <1>8, WriteStep

LEMMA LoginStep ==
    ASSUME AccountConstants, AccountsIInv, NEW c \in Clients, A!LoginCommit(c) PROVE AccountsIInv'
  <1> DEFINE u == accountCalls[c].user
             row == users[u]
  <1>1. u \in People /\ A!Exists(u)
    BY DEF A!LoginCommit, AccountsIInv, ReadsOK, ReadOK
  <1>2. /\ row.active /\ row.hash = accountCalls[c].hash
        /\ A!OpenSession(u, row.hash, row.role)
        /\ users' = users /\ policy' = policy /\ passwords' = passwords
        /\ accountCalls' = [accountCalls EXCEPT ![c] = A!Idle]
    BY DEF A!LoginCommit, A!StillTrue, A!Ends, A!Goes
  <1>3. users' = [users EXCEPT ![u] = row]
    BY <1>1, <1>2 DEF AccountsIInv, AccountTypes
  <1>4. /\ row \in A!Rows /\ row.hash \in A!Passwords /\ row.role \in A!Roles
        /\ row.active \in BOOLEAN /\ row.hash.n \in Nat /\ row.hash.n <= passwords
        /\ MarkedRow(row)
    BY <1>1, RowFacts
  <1> HIDE DEF u
  <1>5. /\ opened' \in 0 .. MaxSessions /\ opened <= opened'
        /\ sessions' \subseteq SessionRows(opened') /\ Distinct(sessions')
        /\ \A s \in sessions' :
              s \in sessions \/ (s.user = u /\ s.hash = row.hash /\ s.role = row.role)
    BY <1>1, <1>2, <1>4, Opening
  <1>6. row.active = TRUE
    BY <1>2, <1>4
  <1>7. ASSUME NEW s \in sessions'
        PROVE  \/ s \in sessions /\ s.user # u
               \/ s.user = u /\ UpToDate(s, row)
    <2>1. CASE s \in sessions
      BY <2>1 DEF AccountsIInv
    <2>2. CASE s.user = u /\ s.hash = row.hash /\ s.role = row.role
      BY <1>6, <2>2 DEF UpToDate
    <2> QED
      BY <1>5, <2>1, <2>2
  <1>8. passwords' \in 0 .. MaxPasswords /\ passwords <= passwords' /\ row.hash.n <= passwords'
    BY <1>2, <1>4, Counters
  <1> HIDE DEF row
  <1> QED
    BY <1>1, <1>2, <1>3, <1>4, <1>5, <1>7, <1>8, WriteStep

LEMMA PasswordStep ==
    ASSUME AccountConstants, AccountsIInv, NEW c \in Clients, A!PasswordCommit(c)
    PROVE  AccountsIInv'
  <1> DEFINE u == accountCalls[c].user
             kept == accountCalls[c].sid
             hash == A!Fresh(FALSE)
             row == [users[u] EXCEPT !.hash = hash, !.must = FALSE]
             Renewed(s) == IF s.id = kept THEN [s EXCEPT !.hash = hash] ELSE s
  <1>1. u \in People /\ A!Exists(u)
    BY DEF A!PasswordCommit, AccountsIInv, ReadsOK, ReadOK
  <1>2. /\ policy' = policy /\ A!SetPassword /\ opened' = opened
        /\ users[u].active
        /\ users' = [users EXCEPT ![u].hash = hash, ![u].must = FALSE]
        /\ sessions' = {Renewed(s) : s \in A!Revoke(u, kept)}
        /\ accountCalls' = [accountCalls EXCEPT ![c] = A!Idle]
    BY DEF A!PasswordCommit, A!StillTrue, A!Ends, A!Goes
  <1>3. PICK own \in sessions : own.id = kept /\ own.user = u
    BY DEF A!PasswordCommit, A!StillSignedIn
  <1>4. /\ hash \in A!Passwords /\ hash.n = passwords' /\ hash.temp = FALSE
        /\ passwords' \in 0 .. MaxPasswords /\ passwords <= passwords' /\ passwords' \in Nat
    BY <1>2, FreshIs
  <1> HIDE DEF hash
  <1>5. /\ users[u] \in A!Rows /\ users[u].active \in BOOLEAN
    BY <1>1, RowFacts
  <1>6. row \in A!Rows /\ row.hash = hash /\ row.active = users[u].active /\ row.must = FALSE
        /\ row.role = users[u].role
    BY <1>4, <1>5 DEF A!Rows
  <1>7. users' = [users EXCEPT ![u] = row]
    BY <1>1, <1>2 DEF AccountsIInv, AccountTypes
  <1>8. ASSUME NEW s \in A!Revoke(u, kept)
        PROVE  /\ Renewed(s) \in SessionRows(opened) /\ Renewed(s).id = s.id /\ s \in sessions
               /\ \/ Renewed(s) \in sessions /\ Renewed(s).user # u
                  \/ Renewed(s).user = u /\ UpToDate(Renewed(s), row)
    <2>1. s \in sessions /\ s \in SessionRows(opened) /\ (s.user # u \/ s.id = kept)
      BY DEF A!Revoke, AccountsIInv, AccountTypes
    <2>2. CASE s.id = kept
      <3>1. s = own
        BY <1>3, <2>1, <2>2 DEF AccountsIInv, AccountTypes, Distinct
      <3>2. Renewed(s) = [s EXCEPT !.hash = hash]
        BY <2>2
      <3>3. /\ Renewed(s) \in SessionRows(opened) /\ Renewed(s).id = s.id /\ Renewed(s).user = s.user
            /\ Renewed(s).hash = hash /\ Renewed(s).role = s.role
        BY <1>4, <2>1, <3>2 DEF SessionRows
      <3>4. UpToDate(s, users[u])
        BY <1>3, <3>1 DEF AccountsIInv
      <3>5. UpToDate(Renewed(s), row)
        BY <1>6, <3>3, <3>4 DEF UpToDate
      <3> QED
        BY <1>3, <2>1, <3>1, <3>3, <3>5
    <2>3. CASE s.id # kept
      BY <2>1, <2>3
    <2> QED
      BY <2>2, <2>3
  <1> HIDE DEF Renewed, row
  <1>9. sessions' \subseteq SessionRows(opened')
    BY <1>2, <1>8
  <1>10. Distinct(sessions')
    <2>1. \A s, t \in sessions : s.id = t.id => s = t
      BY DEF AccountsIInv, AccountTypes, Distinct
    <2> QED
      BY <1>2, <1>8, <2>1 DEF Distinct
  <1>11. \A s \in sessions' : \/ s \in sessions /\ s.user # u
                              \/ s.user = u /\ UpToDate(s, row)
    BY <1>2, <1>8
  <1>12. row.hash.n <= passwords' /\ MarkedRow(row)
    BY <1>4, <1>6 DEF MarkedRow
  <1>13. opened' \in 0 .. MaxSessions /\ opened <= opened'
    BY <1>2, Counters
  <1> HIDE DEF u
  <1> QED
    BY <1>1, <1>2, <1>4, <1>6, <1>7, <1>9, <1>10, <1>11, <1>12, <1>13, WriteStep

LEMMA CreateUserStep ==
    ASSUME AccountConstants, AccountsIInv, NEW c \in Clients, A!CreateUser(c) PROVE AccountsIInv'
  <1> DEFINE hash == A!Fresh(TRUE)
  <1>1. PICK u \in People, role \in DOMAIN policy :
           /\ ~A!Exists(u) /\ users' = [users EXCEPT ![u] = A!NewRow(role, TRUE, hash)]
    BY DEF A!CreateUser
  <1> DEFINE row == A!NewRow(role, TRUE, hash)
  <1>2. /\ policy' = policy /\ A!SetPassword /\ sessions' = sessions /\ opened' = opened
        /\ accountCalls' = [accountCalls EXCEPT ![c] = A!Idle]
    BY DEF A!CreateUser, A!Ends, A!Goes
  <1>3. /\ hash \in A!Passwords /\ hash.n = passwords' /\ hash.temp = TRUE
        /\ passwords' \in 0 .. MaxPasswords /\ passwords <= passwords' /\ passwords' \in Nat
    BY <1>2, FreshIs
  <1>4. role \in A!Roles
    BY RolesAre
  <1> HIDE DEF hash
  <1>5. row \in A!Rows /\ row.hash = hash /\ row.must = TRUE
    BY <1>3, <1>4, NewRowIs, ZenonT(60)
  <1>6. users' = [users EXCEPT ![u] = row]
    BY <1>1
  <1> HIDE DEF row
  <1>7. \A s \in sessions' : s \in sessions /\ s.user # u
    BY <1>1, <1>2 DEF AccountsIInv, AccountTypes
  <1>8. row.hash.n <= passwords' /\ MarkedRow(row)
    BY <1>3, <1>5 DEF MarkedRow
  <1>9. opened' \in 0 .. MaxSessions /\ opened <= opened'
        /\ sessions' \subseteq SessionRows(opened') /\ Distinct(sessions')
    BY <1>2, Counters, OthersSessions
  <1> QED
    BY <1>2, <1>3, <1>5, <1>6, <1>7, <1>8, <1>9, WriteStep

\* A row that was read and edited is written back: with a new password, or with
\* the one that is there.
LEMMA BackStep ==
    ASSUME AccountConstants, AccountsIInv, NEW c \in Clients, NEW u \in People, A!Exists(u),
           NEW row \in A!Rows, NEW reset \in BOOLEAN, NEW revokes,
           A!WriteUser(u, row, reset, revokes), reset => revokes,
           ~Postgres => (revokes \/ (row.active = users[u].active \/ row.active = TRUE)),
           ~Postgres /\ ~Slack =>
              (revokes \/ row.role = users[u].role) /\ (users[u].must => row.must),
           policy' = policy, opened' = opened,
           accountCalls' = [accountCalls EXCEPT ![c] = A!Idle]
    PROVE  AccountsIInv'
  <1>1. sessions' \subseteq sessions /\ (revokes => \A s \in sessions' : s.user # u)
    BY RevokedAll DEF A!WriteUser
  <1>2. opened' \in 0 .. MaxSessions /\ opened <= opened'
        /\ sessions' \subseteq SessionRows(opened') /\ Distinct(sessions')
    BY <1>1, Counters, OthersSessions
  <1>3. CASE reset
    <2> DEFINE hash == A!Fresh(TRUE)
               new == [row EXCEPT !.hash = hash, !.must = TRUE]
    <2>1. A!SetPassword /\ users' = [users EXCEPT ![u] = new]
      BY <1>3 DEF A!WriteUser
    <2>2. /\ hash \in A!Passwords /\ hash.n = passwords'
          /\ passwords' \in 0 .. MaxPasswords /\ passwords <= passwords' /\ passwords' \in Nat
      BY <2>1, FreshIs
    <2> HIDE DEF hash
    <2>3. new \in A!Rows /\ new.hash = hash /\ new.must = TRUE
      BY <2>2 DEF A!Rows
    <2> HIDE DEF new
    <2>4. new.hash.n <= passwords' /\ MarkedRow(new)
      <3>1. new.hash.n <= passwords'
        BY <2>2, <2>3
      <3>2. MarkedRow(new)
        BY <2>3 DEF MarkedRow
      <3> QED
        BY <3>1, <3>2
    <2> QED
      BY <1>1, <1>2, <1>3, <2>1, <2>2, <2>3, <2>4, WriteStep
  <1>4. CASE ~reset
    <2> DEFINE new == A!Written(u, row)
    <2>1. passwords' = passwords /\ users' = [users EXCEPT ![u] = new]
      BY <1>4 DEF A!WriteUser
    <2>2. /\ users[u].hash \in A!Passwords /\ users[u].hash.n <= passwords
          /\ users[u].must \in BOOLEAN /\ MarkedRow(users[u])
      BY RowFacts
    <2>3. new \in A!Rows /\ new.hash = users[u].hash /\ new.active = row.active
          /\ new.role = row.role /\ new.must = row.must
      BY <2>2 DEF A!Written, A!Rows
    <2> HIDE DEF new
    <2>4. new.hash.n <= passwords' /\ passwords' \in 0 .. MaxPasswords /\ passwords <= passwords'
      BY <2>1, <2>2, <2>3, Counters
    <2>5. MarkedRow(new)
      <3> SUFFICES ASSUME ~Postgres, ~Slack, new.hash.temp PROVE new.must
        BY DEF MarkedRow
      <3>1. users[u].hash.temp
        BY <2>3
      <3>2. users[u].must
        BY <2>2, <3>1 DEF MarkedRow
      <3>3. row.must
        BY <3>2
      <3> QED
        BY <2>3, <3>3
    <2>6. ASSUME NEW s \in sessions', s.user = u PROVE UpToDate(s, new)
      <3>1. UpToDate(s, users[u]) /\ ~revokes
        BY <1>1, <2>6 DEF AccountsIInv
      <3> QED
        BY <2>3, <3>1 DEF UpToDate
    <2> QED
      BY <1>1, <1>2, <2>1, <2>3, <2>4, <2>5, <2>6, WriteStep
  <1> QED
    BY <1>3, <1>4

\* An edit is a row.
LEMMA EditedIs ==
    ASSUME AccountConstants, AccountsIInv, NEW u \in People, A!Exists(u), NEW in \in A!Inputs
    PROVE  /\ A!Edited(u, in) \in A!Rows
           /\ A!Edited(u, in).role = A!Given(in.role, users[u].role)
           /\ A!Edited(u, in).active = A!Given(in.active, users[u].active)
           /\ users[u].must => A!Edited(u, in).must
           /\ in.reset \in BOOLEAN
           /\ in.role # None => in.role \in DOMAIN policy
  <1>1. /\ users[u] \in A!Rows /\ users[u].role \in A!Roles /\ users[u].active \in BOOLEAN
        /\ users[u].must \in BOOLEAN
    BY RowFacts
  <1>2. /\ in.role \in DOMAIN policy \cup {None} /\ in.active \in BOOLEAN \cup {None}
        /\ in.reset \in BOOLEAN
    BY DEF A!Inputs
  <1>3. A!Given(in.role, users[u].role) \in A!Roles
    BY <1>1, <1>2, RolesAre DEF A!Given
  <1>4. A!Given(in.active, users[u].active) \in BOOLEAN
    BY <1>1, <1>2 DEF A!Given
  <1>5. (users[u].must \/ in.reset) \in BOOLEAN
    OBVIOUS
  <1>6. A!Edited(u, in) = [users[u] EXCEPT !.role = A!Given(in.role, users[u].role),
                                           !.active = A!Given(in.active, users[u].active),
                                           !.must = users[u].must \/ in.reset]
    BY <1>1 DEF A!Edited, A!Rows
  <1> QED
    BY <1>1, <1>2, <1>3, <1>4, <1>5, <1>6 DEF A!Rows

LEMMA UpdateStep ==
    ASSUME AccountConstants, AccountsIInv, NEW c \in Clients, A!UpdateUser(c) PROVE AccountsIInv'
  <1>1. PICK u \in A!Humans, in \in A!Inputs :
           A!WriteUser(u, A!Edited(u, in), in.reset, A!Revokes(u, A!Edited(u, in), in))
    BY DEF A!UpdateUser
  <1>2. u \in People /\ A!Exists(u) /\ policy' = policy /\ opened' = opened
        /\ accountCalls' = [accountCalls EXCEPT ![c] = A!Idle]
    BY DEF A!UpdateUser, A!Humans, A!Ends, A!Goes
  <1> DEFINE row == A!Edited(u, in)
  <1>3. /\ row \in A!Rows /\ in.reset \in BOOLEAN
        /\ users[u].must => row.must
    BY <1>2, EditedIs
  <1>4. row.active \in BOOLEAN /\ users[u].active \in BOOLEAN
    BY <1>2, <1>3, RowFacts DEF A!Rows
  <1> HIDE DEF row
  <1>5. /\ in.reset => A!Revokes(u, row, in)
        /\ A!Revokes(u, row, in) \/ row.role = users[u].role
        /\ A!Revokes(u, row, in) \/ row.active = users[u].active \/ row.active = TRUE
    BY <1>4 DEF A!Revokes
  <1>6. A!WriteUser(u, row, in.reset, A!Revokes(u, row, in))
    BY <1>1 DEF row
  <1> QED
    BY <1>2, <1>3, <1>5, <1>6, BackStep

\* What Postgres writes was read before: of the row only the password is current.
LEMMA LateWriteStep ==
    ASSUME AccountConstants, AccountsIInv, NEW c \in Clients,
           A!UpdateWrite(c) \/ A!ProfileWrite(c) \/ A!SlackBind(c)
    PROVE  AccountsIInv'
  <1> DEFINE k == accountCalls[c]
             u == k.user
  <1>1. ReadOK(k)
    BY DEF AccountsIInv, ReadsOK
  <1>2. u \in People /\ A!Exists(u) /\ k.row \in A!Rows
    BY <1>1 DEF ReadOK, A!UpdateWrite, A!ProfileWrite, A!SlackBind
  <1>3. policy' = policy /\ opened' = opened
        /\ accountCalls' = [accountCalls EXCEPT ![c] = A!Idle]
    BY DEF A!UpdateWrite, A!ProfileWrite, A!SlackBind, A!Ends, A!Goes
  <1>4. CASE A!UpdateWrite(c)
    <2>1. k.reset \in BOOLEAN /\ (k.reset => k.revokes) /\ Postgres
          /\ A!WriteUser(u, k.row, k.reset, k.revokes)
      BY <1>1, <1>4 DEF ReadOK, A!UpdateWrite, AccountConstants
    <2> HIDE DEF k, u
    <2> QED
      BY <1>2, <1>3, <2>1, BackStep
  <1>5. CASE A!ProfileWrite(c)
    <2>1. Postgres /\ A!WriteUser(u, k.row, FALSE, FALSE)
      BY <1>1, <1>5 DEF ReadOK, A!ProfileWrite, A!WriteUser, AccountConstants
    <2> HIDE DEF k, u
    <2> QED
      BY <1>2, <1>3, <2>1, BackStep
  <1>6. CASE A!SlackBind(c)
    <2> DEFINE row == [k.row EXCEPT !.slack = TRUE]
    <2>1. Slack /\ k.row.active = TRUE /\ A!WriteUser(u, row, FALSE, FALSE)
      BY <1>1, <1>6 DEF ReadOK, A!SlackBind, A!WriteUser
    <2>2. row \in A!Rows /\ row.active = TRUE
      BY <1>2, <2>1 DEF A!Rows
    <2> HIDE DEF k, u, row
    <2> QED
      BY <1>2, <1>3, <2>1, <2>2, BackStep
  <1> QED
    BY <1>4, <1>5, <1>6

LEMMA ReadStep ==
    ASSUME AccountConstants, AccountsIInv, NEW c \in Clients,
           \/ A!SetupHash(c) \/ A!SetupCount(c) \/ A!CliList(c) \/ A!CliFind(c)
           \/ A!UpdateRead(c) \/ A!ProfileRead(c)
           \/ \E u \in People : A!LoginVerify(c, u) \/ A!SlackFind(c, u)
           \/ \E s \in sessions : \/ A!PasswordVerify(c, s) \/ A!AdminArrives(c, s)
                                  \/ A!ProfileArrives(c, s) \/ A!PolicyArrives(c, s)
    PROVE  AccountsIInv'
  <1>1. /\ users' = users /\ policy' = policy /\ sessions' = sessions /\ passwords' = passwords
        /\ opened' = opened
    BY DEF A!SetupHash, A!SetupCount, A!CliList, A!CliFind, A!UpdateRead, A!ProfileRead,
           A!LoginVerify, A!SlackFind, A!PasswordVerify, A!AdminArrives, A!ProfileArrives,
           A!PolicyArrives
  <1>2. policy \in Policies
    BY DEF AccountsIInv, AccountTypes
  <1>3. SUFFICES \E k : ReadOK(k) /\ A!Goes(c, k)
    BY <1>1, <1>2, KeepStep DEF A!Goes
  <1>4. ASSUME A!SetupHash(c) \/ A!SetupCount(c) \/ A!CliList(c)
        PROVE  \E k : ReadOK(k) /\ A!Goes(c, k)
    <2>1. ReadOK([op |-> "setup"]) /\ ReadOK([op |-> "cli"]) /\ ReadOK(A!Idle)
      BY IdleRead DEF ReadOK
    <2>2. Postgres => ReadOK([op |-> "setup insert"])
      BY DEF ReadOK
    <2> QED
      BY <1>4, <2>1, <2>2 DEF A!SetupHash, A!SetupCount, A!CliList, A!Ends
  <1>5. ASSUME A!CliFind(c) PROVE \E k : ReadOK(k) /\ A!Goes(c, k)
    <2>1. PICK u \in People : A!Goes(c, [op |-> "cli write", user |-> u, row |-> users[u]])
      BY <1>5 DEF A!CliFind
    <2>2. users[u] \in A!Rows \cup {None}
      BY DEF AccountsIInv, AccountTypes
    <2>3. ReadOK([op |-> "cli write", user |-> u, row |-> users[u]])
      BY <2>2 DEF ReadOK, A!Exists
    <2> QED
      BY <2>1, <2>3
  <1>6. ASSUME A!UpdateRead(c) PROVE \E k : ReadOK(k) /\ A!Goes(c, k)
    <2>1. PICK u \in A!Humans, in \in A!Inputs :
             A!Goes(c, [op |-> "admin write", user |-> u, row |-> A!Edited(u, in),
                        reset |-> in.reset, revokes |-> A!Revokes(u, A!Edited(u, in), in)])
      BY <1>6 DEF A!UpdateRead
    <2>2. u \in People /\ A!Exists(u) /\ Postgres
      BY <1>6 DEF A!Humans, A!UpdateRead
    <2>3. A!Edited(u, in) \in A!Rows /\ in.reset \in BOOLEAN
      BY <2>2, EditedIs
    <2>4. in.reset => A!Revokes(u, A!Edited(u, in), in) = TRUE
      BY DEF A!Revokes
    <2>5. ReadOK([op |-> "admin write", user |-> u, row |-> A!Edited(u, in), reset |-> in.reset,
                  revokes |-> A!Revokes(u, A!Edited(u, in), in)])
      BY <2>2, <2>3, <2>4 DEF ReadOK
    <2> QED
      BY <2>1, <2>5
  <1>7. ASSUME A!ProfileRead(c) PROVE \E k : ReadOK(k) /\ A!Goes(c, k)
    <2> DEFINE u == accountCalls[c].user
    <2>1. u \in People /\ A!Exists(u) /\ Postgres
          /\ A!Goes(c, [op |-> "profile write", user |-> u, row |-> users[u]])
      BY <1>7 DEF A!ProfileRead, AccountsIInv, ReadsOK, ReadOK
    <2>2. users[u] \in A!Rows
      BY <2>1, RowFacts
    <2> HIDE DEF u
    <2>3. ReadOK([op |-> "profile write", user |-> u, row |-> users[u]])
      BY <2>1, <2>2 DEF ReadOK
    <2> QED
      BY <2>1, <2>3
  <1>8. ASSUME NEW u \in People, A!LoginVerify(c, u) \/ A!SlackFind(c, u)
        PROVE  \E k : ReadOK(k) /\ A!Goes(c, k)
    <2>1. A!Exists(u) /\ users[u].active /\ users[u] \in A!Rows /\ users[u].active \in BOOLEAN
      BY <1>8, RowFacts DEF A!LoginVerify, A!SlackFind
    <2>2. ReadOK([op |-> "login", user |-> u, hash |-> users[u].hash])
      BY <2>1 DEF ReadOK
    <2>3. Slack => ReadOK([op |-> "slack", user |-> u, row |-> users[u]])
      BY <2>1 DEF ReadOK
    <2> QED
      BY <1>8, <2>2, <2>3 DEF A!LoginVerify, A!SlackFind
  <1>9. ASSUME NEW s \in sessions, NEW op \in {"password", "admin", "profile", "policy"},
               A!Authenticated(c, s, op)
        PROVE  \E k : ReadOK(k) /\ A!Goes(c, k)
    <2>1. s.user \in People /\ A!Exists(s.user)
      BY DEF AccountsIInv, AccountTypes, SessionRows
    <2>2. ReadOK([op |-> op, user |-> s.user, role |-> users[s.user].role,
                  sid |-> s.id, hash |-> users[s.user].hash])
      BY <2>1 DEF ReadOK
    <2> QED
      BY <1>9, <2>2 DEF A!Authenticated
  <1> QED
    BY <1>4, <1>5, <1>6, <1>7, <1>8, <1>9
    DEF A!PasswordVerify, A!AdminArrives, A!ProfileArrives, A!PolicyArrives

\* Refusals, and what changes the policy or a session alone.
LEMMA EndStep ==
    ASSUME AccountConstants, AccountsIInv, NEW c \in Clients,
           \/ A!SetupRefused(c) \/ A!CliConflict(c) \/ A!LoginRefused(c) \/ A!PasswordRefused(c)
           \/ A!AdminRefused(c) \/ A!ProfileSave(c) \/ A!PolicyRefused(c) \/ A!ApplyPolicy(c)
    PROVE  AccountsIInv'
  <1>1. /\ users' = users /\ sessions' = sessions /\ passwords' = passwords /\ opened' = opened
        /\ accountCalls' = [accountCalls EXCEPT ![c] = A!Idle]
        /\ policy' = policy \/ policy' \in Policies
    BY DEF A!SetupRefused, A!CliConflict, A!LoginRefused, A!PasswordRefused, A!AdminRefused,
           A!ProfileSave, A!PolicyRefused, A!ApplyPolicy, A!Refuse, A!Ends, A!Goes
  <1>2. policy \in Policies
    BY DEF AccountsIInv, AccountTypes
  <1> QED
    BY <1>1, <1>2, IdleRead, KeepStep

LEMMA AccountStep == AccountConstants /\ AccountsIInv /\ [A!Next]_(A!vars) => AccountsIInv'
  <1> SUFFICES ASSUME AccountConstants, AccountsIInv, [A!Next]_(A!vars) PROVE AccountsIInv'
    OBVIOUS
  <1>1. policy \in Policies
    BY DEF AccountsIInv, AccountTypes
  <1>2. CASE UNCHANGED A!vars
    BY <1>1, <1>2, KeepStep DEF A!vars
  <1>3. ASSUME NEW s \in sessions, A!Logout(s) PROVE AccountsIInv'
    BY <1>1, <1>3, KeepStep DEF A!Logout
  <1>4. ASSUME NEW c \in Clients, A!Arrive(c) PROVE AccountsIInv'
    BY <1>4, ReadStep DEF A!Arrive
  <1>5. ASSUME NEW c \in Clients, A!Step(c) PROVE AccountsIInv'
    BY <1>5, SetupStep, CliStep, LoginStep, PasswordStep, CreateUserStep, UpdateStep, LateWriteStep,
       ReadStep, EndStep DEF A!Step
  <1> QED
    BY <1>2, <1>3, <1>4, <1>5 DEF A!Next

LEMMA AccountsAreKept == AccountConstants /\ A!Spec => []AccountsIInv
  <1> SUFFICES ASSUME AccountConstants PROVE A!Spec => []AccountsIInv
    OBVIOUS
  <1>1. A!Init => AccountsIInv
    BY InitAccounts
  <1>2. AccountsIInv /\ [A!Next]_(A!vars) => AccountsIInv'
    BY AccountStep
  <1> QED
    BY <1>1, <1>2, PTL DEF A!Spec

\* A login or a change of password verifies outside its unit of work; yet no
\* session is ever left that was opened, or kept, under a password other than
\* the current one, on either adapter and whatever else is in flight.
THEOREM SessionsFollowPasswords ==
    AccountConstants /\ A!Spec => [](A!AccountsTypeOK /\ A!SessionsUnderCurrentPassword)
  <1>1. AccountConstants /\ AccountsIInv => A!AccountsTypeOK /\ A!SessionsUnderCurrentPassword
    <2> SUFFICES ASSUME AccountConstants, AccountsIInv
                 PROVE  A!AccountsTypeOK /\ A!SessionsUnderCurrentPassword
      OBVIOUS
    <2>1. sessions \subseteq [id : 1 .. opened, user : A!Humans, hash : A!Passwords, role : A!Roles]
      BY DEF AccountsIInv, AccountTypes, SessionRows, A!Humans
    <2>2. \A u \in A!Humans : users[u].hash.n <= passwords
      BY DEF AccountsIInv, AccountTypes, A!Humans
    <2>3. A!AccountsTypeOK
      BY <2>1, <2>2 DEF A!AccountsTypeOK, AccountsIInv, AccountTypes, Distinct
    <2> QED
      BY <2>3 DEF AccountsIInv, UpToDate, A!SessionsUnderCurrentPassword
  <1> SUFFICES ASSUME AccountConstants
               PROVE  A!Spec => [](A!AccountsTypeOK /\ A!SessionsUnderCurrentPassword)
    OBVIOUS
  <1>2. A!Spec => []AccountsIInv
    BY AccountsAreKept
  <1>3. AccountsIInv => A!AccountsTypeOK /\ A!SessionsUnderCurrentPassword
    BY <1>1
  <1> QED
    BY <1>2, <1>3, PTL

\* On SQLite a session belongs to an active user, the Slack adapter's late
\* writes of a row notwithstanding.
THEOREM SessionsFollowStatus ==
    AccountConstants /\ ~Postgres /\ A!Spec => []A!SessionsOfActiveUsers
  <1> SUFFICES ASSUME AccountConstants, ~Postgres PROVE A!Spec => []A!SessionsOfActiveUsers
    OBVIOUS
  <1>1. A!Spec => []AccountsIInv
    BY AccountsAreKept
  <1>2. AccountsIInv => A!SessionsOfActiveUsers
    BY DEF AccountsIInv, UpToDate, A!SessionsOfActiveUsers
  <1> QED
    BY <1>1, <1>2, PTL

\* Without the Slack adapter it has the role its user has, too, and a one-time
\* password has to be changed.
THEOREM SessionsFollowRoles ==
    AccountConstants /\ ~Postgres /\ ~Slack /\ A!Spec
       => [](A!SessionsUnderCurrentRole /\ A!TempIsMarked)
  <1> SUFFICES ASSUME AccountConstants, ~Postgres, ~Slack
               PROVE  A!Spec => [](A!SessionsUnderCurrentRole /\ A!TempIsMarked)
    OBVIOUS
  <1>1. A!Spec => []AccountsIInv
    BY AccountsAreKept
  <1>2. AccountsIInv => A!SessionsUnderCurrentRole /\ A!TempIsMarked
    BY DEF AccountsIInv, UpToDate, MarkedRow, A!SessionsUnderCurrentRole, A!TempIsMarked, A!Humans
  <1> QED
    BY <1>1, <1>2, PTL

\* Who may manage users keeps that right in a write that leaves role and status.
LEMMA AdminsStay ==
    ASSUME AccountsIInv, NEW u \in People, NEW row, row # None,
           users' = [users EXCEPT ![u] = row], policy' = policy,
           u \in A!Admins => /\ row.active = TRUE \/ row.active = users[u].active
                             /\ A!Grants(policy, row.role, "manageUsers")
    PROVE  A!Admins \subseteq A!Admins'
  <1>1. \A v \in People : users'[v] = IF v = u THEN row ELSE users[v]
    BY DEF AccountsIInv, AccountTypes
  <1> SUFFICES ASSUME NEW v \in A!Admins PROVE v \in A!Admins'
    OBVIOUS
  <1>2. v \in People /\ users[v] # None /\ users[v].active
        /\ A!Grants(policy, users[v].role, "manageUsers")
    BY DEF A!Admins, A!Holding, A!Humans, A!Exists
  <1>3. CASE v = u
    <2>1. row.active
      BY <1>2, <1>3
    <2> QED
      BY <1>1, <1>2, <1>3, <2>1 DEF A!Admins, A!Holding, A!Humans, A!Exists, A!Grants
  <1>4. CASE v # u
    BY <1>1, <1>2, <1>4 DEF A!Admins, A!Holding, A!Humans, A!Exists, A!Grants
  <1> QED
    BY <1>3, <1>4

\* The row that an edit leaves, whichever way its password goes.
LEMMA WrittenRow ==
    ASSUME AccountConstants, AccountsIInv, NEW u \in People, A!Exists(u), NEW in \in A!Inputs,
           NEW revokes, A!WriteUser(u, A!Edited(u, in), in.reset, revokes)
    PROVE  \E row : /\ users' = [users EXCEPT ![u] = row] /\ row # None
                    /\ row.role = A!Given(in.role, users[u].role)
                    /\ row.active = A!Given(in.active, users[u].active)
  <1> DEFINE e == A!Edited(u, in)
             fresh == A!Fresh(TRUE)
  <1>1. /\ e \in A!Rows /\ in.reset \in BOOLEAN
        /\ e.role = A!Given(in.role, users[u].role)
        /\ e.active = A!Given(in.active, users[u].active)
    BY EditedIs
  <1> HIDE DEF e
  <1>2. None \notin A!Rows /\ users[u].hash \in A!Passwords
    BY RowFacts DEF AccountConstants
  <1>3. CASE in.reset
    <2> DEFINE row == [e EXCEPT !.hash = fresh, !.must = TRUE]
    <2>1. A!SetPassword /\ users' = [users EXCEPT ![u] = row]
      BY <1>3 DEF A!WriteUser, e
    <2>2. fresh \in A!Passwords
      BY <2>1, FreshIs
    <2> HIDE DEF fresh
    <2>3. row \in A!Rows /\ row.role = e.role /\ row.active = e.active
      BY <1>1, <2>2 DEF A!Rows
    <2> HIDE DEF row
    <2> QED
      BY <1>1, <1>2, <2>1, <2>3
  <1>4. CASE ~in.reset
    <2> DEFINE row == A!Written(u, e)
    <2>1. users' = [users EXCEPT ![u] = row]
      BY <1>4 DEF A!WriteUser, e
    <2>2. row \in A!Rows /\ row.role = e.role /\ row.active = e.active
      BY <1>1, <1>2 DEF A!Written, A!Rows
    <2> HIDE DEF row
    <2> QED
      BY <1>1, <1>2, <2>1, <2>2
  <1> QED
    BY <1>3, <1>4

LEMMA GuardedUpdate ==
    ASSUME AccountConstants, AccountsIInv, NEW c \in Clients, A!UpdateUser(c), A!Admins # {}
    PROVE  A!Admins' # {}
  <1>1. PICK u \in A!Humans, in \in A!Inputs :
           /\ A!LeavesAnAdmin(u, in)
           /\ A!WriteUser(u, A!Edited(u, in), in.reset, A!Revokes(u, A!Edited(u, in), in))
    BY DEF A!UpdateUser
  <1>2. u \in People /\ A!Exists(u) /\ policy' = policy
    BY DEF A!Humans, A!UpdateUser
  <1>3. PICK row : /\ users' = [users EXCEPT ![u] = row] /\ row # None
                   /\ row.role = A!Given(in.role, users[u].role)
                   /\ row.active = A!Given(in.active, users[u].active)
    BY <1>1, <1>2, WrittenRow
  <1>4. in.active \in BOOLEAN \cup {None} /\ users[u].active \in BOOLEAN
    BY <1>2, RowFacts DEF A!Inputs
  <1> DEFINE demotes == in.role # None /\ ~A!Grants(policy, in.role, "manageUsers")
             deactivates == in.active = FALSE
  <1>5. CASE u \in A!Admins /\ (demotes \/ deactivates)
    <2>1. PICK v \in A!Admins : v # u
      BY <1>1, <1>5 DEF A!LeavesAnAdmin
    <2>2. v \in People /\ users'[v] = users[v]
      BY <1>3, <2>1 DEF A!Admins, A!Holding, A!Humans, AccountsIInv, AccountTypes
    <2>3. v \in A!Admins'
      BY <1>2, <2>1, <2>2 DEF A!Admins, A!Holding, A!Humans, A!Exists, A!Grants
    <2> QED
      BY <2>3
  <1>6. CASE ~(u \in A!Admins /\ (demotes \/ deactivates))
    <2>1. u \in A!Admins => /\ row.active = TRUE \/ row.active = users[u].active
                            /\ A!Grants(policy, row.role, "manageUsers")
      <3>1. ASSUME u \in A!Admins PROVE row.active = TRUE \/ row.active = users[u].active
        BY <1>3, <1>4, <1>6, <3>1 DEF A!Given
      <3>2. ASSUME u \in A!Admins PROVE A!Grants(policy, row.role, "manageUsers")
        <4>1. A!Grants(policy, users[u].role, "manageUsers")
          BY <3>2 DEF A!Admins, A!Holding
        <4> QED
          BY <1>3, <1>6, <3>2, <4>1 DEF A!Given
      <3> QED
        BY <3>1, <3>2
    <2> QED
      BY <1>2, <1>3, <2>1, AdminsStay
  <1> QED
    BY <1>5, <1>6

\* Whatever two administrators do to each other at once, on SQLite the last
\* account that can manage users is not demoted or deactivated: only a change
\* of the policy, or the operator's create-admin, takes the right away.
THEOREM AdministratorsStay ==
    AccountConstants /\ ~Postgres /\ ~Slack /\ A!Spec => [][A!AdminRemains]_(A!vars)
  <1> SUFFICES ASSUME AccountConstants, ~Postgres, ~Slack
               PROVE  A!Spec => [][A!AdminRemains]_(A!vars)
    OBVIOUS
  <1>1. A!Spec => []AccountsIInv
    BY AccountsAreKept
  <1>2. AccountsIInv /\ [A!Next]_(A!vars) => [A!AdminRemains]_(A!vars)
    <2> SUFFICES ASSUME AccountsIInv, A!Next, A!Admins # {}, policy' = policy,
                        ~\E c \in Clients : accountCalls[c].op = "cli write" /\ A!CliWrite(c)
                 PROVE  A!Admins' # {}
      BY DEF A!AdminRemains
    <2>1. ASSUME users' = users PROVE A!Admins' # {}
      BY <2>1 DEF A!Admins, A!Holding, A!Humans, A!Exists, A!Grants
    <2>2. ASSUME NEW c \in Clients, A!SetupInsert(c) \/ A!CreateUser(c) PROVE A!Admins' # {}
      <3>1. PICK u \in People :
               ~A!Exists(u) /\ \E row : users' = [users EXCEPT ![u] = row]
        BY <2>2 DEF A!SetupInsert, A!CreateUser
      <3>2. \A v \in A!Admins : v \in People /\ v # u /\ users'[v] = users[v]
        BY <3>1 DEF A!Admins, A!Holding, A!Humans, AccountsIInv, AccountTypes
      <3>3. A!Admins \subseteq A!Admins'
        BY <3>2 DEF A!Admins, A!Holding, A!Humans, A!Exists, A!Grants
      <3> QED
        BY <3>3
    <2>3. ASSUME NEW c \in Clients, A!PasswordCommit(c) PROVE A!Admins' # {}
      <3> DEFINE u == accountCalls[c].user
                 hash == A!Fresh(FALSE)
                 row == [users[u] EXCEPT !.hash = hash, !.must = FALSE]
      <3>1. u \in People /\ A!Exists(u) /\ A!SetPassword
            /\ users' = [users EXCEPT ![u].hash = hash, ![u].must = FALSE]
        BY <2>3 DEF A!PasswordCommit, AccountsIInv, ReadsOK, ReadOK
      <3>2. users[u] \in A!Rows /\ None \notin A!Rows /\ hash \in A!Passwords
        BY <3>1, RowFacts, FreshIs DEF AccountConstants
      <3> HIDE DEF hash
      <3>3. row \in A!Rows /\ row.role = users[u].role /\ row.active = users[u].active
        BY <3>2 DEF A!Rows
      <3>4. users' = [users EXCEPT ![u] = row]
        BY <3>1 DEF AccountsIInv, AccountTypes
      <3>5. u \in A!Admins => A!Grants(policy, users[u].role, "manageUsers")
        BY DEF A!Admins, A!Holding
      <3> HIDE DEF u, row
      <3> QED
        BY <3>1, <3>2, <3>3, <3>4, <3>5, AdminsStay
    <2>4. ASSUME NEW c \in Clients, A!UpdateWrite(c) \/ A!ProfileWrite(c) \/ A!SlackBind(c)
          PROVE FALSE
      BY <2>4 DEF A!UpdateWrite, A!ProfileWrite, A!SlackBind, AccountsIInv, ReadsOK, ReadOK
    <2>5. ASSUME NEW c \in Clients, A!CliWrite(c) PROVE FALSE
      BY <2>5 DEF A!CliWrite
    <2>6. ASSUME NEW c \in Clients, A!Step(c) PROVE A!Admins' # {}
      <3>1. CASE \/ A!SetupInsert(c) \/ A!CreateUser(c) \/ A!PasswordCommit(c) \/ A!UpdateUser(c)
                 \/ A!UpdateWrite(c) \/ A!ProfileWrite(c) \/ A!SlackBind(c) \/ A!CliWrite(c)
        BY <2>2, <2>3, <2>4, <2>5, <3>1, GuardedUpdate
      <3>2. CASE ~(\/ A!SetupInsert(c) \/ A!CreateUser(c) \/ A!PasswordCommit(c) \/ A!UpdateUser(c)
                   \/ A!UpdateWrite(c) \/ A!ProfileWrite(c) \/ A!SlackBind(c) \/ A!CliWrite(c))
        BY <2>1, <2>6, <3>2
        DEF A!Step, A!SetupHash, A!SetupCount, A!SetupRefused, A!CliList, A!CliFind, A!CliConflict,
            A!LoginCommit, A!LoginRefused, A!PasswordRefused, A!UpdateRead, A!AdminRefused,
            A!ProfileSave, A!ProfileRead, A!ApplyPolicy, A!PolicyRefused, A!Refuse
      <3> QED
        BY <3>1, <3>2
    <2>7. ASSUME NEW c \in Clients, A!Arrive(c) PROVE users' = users
      BY <2>7 DEF A!Arrive, A!LoginVerify, A!SlackFind, A!PasswordVerify, A!AdminArrives,
                  A!ProfileArrives, A!PolicyArrives
    <2> QED
      BY <2>1, <2>6, <2>7 DEF A!Next, A!Logout
  <1> QED
    BY <1>1, <1>2, PTL DEF A!Spec

\* Setup, asked for by several at once, makes the only account there is.
THEOREM SetupIsFirst ==
    AccountConstants /\ ~Postgres /\ A!Spec => [][A!OneFirstAdmin]_(A!vars)
  <1> SUFFICES ASSUME AccountConstants, ~Postgres PROVE A!Spec => [][A!OneFirstAdmin]_(A!vars)
    OBVIOUS
  <1>1. A!Spec => []AccountsIInv
    BY AccountsAreKept
  <1>2. AccountsIInv => [A!OneFirstAdmin]_(A!vars)
    <2> SUFFICES ASSUME AccountsIInv, NEW c \in Clients, A!SetupInsert(c)
                 PROVE  Cardinality(A!Humans') = 1
      <3>1. \A X : A!Cardinality(X) = Cardinality(X)
        BY DEF A!Cardinality, Cardinality
      <3> QED
        BY <3>1 DEF A!OneFirstAdmin
    <2>1. A!Humans = {}
      BY DEF A!SetupInsert, A!AtSetup, AccountsIInv, ReadsOK, ReadOK
    <2> DEFINE hash == A!Fresh(FALSE)
    <2>2. PICK u \in People : users' = [users EXCEPT ![u] = A!NewRow("admin", FALSE, hash)]
      BY DEF A!SetupInsert
    <2>3. A!SetPassword
      BY DEF A!SetupInsert
    <2>4. hash \in A!Passwords
      BY <2>3, FreshIs
    <2> HIDE DEF hash
    <2>5. A!NewRow("admin", FALSE, hash) \in A!Rows
      BY <2>4, NewRowIs, RolesAre
    <2>6. A!NewRow("admin", FALSE, hash) # None
      BY <2>5 DEF AccountConstants
    <2>7. \A v \in People : A!Exists(v)' <=> v = u
      BY <2>1, <2>2, <2>6 DEF A!Exists, A!Humans, AccountsIInv, AccountTypes
    <2>8. A!Humans' = {u}
      BY <2>7 DEF A!Humans
    <2> QED
      BY <2>8, FS_Singleton
  <1> QED
    BY <1>1, <1>2, PTL DEF A!Spec

-----------------------------------------------------------------------------
(* The expiry of sessions (SessionExpiry)                                  *)

ExpiryConstants ==
    /\ IdleLimit \in Nat \ {0} /\ Absolute \in Nat \ {0} /\ MaxTime \in Nat
    /\ None \notin Int /\ None \notin E!Row /\ None \notin Sessions

Times == 0 .. MaxTime

\* A write that waits: a creation has nothing of its session before it, and a
\* touch is no later than the last use.
WriteOK(w) ==
    /\ w.op \in {"create", "touch", "revoke", "displace", "purge"}
    /\ w.at \in Times /\ w.at <= now
    /\ w.op # "purge" => w.session \in Sessions
    /\ w.op = "create" => /\ born[w.session] = w.at
                          /\ rowOf[w.session] = None /\ lastUse[w.session] = None
    /\ w.op \in {"touch", "revoke"} => lastUse[w.session] # None
    /\ w.op = "touch" => w.at <= lastUse[w.session]

WritesOK ==
    /\ \E n \in Nat : DOMAIN writes = 1 .. n
    /\ writes = [i \in DOMAIN writes |-> writes[i]]
    /\ \A i \in DOMAIN writes : WriteOK(writes[i])
    /\ \A i, j \in DOMAIN writes :
          /\ writes[i].op = "create" /\ writes[j].op = "create"
          /\ writes[i].session = writes[j].session
          => i = j

\* What a row says goes back to the birth and the last use of its session.
RowOK(s) ==
    /\ lastUse[s] # None => born[s] # None
    /\ rowOf[s] # None =>
          /\ lastUse[s] # None
          /\ born[s] = rowOf[s].created
          /\ rowOf[s].seen <= lastUse[s]
          /\ rowOf[s].expires <= rowOf[s].created + Absolute
          /\ rowOf[s].expires <= rowOf[s].seen + IdleLimit
    /\ s \in ended => lastUse[s] # None /\ rowOf[s] = None

ExpiryTypes ==
    /\ now \in Times
    /\ rowOf \in [Sessions -> E!Row \cup {None}]
    /\ born \in [Sessions -> Times \cup {None}]
    /\ lastUse \in [Sessions -> Times \cup {None}]
    /\ \A s \in Sessions : lastUse[s] # None => lastUse[s] <= now
    /\ ended \subseteq Sessions

ExpiryIInv == ExpiryTypes /\ WritesOK /\ \A s \in Sessions : RowOK(s)

LEMMA InitExpiry == ExpiryConstants /\ E!Init => ExpiryIInv
  <1> SUFFICES ASSUME ExpiryConstants, E!Init PROVE ExpiryIInv
    OBVIOUS
  <1>1. ExpiryTypes
    BY DEF ExpiryTypes, E!Init, ExpiryConstants, Times
  <1>2. WritesOK
    <2>1. writes = <<>> /\ DOMAIN writes = 1 .. 0
      BY DEF E!Init
    <2> QED
      BY <2>1 DEF WritesOK
  <1>3. ended = {} /\ \A s \in Sessions : rowOf[s] = None /\ lastUse[s] = None
    BY DEF E!Init
  <1> QED
    BY <1>1, <1>2, <1>3 DEF ExpiryIInv, RowOK

\* The list of writes when one more waits, and when one is done with.
LEMMA AskedIs ==
    ASSUME ExpiryIInv, NEW op, NEW s, E!Ask(op, s)
    PROVE  \E n \in Nat : /\ DOMAIN writes = 1 .. n /\ DOMAIN writes' = 1 .. n + 1
                          /\ \A i \in 1 .. n : writes'[i] = writes[i]
                          /\ writes'[n + 1] = E!Asked(op, s, now)
                          /\ writes' = [i \in 1 .. n + 1 |-> writes'[i]]
  <1> DEFINE w == E!Asked(op, s, now)
  <1>1. PICK n \in Nat : DOMAIN writes = 1 .. n
    BY DEF ExpiryIInv, WritesOK
  <1> DEFINE T == {writes[i] : i \in 1 .. n} \cup {w}
  <1>2. Len(writes) = n /\ writes \in Seq(T) /\ w \in T
    <2>1. writes = [i \in 1 .. n |-> writes[i]]
      BY <1>1 DEF ExpiryIInv, WritesOK
    <2>2. \A i \in 1 .. n : writes[i] \in T
      OBVIOUS
    <2> HIDE DEF T
    <2>3. Len(writes) = n /\ writes \in Seq(T)
      BY <2>1, <2>2
    <2> QED
      BY <2>3 DEF T
  <1>3. writes' = Append(writes, w)
    BY DEF E!Ask
  <1> HIDE DEF w, T
  <1>5. /\ DOMAIN writes' = 1 .. n + 1
        /\ \A i \in 1 .. n : writes'[i] = writes[i]
        /\ writes'[n + 1] = w
        /\ writes' = [i \in 1 .. n + 1 |-> writes'[i]]
    <2>1. /\ writes' \in Seq(T) /\ Len(writes') = n + 1
          /\ \A i \in 1 .. n : writes'[i] = writes[i]
          /\ writes'[n + 1] = w
      BY <1>2, <1>3, AppendProperties
    <2> QED
      BY <2>1
  <1> QED
    BY <1>1, <1>5 DEF w

LEMMA RemovedIs ==
    ASSUME ExpiryIInv, NEW i \in DOMAIN writes, writes' = E!RemoveAt(writes, i)
    PROVE  \E n \in Nat :
              /\ DOMAIN writes = 1 .. n /\ i \in 1 .. n
              /\ n - 1 \in Nat /\ DOMAIN writes' = 1 .. n - 1
              /\ \A j \in 1 .. n - 1 : writes'[j] = writes[IF j < i THEN j ELSE j + 1]
              /\ writes' = [j \in DOMAIN writes' |-> writes'[j]]
  <1>1. PICK n \in Nat : DOMAIN writes = 1 .. n
    BY DEF ExpiryIInv, WritesOK
  <1> DEFINE T == {writes[j] : j \in 1 .. n}
  <1>2. Len(writes) = n /\ writes \in Seq(T) /\ n # 0 /\ i \in 1 .. n
    <2>1. writes = [j \in 1 .. n |-> writes[j]]
      BY <1>1 DEF ExpiryIInv, WritesOK
    <2>2. \A j \in 1 .. n : writes[j] \in T
      OBVIOUS
    <2> HIDE DEF T
    <2> QED
      BY <1>1, <2>1, <2>2
  <1> HIDE DEF T
  <1>3. writes' = SubSeq(writes, 1, i - 1) \o SubSeq(writes, i + 1, n)
    BY <1>2 DEF E!RemoveAt
  <1> DEFINE Back(j) == IF j < i THEN j ELSE j + 1
  <1>4. /\ SubSeq(writes, 1, i - 1) \in Seq(T) /\ Len(SubSeq(writes, 1, i - 1)) = i - 1
        /\ \A j \in 1 .. i - 1 : SubSeq(writes, 1, i - 1)[j] = writes[j]
    BY <1>2, SubSeqProperties
  <1>5. /\ SubSeq(writes, i + 1, n) \in Seq(T) /\ Len(SubSeq(writes, i + 1, n)) = n - i
        /\ \A j \in 1 .. n - i : SubSeq(writes, i + 1, n)[j] = writes[j + i]
    <2>1. \A j \in i + 1 .. n : writes[j] \in T
      BY <1>2
    <2> QED
      BY <1>2, <2>1, SubSeqProperties
  <1>6. /\ writes' \in Seq(T) /\ Len(writes') = n - 1
        /\ \A j \in 1 .. n - 1 : writes'[j] = writes[Back(j)]
    <2> DEFINE a == SubSeq(writes, 1, i - 1)
               b == SubSeq(writes, i + 1, n)
    <2>1. a \in Seq(T) /\ b \in Seq(T) /\ Len(a) = i - 1 /\ Len(b) = n - i /\ writes' = a \o b
      BY <1>3, <1>4, <1>5
    <2>2. /\ \A j \in 1 .. i - 1 : a[j] = writes[j]
          /\ \A j \in 1 .. n - i : b[j] = writes[j + i]
      BY <1>4, <1>5
    <2> HIDE DEF a, b
    <2>3. /\ a \o b \in Seq(T) /\ Len(a \o b) = Len(a) + Len(b)
          /\ \A j \in 1 .. Len(a) + Len(b) :
                (a \o b)[j] = IF j <= Len(a) THEN a[j] ELSE b[j - Len(a)]
      BY <2>1, ConcatProperties
    <2>4. ASSUME NEW j \in 1 .. n - 1 PROVE writes'[j] = writes[Back(j)]
      <3>1. CASE j < i
        BY <1>2, <2>1, <2>2, <2>3, <3>1
      <3>2. CASE ~(j < i)
        <4>1. j - (i - 1) \in 1 .. n - i /\ (j - (i - 1)) + i = j + 1
          BY <1>2, <3>2
        <4>2. writes'[j] = b[j - (i - 1)]
          BY <1>2, <2>1, <2>3, <3>2
        <4> QED
          BY <2>2, <3>2, <4>1, <4>2
      <3> QED
        BY <3>1, <3>2
    <2> QED
      BY <1>2, <2>1, <2>3, <2>4
  <1> QED
    BY <1>1, <1>2, <1>6

\* One more write waits.
LEMMA AskStep ==
    ASSUME ExpiryConstants, ExpiryIInv, NEW op, NEW s, E!Ask(op, s),
           WriteOK(E!Asked(op, s, now))',
           op = "create" => \A i \in DOMAIN writes : writes[i].op = "create" => writes[i].session # s,
           \A v : WriteOK(v) => WriteOK(v)',
           now' = now
    PROVE  WritesOK'
  <1> DEFINE w == E!Asked(op, s, now)
  <1>1. PICK n \in Nat : /\ DOMAIN writes = 1 .. n /\ DOMAIN writes' = 1 .. n + 1
                         /\ \A i \in 1 .. n : writes'[i] = writes[i]
                         /\ writes'[n + 1] = w
                         /\ writes' = [i \in 1 .. n + 1 |-> writes'[i]]
    BY AskedIs
  <1>2. w.op = op /\ w.session = s /\ w.at = now
    BY DEF E!Asked
  <1> HIDE DEF w
  <1>3. \A i \in 1 .. n + 1 : i \in 1 .. n \/ i = n + 1
    OBVIOUS
  <1>4. ASSUME NEW i \in DOMAIN writes' PROVE WriteOK(writes[i])'
    <2>1. CASE i \in 1 .. n
      <3> DEFINE v == writes[i]
      <3>1. WriteOK(v) /\ writes'[i] = v
        BY <1>1, <2>1 DEF ExpiryIInv, WritesOK
      <3>2. PICK x : x = v
        OBVIOUS
      <3>3. WriteOK(x)'
        BY <3>1, <3>2
      <3>4. writes'[i] = x
        BY <3>1, <3>2
      <3> QED
        BY <3>3, <3>4 DEF WriteOK
    <2>2. CASE i = n + 1
      <3>1. writes'[i] = w
        BY <1>1, <2>2
      <3>2. WriteOK(w)'
        BY DEF w
      <3> QED
        BY <3>1, <3>2 DEF WriteOK, w, E!Asked
    <2> QED
      BY <1>1, <1>3, <2>1, <2>2
  <1>5. ASSUME NEW i \in DOMAIN writes', NEW j \in DOMAIN writes',
               writes'[i].op = "create", writes'[j].op = "create",
               writes'[i].session = writes'[j].session
        PROVE  i = j
    BY <1>1, <1>2, <1>3, <1>5 DEF ExpiryIInv, WritesOK
  <1> QED
    BY <1>1, <1>4, <1>5 DEF WritesOK

\* One write is done with.
LEMMA RemoveStep ==
    ASSUME ExpiryConstants, ExpiryIInv, NEW i \in DOMAIN writes, writes' = E!RemoveAt(writes, i),
           \A j \in DOMAIN writes : j # i => \A v : v = writes[j] => WriteOK(v)'
    PROVE  WritesOK'
  <1> DEFINE Back(j) == IF j < i THEN j ELSE j + 1
  <1>1. PICK n \in Nat :
              /\ DOMAIN writes = 1 .. n /\ i \in 1 .. n
              /\ n - 1 \in Nat /\ DOMAIN writes' = 1 .. n - 1
              /\ \A j \in 1 .. n - 1 : writes'[j] = writes[Back(j)]
              /\ writes' = [j \in DOMAIN writes' |-> writes'[j]]
    BY RemovedIs
  <1>2. \A j \in 1 .. n - 1 : Back(j) \in 1 .. n /\ Back(j) # i
    BY <1>1
  <1>3. \A j, k \in 1 .. n - 1 : Back(j) = Back(k) => j = k
    BY <1>1
  <1> HIDE DEF Back
  <1>4. ASSUME NEW j \in DOMAIN writes' PROVE WriteOK(writes[j])'
    <2>1. PICK v : v = writes[Back(j)]
      OBVIOUS
    <2>2. WriteOK(v)' /\ writes'[j] = v
      BY <1>1, <1>2, <2>1
    <2> QED
      BY <2>2 DEF WriteOK
  <1>5. ASSUME NEW j \in DOMAIN writes', NEW k \in DOMAIN writes',
                writes'[j].op = "create", writes'[k].op = "create",
                writes'[j].session = writes'[k].session
         PROVE  j = k
    <2>1. /\ writes[Back(j)].op = "create" /\ writes[Back(k)].op = "create"
          /\ writes[Back(j)].session = writes[Back(k)].session
          /\ Back(j) \in DOMAIN writes /\ Back(k) \in DOMAIN writes
      BY <1>1, <1>2, <1>5
    <2>2. Back(j) = Back(k)
      BY <2>1 DEF ExpiryIInv, WritesOK
    <2> QED
      BY <1>1, <1>3, <2>2
  <1> QED
    BY <1>1, <1>4, <1>5 DEF WritesOK

\* What a step that asks for a write at most leaves as it is.
LEMMA WaitingSteps ==
    ASSUME ExpiryConstants, ExpiryIInv,
           \/ \E s \in Sessions : \/ E!Login(s) \/ E!Authenticate(s) \/ E!Logout(s)
                                  \/ E!ChangePassword(s)
           \/ E!Purge
    PROVE  ExpiryIInv'
  <1>1. now \in Times /\ now' = now /\ rowOf' = rowOf /\ ended' = ended /\ (Times)' = Times
        /\ (E!Row)' = E!Row
    BY DEF ExpiryIInv, ExpiryTypes, E!Login, E!Authenticate, E!Logout, E!ChangePassword, E!Purge,
           Times, E!Row
  <1>2. ASSUME NEW s \in Sessions, E!Login(s) PROVE ExpiryIInv'
    <2>1. /\ born[s] = None /\ born' = [born EXCEPT ![s] = now] /\ lastUse' = lastUse
          /\ E!Ask("create", s)
      BY <1>2 DEF E!Login
    <2>2. rowOf[s] = None /\ lastUse[s] = None /\ now # None
      BY <1>1, <2>1 DEF ExpiryIInv, RowOK, ExpiryConstants, Times
    <2>3. \A v \in Sessions : born'[v] = IF v = s THEN now ELSE born[v]
      BY <2>1 DEF ExpiryIInv, ExpiryTypes
    <2>4. ExpiryTypes'
      BY <1>1, <2>1 DEF ExpiryIInv, ExpiryTypes
    <2>5. \A v \in Sessions : RowOK(v)'
      BY <1>1, <2>1, <2>2, <2>3 DEF ExpiryIInv, RowOK
    <2>6. ASSUME NEW v, WriteOK(v) PROVE WriteOK(v)'
      <3>1. v.op # "purge" => v.session \in Sessions
        BY <2>6 DEF WriteOK
      <3>2. v.op = "create" => v.session # s
        BY <2>1, <2>6 DEF WriteOK, ExpiryConstants, Times
      <3> QED
        BY <1>1, <2>1, <2>3, <2>6, <3>1, <3>2 DEF WriteOK
    <2>7. \A i \in DOMAIN writes : writes[i].op = "create" => writes[i].session # s
      BY <2>1 DEF ExpiryIInv, WritesOK, WriteOK, ExpiryConstants, Times
    <2>8. WriteOK(E!Asked("create", s, now))'
      BY <1>1, <2>1, <2>2, <2>3 DEF WriteOK, E!Asked, Times
    <2>9. WritesOK'
      BY <1>1, <2>1, <2>6, <2>7, <2>8, AskStep
    <2> QED
      BY <2>4, <2>5, <2>9 DEF ExpiryIInv
  <1>3. ASSUME NEW s \in Sessions, E!Authenticate(s) PROVE ExpiryIInv'
    <2>1. /\ rowOf[s] # None /\ born' = born /\ lastUse' = [lastUse EXCEPT ![s] = now]
          /\ writes' = writes \/ E!Ask("touch", s)
      BY <1>3 DEF E!Authenticate, E!Alive
    <2>2. lastUse[s] # None /\ lastUse[s] <= now /\ now # None
          /\ lastUse[s] \in Nat /\ now \in Nat /\ rowOf[s] \in E!Row
      BY <1>1, <2>1 DEF ExpiryIInv, RowOK, ExpiryTypes, ExpiryConstants, Times
    <2>3. \A v \in Sessions : lastUse'[v] = IF v = s THEN now ELSE lastUse[v]
      BY <2>1 DEF ExpiryIInv, ExpiryTypes
    <2>4. ExpiryTypes'
      BY <1>1, <2>1, <2>2, <2>3 DEF ExpiryIInv, ExpiryTypes
    <2>5. ASSUME NEW v \in Sessions PROVE RowOK(v)'
      <3>1. CASE v = s
        <4>1. RowOK(s) /\ rowOf[s].seen \in Nat /\ s \notin ended
          BY <2>1, <2>2 DEF ExpiryIInv, RowOK, E!Row
        <4>2. rowOf[s].seen <= now
          BY <2>1, <2>2, <4>1 DEF RowOK
        <4> QED
          BY <1>1, <2>1, <2>2, <2>3, <3>1, <4>1, <4>2 DEF RowOK
      <3>2. CASE v # s
        <4>1. lastUse'[v] = lastUse[v]
          BY <2>3, <3>2
        <4> QED
          BY <1>1, <2>1, <4>1 DEF ExpiryIInv, RowOK
      <3> QED
        BY <3>1, <3>2
    <2>6. ASSUME NEW v, WriteOK(v) PROVE WriteOK(v)'
      <3>1. v.op # "purge" => v.session \in Sessions
        BY <2>6 DEF WriteOK
      <3>2. CASE v.op # "purge" /\ v.session = s
        BY <1>1, <2>1, <2>2, <2>3, <2>6, <3>2 DEF WriteOK
      <3>3. CASE ~(v.op # "purge" /\ v.session = s)
        <4>1. v.op # "purge" => lastUse'[v.session] = lastUse[v.session]
          BY <2>3, <3>1, <3>3
        <4> QED
          BY <1>1, <2>1, <2>6, <4>1 DEF WriteOK
      <3> QED
        BY <3>2, <3>3
    <2>7. WriteOK(E!Asked("touch", s, now))'
      BY <1>1, <2>2, <2>3 DEF WriteOK, E!Asked
    <2>8. WritesOK'
      <3>1. CASE writes' = writes
        <4>1. \A i \in DOMAIN writes : WriteOK(writes[i])'
          <5> SUFFICES ASSUME NEW i \in DOMAIN writes PROVE WriteOK(writes[i])'
            OBVIOUS
          <5>1. PICK v : v = writes[i]
            OBVIOUS
          <5>2. WriteOK(v)'
            BY <2>6, <5>1 DEF ExpiryIInv, WritesOK
          <5> QED
            BY <3>1, <5>1, <5>2 DEF WriteOK
        <4> QED
          BY <3>1, <4>1 DEF ExpiryIInv, WritesOK
      <3>2. CASE E!Ask("touch", s)
        BY <1>1, <2>6, <2>7, <3>2, AskStep
      <3> QED
        BY <2>1, <3>1, <3>2
    <2> QED
      BY <2>4, <2>5, <2>8 DEF ExpiryIInv
  <1>4. ASSUME NEW op \in {"revoke", "displace", "purge"}, NEW s, E!Ask(op, s),
               born' = born, lastUse' = lastUse,
               op # "purge" => s \in Sessions,
               op = "revoke" => lastUse[s] # None
        PROVE  ExpiryIInv'
    <2>1. ExpiryTypes' /\ \A v \in Sessions : RowOK(v)'
      BY <1>1, <1>4 DEF ExpiryIInv, ExpiryTypes, RowOK
    <2>2. \A v : WriteOK(v) => WriteOK(v)'
      BY <1>1, <1>4 DEF WriteOK
    <2>3. WriteOK(E!Asked(op, s, now))'
      <3>1. E!Asked(op, s, now).op = op /\ E!Asked(op, s, now).session = s
            /\ E!Asked(op, s, now).at = now
        BY DEF E!Asked
      <3>2. PICK v : v = E!Asked(op, s, now)
        OBVIOUS
      <3>3. v.op = op /\ v.session = s /\ v.at = now
        BY <3>1, <3>2
      <3>4. WriteOK(v)'
        BY <1>1, <1>4, <3>3 DEF WriteOK, Times
      <3>5. E!Asked(op, s, now)' = v
        BY <1>1, <3>2 DEF E!Asked
      <3> QED
        BY <3>4, <3>5 DEF WriteOK, E!Asked
    <2>4. WritesOK'
      BY <1>1, <1>4, <2>2, <2>3, AskStep
    <2> QED
      BY <2>1, <2>4 DEF ExpiryIInv
  <1>5. ASSUME NEW s \in Sessions, E!Logout(s) \/ E!ChangePassword(s) PROVE ExpiryIInv'
    BY <1>4, <1>5 DEF E!Logout, E!ChangePassword
  <1>6. ASSUME E!Purge PROVE ExpiryIInv'
    BY <1>4, <1>6 DEF E!Purge
  <1> QED
    BY <1>2, <1>3, <1>5, <1>6

\* The expiry a write leaves.
LEMMA Folding ==
    ASSUME ExpiryConstants, NEW created \in Times, NEW at \in Times
    PROVE  LET e == E!FoldedExpiry(created, at)
           IN /\ e \in 1 .. MaxTime + IdleLimit
              /\ e <= created + Absolute /\ e <= at + IdleLimit
  BY DEF E!FoldedExpiry, E!Least, ExpiryConstants, Times

LEMMA CreateWrite ==
    ASSUME ExpiryConstants, ExpiryIInv, NEW i \in DOMAIN writes, writes[i].op = "create",
           rowOf' = E!Created(writes[i]),
           lastUse' = [lastUse EXCEPT ![writes[i].session] = writes[i].at],
           ended' = ended, writes' = E!RemoveAt(writes, i), now' = now, born' = born
    PROVE  ExpiryIInv'
  <1> DEFINE s == writes[i].session
             at == writes[i].at
             new == [created |-> at, seen |-> at, expires |-> E!FoldedExpiry(at, at)]
  <1>1. /\ s \in Sessions /\ at \in Times /\ at <= now /\ born[s] = at
        /\ rowOf[s] = None /\ lastUse[s] = None
    BY DEF ExpiryIInv, WritesOK, WriteOK
  <1>2. new \in E!Row /\ new.created = at /\ new.seen = at
        /\ new.expires <= at + Absolute /\ new.expires <= at + IdleLimit
    BY <1>1, Folding DEF E!Row, Times
  <1>3. rowOf' = [rowOf EXCEPT ![s] = new]
    BY DEF E!Created
  <1>4. at \in Nat /\ at # None /\ (Times)' = Times /\ (E!Row)' = E!Row
    BY <1>1 DEF Times, ExpiryConstants, E!Row
  <1>5. lastUse' = [lastUse EXCEPT ![s] = at]
    OBVIOUS
  <1>6. \A j \in DOMAIN writes : j # i /\ writes[j].op = "create" => writes[j].session # s
    BY DEF ExpiryIInv, WritesOK
  <1> HIDE DEF new, s, at
  <1>7. \A v \in Sessions : /\ rowOf'[v] = IF v = s THEN new ELSE rowOf[v]
                            /\ lastUse'[v] = IF v = s THEN at ELSE lastUse[v]
    BY <1>3, <1>5 DEF ExpiryIInv, ExpiryTypes
  <1>8. ExpiryTypes'
    BY <1>1, <1>2, <1>3, <1>4, <1>5, <1>7 DEF ExpiryIInv, ExpiryTypes
  <1>9. ASSUME NEW v \in Sessions PROVE RowOK(v)'
    <2>1. CASE v = s
      BY <1>1, <1>2, <1>4, <1>7, <2>1 DEF ExpiryIInv, RowOK
    <2>2. CASE v # s
      BY <1>7, <2>2 DEF ExpiryIInv, RowOK
    <2> QED
      BY <2>1, <2>2
  <1>10. ASSUME NEW j \in DOMAIN writes, j # i, NEW v, v = writes[j] PROVE WriteOK(v)'
    <2>1. WriteOK(v) /\ (v.op = "create" => v.session # s)
          /\ (v.op # "purge" => v.session \in Sessions)
      BY <1>6, <1>10 DEF ExpiryIInv, WritesOK, WriteOK
    <2>2. CASE v.op # "purge" /\ v.session = s
      BY <1>1, <1>4, <1>7, <2>1, <2>2 DEF WriteOK
    <2>3. CASE ~(v.op # "purge" /\ v.session = s)
      <3>1. v.op # "purge" => /\ rowOf'[v.session] = rowOf[v.session]
                              /\ lastUse'[v.session] = lastUse[v.session]
        BY <1>7, <2>1, <2>3
      <3> QED
        BY <1>4, <2>1, <3>1 DEF WriteOK
    <2> QED
      BY <2>2, <2>3
  <1>11. WritesOK'
    BY <1>10, RemoveStep
  <1> QED
    BY <1>8, <1>9, <1>11 DEF ExpiryIInv

\* The other writes: rows go, or one row is touched; no row comes.
LEMMA OtherWrite ==
    ASSUME ExpiryConstants, ExpiryIInv, NEW i \in DOMAIN writes,
           rowOf' \in [Sessions -> E!Row \cup {None}],
           \A s \in Sessions :
              \/ rowOf'[s] = rowOf[s]
              \/ rowOf'[s] = None
              \/ /\ rowOf[s] # None /\ rowOf'[s].created = rowOf[s].created
                 /\ rowOf'[s].seen <= lastUse[s]
                 /\ rowOf'[s].expires <= rowOf'[s].created + Absolute
                 /\ rowOf'[s].expires <= rowOf'[s].seen + IdleLimit,
           ended' \subseteq Sessions,
           \A s \in ended' : rowOf'[s] = None /\ (s \in ended \/ lastUse[s] # None),
           lastUse' = lastUse, writes' = E!RemoveAt(writes, i), now' = now, born' = born
    PROVE  ExpiryIInv'
  <1>1. (Times)' = Times /\ (E!Row)' = E!Row
    BY DEF Times, E!Row
  <1>2. \A s \in Sessions : rowOf[s] = None => rowOf'[s] = None
    OBVIOUS
  <1>3. ExpiryTypes'
    BY <1>1 DEF ExpiryIInv, ExpiryTypes
  <1>4. \A s \in Sessions : RowOK(s)'
    BY DEF ExpiryIInv, RowOK
  <1>5. ASSUME NEW j \in DOMAIN writes, j # i, NEW v, v = writes[j] PROVE WriteOK(v)'
    <2>1. WriteOK(v) /\ (v.op # "purge" => v.session \in Sessions)
      BY <1>5 DEF ExpiryIInv, WritesOK, WriteOK
    <2> QED
      BY <1>1, <1>2, <2>1 DEF WriteOK
  <1>6. WritesOK'
    BY <1>5, RemoveStep
  <1> QED
    BY <1>3, <1>4, <1>6 DEF ExpiryIInv

LEMMA DeletedIs ==
    ASSUME ExpiryConstants, ExpiryIInv, NEW gone
    PROVE  /\ E!Deleted(gone) \in [Sessions -> E!Row \cup {None}]
           /\ \A s \in Sessions : E!Deleted(gone)[s] = IF s \in gone THEN None ELSE rowOf[s]
  BY DEF E!Deleted, ExpiryIInv, ExpiryTypes

LEMMA ApplyStep == ASSUME ExpiryConstants, ExpiryIInv, E!Apply PROVE ExpiryIInv'
  <1>1. PICK i \in DOMAIN writes :
           /\ rowOf' = E!Effect(writes[i])
           /\ ended' = ended \cup E!Ended(writes[i])
           /\ lastUse' = IF writes[i].op = "create"
                         THEN [lastUse EXCEPT ![writes[i].session] = writes[i].at] ELSE lastUse
           /\ writes' = E!RemoveAt(writes, i)
           /\ UNCHANGED <<now, born>>
    BY DEF E!Apply
  <1> DEFINE w == writes[i]
  <1>2. WriteOK(w)
    BY DEF ExpiryIInv, WritesOK
  <1>3. CASE w.op = "create"
    <2>1. E!Ended(w) = {} /\ E!Effect(w) = E!Created(w)
      BY <1>3 DEF E!Ended, E!Effect
    <2> QED
      BY <1>1, <1>3, <2>1, CreateWrite
  <1>4. CASE w.op = "touch"
    <2>1. E!Ended(w) = {} /\ E!Effect(w) = E!Touched(w) /\ lastUse' = lastUse
      BY <1>1, <1>4 DEF E!Ended, E!Effect
    <2>2. w.session \in Sessions /\ w.at \in Times /\ w.at <= lastUse[w.session]
      BY <1>2, <1>4 DEF WriteOK
    <2>3. CASE rowOf[w.session] = None
      <3>1. rowOf' = rowOf /\ ended' = ended
        BY <1>1, <2>1, <2>3 DEF E!Touched
      <3> QED
        BY <1>1, <2>1, <3>1, OtherWrite DEF ExpiryIInv, ExpiryTypes, RowOK
    <2>4. CASE rowOf[w.session] # None
      <3> DEFINE s == w.session
                 at == w.at
                 old == rowOf[s]
                 e == E!FoldedExpiry(old.created, at)
                 new == [old EXCEPT !.seen = at, !.expires = e]
      <3>1. s \in Sessions /\ at \in Times /\ at <= lastUse[s] /\ old # None
        BY <2>2, <2>4
      <3>2. old \in E!Row /\ old.created \in Times
        BY <3>1 DEF ExpiryIInv, ExpiryTypes, E!Row, Times
      <3>3. rowOf' = [rowOf EXCEPT ![s].seen = at, ![s].expires = e]
        BY <1>1, <2>1, <2>4 DEF E!Touched
      <3>4. e \in 1 .. MaxTime + IdleLimit /\ e <= old.created + Absolute /\ e <= at + IdleLimit
        BY <3>1, <3>2, Folding
      <3> HIDE DEF e
      <3>5. new \in E!Row /\ new.created = old.created /\ new.seen = at /\ new.expires = e
        BY <3>1, <3>2, <3>4 DEF E!Row, Times
      <3>6. rowOf' = [rowOf EXCEPT ![s] = new]
        BY <3>1, <3>3 DEF ExpiryIInv, ExpiryTypes
      <3> HIDE DEF s, at, new, w
      <3>7. rowOf' \in [Sessions -> E!Row \cup {None}]
            /\ \A v \in Sessions : rowOf'[v] = IF v = s THEN new ELSE rowOf[v]
        BY <3>5, <3>6 DEF ExpiryIInv, ExpiryTypes
      <3>8. s \notin ended
        BY <3>1 DEF ExpiryIInv, RowOK
      <3>9. ended' = ended
        BY <1>1, <2>1 DEF w
      <3>10. ended' \subseteq Sessions /\ \A v \in ended' :
                rowOf'[v] = None /\ (v \in ended \/ lastUse[v] # None)
        BY <3>7, <3>8, <3>9 DEF ExpiryIInv, ExpiryTypes, RowOK
      <3>11. \A v \in Sessions :
                \/ rowOf'[v] = rowOf[v]
                \/ rowOf'[v] = None
                \/ /\ rowOf[v] # None /\ rowOf'[v].created = rowOf[v].created
                   /\ rowOf'[v].seen <= lastUse[v]
                   /\ rowOf'[v].expires <= rowOf'[v].created + Absolute
                   /\ rowOf'[v].expires <= rowOf'[v].seen + IdleLimit
        BY <3>1, <3>4, <3>5, <3>7
      <3> QED
        BY <1>1, <2>1, <3>7, <3>10, <3>11, OtherWrite
    <2> QED
      BY <2>3, <2>4
  <1>5. CASE w.op = "purge"
    <2>1. E!Ended(w) = {} /\ E!Effect(w) = E!Deleted(E!Expired(w.at)) /\ lastUse' = lastUse
      BY <1>1, <1>5 DEF E!Ended, E!Effect
    <2>2. rowOf' = E!Deleted(E!Expired(w.at)) /\ ended' = ended
      BY <1>1, <2>1
    <2>3. /\ rowOf' \in [Sessions -> E!Row \cup {None}]
          /\ \A s \in Sessions : rowOf'[s] = rowOf[s] \/ rowOf'[s] = None
      BY <2>2, DeletedIs
    <2>4. ended' \subseteq Sessions /\ \A s \in ended' : rowOf'[s] = None /\ s \in ended
      BY <2>2, <2>3 DEF ExpiryIInv, ExpiryTypes, RowOK
    <2> QED
      BY <1>1, <2>1, <2>3, <2>4, OtherWrite
  <1>6. CASE w.op \in {"revoke", "displace"}
    <2>1. E!Effect(w) = E!Deleted(E!Ended(w)) /\ lastUse' = lastUse
      BY <1>1, <1>6 DEF E!Effect
    <2>2. E!Ended(w) \subseteq Sessions /\ \A s \in E!Ended(w) : lastUse[s] # None
      <3>1. CASE w.op = "revoke"
        BY <1>2, <3>1 DEF E!Ended, WriteOK
      <3>2. CASE w.op = "displace"
        BY <3>2 DEF E!Ended, ExpiryIInv, RowOK
      <3> QED
        BY <1>6, <3>1, <3>2
    <2>3. rowOf' = E!Deleted(E!Ended(w)) /\ ended' = ended \cup E!Ended(w)
      BY <1>1, <2>1
    <2>4. /\ rowOf' \in [Sessions -> E!Row \cup {None}]
          /\ \A s \in Sessions : rowOf'[s] = IF s \in E!Ended(w) THEN None ELSE rowOf[s]
      BY <2>3, DeletedIs
    <2>5. /\ ended' \subseteq Sessions
          /\ \A s \in ended' : rowOf'[s] = None /\ (s \in ended \/ lastUse[s] # None)
      BY <2>2, <2>3, <2>4 DEF ExpiryIInv, ExpiryTypes, RowOK
    <2> QED
      BY <1>1, <2>1, <2>4, <2>5, OtherWrite
  <1> QED
    BY <1>2, <1>3, <1>4, <1>5, <1>6 DEF WriteOK

LEMMA ExpiryStep == ExpiryConstants /\ ExpiryIInv /\ [E!Next]_(E!vars) => ExpiryIInv'
  <1> SUFFICES ASSUME ExpiryConstants, ExpiryIInv, [E!Next]_(E!vars) PROVE ExpiryIInv'
    OBVIOUS
  <1>1. (Times)' = Times /\ (E!Row)' = E!Row
    BY DEF Times, E!Row
  <1>2. CASE UNCHANGED E!vars
    <2>1. ExpiryTypes' /\ \A s \in Sessions : RowOK(s)'
      BY <1>1, <1>2 DEF E!vars, ExpiryIInv, ExpiryTypes, RowOK
    <2>2. WritesOK'
      BY <1>1, <1>2 DEF E!vars, ExpiryIInv, WritesOK, WriteOK
    <2> QED
      BY <2>1, <2>2 DEF ExpiryIInv
  <1>3. CASE E!Tick
    <2>1. now' \in Times /\ now \in Nat /\ now' = now + 1
      BY <1>3 DEF E!Tick, ExpiryIInv, ExpiryTypes, Times, ExpiryConstants
    <2>2. UNCHANGED <<rowOf, writes, born, lastUse, ended>>
      BY <1>3 DEF E!Tick
    <2>3. \A s \in Sessions : RowOK(s)'
      BY <2>2 DEF ExpiryIInv, RowOK
    <2>4. \A s \in Sessions : lastUse'[s] # None => lastUse'[s] <= now'
      BY <2>1, <2>2 DEF ExpiryIInv, ExpiryTypes, Times
    <2>5. ExpiryTypes'
      BY <1>1, <2>1, <2>2, <2>4 DEF ExpiryIInv, ExpiryTypes
    <2>6. \A i \in DOMAIN writes : WriteOK(writes[i])'
      BY <1>1, <2>1, <2>2 DEF ExpiryIInv, WritesOK, WriteOK, Times
    <2>7. WritesOK'
      BY <2>2, <2>6 DEF ExpiryIInv, WritesOK
    <2> QED
      BY <2>3, <2>5, <2>7 DEF ExpiryIInv
  <1>4. CASE E!TouchFails
    <2>1. PICK i \in DOMAIN writes : writes' = E!RemoveAt(writes, i)
      BY <1>4 DEF E!TouchFails
    <2>2. UNCHANGED <<now, rowOf, born, lastUse, ended>>
      BY <1>4 DEF E!TouchFails
    <2> QED
      BY <2>1, <2>2, OtherWrite DEF ExpiryIInv, ExpiryTypes, RowOK
  <1> QED
    BY <1>2, <1>3, <1>4, WaitingSteps, ApplyStep DEF E!Next

\* However late a touch takes effect, on either adapter, no session outlives its
\* absolute cap, and one that was logged out, displaced or purged does not come
\* back.
THEOREM SessionsEnd ==
    ExpiryConstants /\ E!Spec => [](E!AbsoluteCap /\ E!RevokedStaysDead)
  <1> SUFFICES ASSUME ExpiryConstants PROVE E!Spec => [](E!AbsoluteCap /\ E!RevokedStaysDead)
    OBVIOUS
  <1>1. E!Init => ExpiryIInv
    BY InitExpiry
  <1>2. ExpiryIInv /\ [E!Next]_(E!vars) => ExpiryIInv'
    BY ExpiryStep
  <1>3. ExpiryIInv => E!AbsoluteCap /\ E!RevokedStaysDead
    <2> SUFFICES ASSUME ExpiryIInv
                 PROVE  E!AbsoluteCap /\ E!RevokedStaysDead
      OBVIOUS
    <2>1. ASSUME NEW s \in Sessions, E!Alive(s) PROVE now < born[s] + Absolute
      <3>1. rowOf[s] \in E!Row /\ rowOf[s] # None
        BY <2>1 DEF E!Alive, ExpiryIInv, ExpiryTypes
      <3> QED
        BY <2>1, <3>1 DEF E!Alive, ExpiryIInv, ExpiryTypes, RowOK, E!Row, Times, ExpiryConstants
    <2> QED
      BY <2>1 DEF E!AbsoluteCap, E!RevokedStaysDead, ExpiryIInv, ExpiryTypes, RowOK
  <1> QED
    BY <1>1, <1>2, <1>3, PTL DEF E!Spec

\* A session answers a request only if it answered another within the idle
\* limit: by its use, not by when that was written down, and lost touches only
\* make it shorter.
THEOREM IdleSessionsEnd == ExpiryConstants /\ E!Spec => [][E!IdleEnds]_(E!vars)
  <1> SUFFICES ASSUME ExpiryConstants PROVE E!Spec => [][E!IdleEnds]_(E!vars)
    OBVIOUS
  <1>1. E!Init => ExpiryIInv
    BY InitExpiry
  <1>2. ExpiryIInv /\ [E!Next]_(E!vars) => ExpiryIInv'
    BY ExpiryStep
  <1>3. ExpiryIInv /\ [E!Next]_(E!vars) => [E!IdleEnds]_(E!vars)
    <2> SUFFICES ASSUME ExpiryIInv, E!Next, NEW s \in Sessions,
                        lastUse[s] # None, lastUse'[s] # lastUse[s]
                 PROVE  lastUse'[s] - lastUse[s] < IdleLimit
      BY DEF E!IdleEnds
    <2>1. ASSUME NEW v \in Sessions, E!Authenticate(v) PROVE lastUse'[s] - lastUse[s] < IdleLimit
      <3>1. v = s /\ lastUse'[s] = now
        BY <2>1 DEF E!Authenticate, ExpiryIInv, ExpiryTypes
      <3>2. rowOf[s] \in E!Row /\ rowOf[s] # None /\ rowOf[s].expires > now
        BY <2>1, <3>1 DEF E!Authenticate, E!Alive, ExpiryIInv, ExpiryTypes
      <3>3. lastUse[s] \in Nat /\ now \in Nat
        BY DEF ExpiryIInv, ExpiryTypes, Times
      <3>4. rowOf[s].expires <= rowOf[s].seen + IdleLimit /\ rowOf[s].seen <= lastUse[s]
        BY <3>2 DEF ExpiryIInv, RowOK
      <3> QED
        BY <3>1, <3>2, <3>3, <3>4 DEF E!Row, ExpiryConstants
    <2>2. ASSUME E!Apply PROVE FALSE
      <3>1. PICK i \in DOMAIN writes :
               lastUse' = IF writes[i].op = "create"
                          THEN [lastUse EXCEPT ![writes[i].session] = writes[i].at] ELSE lastUse
        BY <2>2 DEF E!Apply
      <3>2. WriteOK(writes[i])
        BY DEF ExpiryIInv, WritesOK
      <3> QED
        BY <3>1, <3>2 DEF WriteOK, ExpiryIInv, ExpiryTypes
    <2> QED
      BY <2>1, <2>2
      DEF E!Next, E!Login, E!Logout, E!ChangePassword, E!Purge, E!TouchFails, E!Tick
  <1> QED
    BY <1>1, <1>2, <1>3, PTL DEF E!Spec

-----------------------------------------------------------------------------
(* Sessions that are used (SessionExpiry on SQLite).  Two clocks are at      *)
(* work: a row says when it was last touched, lastUse when it was last used. *)
(* UseIInv ties them: what lies between is less than a throttle window, or   *)
(* the touch that closes the gap still waits, and no purge before it.        *)

UseConstants ==
    ExpiryConstants /\ Throttle \in Nat \ {0} /\ Postgres = FALSE /\ LosesWrites = FALSE

\* When the touches of a session that still wait were asked for.
Touches(s) == {writes[i].at : i \in E!TouchesOf(s)}

InOrder == \A i, j \in DOMAIN writes : i <= j => writes[i].at <= writes[j].at

\* A row in use is touched, or about to be, in the throttle window of its use.
Fresh(s) ==
    rowOf[s] # None =>
        /\ rowOf[s].expires = E!FoldedExpiry(rowOf[s].created, rowOf[s].seen)
        /\ \E t \in Touches(s) \cup {rowOf[s].seen} : lastUse[s] - t < Throttle
        /\ \A t \in Touches(s) : rowOf[s].seen <= t /\ t < rowOf[s].expires

\* A row that is gone, and was not ended, had its time.
Overdue(s) == now > lastUse[s] + IdleLimit - Throttle \/ now >= born[s] + Absolute
GoneLate(s) == rowOf[s] = None /\ lastUse[s] # None /\ s \notin ended => Overdue(s)

UseIInv == ExpiryIInv /\ InOrder /\ \A s \in Sessions : Fresh(s) /\ GoneLate(s)

LEMMA AskTouches ==
    ASSUME ExpiryConstants, ExpiryIInv, InOrder, NEW op, NEW s, E!Ask(op, s)
    PROVE  /\ InOrder'
           /\ \A v : Touches(v)' = Touches(v) \cup (IF op = "touch" /\ v = s THEN {now} ELSE {})
  <1>1. PICK n \in Nat : /\ DOMAIN writes = 1 .. n /\ DOMAIN writes' = 1 .. n + 1
                         /\ \A i \in 1 .. n : writes'[i] = writes[i]
                         /\ writes'[n + 1] = E!Asked(op, s, now)
    BY AskedIs
  <1> DEFINE w == E!Asked(op, s, now)
  <1>2. w.op = op /\ w.session = s /\ w.at = now
    BY DEF E!Asked
  <1> HIDE DEF w
  <1>3. writes'[n + 1] = w
    BY <1>1 DEF w
  <1>4. \A i \in 1 .. n + 1 : i \in 1 .. n \/ i = n + 1
    OBVIOUS
  <1>5. \A i \in 1 .. n : writes[i].at <= now
    BY <1>1 DEF ExpiryIInv, WritesOK, WriteOK
  <1>6. InOrder'
    <2>1. ASSUME NEW i \in 1 .. n + 1, NEW j \in 1 .. n + 1, i <= j
          PROVE  writes'[i].at <= writes'[j].at
      <3>1. CASE j \in 1 .. n
        <4>1. i \in 1 .. n
          BY <2>1, <3>1
        <4> QED
          BY <1>1, <2>1, <3>1, <4>1 DEF InOrder
      <3>2. CASE j = n + 1
        <4>1. now <= now
          BY DEF ExpiryIInv, ExpiryTypes, Times
        <4> QED
          BY <1>1, <1>2, <1>3, <1>4, <1>5, <3>2, <4>1
      <3> QED
        BY <1>4, <3>1, <3>2
    <2> QED
      BY <1>1, <2>1 DEF InOrder
  <1>7. ASSUME NEW v
        PROVE  Touches(v)' = Touches(v) \cup (IF op = "touch" /\ v = s THEN {now} ELSE {})
    <2>1. E!TouchesOf(v) = {i \in 1 .. n : writes[i].op = "touch" /\ writes[i].session = v}
      BY <1>1 DEF E!TouchesOf
    <2>2. E!TouchesOf(v)' = {i \in 1 .. n + 1 : writes'[i].op = "touch" /\ writes'[i].session = v}
      BY <1>1 DEF E!TouchesOf
    <2>3. E!TouchesOf(v)' = E!TouchesOf(v) \cup (IF op = "touch" /\ v = s THEN {n + 1} ELSE {})
      BY <1>1, <1>2, <1>3, <1>4, <2>1, <2>2
    <2>4. \A i \in E!TouchesOf(v) : writes'[i] = writes[i]
      BY <1>1, <2>1
    <2> HIDE DEF E!TouchesOf
    <2> QED
      BY <1>2, <1>3, <2>3, <2>4 DEF Touches
  <1> QED
    BY <1>6, <1>7

LEMMA FirstDone ==
    ASSUME ExpiryConstants, ExpiryIInv, InOrder, 1 \in DOMAIN writes,
           writes' = E!RemoveAt(writes, 1)
    PROVE  /\ InOrder'
           /\ \A v : /\ Touches(v)' \subseteq Touches(v)
                     /\ Touches(v) \subseteq Touches(v)' \cup {writes[1].at}
                     /\ writes[1].op # "touch" \/ writes[1].session # v
                           => Touches(v) = Touches(v)'
                     /\ \A t \in Touches(v) : writes[1].at <= t
  <1>1. PICK n \in Nat :
              /\ DOMAIN writes = 1 .. n /\ 1 \in 1 .. n
              /\ n - 1 \in Nat /\ DOMAIN writes' = 1 .. n - 1
              /\ \A j \in 1 .. n - 1 : writes'[j] = writes[IF j < 1 THEN j ELSE j + 1]
    BY RemovedIs
  <1>2. \A j \in 1 .. n - 1 : writes'[j] = writes[j + 1] /\ j + 1 \in 1 .. n
    BY <1>1
  <1>3. \A i \in 1 .. n : i = 1 \/ (i - 1 \in 1 .. n - 1 /\ (i - 1) + 1 = i)
    BY <1>1
  <1>4. InOrder'
    <2>1. ASSUME NEW i \in 1 .. n - 1, NEW j \in 1 .. n - 1, i <= j
          PROVE  writes'[i].at <= writes'[j].at
      <3>1. i + 1 <= j + 1
        BY <2>1
      <3> QED
        BY <1>1, <1>2, <3>1 DEF InOrder
    <2> QED
      BY <1>1, <2>1 DEF InOrder
  <1>5. ASSUME NEW v
        PROVE  /\ Touches(v)' \subseteq Touches(v)
               /\ Touches(v) \subseteq Touches(v)' \cup {writes[1].at}
               /\ writes[1].op # "touch" \/ writes[1].session # v => Touches(v) = Touches(v)'
               /\ \A t \in Touches(v) : writes[1].at <= t
    <2>1. E!TouchesOf(v) = {i \in 1 .. n : writes[i].op = "touch" /\ writes[i].session = v}
      BY <1>1 DEF E!TouchesOf
    <2>2. E!TouchesOf(v)' = {i \in 1 .. n - 1 : writes'[i].op = "touch" /\ writes'[i].session = v}
      BY <1>1 DEF E!TouchesOf
    <2>3. \A i \in E!TouchesOf(v)' : i + 1 \in E!TouchesOf(v) /\ writes'[i].at = writes[i + 1].at
      BY <1>2, <2>1, <2>2
    <2>4. \A i \in E!TouchesOf(v) :
             \/ i = 1
             \/ i - 1 \in E!TouchesOf(v)' /\ writes'[i - 1].at = writes[i].at
      BY <1>2, <1>3, <2>1, <2>2
    <2>5. writes[1].op # "touch" \/ writes[1].session # v => 1 \notin E!TouchesOf(v)
      BY <2>1
    <2>6. \A i \in E!TouchesOf(v) : i \in 1 .. n /\ 1 <= i
      BY <2>1
    <2> HIDE DEF E!TouchesOf
    <2>7. /\ Touches(v)' \subseteq Touches(v)
          /\ Touches(v) \subseteq Touches(v)' \cup {writes[1].at}
      BY <2>3, <2>4 DEF Touches
    <2>8. writes[1].op # "touch" \/ writes[1].session # v => Touches(v) = Touches(v)'
      BY <2>4, <2>5, <2>7 DEF Touches
    <2>9. \A t \in Touches(v) : writes[1].at <= t
      BY <1>1, <2>6 DEF Touches, InOrder
    <2> QED
      BY <2>7, <2>8, <2>9
  <1> QED
    BY <1>4, <1>5

LEMMA FoldedIs ==
    ASSUME ExpiryConstants, NEW c \in Nat, NEW at \in Nat, NEW later \in Nat, at <= later
    PROVE  /\ E!FoldedExpiry(c, at) \in Nat /\ E!FoldedExpiry(c, at) <= E!FoldedExpiry(c, later)
           /\ E!FoldedExpiry(c, at) = at + IdleLimit \/ E!FoldedExpiry(c, at) = c + Absolute
  BY DEF E!FoldedExpiry, E!Least, ExpiryConstants

\* What the conjuncts for one session look at.
LEMMA SameSession ==
    ASSUME ExpiryConstants, UseIInv, NEW s \in Sessions,
           rowOf'[s] = rowOf[s], lastUse'[s] = lastUse[s], Touches(s)' = Touches(s),
           now' = now, born'[s] = born[s] \/ lastUse[s] = None, ended \subseteq ended'
    PROVE  Fresh(s)' /\ GoneLate(s)'
  BY DEF UseIInv, Fresh, GoneLate, Overdue, E!FoldedExpiry, E!Least

\* A row whose time is up was not used for the idle limit less a throttle
\* window, unless a touch waits; and one that waits was asked for before.
LEMMA TimeIsUp ==
    ASSUME UseConstants, UseIInv, NEW s \in Sessions, rowOf[s] # None,
           rowOf[s].expires <= now,
           \A t \in Touches(s) : rowOf[s].expires <= t
    PROVE  Overdue(s)
  <1>1. /\ rowOf[s] \in E!Row /\ lastUse[s] \in Nat /\ now \in Nat
        /\ born[s] = rowOf[s].created
    BY DEF UseConstants, UseIInv, ExpiryIInv, ExpiryTypes, RowOK, Times
  <1>2. rowOf[s].created \in Nat /\ rowOf[s].seen \in Nat /\ rowOf[s].expires \in Nat
    BY <1>1 DEF E!Row
  <1>3. Touches(s) = {}
    <2> SUFFICES ASSUME NEW t \in Touches(s) PROVE FALSE
      OBVIOUS
    <2>1. rowOf[s].expires <= t /\ t < rowOf[s].expires
      BY DEF UseIInv, Fresh
    <2>2. t \in Int
      <3>1. PICK i \in DOMAIN writes : t = writes[i].at
        BY DEF Touches, E!TouchesOf
      <3> QED
        BY <3>1 DEF UseIInv, ExpiryIInv, WritesOK, WriteOK, Times
    <2> QED
      BY <1>2, <2>1, <2>2
  <1>4. lastUse[s] - rowOf[s].seen < Throttle
    BY <1>3 DEF UseIInv, Fresh
  <1>5. rowOf[s].expires = rowOf[s].seen + IdleLimit
        \/ rowOf[s].expires = rowOf[s].created + Absolute
    <2>1. rowOf[s].expires = E!FoldedExpiry(rowOf[s].created, rowOf[s].seen)
      BY DEF UseIInv, Fresh
    <2>2. rowOf[s].seen <= rowOf[s].seen
      BY <1>2
    <2> QED
      BY <1>2, <2>1, <2>2, FoldedIs DEF UseConstants
  <1> QED
    BY <1>1, <1>2, <1>4, <1>5 DEF Overdue, UseConstants, ExpiryConstants

LEMMA InitUse == ASSUME UseConstants, E!Init PROVE UseIInv
  <1>1. ExpiryIInv
    BY InitExpiry DEF UseConstants
  <1>2. writes = <<>> /\ DOMAIN writes = 1 .. 0
    BY DEF E!Init
  <1>3. \A s \in Sessions : rowOf[s] = None /\ lastUse[s] = None
    BY DEF E!Init
  <1> QED
    BY <1>1, <1>2, <1>3 DEF UseIInv, InOrder, Fresh, GoneLate

LEMMA AskingKeepsUse ==
    ASSUME UseConstants, UseIInv, ExpiryIInv',
           \/ \E s \in Sessions : \/ E!Login(s) \/ E!Authenticate(s) \/ E!Logout(s)
                                  \/ E!ChangePassword(s)
           \/ E!Purge
    PROVE  UseIInv'
  <1>0. ExpiryConstants /\ ExpiryIInv /\ InOrder
    BY DEF UseConstants, UseIInv
  <1>1. ASSUME NEW s \in Sessions, E!Login(s) PROVE UseIInv'
    <2>1. InOrder' /\ \A v : Touches(v)' = Touches(v)
      <3>1. E!Ask("create", s)
        BY <1>1 DEF E!Login
      <3>2. /\ InOrder'
            /\ \A v : Touches(v)' =
                       Touches(v) \cup (IF "create" = "touch" /\ v = s THEN {now} ELSE {})
        BY <1>0, <3>1, AskTouches
      <3> QED
        BY <3>2
    <2>2. /\ UNCHANGED <<now, rowOf, lastUse, ended>>
          /\ \A v \in Sessions : born'[v] = born[v] \/ lastUse[v] = None
      BY <1>0, <1>1 DEF E!Login, ExpiryIInv, ExpiryTypes, RowOK
    <2> QED
      BY <1>0, <2>1, <2>2, SameSession DEF UseIInv
  <1>2. ASSUME NEW s \in Sessions, E!Authenticate(s) PROVE UseIInv'
    <2>1. /\ rowOf[s] # None /\ rowOf[s].expires > now /\ lastUse' = [lastUse EXCEPT ![s] = now]
          /\ UNCHANGED <<now, rowOf, born, ended>>
          /\ IF now - rowOf[s].seen < Throttle THEN writes' = writes ELSE E!Ask("touch", s)
      BY <1>2 DEF E!Authenticate, E!Alive, E!Throttled
    <2>2. \A v \in Sessions : lastUse'[v] = IF v = s THEN now ELSE lastUse[v]
      BY <1>0, <2>1 DEF ExpiryIInv, ExpiryTypes
    <2>3. /\ InOrder'
          /\ \A v : v # s => Touches(v)' = Touches(v)
          /\ \/ Touches(s)' = Touches(s) /\ now - rowOf[s].seen < Throttle
             \/ Touches(s)' = Touches(s) \cup {now}
      <3>1. CASE writes' = writes /\ now - rowOf[s].seen < Throttle
        BY <1>0, <3>1 DEF InOrder, Touches, E!TouchesOf
      <3>2. CASE E!Ask("touch", s)
        <4>1. /\ InOrder'
              /\ \A v : Touches(v)' =
                         Touches(v) \cup (IF "touch" = "touch" /\ v = s THEN {now} ELSE {})
          BY <1>0, <3>2, AskTouches
        <4> QED
          BY <4>1
      <3> QED
        BY <2>1, <3>1, <3>2
    <2>4. /\ rowOf[s] \in E!Row /\ now \in Nat /\ lastUse[s] \in Nat
          /\ rowOf[s].seen <= lastUse[s] /\ lastUse[s] <= now
      BY <1>0, <2>1 DEF ExpiryIInv, ExpiryTypes, RowOK, Times
    <2>5. rowOf[s].seen \in Nat /\ rowOf[s].expires \in Nat
      BY <2>4 DEF E!Row
    <2>6. /\ rowOf[s].expires = E!FoldedExpiry(rowOf[s].created, rowOf[s].seen)
          /\ \A t \in Touches(s) : rowOf[s].seen <= t /\ t < rowOf[s].expires
      BY <2>1 DEF UseIInv, Fresh
    <2>7. Fresh(s)'
      <3>1. \E t \in Touches(s)' \cup {rowOf[s].seen} : now - t < Throttle
        <4>1. now - now < Throttle
          BY <2>4 DEF UseConstants
        <4> QED
          BY <2>3, <4>1
      <3>2. \A t \in Touches(s)' : rowOf[s].seen <= t /\ t < rowOf[s].expires
        BY <2>1, <2>3, <2>4, <2>5, <2>6
      <3>3. rowOf'[s] = rowOf[s] /\ lastUse'[s] = now
        BY <2>1, <2>2
      <3>4. E!FoldedExpiry(rowOf[s].created, rowOf[s].seen)'
               = E!FoldedExpiry(rowOf[s].created, rowOf[s].seen)
        BY <3>3 DEF E!FoldedExpiry, E!Least
      <3> QED
        BY <2>6, <3>1, <3>2, <3>3, <3>4 DEF Fresh
    <2>8. GoneLate(s)'
      BY <2>1 DEF GoneLate
    <2>9. ASSUME NEW v \in Sessions, v # s PROVE Fresh(v)' /\ GoneLate(v)'
      BY <1>0, <2>1, <2>2, <2>3, <2>9, SameSession
    <2> QED
      BY <2>3, <2>7, <2>8, <2>9 DEF UseIInv
  <1>3. ASSUME NEW op \in {"revoke", "displace", "purge"}, NEW s, E!Ask(op, s),
               UNCHANGED <<now, rowOf, born, lastUse, ended>>
        PROVE  UseIInv'
    <2>1. InOrder' /\ \A v : Touches(v)' = Touches(v)
      BY <1>0, <1>3, AskTouches
    <2> QED
      BY <1>0, <1>3, <2>1, SameSession DEF UseIInv
  <1> QED
    BY <1>1, <1>2, <1>3 DEF E!Logout, E!ChangePassword, E!Purge

\* A write that is applied is the oldest, and the touches that wait are younger.
LEMMA ApplyKeepsUse ==
    ASSUME UseConstants, UseIInv, ExpiryIInv', E!Apply
    PROVE  UseIInv'
  <1>0. ExpiryConstants /\ ExpiryIInv /\ InOrder
    BY DEF UseConstants, UseIInv
  <1>a. PICK w : w = writes[1]
    OBVIOUS
  <1>1. /\ 1 \in DOMAIN writes
        /\ rowOf' = E!Effect(w)
        /\ ended' = ended \cup E!Ended(w)
        /\ lastUse' = IF w.op = "create" THEN [lastUse EXCEPT ![w.session] = w.at] ELSE lastUse
        /\ writes' = E!RemoveAt(writes, 1)
        /\ UNCHANGED <<now, born>>
    BY <1>a DEF E!Apply, E!MayApply, UseConstants
  <1>2. WriteOK(w)
    BY <1>0, <1>1, <1>a DEF ExpiryIInv, WritesOK
  <1>3. /\ InOrder'
        /\ \A v : /\ Touches(v)' \subseteq Touches(v)
                  /\ Touches(v) \subseteq Touches(v)' \cup {w.at}
                  /\ w.op # "touch" \/ w.session # v => Touches(v) = Touches(v)'
                  /\ \A t \in Touches(v) : w.at <= t
    BY <1>0, <1>1, <1>a, FirstDone
  <1>4. w.at \in Nat /\ w.at <= now /\ now \in Nat
    BY <1>0, <1>2 DEF WriteOK, ExpiryIInv, ExpiryTypes, Times
  <1>5. \A v \in Sessions : rowOf[v] # None =>
           /\ rowOf[v] \in E!Row /\ lastUse[v] \in Nat /\ born[v] = rowOf[v].created
           /\ rowOf[v].created \in Nat /\ rowOf[v].seen \in Nat /\ rowOf[v].expires \in Nat
    <2> SUFFICES ASSUME NEW v \in Sessions, rowOf[v] # None
                 PROVE  /\ rowOf[v] \in E!Row /\ lastUse[v] \in Nat /\ born[v] = rowOf[v].created
                        /\ rowOf[v].created \in Nat /\ rowOf[v].seen \in Nat
                        /\ rowOf[v].expires \in Nat
      OBVIOUS
    <2>1. rowOf[v] \in E!Row /\ lastUse[v] \in Nat /\ born[v] = rowOf[v].created
      BY <1>0 DEF ExpiryIInv, ExpiryTypes, RowOK, Times
    <2> QED
      BY <2>1 DEF E!Row
  <1>6. \A v \in Sessions : \A t \in Touches(v) : t \in Nat
    <2> SUFFICES ASSUME NEW v \in Sessions, NEW t \in Touches(v) PROVE t \in Nat
      OBVIOUS
    <2>1. PICK i \in DOMAIN writes : t = writes[i].at
      BY DEF Touches, E!TouchesOf
    <2> QED
      BY <1>0, <2>1 DEF ExpiryIInv, WritesOK, WriteOK, Times
  <1>7. ASSUME w.op = "create" PROVE UseIInv'
    <2> DEFINE s == w.session
               new == [created |-> w.at, seen |-> w.at, expires |-> E!FoldedExpiry(w.at, w.at)]
    <2>1. /\ s \in Sessions /\ rowOf[s] = None /\ lastUse[s] = None
          /\ rowOf' = [rowOf EXCEPT ![s] = new] /\ lastUse' = [lastUse EXCEPT ![s] = w.at]
          /\ ended' = ended
      BY <1>1, <1>2, <1>7 DEF WriteOK, E!Effect, E!Created, E!Ended
    <2>2. Touches(s)' = {}
      <3>1. \A i \in DOMAIN writes : ~(writes[i].op = "touch" /\ writes[i].session = s)
        BY <1>0, <2>1 DEF ExpiryIInv, WritesOK, WriteOK
      <3>2. E!TouchesOf(s) = {}
        BY <3>1 DEF E!TouchesOf
      <3>3. Touches(s) = {}
        BY <3>2 DEF Touches
      <3> QED
        BY <1>3, <3>3
    <2>3. \A v \in Sessions : /\ rowOf'[v] = IF v = s THEN new ELSE rowOf[v]
                              /\ lastUse'[v] = IF v = s THEN w.at ELSE lastUse[v]
      BY <1>0, <2>1 DEF ExpiryIInv, ExpiryTypes
    <2>4. new.created = w.at /\ new.seen = w.at /\ new.expires = E!FoldedExpiry(w.at, w.at)
      OBVIOUS
    <2>5. new # None
      <3>1. rowOf'[s] = new /\ lastUse'[s] = w.at /\ w.at # None
        BY <1>4, <2>1, <2>3 DEF UseConstants, ExpiryConstants
      <3>2. w.at \in Times
        BY <1>2 DEF WriteOK
      <3>3. E!FoldedExpiry(w.at, w.at) \in 1 .. MaxTime + IdleLimit
        BY <1>0, <3>2, Folding
      <3>4. new \in E!Row
        BY <3>2, <3>3 DEF E!Row, Times
      <3> QED
        BY <3>4 DEF UseConstants, ExpiryConstants
    <2> HIDE DEF new
    <2>6. PICK x : x = w.at
      OBVIOUS
    <2>7. rowOf'[s] = new /\ lastUse'[s] = x /\ new.created = x /\ new.seen = x
          /\ new.expires = E!FoldedExpiry(x, x) /\ x \in Nat
      BY <1>4, <2>1, <2>3, <2>4, <2>6
    <2> HIDE DEF s
    <2>8. Fresh(s)'
      <3>1. lastUse'[s] - x < Throttle
        BY <2>7 DEF UseConstants
      <3>2. E!FoldedExpiry(x, x)' = E!FoldedExpiry(x, x)
        BY DEF E!FoldedExpiry, E!Least
      <3> QED
        BY <2>2, <2>7, <3>1, <3>2 DEF Fresh, E!FoldedExpiry, E!Least
    <2>9. GoneLate(s)'
      BY <2>5, <2>7 DEF GoneLate
    <2>10. ASSUME NEW v \in Sessions, v # s PROVE Fresh(v)' /\ GoneLate(v)'
      <3>1. rowOf'[v] = rowOf[v] /\ lastUse'[v] = lastUse[v]
        BY <2>3, <2>10
      <3>2. Touches(v)' = Touches(v)
        BY <1>3, <1>7
      <3> QED
        BY <1>0, <1>1, <2>1, <3>1, <3>2, SameSession
    <2> QED
      BY <1>3, <2>8, <2>9, <2>10 DEF UseIInv
  <1>8. ASSUME w.op = "touch" PROVE UseIInv'
    <2> DEFINE s == w.session
    <2>1. s \in Sessions /\ lastUse' = lastUse /\ ended' = ended /\ rowOf' = E!Touched(w)
      BY <1>1, <1>2, <1>8 DEF WriteOK, E!Effect, E!Ended
    <2>2. CASE rowOf[s] = None
      <3>1. rowOf' = rowOf
        BY <2>1, <2>2 DEF E!Touched
      <3>2. Fresh(s)' /\ GoneLate(s)'
        BY <1>1, <2>1, <2>2, <3>1 DEF UseIInv, Fresh, GoneLate, Overdue
      <3>3. ASSUME NEW v \in Sessions, v # s PROVE Fresh(v)' /\ GoneLate(v)'
        BY <1>0, <1>1, <1>3, <2>1, <3>1, <3>3, SameSession
      <3> QED
        BY <1>3, <3>2, <3>3 DEF UseIInv
    <2>3. CASE rowOf[s] # None
      <3> DEFINE old == rowOf[s]
                 e == E!FoldedExpiry(old.created, w.at)
                 new == [old EXCEPT !.seen = w.at, !.expires = e]
      <3>1. rowOf' = [rowOf EXCEPT ![s].seen = w.at, ![s].expires = e]
        BY <2>1, <2>3 DEF E!Touched
      <3> HIDE DEF e
      <3>2. rowOf' = [rowOf EXCEPT ![s] = new]
        BY <1>0, <2>1, <3>1 DEF ExpiryIInv, ExpiryTypes
      <3>3. new.created = old.created /\ new.seen = w.at /\ new.expires = e
        BY <1>5, <2>1, <2>3 DEF E!Row
      <3> HIDE DEF new
      <3>4. \A v \in Sessions : rowOf'[v] = IF v = s THEN new ELSE rowOf[v]
        BY <1>0, <3>2 DEF ExpiryIInv, ExpiryTypes
      <3>5. w.at \in Touches(s)
        <4>1. 1 \in E!TouchesOf(s)
          BY <1>1, <1>8, <1>a DEF E!TouchesOf
        <4> QED
          BY <1>a, <4>1 DEF Touches
      <3>6. /\ old.seen <= w.at /\ old.expires = E!FoldedExpiry(old.created, old.seen)
            /\ \E t \in Touches(s) \cup {old.seen} : lastUse[s] - t < Throttle
            /\ \A t \in Touches(s) : old.seen <= t /\ t < old.expires
        BY <2>1, <2>3, <3>5 DEF UseIInv, Fresh
      <3>7. old.expires <= e
        <4>1. old.created \in Nat /\ old.seen \in Nat /\ old.seen <= w.at
          BY <1>5, <2>1, <2>3, <3>6
        <4>2. E!FoldedExpiry(old.created, old.seen) <= E!FoldedExpiry(old.created, w.at)
          BY <1>0, <1>4, <4>1, FoldedIs
        <4> QED
          BY <3>6, <4>2 DEF e
      <3>8. e \in Nat
        <4>1. w.at <= w.at
          BY <1>4
        <4> QED
          BY <1>0, <1>4, <1>5, <2>1, <2>3, <4>1, FoldedIs DEF e
      <3>9. PICK x, c : x = w.at /\ c = old.created
        OBVIOUS
      <3>10. e = E!FoldedExpiry(c, x)
        BY <3>9 DEF e
      <3>11. rowOf'[s] = new
        BY <2>1, <3>4
      <3> HIDE DEF s
      <3>12. \E t \in Touches(s)' \cup {x} : lastUse[s] - t < Throttle
        <4>1. PICK t \in Touches(s) \cup {old.seen} : lastUse[s] - t < Throttle
          BY <3>6
        <4>2. CASE t \in Touches(s)
          BY <1>3, <3>9, <4>1, <4>2
        <4>3. CASE t = old.seen
          <5>1. lastUse[s] - x < Throttle
            BY <1>4, <1>5, <2>1, <2>3, <3>6, <3>9, <4>1, <4>3 DEF UseConstants
          <5> QED
            BY <5>1
        <4> QED
          BY <4>1, <4>2, <4>3
      <3>13. \A t \in Touches(s)' : x <= t /\ t < e
        <4> SUFFICES ASSUME NEW t \in Touches(s)' PROVE x <= t /\ t < e
          OBVIOUS
        <4>1. t \in Touches(s) /\ w.at <= t /\ t < old.expires
          BY <1>3, <3>6
        <4> QED
          BY <1>4, <1>5, <1>6, <2>1, <2>3, <3>7, <3>8, <3>9, <4>1
      <3>14. /\ rowOf'[s].expires = e /\ rowOf'[s].created = c /\ rowOf'[s].seen = x
             /\ lastUse'[s] = lastUse[s]
        BY <2>1, <3>3, <3>9, <3>11
      <3>15. E!FoldedExpiry(c, x)' = E!FoldedExpiry(c, x)
        BY DEF E!FoldedExpiry, E!Least
      <3>16. rowOf'[s].expires = E!FoldedExpiry(rowOf[s].created, rowOf[s].seen)'
        BY <3>10, <3>14, <3>15 DEF E!FoldedExpiry, E!Least
      <3>17. Fresh(s)'
        BY <3>12, <3>13, <3>14, <3>16 DEF Fresh
      <3>18. GoneLate(s)'
        <4>1. new # None
          <5>1. old \in E!Row /\ old.created \in Times /\ w.at \in Times
            BY <1>2, <1>5, <2>1, <2>3 DEF E!Row, Times, WriteOK, s
          <5>2. e \in 1 .. MaxTime + IdleLimit
            BY <1>0, <5>1, Folding DEF e
          <5>3. new \in E!Row
            BY <5>1, <5>2 DEF new, E!Row, Times
          <5> QED
            BY <5>3 DEF UseConstants, ExpiryConstants
        <4> QED
          BY <3>11, <4>1 DEF GoneLate
      <3>19. ASSUME NEW v \in Sessions, v # s PROVE Fresh(v)' /\ GoneLate(v)'
        <4>1. rowOf'[v] = rowOf[v] /\ Touches(v)' = Touches(v)
          BY <1>3, <3>4, <3>19 DEF s
        <4> QED
          BY <1>0, <1>1, <2>1, <3>19, <4>1, SameSession
      <3> QED
        BY <1>3, <3>17, <3>18, <3>19 DEF UseIInv
    <2> QED
      BY <2>2, <2>3
  <1>9. ASSUME w.op \notin {"create", "touch"}, NEW gone, rowOf' = E!Deleted(gone),
               \A v \in Sessions : rowOf[v] # None /\ v \in gone => v \in ended' \/ Overdue(v)
        PROVE  UseIInv'
    <2>1. /\ \A v \in Sessions : rowOf'[v] = IF v \in gone THEN None ELSE rowOf[v]
          /\ \A v : Touches(v)' = Touches(v)
          /\ lastUse' = lastUse /\ now' = now /\ born' = born /\ ended \subseteq ended'
      BY <1>0, <1>1, <1>3, <1>9, DeletedIs
    <2>2. ASSUME NEW v \in Sessions PROVE Fresh(v)' /\ GoneLate(v)'
      <3>1. CASE v \in gone /\ rowOf[v] # None
        <4>1. rowOf'[v] = None
          BY <2>1, <3>1
        <4>2. v \in ended' \/ Overdue(v)
          BY <1>9, <3>1
        <4> QED
          BY <2>1, <4>1, <4>2 DEF Fresh, GoneLate, Overdue
      <3>2. CASE ~(v \in gone /\ rowOf[v] # None)
        <4>1. rowOf'[v] = rowOf[v]
          BY <2>1, <3>2
        <4> QED
          BY <1>0, <2>1, <4>1, SameSession
      <3> QED
        BY <3>1, <3>2
    <2> QED
      BY <1>3, <2>2 DEF UseIInv
  <1>10. ASSUME w.op = "purge" PROVE UseIInv'
    <2>1. rowOf' = E!Deleted(E!Expired(w.at))
      BY <1>1, <1>10 DEF E!Effect
    <2>2. ASSUME NEW v \in Sessions, rowOf[v] # None, v \in E!Expired(w.at) PROVE Overdue(v)
      <3>1. rowOf[v].expires <= w.at
        BY <2>2 DEF E!Expired
      <3>2. rowOf[v].expires <= now
        BY <1>4, <1>5, <2>2, <3>1
      <3>3. \A t \in Touches(v) : rowOf[v].expires <= t
        BY <1>3, <1>4, <1>5, <1>6, <2>2, <3>1
      <3> QED
        BY <2>2, <3>2, <3>3, TimeIsUp
    <2> QED
      BY <1>9, <1>10, <2>1, <2>2
  <1>11. ASSUME w.op \in {"revoke", "displace"} PROVE UseIInv'
    <2>1. rowOf' = E!Deleted(E!Ended(w)) /\ E!Ended(w) \subseteq ended'
      BY <1>1, <1>11 DEF E!Effect
    <2> QED
      BY <1>9, <1>11, <2>1
  <1> QED
    BY <1>2, <1>7, <1>8, <1>10, <1>11 DEF WriteOK

LEMMA UseStep == ASSUME UseConstants, UseIInv, [E!Next]_(E!vars) PROVE UseIInv'
  <1>0. ExpiryConstants /\ ExpiryIInv /\ ExpiryIInv'
    BY ExpiryStep DEF UseConstants, UseIInv
  <1>1. CASE UNCHANGED E!vars
    BY <1>0, <1>1 DEF E!vars, UseIInv, InOrder, Fresh, GoneLate, Overdue, Touches, E!TouchesOf,
                      E!FoldedExpiry, E!Least
  <1>2. CASE E!Tick
    <2>1. now' = now + 1 /\ now \in Nat /\ UNCHANGED <<rowOf, writes, born, lastUse, ended>>
      BY <1>0, <1>2 DEF E!Tick, ExpiryIInv, ExpiryTypes, Times
    <2>2. InOrder'
      BY <2>1 DEF UseIInv, InOrder
    <2>3. ASSUME NEW s \in Sessions PROVE Fresh(s)'
      <3>1. Fresh(s) /\ Touches(s)' = Touches(s)
        BY <2>1 DEF UseIInv, Touches, E!TouchesOf
      <3> QED
        BY <2>1, <3>1 DEF Fresh, E!FoldedExpiry, E!Least
    <2>4. ASSUME NEW s \in Sessions PROVE GoneLate(s)'
      <3> SUFFICES ASSUME rowOf[s] = None, lastUse[s] # None, s \notin ended PROVE Overdue(s)'
        BY <2>1 DEF GoneLate
      <3>1. Overdue(s) /\ lastUse[s] \in Nat /\ born[s] \in Nat
        BY <1>0 DEF UseIInv, GoneLate, ExpiryIInv, ExpiryTypes, RowOK, Times
      <3> QED
        BY <2>1, <3>1 DEF Overdue, UseConstants, ExpiryConstants
    <2> QED
      BY <1>0, <2>2, <2>3, <2>4 DEF UseIInv
  <1>3. CASE E!TouchFails
    BY <1>3 DEF E!TouchFails, UseConstants
  <1> QED
    BY <1>0, <1>1, <1>2, <1>3, AskingKeepsUse, ApplyKeepsUse DEF E!Next

\* On SQLite, where writes take effect in order, a session that is used stays:
\* no purge takes it within the idle limit, less a throttle window, of its last
\* use, although that use may not be written down yet.
THEOREM UsedSessionsStay == UseConstants /\ E!Spec => []E!UseKeepsAlive
  <1> SUFFICES ASSUME UseConstants PROVE E!Spec => []E!UseKeepsAlive
    OBVIOUS
  <1>1. E!Init => UseIInv
    BY InitUse
  <1>2. UseIInv /\ [E!Next]_(E!vars) => UseIInv'
    BY UseStep
  <1>3. UseIInv => E!UseKeepsAlive
    <2> SUFFICES ASSUME UseIInv, NEW s \in Sessions, lastUse[s] # None, s \notin ended,
                        E!TouchesOf(s) = {}, ~E!Alive(s)
                 PROVE  Overdue(s)
      BY DEF E!UseKeepsAlive, Overdue
    <2>1. CASE rowOf[s] = None
      BY <2>1 DEF UseIInv, GoneLate
    <2>2. CASE rowOf[s] # None
      <3>1. rowOf[s].expires <= now
        <4>1. rowOf[s] \in E!Row /\ now \in Nat
          BY <2>2 DEF UseIInv, ExpiryIInv, ExpiryTypes, Times
        <4> QED
          BY <2>2, <4>1 DEF E!Alive, E!Row
      <3>2. Touches(s) = {}
        BY DEF Touches
      <3> QED
        BY <2>2, <3>1, <3>2, TimeIsUp
    <2> QED
      BY <2>1, <2>2
  <1> QED
    BY <1>1, <1>2, <1>3, PTL DEF E!Spec

-----------------------------------------------------------------------------
(* Password attempts, for any accounts and any number of attempts.          *)

Under == {"queued", "verifying", "storing"}
AttemptRows ==
    [state : {"idle", "done", "broken"} \cup Under, account : Logins \cup {None},
     kind : {"login", "change", None}]

\* The promises chained on an account are a queue: only its head can be past
\* waiting, and each of the others waits for the one before.
Queues(q, rows, before, last) ==
    /\ q \in [Logins -> Seq(Attempts)]
    /\ \A c \in Logins : \A i \in DOMAIN q[c] :
          rows[q[c][i]].account = c /\ rows[q[c][i]].state \in Under
    /\ \A a \in Attempts : rows[a].state \in Under =>
          /\ rows[a].account \in Logins
          /\ \E i \in DOMAIN q[rows[a].account] : q[rows[a].account][i] = a
    /\ \A c \in Logins : \A i, j \in DOMAIN q[c] : q[c][i] = q[c][j] => i = j
    /\ \A c \in Logins : \A i \in DOMAIN q[c] : i > 1 =>
          before[q[c][i]] = q[c][i - 1] /\ rows[q[c][i]].state = "queued"
    /\ \A c \in Logins : last[c] = IF q[c] = << >> THEN None ELSE q[c][Len(q[c])]

ChainIInv ==
    /\ attempt \in [Attempts -> AttemptRows]
    /\ prior \in [Attempts -> Attempts \cup {None}]
    /\ tail \in [Logins -> Attempts \cup {None}]
    /\ \E q : Queues(q, attempt, prior, tail)

\* The map has the accounts that failed last, in the order of their failures.
EntryRows == [account : Logins, failures : Nat, at : Nat]

EntriesIInv ==
    /\ now \in Nat /\ now <= MaxTime
    /\ outcomes \in [Logins -> Seq(Nat)]
    /\ \A c \in Logins : \A i \in DOMAIN outcomes[c] : outcomes[c][i] <= now
    /\ entries \in Seq(EntryRows)
    /\ Len(entries) <= MaxEntries
    /\ \A i, j \in DOMAIN entries : entries[i].account = entries[j].account => i = j
    /\ \A i, j \in DOMAIN entries : i < j => entries[i].at <= entries[j].at
    /\ \A i \in DOMAIN entries :
          /\ outcomes[entries[i].account] # << >>
          /\ entries[i].at = L!Last(outcomes[entries[i].account])
    /\ \A c \in Logins : \A i \in DOMAIN entries :
          outcomes[c] # << >> /\ L!EntriesOf(c) = {} => L!Last(outcomes[c]) <= entries[i].at

\* With room for every account: the count is that of the failures.
CountsIInv ==
    \A c \in Logins : outcomes[c] # << >> =>
        \E i \in DOMAIN entries : entries[i].account = c /\ entries[i].failures = Len(outcomes[c])

\* Who is past waiting, or may be by their turn, is the head of the queue.
LEMMA TheHead ==
    ASSUME ChainIInv, None \notin Attempts, NEW q, Queues(q, attempt, prior, tail),
           NEW a \in Attempts, attempt[a].state \in Under,
           attempt[a].state # "queued" \/ L!Turn(a)
    PROVE  /\ attempt[a].account \in Logins
           /\ 1 \in DOMAIN q[attempt[a].account] /\ q[attempt[a].account][1] = a
  <1>1. PICK c : c = attempt[a].account
    OBVIOUS
  <1>2. c \in Logins /\ q[c] \in Seq(Attempts)
    BY <1>1 DEF Queues
  <1>3. PICK i \in DOMAIN q[c] : q[c][i] = a
    BY <1>1 DEF Queues
  <1>4. DOMAIN q[c] = 1 .. Len(q[c]) /\ Len(q[c]) \in Nat
    BY <1>2, LenProperties
  <1>5. ASSUME i > 1
        PROVE  FALSE
    <2>1. prior[a] = q[c][i - 1] /\ attempt[a].state = "queued"
      BY <1>2, <1>3, <1>5 DEF Queues
    <2>2. i - 1 \in DOMAIN q[c]
      BY <1>3, <1>4, <1>5
    <2>3. attempt[q[c][i - 1]].state \in Under /\ q[c][i - 1] \in Attempts
      BY <1>2, <2>2, ElementOfSeq, <1>4 DEF Queues
    <2> QED BY <2>1, <2>3 DEF L!Turn, L!State, L!Settled, Under
  <1> QED BY <1>1, <1>2, <1>3, <1>4, <1>5

LEMMA ChainArrives ==
    ASSUME ChainIInv, NEW a \in Attempts, L!Arrive(a)
    PROVE  ChainIInv'
  <1>1. PICK c \in Logins, kind \in {"login", "change"} :
          /\ attempt' = [attempt EXCEPT ![a] = [state |-> "queued", account |-> c, kind |-> kind]]
          /\ prior' = [prior EXCEPT ![a] = tail[c]]
          /\ tail' = [tail EXCEPT ![c] = a]
    BY DEF L!Arrive
  <1>2. PICK q : Queues(q, attempt, prior, tail)
    BY DEF ChainIInv
  <1>3. /\ attempt \in [Attempts -> AttemptRows] /\ prior \in [Attempts -> Attempts \cup {None}]
        /\ tail \in [Logins -> Attempts \cup {None}]
    BY DEF ChainIInv
  <1>4. /\ attempt' \in [Attempts -> AttemptRows] /\ prior' \in [Attempts -> Attempts \cup {None}]
        /\ tail' \in [Logins -> Attempts \cup {None}]
    <2>1. [state |-> "queued", account |-> c, kind |-> kind] \in AttemptRows
      BY DEF AttemptRows, Under
    <2> QED BY <1>1, <1>3, <2>1
  <1>5. /\ attempt'[a].state = "queued" /\ attempt'[a].account = c /\ prior'[a] = tail[c]
        /\ tail'[c] = a
        /\ \A b \in Attempts \ {a} : attempt'[b] = attempt[b] /\ prior'[b] = prior[b]
        /\ \A d \in Logins \ {c} : tail'[d] = tail[d]
    BY <1>1, <1>3
  <1>6. attempt[a].state = "idle"
    BY DEF L!Arrive, L!State
  <1>7. q \in [Logins -> Seq(Attempts)]
    BY <1>2 DEF Queues
  <1>8. PICK p : p = [q EXCEPT ![c] = Append(q[c], a)]
    OBVIOUS
  <1>9. /\ p \in [Logins -> Seq(Attempts)] /\ p[c] = Append(q[c], a)
        /\ \A d \in Logins \ {c} : p[d] = q[d]
    <2>1. q[c] \in Seq(Attempts) /\ Append(q[c], a) \in Seq(Attempts)
      BY <1>7, AppendProperties
    <2> QED BY <1>7, <1>8, <2>1
  <1>10. /\ DOMAIN q[c] = 1 .. Len(q[c]) /\ DOMAIN p[c] = 1 .. Len(q[c]) + 1 /\ Len(q[c]) \in Nat
         /\ \A i \in DOMAIN q[c] : p[c][i] = q[c][i]
         /\ p[c][Len(q[c]) + 1] = a /\ Len(p[c]) = Len(q[c]) + 1
         /\ \A i \in DOMAIN p[c] : i \in DOMAIN q[c] \/ i = Len(q[c]) + 1
    BY <1>7, <1>9
  <1>11. \A d \in Logins : \A i \in DOMAIN q[d] :
           q[d][i] \in Attempts /\ q[d][i] # a
    <2>1. \A d \in Logins : \A i \in DOMAIN q[d] : attempt[q[d][i]].state \in Under
      BY <1>2 DEF Queues
    <2>2. \A d \in Logins : \A i \in DOMAIN q[d] : q[d][i] \in Attempts
      BY <1>7
    <2> QED BY <1>6, <2>1, <2>2 DEF Under
  <1>12. \A d \in Logins : \A i \in DOMAIN p[d] :
           attempt'[p[d][i]].account = d /\ attempt'[p[d][i]].state \in Under
    <2>1. \A d \in Logins : \A i \in DOMAIN q[d] :
            attempt'[q[d][i]].account = d /\ attempt'[q[d][i]].state \in Under
      BY <1>2, <1>5, <1>11 DEF Queues
    <2>2. ASSUME NEW i \in DOMAIN p[c]
          PROVE  attempt'[p[c][i]].account = c /\ attempt'[p[c][i]].state \in Under
      <3>1. CASE i \in DOMAIN q[c]
        BY <1>10, <2>1, <3>1
      <3>2. CASE i = Len(q[c]) + 1
        BY <1>5, <1>10, <3>2 DEF Under
      <3> QED BY <1>10, <3>1, <3>2
    <2> QED BY <1>9, <2>1, <2>2
  <1>13. ASSUME NEW b \in Attempts, attempt'[b].state \in Under
         PROVE  /\ attempt'[b].account \in Logins
                /\ \E i \in DOMAIN p[attempt'[b].account] : p[attempt'[b].account][i] = b
    <2>1. CASE b = a
      <3>1. Len(q[c]) + 1 \in DOMAIN p[c]
        BY <1>10
      <3> QED BY <1>5, <1>10, <2>1, <3>1
    <2>2. CASE b # a
      <3>1. attempt'[b] = attempt[b]
        BY <1>5, <2>2
      <3>2. PICK d : d = attempt[b].account
        OBVIOUS
      <3>3. d \in Logins
        BY <1>2, <1>13, <3>1, <3>2 DEF Queues
      <3>4. PICK i \in DOMAIN q[d] : q[d][i] = b
        BY <1>2, <1>13, <3>1, <3>2 DEF Queues
      <3>5. i \in DOMAIN p[d] /\ p[d][i] = b
        <4>1. CASE d = c
          BY <1>10, <3>4, <4>1
        <4>2. CASE d # c
          BY <1>9, <3>3, <3>4, <4>2
        <4> QED BY <4>1, <4>2
      <3> QED BY <3>1, <3>2, <3>3, <3>5
    <2> QED BY <2>1, <2>2
  <1>14. \A d \in Logins : \A i, j \in DOMAIN p[d] : p[d][i] = p[d][j] => i = j
    <2>1. \A d \in Logins : \A i, j \in DOMAIN q[d] : q[d][i] = q[d][j] => i = j
      BY <1>2 DEF Queues
    <2> QED BY <1>9, <1>10, <1>11, <2>1
  <1>15. ASSUME NEW d \in Logins, NEW i \in DOMAIN p[d], i > 1
         PROVE  prior'[p[d][i]] = p[d][i - 1] /\ attempt'[p[d][i]].state = "queued"
    <2>1. CASE i \in DOMAIN q[d]
      <3>1. p[d][i] = q[d][i] /\ q[d][i] # a /\ q[d][i] \in Attempts
        BY <1>9, <1>10, <1>11, <2>1
      <3>2. prior[q[d][i]] = q[d][i - 1] /\ attempt[q[d][i]].state = "queued"
        BY <1>2, <1>15, <2>1 DEF Queues
      <3>3. p[d][i - 1] = q[d][i - 1]
        <4>1. CASE d = c
          <5>1. i - 1 \in DOMAIN q[c]
            BY <1>10, <1>15, <2>1, <4>1
          <5> QED BY <1>10, <4>1, <5>1
        <4>2. CASE d # c
          BY <1>9, <4>2
        <4> QED BY <4>1, <4>2
      <3> QED BY <1>5, <3>1, <3>2, <3>3
    <2>2. CASE i \notin DOMAIN q[d]
      <3>1. d = c /\ i = Len(q[c]) + 1
        BY <1>9, <1>10, <2>2
      <3>2. Len(q[c]) \in DOMAIN q[c] /\ q[c] # << >>
        BY <1>10, <1>15, <3>1
      <3>3. tail[c] = q[c][Len(q[c])]
        BY <1>2, <3>2 DEF Queues
      <3>4. p[c][i - 1] = q[c][Len(q[c])] /\ p[c][i] = a
        BY <1>10, <3>1, <3>2
      <3> QED BY <1>5, <3>1, <3>3, <3>4
    <2> QED BY <2>1, <2>2
  <1>16. \A d \in Logins : tail'[d] = IF p[d] = << >> THEN None ELSE p[d][Len(p[d])]
    <2>1. p[c] # << >>
      BY <1>10
    <2>2. \A d \in Logins : tail[d] = IF q[d] = << >> THEN None ELSE q[d][Len(q[d])]
      BY <1>2 DEF Queues
    <2> QED BY <1>5, <1>9, <1>10, <2>1, <2>2
  <1>17. Queues(p, attempt', prior', tail')
    BY <1>9, <1>12, <1>13, <1>14, <1>15, <1>16 DEF Queues
  <1> QED BY <1>4, <1>17 DEF ChainIInv

\* The head gets on.
LEMMA ChainGoesOn ==
    ASSUME ChainIInv, None \notin Attempts, NEW a \in Attempts, NEW to \in Under,
           attempt[a].state \in Under, attempt[a].state # "queued" \/ L!Turn(a),
           attempt' = [attempt EXCEPT ![a].state = to], UNCHANGED <<prior, tail>>
    PROVE  ChainIInv'
  <1>1. PICK q : Queues(q, attempt, prior, tail)
    BY DEF ChainIInv
  <1>2. attempt \in [Attempts -> AttemptRows]
    BY DEF ChainIInv
  <1>3. attempt' \in [Attempts -> AttemptRows]
    BY <1>2 DEF AttemptRows
  <1>4. /\ attempt'[a].state = to
        /\ \A b \in Attempts : attempt'[b].account = attempt[b].account
        /\ \A b \in Attempts \ {a} : attempt'[b] = attempt[b]
    BY <1>2 DEF AttemptRows
  <1>5. /\ q \in [Logins -> Seq(Attempts)]
        /\ \A d \in Logins : \A i \in DOMAIN q[d] : q[d][i] \in Attempts
    BY <1>1 DEF Queues
  <1>6. \A d \in Logins : \A i \in DOMAIN q[d] :
          attempt'[q[d][i]].account = d /\ attempt'[q[d][i]].state \in Under
    BY <1>1, <1>4, <1>5 DEF Queues
  <1>7. \A b \in Attempts : attempt'[b].state \in Under =>
          /\ attempt'[b].account \in Logins
          /\ \E i \in DOMAIN q[attempt'[b].account] : q[attempt'[b].account][i] = b
    <2>1. \A b \in Attempts : attempt'[b].state \in Under => attempt[b].state \in Under
      BY <1>4
    <2> QED BY <1>1, <1>4, <2>1 DEF Queues
  <1>8. ASSUME NEW d \in Logins, NEW i \in DOMAIN q[d], i > 1
        PROVE  prior'[q[d][i]] = q[d][i - 1] /\ attempt'[q[d][i]].state = "queued"
    <2>1. prior[q[d][i]] = q[d][i - 1] /\ attempt[q[d][i]].state = "queued"
      BY <1>1, <1>8 DEF Queues
    <2>2. q[d][i] # a
      <3>1. SUFFICES ASSUME q[d][i] = a
                     PROVE  FALSE
        OBVIOUS
      <3>2. attempt[a].account = d
        BY <1>1, <3>1 DEF Queues
      <3>3. 1 \in DOMAIN q[d] /\ q[d][1] = a
        BY <1>1, <3>2, TheHead
      <3>4. i = 1
        BY <1>1, <3>1, <3>3 DEF Queues
      <3> QED BY <1>8, <3>4
    <2> QED BY <1>4, <1>5, <2>1, <2>2
  <1>9. Queues(q, attempt', prior', tail')
    BY <1>1, <1>6, <1>7, <1>8 DEF Queues
  <1> QED BY <1>3, <1>9 DEF ChainIInv

\* The head leaves, and the next one is the head.
LEMMA ChainLeaves ==
    ASSUME ChainIInv, None \notin Attempts, NEW a \in Attempts, NEW state \in {"done", "broken"},
           attempt[a].state \in Under, attempt[a].state # "queued" \/ L!Turn(a),
           L!Leave(a, state), UNCHANGED prior
    PROVE  ChainIInv'
  <1>1. PICK q : Queues(q, attempt, prior, tail)
    BY DEF ChainIInv
  <1>2. /\ attempt \in [Attempts -> AttemptRows]
        /\ tail \in [Logins -> Attempts \cup {None}]
    BY DEF ChainIInv
  <1>3. PICK c : c = attempt[a].account
    OBVIOUS
  <1>4. /\ c \in Logins /\ q \in [Logins -> Seq(Attempts)]
        /\ 1 \in DOMAIN q[c] /\ q[c][1] = a
    BY <1>1, <1>3, TheHead DEF Queues
  <1>5. /\ attempt' = [attempt EXCEPT ![a].state = state]
        /\ tail' = IF tail[c] = a THEN [tail EXCEPT ![c] = None] ELSE tail
    BY <1>3 DEF L!Leave, L!TailAfter, L!Account
  <1>6. /\ attempt' \in [Attempts -> AttemptRows] /\ tail' \in [Logins -> Attempts \cup {None}]
    <2>1. attempt' \in [Attempts -> AttemptRows]
      BY <1>2, <1>5 DEF AttemptRows
    <2>2. [tail EXCEPT ![c] = None] \in [Logins -> Attempts \cup {None}]
      BY <1>2, <1>4
    <2> QED BY <1>2, <1>5, <2>1, <2>2
  <1>7. /\ attempt'[a].state \notin Under
        /\ \A b \in Attempts \ {a} : attempt'[b] = attempt[b]
    BY <1>2, <1>5 DEF AttemptRows, Under
  <1>8. PICK p : p = [q EXCEPT ![c] = Tail(q[c])]
    OBVIOUS
  <1>9. /\ q[c] \in Seq(Attempts) /\ DOMAIN q[c] = 1 .. Len(q[c]) /\ Len(q[c]) \in Nat
        /\ Len(q[c]) > 0 /\ q[c] # << >>
    BY <1>4, LenProperties
  <1>10. /\ p \in [Logins -> Seq(Attempts)] /\ p[c] = Tail(q[c])
         /\ \A d \in Logins \ {c} : p[d] = q[d]
    <2>1. Tail(q[c]) \in Seq(Attempts)
      BY <1>9, HeadTailProperties
    <2> QED BY <1>4, <1>8, <2>1
  <1>11. /\ Len(p[c]) = Len(q[c]) - 1 /\ DOMAIN p[c] = 1 .. Len(q[c]) - 1
         /\ \A i \in DOMAIN p[c] : i + 1 \in DOMAIN q[c] /\ p[c][i] = q[c][i + 1]
    BY <1>9, <1>10
  <1>12. \A d \in Logins : \A i \in DOMAIN q[d] : q[d][i] \in Attempts
    BY <1>4
  <1>13. \A d \in Logins : \A i \in DOMAIN q[d] : q[d][i] = a => d = c /\ i = 1
    BY <1>1, <1>3, <1>4 DEF Queues
  <1>14. \A d \in Logins : \A i \in DOMAIN p[d] : \E j \in DOMAIN q[d] :
           p[d][i] = q[d][j] /\ q[d][j] # a
    <2>1. ASSUME NEW i \in DOMAIN p[c]
          PROVE  \E j \in DOMAIN q[c] : p[c][i] = q[c][j] /\ q[c][j] # a
      <3>1. i + 1 \in DOMAIN q[c] /\ p[c][i] = q[c][i + 1] /\ i + 1 # 1
        BY <1>9, <1>11
      <3> QED BY <1>4, <1>13, <3>1
    <2>2. ASSUME NEW d \in Logins, d # c, NEW i \in DOMAIN p[d]
          PROVE  \E j \in DOMAIN q[d] : p[d][i] = q[d][j] /\ q[d][j] # a
      BY <1>10, <1>13, <2>2
    <2> QED BY <2>1, <2>2
  <1>15. \A d \in Logins : \A i \in DOMAIN p[d] :
           attempt'[p[d][i]].account = d /\ attempt'[p[d][i]].state \in Under
    BY <1>1, <1>7, <1>12, <1>14 DEF Queues
  <1>16. ASSUME NEW b \in Attempts, attempt'[b].state \in Under
         PROVE  /\ attempt'[b].account \in Logins
                /\ \E i \in DOMAIN p[attempt'[b].account] : p[attempt'[b].account][i] = b
    <2>1. b # a /\ attempt'[b] = attempt[b]
      BY <1>7, <1>16
    <2>2. PICK d : d = attempt[b].account
      OBVIOUS
    <2>3. d \in Logins
      BY <1>1, <1>16, <2>1, <2>2 DEF Queues
    <2>4. PICK i \in DOMAIN q[d] : q[d][i] = b
      BY <1>1, <1>16, <2>1, <2>2 DEF Queues
    <2>5. \E j \in DOMAIN p[d] : p[d][j] = b
      <3>1. CASE d = c
        <4>1. i # 1
          BY <1>4, <2>1, <2>4, <3>1
        <4>2. i - 1 \in DOMAIN p[c] /\ p[c][i - 1] = q[c][i]
          <5>1. i \in 1 .. Len(q[c])
            BY <1>9, <2>4, <3>1
          <5>2. i - 1 \in DOMAIN p[c] /\ (i - 1) + 1 = i
            BY <1>9, <1>11, <4>1, <5>1
          <5>3. p[c][i - 1] = q[c][(i - 1) + 1]
            BY <1>11, <5>2
          <5> QED BY <5>2, <5>3
        <4> QED BY <2>4, <3>1, <4>2
      <3>2. CASE d # c
        BY <1>10, <2>3, <2>4, <3>2
      <3> QED BY <3>1, <3>2
    <2> QED BY <2>1, <2>2, <2>3, <2>5
  <1>17. \A d \in Logins : \A i, j \in DOMAIN p[d] : p[d][i] = p[d][j] => i = j
    <2>1. \A d \in Logins : \A i, j \in DOMAIN q[d] : q[d][i] = q[d][j] => i = j
      BY <1>1 DEF Queues
    <2>2. ASSUME NEW i \in DOMAIN p[c], NEW j \in DOMAIN p[c], p[c][i] = p[c][j]
          PROVE  i = j
      <3>1. /\ i + 1 \in DOMAIN q[c] /\ p[c][i] = q[c][i + 1]
            /\ j + 1 \in DOMAIN q[c] /\ p[c][j] = q[c][j + 1]
        BY <1>11
      <3>2. i + 1 = j + 1
        BY <1>4, <2>1, <2>2, <3>1
      <3>3. i \in Int /\ j \in Int
        BY <1>9, <1>11
      <3> QED BY <3>2, <3>3
    <2> QED BY <1>10, <2>1, <2>2
  <1>18. ASSUME NEW d \in Logins, NEW i \in DOMAIN p[d], i > 1
         PROVE  prior'[p[d][i]] = p[d][i - 1] /\ attempt'[p[d][i]].state = "queued"
    <2>1. CASE d = c
      <3>1. /\ i \in Nat /\ i + 1 \in DOMAIN q[c] /\ p[c][i] = q[c][i + 1]
            /\ i - 1 \in DOMAIN p[c]
        <4>1. i \in 1 .. Len(q[c]) - 1
          BY <1>11, <2>1
        <4>2. i \in Nat /\ i - 1 \in 1 .. Len(q[c]) - 1
          BY <1>9, <1>18, <4>1
        <4> QED BY <1>11, <2>1, <4>2
      <3>2. p[c][i - 1] = q[c][(i - 1) + 1]
        BY <1>11, <3>1
      <3>3. prior[q[c][i + 1]] = q[c][(i + 1) - 1] /\ attempt[q[c][i + 1]].state = "queued"
        BY <1>1, <1>4, <1>18, <3>1 DEF Queues
      <3>4. (i + 1) - 1 = i /\ (i - 1) + 1 = i
        BY <3>1
      <3>5. q[c][i + 1] \in Attempts \ {a}
        BY <1>4, <1>12, <1>13, <1>18, <2>1, <3>1
      <3> QED BY <1>7, <2>1, <3>1, <3>2, <3>3, <3>4, <3>5
    <2>2. CASE d # c
      <3>1. p[d] = q[d] /\ q[d][i] \in Attempts \ {a}
        BY <1>10, <1>12, <1>13, <2>2
      <3>2. prior[q[d][i]] = q[d][i - 1] /\ attempt[q[d][i]].state = "queued"
        BY <1>1, <1>18, <3>1 DEF Queues
      <3> QED BY <1>7, <3>1, <3>2
    <2> QED BY <2>1, <2>2
  <1>19. \A d \in Logins : tail'[d] = IF p[d] = << >> THEN None ELSE p[d][Len(p[d])]
    <2>1. \A d \in Logins : tail[d] = IF q[d] = << >> THEN None ELSE q[d][Len(q[d])]
      BY <1>1 DEF Queues
    <2>2. tail[c] = q[c][Len(q[c])]
      BY <1>4, <1>9, <2>1
    <2>3. CASE Len(q[c]) = 1
      <3>1. tail' = [tail EXCEPT ![c] = None]
        BY <1>4, <1>5, <2>2, <2>3
      <3>2. p[c] = << >>
        BY <1>4, <1>10, <1>11, <2>3, EmptySeq
      <3> QED BY <1>2, <1>10, <2>1, <3>1, <3>2
    <2>4. CASE Len(q[c]) # 1
      <3>1. Len(q[c]) \in DOMAIN q[c] /\ Len(q[c]) > 1
        <4>1. PICK n : n = Len(q[c])
          OBVIOUS
        <4>2. n \in Nat /\ n > 0 /\ n # 1 /\ DOMAIN q[c] = 1 .. n
          BY <1>9, <2>4, <4>1
        <4>3. n \in 1 .. n /\ n > 1
          BY <4>2
        <4> QED BY <4>1, <4>2, <4>3
      <3>2. tail[c] # a
        BY <1>4, <1>13, <2>2, <2>4, <3>1
      <3>3. Len(p[c]) \in DOMAIN p[c] /\ Len(p[c]) + 1 = Len(q[c])
        BY <1>9, <1>11, <3>1
      <3>4. p[c] # << >> /\ p[c][Len(p[c])] = q[c][Len(q[c])]
        <4>1. p[c][Len(p[c])] = q[c][Len(p[c]) + 1]
          BY <1>11, <3>3
        <4> QED BY <3>3, <4>1
      <3> QED BY <1>5, <1>10, <2>1, <2>2, <3>2, <3>4
    <2> QED BY <2>3, <2>4
  <1>20. Queues(p, attempt', prior', tail')
    BY <1>10, <1>15, <1>16, <1>17, <1>18, <1>19 DEF Queues
  <1> QED BY <1>6, <1>20 DEF ChainIInv

LEMMA ChainBegins ==
    ASSUME L!Init
    PROVE  ChainIInv
  <1>1. /\ attempt = [a \in Attempts |-> L!Idle] /\ prior = [a \in Attempts |-> None]
        /\ tail = [c \in Logins |-> None]
    BY DEF L!Init
  <1>2. L!Idle \in AttemptRows /\ L!Idle.state \notin Under
    BY DEF L!Idle, AttemptRows, Under
  <1>3. PICK q : q = [c \in Logins |-> << >>]
    OBVIOUS
  <1>4. /\ q \in [Logins -> Seq(Attempts)]
        /\ \A c \in Logins : q[c] = << >> /\ DOMAIN q[c] = {}
    BY <1>3
  <1>5. Queues(q, attempt, prior, tail)
    BY <1>1, <1>2, <1>4 DEF Queues
  <1> QED BY <1>1, <1>2, <1>5 DEF ChainIInv

LEMMA ChainStep ==
    ASSUME ChainIInv, None \notin Attempts, [L!Next]_(L!vars)
    PROVE  ChainIInv'
  <1>1. CASE UNCHANGED L!vars
    BY <1>1 DEF L!vars, ChainIInv
  <1>2. CASE L!Tick
    BY <1>2 DEF L!Tick, ChainIInv
  <1>3. ASSUME NEW a \in Attempts, L!Arrive(a)
        PROVE  ChainIInv'
    BY <1>3, ChainArrives
  <1>4. ASSUME NEW a \in Attempts, L!Start(a)
        PROVE  ChainIInv'
    BY <1>4, ChainGoesOn DEF L!Start, L!Turn, L!State, Under
  <1>5. ASSUME NEW a \in Attempts, L!TurnedAway(a)
        PROVE  ChainIInv'
    BY <1>5, ChainLeaves DEF L!TurnedAway, L!Turn, L!State, Under
  <1>6. ASSUME NEW a \in Attempts, L!Fail(a)
        PROVE  ChainIInv'
    BY <1>6, ChainLeaves DEF L!Fail, L!State, Under
  <1>7. ASSUME NEW a \in Attempts, L!Succeed(a)
        PROVE  ChainIInv'
    <2>1. attempt[a].state = "verifying" /\ UNCHANGED prior
      BY <1>7 DEF L!Succeed, L!State
    <2>2. CASE attempt[a].kind = "login"
      <3>1. attempt' = [attempt EXCEPT ![a].state = "storing"] /\ UNCHANGED tail
        BY <1>7, <2>2 DEF L!Succeed
      <3> QED BY <2>1, <3>1, ChainGoesOn DEF Under
    <2>3. CASE attempt[a].kind # "login"
      <3>1. L!Leave(a, "done")
        BY <1>7, <2>3 DEF L!Succeed
      <3> QED BY <2>1, <3>1, ChainLeaves DEF Under
    <2> QED BY <2>2, <2>3
  <1>8. ASSUME NEW a \in Attempts, L!Store(a)
        PROVE  ChainIInv'
    BY <1>8, ChainLeaves DEF L!Store, L!State, Under
  <1>9. ASSUME NEW a \in Attempts, L!Break(a)
        PROVE  ChainIInv'
    BY <1>9, ChainLeaves DEF L!Break, L!State, Under
  <1> QED
    BY <1>1, <1>2, <1>3, <1>4, <1>5, <1>6, <1>7, <1>8, <1>9 DEF L!Next, L!Runs

\* However many attempts arrive together and however they end, one password of
\* an account is verified at a time (auth-service.ts serializePerAccount).
THEOREM OnePasswordAtATime == None \notin Attempts /\ L!Spec => []L!OneVerification
  <1> SUFFICES ASSUME None \notin Attempts
               PROVE  L!Spec => []L!OneVerification
    OBVIOUS
  <1>1. L!Init => ChainIInv
    BY ChainBegins
  <1>2. ChainIInv /\ [L!Next]_(L!vars) => ChainIInv'
    BY ChainStep
  <1>3. ChainIInv => L!OneVerification
    <2> SUFFICES ASSUME ChainIInv, NEW a \in Attempts, NEW b \in Attempts,
                        attempt[a].state = "verifying", attempt[b].state = "verifying",
                        attempt[a].account = attempt[b].account
                 PROVE  a = b
      BY DEF L!OneVerification, L!State, L!Account
    <2>1. PICK q : Queues(q, attempt, prior, tail)
      BY DEF ChainIInv
    <2>2. q[attempt[a].account][1] = a /\ q[attempt[b].account][1] = b
      BY <2>1, TheHead DEF Under
    <2> QED BY <2>2
  <1> QED BY <1>1, <1>2, <1>3, PTL DEF L!Spec

LEMMA LastOf ==
    ASSUME NEW R, NEW s \in Seq(R), s # << >>
    PROVE  Len(s) \in DOMAIN s /\ L!Last(s) = s[Len(s)]
  <1>1. Len(s) \in Nat /\ Len(s) > 0 /\ DOMAIN s = 1 .. Len(s)
    BY EmptySeq, LenProperties
  <1> QED BY <1>1 DEF L!Last

LEMMA WithoutPlace ==
    ASSUME NEW R, NEW s \in Seq(R), NEW k \in DOMAIN s
    PROVE  /\ L!RemoveAt(s, k) \in Seq(R)
           /\ Len(L!RemoveAt(s, k)) = Len(s) - 1
           /\ DOMAIN L!RemoveAt(s, k) = 1 .. Len(s) - 1
           /\ \A i \in 1 .. Len(s) - 1 :
                 L!RemoveAt(s, k)[i] = IF i < k THEN s[i] ELSE s[i + 1]
  <1>1. k \in 1 .. Len(s) /\ Len(s) \in Nat
    BY LenProperties
  <1>2. PICK u, v : u = SubSeq(s, 1, k - 1) /\ v = SubSeq(s, k + 1, Len(s))
    OBVIOUS
  <1>3. u \in Seq(R) /\ Len(u) = k - 1 /\ \A i \in 1 .. k - 1 : u[i] = s[i]
    BY <1>1, <1>2
  <1>4. v \in Seq(R) /\ Len(v) = Len(s) - k /\ \A i \in 1 .. Len(s) - k : v[i] = s[i + k]
    BY <1>1, <1>2
  <1>5. PICK w : w = u \o v
    OBVIOUS
  <1>6. /\ w \in Seq(R) /\ Len(w) = Len(s) - 1
        /\ \A i \in 1 .. Len(w) : w[i] = IF i <= Len(u) THEN u[i] ELSE v[i - Len(u)]
    <2>1. /\ w \in Seq(R) /\ Len(w) = Len(u) + Len(v)
          /\ \A i \in 1 .. Len(u) + Len(v) : w[i] = IF i <= Len(u) THEN u[i] ELSE v[i - Len(u)]
      BY <1>3, <1>4, <1>5, ConcatProperties
    <2>2. Len(u) + Len(v) = Len(s) - 1
      BY <1>1, <1>3, <1>4
    <2> QED BY <2>1, <2>2
  <1>7. ASSUME NEW i \in 1 .. Len(s) - 1
        PROVE  w[i] = IF i < k THEN s[i] ELSE s[i + 1]
    <2>1. CASE i < k
      BY <1>1, <1>3, <1>6, <2>1
    <2>2. CASE ~(i < k)
      <3>1. i - (k - 1) \in 1 .. Len(s) - k /\ (i - (k - 1)) + k = i + 1
        BY <1>1, <2>2
      <3>2. w[i] = v[i - (k - 1)]
        BY <1>1, <1>3, <1>6, <2>2
      <3>3. v[i - (k - 1)] = s[i + 1]
        BY <1>4, <3>1
      <3> QED BY <2>2, <3>2, <3>3
    <2> QED BY <2>1, <2>2
  <1>8. L!RemoveAt(s, k) = w
    BY <1>2, <1>5 DEF L!RemoveAt
  <1>9. DOMAIN w = 1 .. Len(s) - 1
    BY <1>6, LenProperties
  <1> QED BY <1>6, <1>7, <1>8, <1>9

\* A map by account, in the order of the failures.
MapOK(es) ==
    /\ es \in Seq(EntryRows)
    /\ \A i, j \in DOMAIN es : es[i].account = es[j].account => i = j
    /\ \A i, j \in DOMAIN es : i < j => es[i].at <= es[j].at

PartOf(t, es) == \A i \in DOMAIN t : \E j \in DOMAIN es : t[i] = es[j]

LEMMA TheEntry ==
    ASSUME NEW c, NEW i \in DOMAIN entries, entries[i].account = c, MapOK(entries)
    PROVE  L!EntriesOf(c) # {} /\ L!PlaceOf(c) = i /\ L!EntryOf(c) = entries[i]
  <1>1. i \in L!EntriesOf(c)
    BY DEF L!EntriesOf
  <1>2. L!PlaceOf(c) \in L!EntriesOf(c)
    BY <1>1, Zenon DEF L!PlaceOf
  <1>3. L!PlaceOf(c) = i
    BY <1>2 DEF L!EntriesOf, MapOK
  <1> QED BY <1>1, <1>3 DEF L!EntryOf

LEMMA OthersAre ==
    ASSUME NEW c, MapOK(entries), NEW t, t = L!Others(c)
    PROVE  /\ MapOK(t) /\ Len(t) <= Len(entries) /\ PartOf(t, entries)
           /\ \A i \in DOMAIN t : t[i].account # c
           /\ \A j \in DOMAIN entries : entries[j].account # c =>
                 \E i \in DOMAIN t : t[i] = entries[j]
  <1>1. entries \in Seq(EntryRows) /\ Len(entries) \in Nat /\ DOMAIN entries = 1 .. Len(entries)
    BY LenProperties DEF MapOK
  <1>2. CASE L!EntriesOf(c) = {}
    <2>1. t = entries
      BY <1>2 DEF L!Others
    <2>2. \A i \in DOMAIN t : t[i].account # c
      BY <1>2, <2>1 DEF L!EntriesOf
    <2> QED BY <1>1, <2>1, <2>2 DEF PartOf
  <1>3. CASE L!EntriesOf(c) # {}
    <2>1. PICK k : k = L!PlaceOf(c)
      OBVIOUS
    <2>2. k \in L!EntriesOf(c)
      BY <1>3, <2>1, Zenon DEF L!PlaceOf
    <2>3. k \in DOMAIN entries /\ entries[k].account = c /\ k \in Nat
      BY <1>1, <2>2 DEF L!EntriesOf
    <2>4. t = L!RemoveAt(entries, k)
      BY <1>3, <2>1 DEF L!Others
    <2>5. /\ t \in Seq(EntryRows) /\ Len(t) = Len(entries) - 1
          /\ DOMAIN t = 1 .. Len(entries) - 1
          /\ \A i \in DOMAIN t : t[i] = IF i < k THEN entries[i] ELSE entries[i + 1]
      <3>1. /\ t \in Seq(EntryRows) /\ Len(t) = Len(entries) - 1
            /\ DOMAIN t = 1 .. Len(entries) - 1
            /\ \A i \in 1 .. Len(entries) - 1 :
                  t[i] = IF i < k THEN entries[i] ELSE entries[i + 1]
        <4>1. entries \in Seq(EntryRows) /\ k \in DOMAIN entries
          BY <1>1, <2>3
        <4> HIDE <1>3
        <4> QED BY <2>4, <4>1, WithoutPlace
      <3> QED BY <3>1, Zenon
    <2>6. PICK at : at = [i \in DOMAIN t |-> IF i < k THEN i ELSE i + 1]
      OBVIOUS
    <2>7. /\ \A i \in DOMAIN t : /\ at[i] \in DOMAIN entries /\ at[i] # k /\ at[i] \in Nat
                                 /\ t[i] = entries[at[i]] /\ i \in Nat
          /\ \A i, j \in DOMAIN t : i < j => at[i] < at[j]
          /\ \A i, j \in DOMAIN t : at[i] = at[j] => i = j
      BY <1>1, <2>3, <2>5, <2>6
    <2>8. MapOK(t)
      <3>1. \A i, j \in DOMAIN t : t[i].account = t[j].account => i = j
        BY <2>7 DEF MapOK
      <3>2. \A i, j \in DOMAIN t : i < j => t[i].at <= t[j].at
        BY <2>7 DEF MapOK
      <3> QED BY <2>5, <3>1, <3>2 DEF MapOK
    <2>9. PartOf(t, entries)
      BY <2>7 DEF PartOf
    <2>10. \A i \in DOMAIN t : t[i].account # c
      BY <2>3, <2>7 DEF MapOK
    <2>11. ASSUME NEW j \in DOMAIN entries, entries[j].account # c
           PROVE  \E i \in DOMAIN t : t[i] = entries[j]
      <3>1. j # k /\ j \in 1 .. Len(entries) /\ k \in 1 .. Len(entries)
        BY <1>1, <2>3, <2>11
      <3>2. CASE j < k
        <4>1. j \in DOMAIN t
          BY <1>1, <2>5, <3>1, <3>2
        <4> QED BY <2>5, <3>2, <4>1
      <3>3. CASE j > k
        <4>1. j - 1 \in DOMAIN t /\ ~(j - 1 < k) /\ (j - 1) + 1 = j
          BY <1>1, <2>5, <3>1, <3>3
        <4> QED BY <2>5, <4>1
      <3> QED BY <3>1, <3>2, <3>3
    <2> QED BY <1>1, <2>5, <2>8, <2>9, <2>10, <2>11
  <1> QED BY <1>2, <1>3

\* Making room drops the first, which failed before all others.
LEMMA EvictedAre ==
    ASSUME MaxEntries \in Nat \ {0}, NEW t, MapOK(t), Len(t) <= MaxEntries,
           NEW u, u = L!Evicted(t)
    PROVE  /\ MapOK(u) /\ Len(u) < MaxEntries /\ PartOf(u, t)
           /\ \A j \in DOMAIN t :
                 \/ \E i \in DOMAIN u : u[i] = t[j]
                 \/ \A i \in DOMAIN u : t[j].at <= u[i].at
           /\ Len(t) < MaxEntries => u = t
  <1>1. t \in Seq(EntryRows) /\ Len(t) \in Nat /\ DOMAIN t = 1 .. Len(t)
    BY LenProperties DEF MapOK
  <1>2. CASE Len(t) < MaxEntries
    <2>1. u = t
      <3>1. ~(Len(t) >= MaxEntries)
        BY <1>1, <1>2
      <3> QED BY <3>1, Zenon DEF L!Evicted
    <2> QED BY <1>1, <1>2, <2>1 DEF PartOf
  <1>3. CASE ~(Len(t) < MaxEntries)
    <2>1. u = Tail(t) /\ t # << >> /\ Len(t) = MaxEntries
      <3>1. Len(t) >= MaxEntries /\ Len(t) = MaxEntries /\ Len(t) > 0
        <4>1. PICK n : n = Len(t)
          OBVIOUS
        <4>2. n \in Nat /\ n <= MaxEntries /\ ~(n < MaxEntries) /\ MaxEntries \in Nat
              /\ MaxEntries # 0
          BY <1>1, <1>3, <4>1
        <4>3. n >= MaxEntries /\ n = MaxEntries /\ n > 0
          BY <4>2
        <4> QED BY <4>1, <4>3
      <3>2. u = Tail(t)
        BY <3>1, Zenon DEF L!Evicted
      <3> QED BY <1>1, <3>1, <3>2, EmptySeq
    <2>2. /\ u \in Seq(EntryRows) /\ Len(u) = Len(t) - 1 /\ DOMAIN u = 1 .. Len(t) - 1
          /\ \A i \in DOMAIN u : i \in Nat /\ i + 1 \in DOMAIN t /\ i + 1 > 1 /\ u[i] = t[i + 1]
      BY <1>1, <2>1
    <2>3. \A i, j \in DOMAIN u : u[i].account = u[j].account => i = j
      BY <1>1, <2>2 DEF MapOK
    <2>4. \A i, j \in DOMAIN u : i < j => u[i].at <= u[j].at
      BY <1>1, <2>2 DEF MapOK
    <2>5. PartOf(u, t)
      BY <2>2 DEF PartOf
    <2>6. ASSUME NEW j \in DOMAIN t
          PROVE  \/ \E i \in DOMAIN u : u[i] = t[j]
                 \/ \A i \in DOMAIN u : t[j].at <= u[i].at
      <3>1. CASE j = 1
        <4>1. \A i \in DOMAIN u : t[1].at <= t[i + 1].at
          BY <1>1, <2>2, <2>6, <3>1 DEF MapOK
        <4> QED BY <2>2, <3>1, <4>1
      <3>2. CASE j # 1
        <4>1. j - 1 \in DOMAIN u /\ (j - 1) + 1 = j
          BY <1>1, <2>2, <2>6, <3>2
        <4> QED BY <2>2, <4>1
      <3> QED BY <3>1, <3>2
    <2> QED BY <1>1, <1>3, <2>1, <2>2, <2>3, <2>4, <2>5, <2>6 DEF MapOK
  <1> QED BY <1>2, <1>3

LEMMA EntriesBegin ==
    ASSUME L!Init, MaxEntries \in Nat \ {0}, MaxTime \in Nat
    PROVE  EntriesIInv /\ CountsIInv
  <1>1. /\ now = 0 /\ entries = << >> /\ outcomes = [c \in Logins |-> << >>]
    BY DEF L!Init
  <1>2. /\ entries \in Seq(EntryRows) /\ Len(entries) = 0 /\ DOMAIN entries = {}
        /\ \A c \in Logins : outcomes[c] = << >>
        /\ outcomes \in [Logins -> Seq(Nat)]
    BY <1>1
  <1>3. EntriesIInv
    BY <1>1, <1>2 DEF EntriesIInv
  <1> QED BY <1>2, <1>3 DEF CountsIInv

\* What the map says of those in it, and of those who are not.
LEMMA TheMap ==
    ASSUME EntriesIInv
    PROVE  /\ MapOK(entries) /\ now \in Nat
           /\ \A i \in DOMAIN entries :
                 /\ entries[i].account \in Logins /\ entries[i].failures \in Nat
                 /\ entries[i].at \in Nat /\ entries[i].at <= now
                 /\ entries[i].at = L!Last(outcomes[entries[i].account])
           /\ \A c \in Logins : outcomes[c] # << >> =>
                 L!Last(outcomes[c]) \in Nat /\ L!Last(outcomes[c]) <= now
  <1>1. MapOK(entries) /\ now \in Nat
    BY DEF EntriesIInv, MapOK
  <1>2. ASSUME NEW c \in Logins, outcomes[c] # << >>
        PROVE  L!Last(outcomes[c]) \in Nat /\ L!Last(outcomes[c]) <= now
    <2>1. outcomes[c] \in Seq(Nat)
      BY DEF EntriesIInv
    <2>2. Len(outcomes[c]) \in DOMAIN outcomes[c] /\ L!Last(outcomes[c]) = outcomes[c][Len(outcomes[c])]
      BY <1>2, <2>1, LastOf
    <2>3. outcomes[c][Len(outcomes[c])] \in Nat
      BY <2>1, <2>2, LenProperties
    <2> QED BY <2>2, <2>3 DEF EntriesIInv
  <1>3. \A i \in DOMAIN entries :
           /\ entries[i].account \in Logins /\ entries[i].failures \in Nat
           /\ entries[i].at \in Nat
    <2>1. entries \in Seq(EntryRows)
      BY DEF EntriesIInv
    <2>2. \A i \in DOMAIN entries : entries[i] \in EntryRows
      BY <2>1
    <2> QED BY <2>2 DEF EntryRows
  <1>4. \A i \in DOMAIN entries :
           /\ outcomes[entries[i].account] # << >>
           /\ entries[i].at = L!Last(outcomes[entries[i].account])
    BY DEF EntriesIInv
  <1> QED BY <1>1, <1>2, <1>3, <1>4

\* Who is not in a later map was not in the earlier one, or was left out of it.
LEMMA Absent ==
    ASSUME NEW es, NEW d
    PROVE  {i \in DOMAIN es : es[i].account = d} = {} <=> \A i \in DOMAIN es : es[i].account # d
  OBVIOUS

LEMMA FailureKept ==
    ASSUME EntriesIInv, MaxEntries \in Nat \ {0}, NEW c \in Logins, UNCHANGED now,
           L!RecordFailure(c), outcomes' = [outcomes EXCEPT ![c] = Append(@, now)]
    PROVE  EntriesIInv'
  <1>1. PICK t : t = L!Others(c)
    OBVIOUS
  <1>2. PICK u : u = L!Evicted(t)
    OBVIOUS
  <1>3. PICK e : e = [account |-> c, failures |-> L!Failures(c) + 1, at |-> now]
    OBVIOUS
  <1>4. entries' = Append(u, e)
    BY <1>1, <1>2, <1>3 DEF L!RecordFailure, L!Recorded
  <1>5. MapOK(entries) /\ Len(entries) <= MaxEntries /\ now \in Nat /\ now <= MaxTime
        /\ entries \in Seq(EntryRows) /\ Len(entries) \in Nat
    BY TheMap, LenProperties DEF EntriesIInv
  <1>6. /\ MapOK(t) /\ Len(t) <= MaxEntries /\ PartOf(t, entries)
        /\ \A i \in DOMAIN t : t[i].account # c
        /\ \A j \in DOMAIN entries : entries[j].account # c =>
              \E i \in DOMAIN t : t[i] = entries[j]
    <2>1. t \in Seq(EntryRows) /\ Len(t) <= Len(entries)
      BY <1>1, <1>5, OthersAre DEF MapOK
    <2>2. Len(t) \in Nat
      BY <2>1, LenProperties
    <2> QED BY <1>1, <1>5, <2>1, <2>2, OthersAre
  <1>7. /\ MapOK(u) /\ Len(u) < MaxEntries /\ PartOf(u, t)
        /\ \A j \in DOMAIN t :
              \/ \E i \in DOMAIN u : u[i] = t[j]
              \/ \A i \in DOMAIN u : t[j].at <= u[i].at
    BY <1>2, <1>6, EvictedAre
  <1>8. \A i \in DOMAIN u : \E j \in DOMAIN entries : u[i] = entries[j] /\ u[i].account # c
    BY <1>6, <1>7 DEF PartOf
  <1>9. L!Failures(c) + 1 \in Nat
    <2>1. CASE L!EntriesOf(c) = {}
      BY <2>1 DEF L!Failures
    <2>2. CASE L!EntriesOf(c) # {}
      <3>1. PICK i \in DOMAIN entries : entries[i].account = c
        BY <2>2 DEF L!EntriesOf
      <3>2. L!EntryOf(c) = entries[i] /\ entries[i].failures \in Nat
        BY <1>5, <3>1, TheEntry, TheMap
      <3>3. L!Failures(c) = entries[i].failures
        BY <2>2, <3>2 DEF L!Failures
      <3> QED BY <3>2, <3>3
    <2> QED BY <2>1, <2>2
  <1>10. e \in EntryRows
    BY <1>3, <1>5, <1>9 DEF EntryRows
  <1>11. u \in Seq(EntryRows) /\ Len(u) \in Nat /\ DOMAIN u = 1 .. Len(u)
    BY <1>7, LenProperties DEF MapOK
  <1>12. /\ entries' \in Seq(EntryRows) /\ Len(entries') = Len(u) + 1
         /\ DOMAIN entries' = 1 .. Len(u) + 1
         /\ \A i \in DOMAIN u : entries'[i] = u[i] /\ i \in DOMAIN entries'
         /\ entries'[Len(u) + 1] = e /\ Len(u) + 1 \in DOMAIN entries'
         /\ \A i \in DOMAIN entries' : i \in DOMAIN u \/ i = Len(u) + 1
    BY <1>4, <1>10, <1>11
  <1>13. /\ outcomes' \in [Logins -> Seq(Nat)]
         /\ outcomes[c] \in Seq(Nat) /\ outcomes'[c] = Append(outcomes[c], now)
         /\ \A d \in Logins \ {c} : outcomes'[d] = outcomes[d]
    <2>1. outcomes \in [Logins -> Seq(Nat)]
      BY DEF EntriesIInv
    <2>2. Append(outcomes[c], now) \in Seq(Nat)
      BY <1>5, <2>1, AppendProperties
    <2> QED BY <2>1, <2>2
  <1>14. /\ outcomes'[c] # << >> /\ L!Last(outcomes'[c]) = now
         /\ \A i \in DOMAIN outcomes'[c] :
               \/ i \in DOMAIN outcomes[c] /\ outcomes'[c][i] = outcomes[c][i]
               \/ outcomes'[c][i] = now
    <2>1. /\ Len(outcomes'[c]) = Len(outcomes[c]) + 1 /\ Len(outcomes[c]) \in Nat
          /\ outcomes'[c][Len(outcomes[c]) + 1] = now
          /\ outcomes'[c] \in Seq(Nat)
          /\ DOMAIN outcomes[c] = 1 .. Len(outcomes[c])
          /\ DOMAIN outcomes'[c] = 1 .. Len(outcomes[c]) + 1
          /\ \A i \in 1 .. Len(outcomes[c]) : outcomes'[c][i] = outcomes[c][i]
      BY <1>5, <1>13, AppendProperties, LenProperties
    <2>2. outcomes'[c] # << >>
      BY <2>1, EmptySeq
    <2>3. L!Last(outcomes'[c]) = now
      BY <2>1 DEF L!Last
    <2> QED BY <2>1, <2>2, <2>3
  <1>15. \A d \in Logins : \A i \in DOMAIN outcomes'[d] : outcomes'[d][i] <= now
    <2>1. \A d \in Logins : \A i \in DOMAIN outcomes[d] : outcomes[d][i] <= now
      BY DEF EntriesIInv
    <2>2. now <= now
      BY <1>5
    <2> QED BY <1>13, <1>14, <2>1, <2>2
  <1>16. \A i, j \in DOMAIN entries' : entries'[i].account = entries'[j].account => i = j
    <2>1. \A i, j \in DOMAIN u : u[i].account = u[j].account => i = j
      BY <1>7 DEF MapOK
    <2>2. e.account = c
      BY <1>3
    <2> QED BY <1>8, <1>12, <2>1, <2>2
  <1>17. \A i \in DOMAIN u : u[i].at \in Nat /\ u[i].at <= now
    BY <1>8, TheMap
  <1>18. \A i, j \in DOMAIN entries' : i < j => entries'[i].at <= entries'[j].at
    <2>1. ASSUME NEW i \in DOMAIN entries', NEW j \in DOMAIN entries', i < j
          PROVE  entries'[i].at <= entries'[j].at
      <3>1. i \in DOMAIN u
        BY <1>11, <1>12, <2>1
      <3>2. CASE j \in DOMAIN u
        <4>1. u[i].at <= u[j].at
          BY <1>7, <2>1, <3>1, <3>2 DEF MapOK
        <4> QED BY <1>12, <3>1, <3>2, <4>1
      <3>3. CASE j = Len(u) + 1
        <4>1. entries'[j].at = now
          BY <1>3, <1>12, <3>3
        <4> QED BY <1>12, <1>17, <3>1, <4>1
      <3> QED BY <1>12, <3>2, <3>3
    <2> QED BY <2>1
  <1>19. ASSUME NEW i \in DOMAIN entries'
         PROVE  /\ outcomes'[entries'[i].account] # << >>
                /\ entries'[i].at = L!Last(outcomes'[entries'[i].account])
    <2>1. CASE i \in DOMAIN u
      <3>1. PICK j \in DOMAIN entries : u[i] = entries[j] /\ u[i].account # c
        BY <1>8, <2>1
      <3>2. /\ outcomes[entries[j].account] # << >>
            /\ entries[j].at = L!Last(outcomes[entries[j].account])
            /\ entries[j].account \in Logins
        BY TheMap DEF EntriesIInv
      <3>3. outcomes'[entries[j].account] = outcomes[entries[j].account]
        BY <1>13, <3>1, <3>2
      <3> QED BY <1>12, <2>1, <3>1, <3>2, <3>3
    <2>2. CASE i = Len(u) + 1
      BY <1>3, <1>12, <1>14, <2>2
    <2> QED BY <1>12, <2>1, <2>2
  <1>20. ASSUME NEW d \in Logins, NEW k \in DOMAIN entries', outcomes'[d] # << >>,
                L!EntriesOf(d)' = {}
         PROVE  L!Last(outcomes'[d]) <= entries'[k].at
    <2>1. \A i \in DOMAIN entries' : entries'[i].account # d
      BY <1>20 DEF L!EntriesOf
    <2>2. d # c /\ outcomes'[d] = outcomes[d]
      <3>1. Len(u) + 1 \in DOMAIN entries' /\ entries'[Len(u) + 1].account = c
        BY <1>3, <1>12
      <3>2. d # c
        BY <2>1, <3>1
      <3> QED BY <1>13, <3>2
    <2>3. L!Last(outcomes[d]) \in Nat /\ L!Last(outcomes[d]) <= now
      BY <1>20, <2>2, TheMap
    <2>4. CASE k = Len(u) + 1
      BY <1>3, <1>12, <2>2, <2>3, <2>4
    <2>5. CASE k \in DOMAIN u
      <3>1. PICK j \in DOMAIN entries : u[k] = entries[j]
        BY <1>8, <2>5
      <3>2. CASE L!EntriesOf(d) = {}
        <4>1. L!Last(outcomes[d]) <= entries[j].at
          BY <1>20, <2>2, <3>2 DEF EntriesIInv
        <4> QED BY <1>12, <2>2, <2>5, <3>1, <4>1
      <3>3. CASE L!EntriesOf(d) # {}
        <4>1. PICK m \in DOMAIN entries : entries[m].account = d
          BY <3>3 DEF L!EntriesOf
        <4>2. PICK n \in DOMAIN t : t[n] = entries[m]
          BY <1>6, <2>2, <4>1
        <4>3. \A i \in DOMAIN u : u[i] # t[n]
          BY <1>12, <2>1, <4>1, <4>2
        <4>4. t[n].at <= u[k].at
          BY <1>7, <2>5, <4>3
        <4>5. entries[m].at = L!Last(outcomes[d])
          BY <4>1, TheMap
        <4> QED BY <1>12, <2>2, <2>5, <4>2, <4>4, <4>5
      <3> QED BY <3>2, <3>3
    <2> QED BY <1>12, <2>4, <2>5
  <1>21. Len(entries') <= MaxEntries
    BY <1>7, <1>11, <1>12
  <1> QED
    BY <1>5, <1>12, <1>13, <1>15, <1>16, <1>18, <1>19, <1>20, <1>21 DEF EntriesIInv

LEMMA ResetKept ==
    ASSUME EntriesIInv, MaxEntries \in Nat \ {0}, NEW c \in Logins, UNCHANGED now,
           L!Reset(c), outcomes' = [outcomes EXCEPT ![c] = << >>]
    PROVE  EntriesIInv'
  <1>1. PICK t : t = L!Others(c)
    OBVIOUS
  <1>2. entries' = t
    BY <1>1 DEF L!Reset
  <1>3. MapOK(entries) /\ Len(entries) <= MaxEntries /\ now \in Nat /\ now <= MaxTime
        /\ entries \in Seq(EntryRows) /\ Len(entries) \in Nat
    BY TheMap, LenProperties DEF EntriesIInv
  <1>4. /\ MapOK(t) /\ Len(t) <= Len(entries) /\ PartOf(t, entries)
        /\ \A i \in DOMAIN t : t[i].account # c
        /\ \A j \in DOMAIN entries : entries[j].account # c =>
              \E i \in DOMAIN t : t[i] = entries[j]
    BY <1>1, <1>3, OthersAre
  <1>5. Len(t) \in Nat
    BY <1>4, LenProperties DEF MapOK
  <1>6. /\ outcomes' \in [Logins -> Seq(Nat)] /\ outcomes'[c] = << >>
        /\ \A d \in Logins \ {c} : outcomes'[d] = outcomes[d]
    BY DEF EntriesIInv
  <1>7. \A d \in Logins : \A i \in DOMAIN outcomes'[d] : outcomes'[d][i] <= now
    BY <1>6 DEF EntriesIInv
  <1>8. ASSUME NEW i \in DOMAIN entries'
        PROVE  /\ outcomes'[entries'[i].account] # << >>
               /\ entries'[i].at = L!Last(outcomes'[entries'[i].account])
    <2>1. PICK j \in DOMAIN entries : entries'[i] = entries[j] /\ entries[j].account # c
      BY <1>2, <1>4, <1>8 DEF PartOf
    <2>2. /\ outcomes[entries[j].account] # << >>
          /\ entries[j].at = L!Last(outcomes[entries[j].account])
          /\ entries[j].account \in Logins
      BY TheMap DEF EntriesIInv
    <2>3. outcomes'[entries[j].account] = outcomes[entries[j].account]
      BY <1>6, <2>1, <2>2
    <2> QED BY <2>1, <2>2, <2>3
  <1>9. ASSUME NEW d \in Logins, NEW k \in DOMAIN entries', outcomes'[d] # << >>,
               L!EntriesOf(d)' = {}
        PROVE  L!Last(outcomes'[d]) <= entries'[k].at
    <2>1. \A i \in DOMAIN entries' : entries'[i].account # d
      BY <1>9 DEF L!EntriesOf
    <2>2. d # c /\ outcomes'[d] = outcomes[d]
      BY <1>6, <1>9
    <2>3. L!EntriesOf(d) = {}
      BY <1>2, <1>4, <2>1, <2>2 DEF L!EntriesOf
    <2>4. PICK j \in DOMAIN entries : entries'[k] = entries[j]
      BY <1>2, <1>4, <1>9 DEF PartOf
    <2> QED BY <1>9, <2>2, <2>3, <2>4 DEF EntriesIInv
  <1>10. Len(entries') <= MaxEntries
    BY <1>2, <1>3, <1>4, <1>5
  <1> QED
    BY <1>2, <1>3, <1>4, <1>6, <1>7, <1>8, <1>9, <1>10 DEF EntriesIInv, MapOK

\* With room for every account nobody is left out.
LEMMA RoomForAll ==
    ASSUME NEW c \in Logins, IsFiniteSet(Logins), Cardinality(Logins) <= MaxEntries,
           MaxEntries \in Nat, NEW t, MapOK(t), \A i \in DOMAIN t : t[i].account # c
    PROVE  Len(t) < MaxEntries
  <1>1. t \in Seq(EntryRows) /\ Len(t) \in Nat /\ DOMAIN t = 1 .. Len(t)
    BY LenProperties DEF MapOK
  <1>2. PICK n : n = Len(t)
    OBVIOUS
  <1>3. PICK f : f = [i \in 1 .. n |-> t[i].account]
    OBVIOUS
  <1>4. \A i \in 1 .. n : t[i] \in EntryRows
    BY <1>1, <1>2
  <1>5. f \in [1 .. n -> Logins \ {c}]
    BY <1>1, <1>2, <1>3, <1>4 DEF EntryRows
  <1>6. \A i, j \in 1 .. n : f[i] = f[j] => i = j
    BY <1>1, <1>2, <1>3 DEF MapOK
  <1>7. f \in Injection(1 .. n, Logins \ {c})
    BY <1>5, <1>6 DEF Injection, IsInjective
  <1>8. /\ IsFiniteSet(Logins \ {c}) /\ Cardinality(Logins \ {c}) = Cardinality(Logins) - 1
        /\ Cardinality(Logins) \in Nat
    BY FS_RemoveElement, FS_CardinalityType
  <1>9. Cardinality(1 .. n) <= Cardinality(Logins \ {c})
    BY <1>7, <1>8, FS_Injection
  <1>10. Cardinality(1 .. n) = n /\ n \in Nat
    <2>1. n \in Nat /\ n \in Int /\ 1 \in Int
      BY <1>1, <1>2
    <2>2. Cardinality(1 .. n) = IF 1 > n THEN 0 ELSE n - 1 + 1
      BY <2>1, FS_Interval
    <2> QED BY <2>1, <2>2
  <1> QED BY <1>2, <1>8, <1>9, <1>10

Roomy == IsFiniteSet(Logins) /\ Cardinality(Logins) <= MaxEntries

LEMMA FailureCounted ==
    ASSUME EntriesIInv, CountsIInv, Roomy, MaxEntries \in Nat \ {0}, NEW c \in Logins,
           L!RecordFailure(c), outcomes' = [outcomes EXCEPT ![c] = Append(@, now)]
    PROVE  CountsIInv'
  <1>1. PICK t : t = L!Others(c)
    OBVIOUS
  <1>2. PICK e : e = [account |-> c, failures |-> L!Failures(c) + 1, at |-> now]
    OBVIOUS
  <1>3. MapOK(entries)
    BY TheMap
  <1>4. /\ MapOK(t) /\ Len(t) <= Len(entries)
        /\ \A i \in DOMAIN t : t[i].account # c
        /\ \A j \in DOMAIN entries : entries[j].account # c =>
              \E i \in DOMAIN t : t[i] = entries[j]
    BY <1>1, <1>3, OthersAre
  <1>5. t \in Seq(EntryRows) /\ Len(t) \in Nat /\ DOMAIN t = 1 .. Len(t)
    BY <1>4, LenProperties DEF MapOK
  <1>6. Len(t) < MaxEntries
    BY <1>4, RoomForAll DEF Roomy
  <1>7. L!Evicted(t) = t
    BY <1>4, <1>5, <1>6, EvictedAre
  <1>8. entries' = Append(t, e)
    BY <1>1, <1>2, <1>7 DEF L!RecordFailure, L!Recorded
  <1>9. /\ \A i \in DOMAIN t : i \in DOMAIN entries' /\ entries'[i] = t[i]
        /\ Len(t) + 1 \in DOMAIN entries' /\ entries'[Len(t) + 1] = e
    BY <1>5, <1>8
  <1>10. /\ outcomes[c] \in Seq(Nat) /\ outcomes'[c] = Append(outcomes[c], now)
         /\ Len(outcomes'[c]) = Len(outcomes[c]) + 1
         /\ \A d \in Logins \ {c} : outcomes'[d] = outcomes[d]
    <2>1. outcomes \in [Logins -> Seq(Nat)] /\ now \in Nat
      BY DEF EntriesIInv
    <2>2. outcomes'[c] = Append(outcomes[c], now) /\ outcomes[c] \in Seq(Nat)
      BY <2>1
    <2> QED BY <2>1, <2>2, AppendProperties
  <1>11. L!Failures(c) = Len(outcomes[c])
    <2>1. CASE outcomes[c] = << >>
      <3>1. L!EntriesOf(c) = {}
        BY <2>1 DEF EntriesIInv, L!EntriesOf
      <3> QED BY <2>1, <3>1, EmptySeq DEF L!Failures
    <2>2. CASE outcomes[c] # << >>
      <3>1. PICK i \in DOMAIN entries :
               entries[i].account = c /\ entries[i].failures = Len(outcomes[c])
        BY <2>2 DEF CountsIInv
      <3> QED BY <1>3, <3>1, TheEntry DEF L!Failures
    <2> QED BY <2>1, <2>2
  <1>12. e.account = c /\ e.failures = Len(outcomes'[c])
    BY <1>2, <1>10, <1>11
  <1>13. ASSUME NEW d \in Logins, outcomes'[d] # << >>, d # c
         PROVE  \E i \in DOMAIN entries' :
                   entries'[i].account = d /\ entries'[i].failures = Len(outcomes'[d])
    <2>1. PICK j \in DOMAIN entries :
             entries[j].account = d /\ entries[j].failures = Len(outcomes[d])
      BY <1>10, <1>13 DEF CountsIInv
    <2>2. PICK i \in DOMAIN t : t[i] = entries[j]
      BY <1>4, <1>13, <2>1
    <2> QED BY <1>9, <1>10, <1>13, <2>1, <2>2
  <1> QED BY <1>9, <1>12, <1>13 DEF CountsIInv

LEMMA ResetCounted ==
    ASSUME EntriesIInv, CountsIInv, NEW c \in Logins,
           L!Reset(c), outcomes' = [outcomes EXCEPT ![c] = << >>]
    PROVE  CountsIInv'
  <1>1. PICK t : t = L!Others(c) /\ entries' = t
    BY DEF L!Reset
  <1>2. \A j \in DOMAIN entries : entries[j].account # c =>
              \E i \in DOMAIN t : t[i] = entries[j]
    BY <1>1, TheMap, OthersAre
  <1>3. /\ outcomes'[c] = << >>
        /\ \A d \in Logins \ {c} : outcomes'[d] = outcomes[d]
    BY DEF EntriesIInv
  <1> QED BY <1>1, <1>2, <1>3 DEF CountsIInv

LEMMA SameMap ==
    ASSUME EntriesIInv, UNCHANGED <<now, entries, outcomes>>
    PROVE  EntriesIInv' /\ (CountsIInv => CountsIInv')
  BY DEF EntriesIInv, CountsIInv, L!EntriesOf

LEMMA MapStep ==
    ASSUME EntriesIInv, ChainIInv, None \notin Attempts, MaxEntries \in Nat \ {0}, MaxTime \in Nat,
           [L!Next]_(L!vars)
    PROVE  EntriesIInv' /\ (Roomy /\ CountsIInv => CountsIInv')
  <1>1. CASE UNCHANGED L!vars
    BY <1>1, SameMap DEF L!vars
  <1>2. CASE L!Tick
    <2>1. now' = now + 1 /\ now < MaxTime /\ UNCHANGED <<entries, outcomes>> /\ now \in Nat
      BY <1>2 DEF L!Tick, EntriesIInv
    <2>2. now' \in Nat /\ now' <= MaxTime
      BY <2>1
    <2>3. \A c \in Logins : \A i \in DOMAIN outcomes[c] : outcomes[c][i] <= now'
      <3>1. outcomes \in [Logins -> Seq(Nat)]
            /\ \A c \in Logins : \A i \in DOMAIN outcomes[c] : outcomes[c][i] <= now
        BY DEF EntriesIInv
      <3>2. \A c \in Logins : \A i \in DOMAIN outcomes[c] : outcomes[c][i] \in Nat
        BY <3>1
      <3> QED BY <2>1, <3>1, <3>2
    <2>4. EntriesIInv'
      BY <2>1, <2>2, <2>3 DEF EntriesIInv, L!EntriesOf
    <2> QED BY <2>1, <2>4 DEF CountsIInv
  <1>3. ASSUME NEW a \in Attempts, L!Fail(a)
        PROVE  EntriesIInv' /\ (Roomy /\ CountsIInv => CountsIInv')
    <2>1. PICK c : c = attempt[a].account
      OBVIOUS
    <2>2. /\ UNCHANGED now /\ L!RecordFailure(c)
          /\ outcomes' = [outcomes EXCEPT ![c] = Append(@, now)]
          /\ attempt[a].state \in Under
      BY <1>3, <2>1 DEF L!Fail, L!State, L!Account, Under
    <2>3. c \in Logins
      BY <2>1, <2>2 DEF ChainIInv, Queues
    <2> QED BY <2>2, <2>3, FailureKept, FailureCounted
  <1>4. ASSUME NEW a \in Attempts, L!Succeed(a)
        PROVE  EntriesIInv' /\ (Roomy /\ CountsIInv => CountsIInv')
    <2>1. PICK c : c = attempt[a].account
      OBVIOUS
    <2>2. /\ UNCHANGED now /\ L!Reset(c)
          /\ outcomes' = [outcomes EXCEPT ![c] = << >>]
          /\ attempt[a].state \in Under
      BY <1>4, <2>1 DEF L!Succeed, L!State, L!Account, Under
    <2>3. c \in Logins
      BY <2>1, <2>2 DEF ChainIInv, Queues
    <2> QED BY <2>2, <2>3, ResetKept, ResetCounted
  <1>5. ASSUME NEW a \in Attempts,
               L!Arrive(a) \/ L!Start(a) \/ L!TurnedAway(a) \/ L!Store(a) \/ L!Break(a)
        PROVE  EntriesIInv' /\ (Roomy /\ CountsIInv => CountsIInv')
    <2>1. UNCHANGED <<now, entries, outcomes>>
      BY <1>5 DEF L!Arrive, L!Start, L!TurnedAway, L!Store, L!Break
    <2> QED BY <2>1, SameMap
  <1> QED BY <1>1, <1>2, <1>3, <1>4, <1>5 DEF L!Next, L!Runs

\* A verification begins by Start and in no other way.
LEMMA OnlyStartBegins ==
    ASSUME ChainIInv, [L!Next]_(L!vars), NEW a \in Attempts,
           attempt[a].state = "queued", attempt'[a].state = "verifying"
    PROVE  L!Start(a)
  <1>1. attempt \in [Attempts -> AttemptRows]
    BY DEF ChainIInv
  <1>2. ~UNCHANGED attempt
    OBVIOUS
  <1>3. \A b \in Attempts : ~L!Arrive(b)
    <2>1. SUFFICES ASSUME NEW b \in Attempts, L!Arrive(b)
                   PROVE  FALSE
      OBVIOUS
    <2>2. PICK c \in Logins, kind \in {"login", "change"} :
             attempt' = [attempt EXCEPT ![b] = [state |-> "queued", account |-> c, kind |-> kind]]
      BY <2>1 DEF L!Arrive
    <2> QED BY <1>1, <2>2
  <1>4. ASSUME NEW b \in Attempts, NEW state \in {"done", "broken"}, L!Leave(b, state)
        PROVE  FALSE
    <2>1. attempt' = [attempt EXCEPT ![b].state = state]
      BY <1>4 DEF L!Leave
    <2>2. attempt'[a].state \in {attempt[a].state, state}
      BY <1>1, <2>1 DEF AttemptRows
    <2> QED BY <2>2
  <1>5. ASSUME NEW b \in Attempts, L!Succeed(b)
        PROVE  FALSE
    <2>1. attempt' = [attempt EXCEPT ![b].state = "storing"]
      BY <1>4, <1>5 DEF L!Succeed
    <2>2. attempt'[a].state \in {attempt[a].state, "storing"}
      BY <1>1, <2>1 DEF AttemptRows
    <2> QED BY <2>2
  <1>6. PICK b \in Attempts : L!Start(b)
    BY <1>2, <1>3, <1>4, <1>5
       DEF L!Next, L!vars, L!Runs, L!Tick, L!TurnedAway, L!Fail, L!Store, L!Break
  <1>7. attempt' = [attempt EXCEPT ![b].state = "verifying"]
    BY <1>6 DEF L!Start
  <1>8. b = a
    <2>1. SUFFICES ASSUME b # a
                   PROVE  FALSE
      OBVIOUS
    <2>2. attempt'[a] = attempt[a]
      BY <1>1, <1>7, <2>1
    <2> QED BY <2>2
  <1> QED BY <1>6, <1>8

ThrottleConstants == None \notin Attempts /\ MaxEntries \in Nat \ {0} /\ MaxTime \in Nat

\* However accounts fail and succeed: the map has one entry of an account and
\* never more than its cap, and what the cap drops is the account that has not
\* failed for the longest (backoff.ts recordFailure).
THEOREM StalestIsDropped ==
    ThrottleConstants /\ L!Spec => [](L!ThrottleTypeOK /\ L!DropsTheStalest)
  <1> SUFFICES ASSUME ThrottleConstants
               PROVE  L!Spec => [](L!ThrottleTypeOK /\ L!DropsTheStalest)
    OBVIOUS
  <1>1. L!Init => ChainIInv /\ EntriesIInv
    BY ChainBegins, EntriesBegin DEF ThrottleConstants
  <1>2. ChainIInv /\ EntriesIInv /\ [L!Next]_(L!vars) => ChainIInv' /\ EntriesIInv'
    BY ChainStep, MapStep DEF ThrottleConstants
  <1>3. ChainIInv /\ EntriesIInv => L!ThrottleTypeOK /\ L!DropsTheStalest
    <2> SUFFICES ASSUME ChainIInv, EntriesIInv
                 PROVE  L!ThrottleTypeOK /\ L!DropsTheStalest
      OBVIOUS
    <2>1. now \in 0 .. MaxTime /\ Len(entries) <= MaxEntries
      BY DEF EntriesIInv, ThrottleConstants
    <2>2. \A a \in Attempts : L!State(a) \in
            {"idle", "queued", "verifying", "storing", "done", "broken"}
      BY DEF ChainIInv, AttemptRows, Under, L!State
    <2>3. ASSUME NEW c \in Logins
          PROVE  L!Cardinality(L!EntriesOf(c)) <= 1
      <3>1. \A i, j \in L!EntriesOf(c) : i = j
        BY DEF L!EntriesOf, EntriesIInv
      <3>2. L!EntriesOf(c) = {} \/ \E i : L!EntriesOf(c) = {i}
        BY <3>1
      <3>3. L!Cardinality(L!EntriesOf(c)) = Cardinality(L!EntriesOf(c))
        BY Zenon DEF L!Cardinality, Cardinality, L!IsFiniteSet, IsFiniteSet
      <3>4. Cardinality(L!EntriesOf(c)) = 0 \/ Cardinality(L!EntriesOf(c)) = 1
        BY <3>2, FS_EmptySet, FS_Singleton
      <3> QED BY <3>3, <3>4
    <2>4. ASSUME NEW c \in Logins, NEW d \in Logins, outcomes[c] # << >>, outcomes[d] # << >>,
                 L!EntriesOf(c) = {}, L!EntriesOf(d) # {}
          PROVE  L!LastFailure(c) <= L!LastFailure(d)
      <3>1. PICK i \in DOMAIN entries : entries[i].account = d
        BY <2>4 DEF L!EntriesOf
      <3>2. entries[i].at = L!Last(outcomes[d])
        BY <3>1, TheMap
      <3>3. L!Last(outcomes[c]) <= entries[i].at
        BY <2>4 DEF EntriesIInv
      <3> QED BY <2>4, <3>2, <3>3 DEF L!LastFailure
    <2> QED BY <2>1, <2>2, <2>3, <2>4 DEF L!ThrottleTypeOK, L!DropsTheStalest
  <1> QED BY <1>1, <1>2, <1>3, PTL DEF L!Spec

\* While the map has room for all that are tried, no verification begins within
\* the delay that the failures since the last success call for (auth-service.ts
\* attemptLogin: the wait is read when an attempt has its turn, not before).
THEOREM GuessesAreSpaced ==
    ThrottleConstants /\ Roomy /\ L!Spec => [][L!SpacedGuesses]_(L!vars)
  <1> SUFFICES ASSUME ThrottleConstants, Roomy
               PROVE  L!Spec => [][L!SpacedGuesses]_(L!vars)
    OBVIOUS
  <1>1. L!Init => ChainIInv /\ EntriesIInv /\ CountsIInv
    BY ChainBegins, EntriesBegin DEF ThrottleConstants
  <1>2. ChainIInv /\ EntriesIInv /\ CountsIInv /\ [L!Next]_(L!vars)
        => ChainIInv' /\ EntriesIInv' /\ CountsIInv'
    BY ChainStep, MapStep DEF ThrottleConstants
  <1>3. ChainIInv /\ EntriesIInv /\ CountsIInv /\ [L!Next]_(L!vars) => L!SpacedGuesses
    <2> SUFFICES ASSUME ChainIInv, EntriesIInv, CountsIInv, [L!Next]_(L!vars),
                        NEW a \in Attempts, NEW c, c = attempt[a].account,
                        attempt[a].state = "queued", attempt'[a].state = "verifying",
                        outcomes[c] # << >>
                 PROVE  now >= L!Last(outcomes[c]) + L!Delay(Len(outcomes[c]))
      BY DEF L!SpacedGuesses, L!State, L!Account
    <2>1. now >= L!ReadyAt(c)
      BY OnlyStartBegins DEF L!Start, L!Clear, L!Account
    <2>2. c \in Logins
      BY DEF ChainIInv, Queues, Under
    <2>3. PICK i \in DOMAIN entries :
             entries[i].account = c /\ entries[i].failures = Len(outcomes[c])
      BY <2>2 DEF CountsIInv
    <2>4. L!EntriesOf(c) # {} /\ L!EntryOf(c) = entries[i] /\ entries[i].at = L!Last(outcomes[c])
      BY <2>3, TheMap, TheEntry
    <2>5. L!ReadyAt(c) = entries[i].at + L!Delay(entries[i].failures)
      BY <2>4 DEF L!ReadyAt
    <2> QED BY <2>1, <2>3, <2>4, <2>5
  <1> QED BY <1>1, <1>2, <1>3, PTL DEF L!Spec
=============================================================================
