---------------------------- MODULE StreamAccess ----------------------------
(***************************************************************************)
(* The server side of GET /stream (stream-routes.ts) for the streams of one *)
(* user: streams are opened, pushed out, lost by their client and ended by  *)
(* the server, hints are sent through checks that take time, and the user   *)
(* may lose the session or the board meanwhile.                             *)
(***************************************************************************)
EXTENDS Naturals, SequencesExt, SequenceTheorems, FiniteSetTheorems, TLAPS

CONSTANTS
    Conns,      \* connections of the user
    Hints,      \* hints published
    Catalog,    \* those of type board.updated
    Limit,      \* maxStreamsPerUser
    Stops       \* the process may be told to stop

ASSUME StreamAccessAssumption ==
    Catalog \subseteq Hints /\ Limit \in Nat \ {0} /\ Stops \in BOOLEAN

VARIABLES
    session,    \* the session is valid
    access,     \* the user has the board
    phase,      \* connection -> "new", "opening", "open", "refused", "closed"
    socket,     \* connection -> "up", "destroyed", "closed" (its event is out)
    streams,    \* streamsByUser: the open handles, the oldest first
    gauge,      \* opened less closed, of the metrics
    sends,      \* sends under way: [conn, hint, at, ever]; ever: the user has had
                \* the board since the hint was published
    unsent,     \* hints not published yet
    wrote,      \* history: what was written: [conn, hint, ever]
    stopping    \* preClose has run

vars == <<session, access, phase, socket, streams, gauge, sends, unsent, wrote, stopping>>

Init ==
    /\ session = TRUE /\ access = TRUE
    /\ phase = [c \in Conns |-> "new"]
    /\ socket = [c \in Conns |-> "up"]
    /\ streams = << >>
    /\ gauge = 0
    /\ sends = {}
    /\ unsent = Hints
    /\ wrote = {}
    /\ stopping = FALSE

Registered == ToSet(streams)

Without(list, c) ==
    IF c \in ToSet(list) THEN RemoveAt(list, CHOOSE i \in DOMAIN list : list[i] = c) ELSE list

\* close(): once per handle.
Ended(p, cs) == [c \in Conns |-> IF c \in cs /\ p[c] = "open" THEN "closed" ELSE p[c]]
End(cs) ==
    /\ phase' = Ended(phase, cs)
    /\ gauge' = gauge - Cardinality({c \in cs : phase[c] = "open"})
Close(c) == End({c}) /\ streams' = Without(streams, c)

NothingCloses == UNCHANGED <<phase, gauge, streams>>

-----------------------------------------------------------------------------
\* Connections.

\* The session hook and the handler's own check.
Request(c) ==
    /\ phase[c] = "new" /\ socket[c] = "up" /\ ~stopping
    /\ phase' = [phase EXCEPT ![c] = IF session /\ access THEN "opening" ELSE "refused"]
    /\ UNCHANGED <<session, access, socket, streams, gauge, sends, unsent, wrote, stopping>>

\* The oldest handles are closed while there are too many.
Newest(all) == IF Len(all) > Limit THEN SubSeq(all, Len(all) - Limit + 1, Len(all)) ELSE all

\* A client that left before the listener was there has emitted its `close`.
KeepsDestroyed(c) == {}
Reaped(c) == IF socket[c] # "up" THEN {c} ELSE {}

Register(c) ==
    /\ phase[c] = "opening"
    /\ LET newest == Newest(Append(streams, c))
           over   == ((Registered \cup {c}) \ ToSet(newest)) \cup Reaped(c)
       IN  /\ streams' = IF Reaped(c) = {} THEN newest ELSE Without(newest, c)
           /\ phase' = Ended([phase EXCEPT ![c] = "open"], over)
           /\ gauge' = gauge + 1 - Cardinality(over)
    /\ UNCHANGED <<session, access, socket, sends, unsent, wrote, stopping>>

Leave(c) ==
    /\ phase[c] # "new" /\ socket[c] = "up"
    /\ socket' = [socket EXCEPT ![c] = "destroyed"]
    /\ NothingCloses
    /\ UNCHANGED <<session, access, sends, unsent, wrote, stopping>>

EmitClose(c) ==
    /\ socket[c] = "destroyed"
    /\ socket' = [socket EXCEPT ![c] = "closed"]
    /\ IF phase[c] \in {"open", "closed"} THEN Close(c) ELSE NothingCloses
    /\ UNCHANGED <<session, access, sends, unsent, wrote, stopping>>

Allowed == session /\ access

Keepalive(c) ==
    /\ phase[c] = "open" /\ ~Allowed
    /\ Close(c)
    /\ UNCHANGED <<session, access, socket, sends, unsent, wrote, stopping>>

PreClose ==
    /\ Stops /\ ~stopping
    /\ stopping' = TRUE
    /\ End(Registered) /\ streams' = << >>
    /\ UNCHANGED <<session, access, socket, sends, unsent, wrote>>

-----------------------------------------------------------------------------
\* Hints.

Publish ==
    \E h \in unsent :
        /\ ~stopping
        /\ unsent' = unsent \ {h}
        /\ sends' = sends \cup
              [conn : Registered, hint : {h}, at : {"session"}, ever : {access}]
        /\ NothingCloses
        /\ UNCHANGED <<session, access, socket, wrote, stopping>>

Write(s) == wrote' = wrote \cup {[conn |-> s.conn, hint |-> s.hint, ever |-> s.ever]}

SendAuthenticate ==
    \E s \in sends :
        /\ s.at = "session"
        /\ IF phase[s.conn] # "open"
           THEN sends' = sends \ {s} /\ NothingCloses /\ UNCHANGED wrote
           ELSE IF ~session
           THEN sends' = sends \ {s} /\ Close(s.conn) /\ UNCHANGED wrote
           ELSE /\ sends' = (sends \ {s}) \cup {[s EXCEPT !.at = "access"]}
                /\ NothingCloses
                /\ IF s.hint \in Catalog THEN Write(s) ELSE UNCHANGED wrote
        /\ UNCHANGED <<session, access, socket, unsent, stopping>>

\* acceptsHint, of a card of the board.
SendUnchecked ==
    \E s \in sends :
        /\ s.at = "access"
        /\ sends' = sends \ {s}
        /\ NothingCloses
        /\ IF phase[s.conn] = "open" /\ s.hint \notin Catalog
           THEN Write(s) ELSE UNCHANGED wrote
        /\ UNCHANGED <<session, access, socket, unsent, stopping>>
SendAccess ==
    \E s \in sends :
        /\ s.at = "access"
        /\ sends' = sends \ {s}
        /\ IF ~access THEN Close(s.conn) /\ UNCHANGED wrote
           ELSE /\ NothingCloses
                /\ IF phase[s.conn] = "open" /\ s.hint \notin Catalog
                   THEN Write(s) ELSE UNCHANGED wrote
        /\ UNCHANGED <<session, access, socket, unsent, stopping>>

-----------------------------------------------------------------------------
\* The user.

Revoke ==
    /\ session' \in BOOLEAN /\ access' \in BOOLEAN
    /\ session' => session
    /\ <<session', access'>> # <<session, access>>
    /\ sends' = {[s EXCEPT !.ever = @ \/ access'] : s \in sends}
    /\ NothingCloses
    /\ UNCHANGED <<socket, unsent, wrote, stopping>>

-----------------------------------------------------------------------------

Next ==
    \/ \E c \in Conns :
          Request(c) \/ Register(c) \/ Leave(c) \/ EmitClose(c) \/ Keepalive(c)
    \/ PreClose
    \/ Publish \/ SendAuthenticate \/ SendAccess
    \/ Revoke

\* The interval of a handle fires as long as the handle is open.
Fairness == \A c \in Conns : WF_vars(Keepalive(c)) /\ WF_vars(EmitClose(c))

Spec == Init /\ [][Next]_vars /\ Fairness

-----------------------------------------------------------------------------

\* The open handles are those registered, no more than the limit, and the
\* gauge counts them (stream-routes: `so the gauge cannot drift`).
StreamsAreCounted ==
    /\ Registered = {c \in Conns : phase[c] = "open"}
    /\ Len(streams) <= Limit
    /\ gauge = Cardinality(Registered)

\* No handle stays registered whose client is gone (stream-routes: reaps that
\* race `instead of leaking the registry entry ... forever`).
NoGhosts == \A c \in Conns : phase[c] = "open" => socket[c] # "closed"

\* A hint of a change reaches only a stream whose user had the board at some
\* time since it was published; news of the catalog go to whoever has a
\* session.
HintsNeedAccess == \A w \in wrote : w.hint \notin Catalog => w.ever

\* A stream whose session or board is gone is ended, hints or not.
LostStreamsEnd ==
    \A c \in Conns : phase[c] = "open" /\ ~Allowed ~> phase[c] = "closed" \/ Allowed

\* No stream is open after preClose (stream-routes: `so app.close() never
\* hangs on connected browsers`).
NoStreamAfterStop == stopping => Registered = {}

-----------------------------------------------------------------------------
(* Proofs, for any number of connections, hints and streams per user: no   *)
(* handle outlives its client, no hint of a board reaches a user who has    *)
(* had no access to it since, and the list and the gauge are the open ones. *)

\* A handle is opened on a live socket, and closed with it.
HandlesType ==
    /\ phase \in [Conns -> {"new", "opening", "open", "refused", "closed"}]
    /\ socket \in [Conns -> {"up", "destroyed", "closed"}]

HandleInv == HandlesType /\ NoGhosts

\* While the user has the board, every send under way remembers it.
SendsInv ==
    /\ access \in BOOLEAN /\ session \in BOOLEAN
    /\ \A s \in sends :
          /\ s = [conn |-> s.conn, hint |-> s.hint, at |-> s.at, ever |-> s.ever]
          /\ s.ever \in BOOLEAN
          /\ access => s.ever
    /\ HintsNeedAccess

-----------------------------------------------------------------------------

LEMMA HandlesInit == Init => HandleInv
  BY DEF Init, HandleInv, HandlesType, NoGhosts

\* Closing handles opens none and leaves every phase in its type.
LEMMA EndedOpensNone ==
    ASSUME NEW cs,
           NEW p \in [Conns -> {"new", "opening", "open", "refused", "closed"}]
    PROVE  /\ Ended(p, cs) \in [Conns -> {"new", "opening", "open", "refused", "closed"}]
           /\ \A c \in Conns : Ended(p, cs)[c] = "open" <=> p[c] = "open" /\ c \notin cs
  BY DEF Ended

LEMMA CloseKeepsHandles ==
    ASSUME HandleInv, NEW cs, End(cs), UNCHANGED socket
    PROVE  HandleInv'
  <1>1. phase' = Ended(phase, cs)
    BY DEF End
  <1> QED
    BY <1>1, EndedOpensNone DEF HandleInv, HandlesType, NoGhosts

LEMMA IdleKeepsHandles ==
    ASSUME HandleInv, UNCHANGED <<phase, socket>>
    PROVE  HandleInv'
  BY DEF HandleInv, HandlesType, NoGhosts

LEMMA RegisterKeepsHandles ==
    ASSUME HandleInv, NEW c \in Conns, Register(c)
    PROVE  HandleInv'
  <1> DEFINE newest == Newest(Append(streams, c))
             over   == ((Registered \cup {c}) \ ToSet(newest)) \cup Reaped(c)
             p      == [phase EXCEPT ![c] = "open"]
  <1>1. phase' = Ended(p, over) /\ UNCHANGED socket
    BY DEF Register
  <1>2. p \in [Conns -> {"new", "opening", "open", "refused", "closed"}]
        /\ \A d \in Conns : p[d] = "open" <=> d = c \/ phase[d] = "open"
    BY DEF HandleInv, HandlesType
  <1>3. socket[c] # "up" => c \in over
    BY DEF Reaped
  <1> HIDE DEF over, p
  <1>4. phase' \in [Conns -> {"new", "opening", "open", "refused", "closed"}]
        /\ \A d \in Conns : phase'[d] = "open" <=> p[d] = "open" /\ d \notin over
    BY <1>1, <1>2, EndedOpensNone
  <1>5. ASSUME NEW d \in Conns, phase'[d] = "open" PROVE socket[d] # "closed"
    <2>1. CASE d = c
      BY <1>3, <1>4, <1>5, <2>1
    <2>2. CASE d # c
      BY <1>2, <1>4, <1>5, <2>2 DEF HandleInv, NoGhosts
    <2> QED BY <2>1, <2>2
  <1> QED
    BY <1>1, <1>4, <1>5 DEF HandleInv, HandlesType, NoGhosts

\* The `close` of the response ends the handle, if the listener is there.
LEMMA EmitCloseKeepsHandles ==
    ASSUME HandleInv, NEW c \in Conns, EmitClose(c)
    PROVE  HandleInv'
  <1>1. socket' = [socket EXCEPT ![c] = "closed"]
    BY DEF EmitClose
  <1>2. CASE phase[c] \in {"open", "closed"}
    <2>1. phase' = Ended(phase, {c})
      BY <1>2 DEF EmitClose, Close, End
    <2> QED
      BY <1>1, <2>1, EndedOpensNone DEF HandleInv, HandlesType, NoGhosts
  <1>3. CASE phase[c] \notin {"open", "closed"}
    <2>1. UNCHANGED phase
      BY <1>3 DEF EmitClose, NothingCloses
    <2> QED
      BY <1>1, <1>3, <2>1 DEF HandleInv, HandlesType, NoGhosts
  <1> QED BY <1>2, <1>3

LEMMA HandlesStep ==
    ASSUME HandleInv, [Next]_vars
    PROVE  HandleInv'
  <1>1. ASSUME NEW c \in Conns, Request(c) PROVE HandleInv'
    BY <1>1 DEF Request, HandleInv, HandlesType, NoGhosts
  <1>2. ASSUME NEW c \in Conns, Leave(c) PROVE HandleInv'
    BY <1>2 DEF Leave, NothingCloses, HandleInv, HandlesType, NoGhosts
  <1>3. ASSUME NEW c \in Conns, Keepalive(c) PROVE HandleInv'
    BY <1>3, CloseKeepsHandles DEF Keepalive, Close
  <1>4. CASE PreClose
    BY <1>4, CloseKeepsHandles DEF PreClose
  <1>5. CASE Publish
    BY <1>5, IdleKeepsHandles DEF Publish, NothingCloses
  <1>6. CASE SendAuthenticate
    BY <1>6, CloseKeepsHandles, IdleKeepsHandles DEF SendAuthenticate, NothingCloses, Close
  <1>7. CASE SendAccess
    BY <1>7, CloseKeepsHandles, IdleKeepsHandles DEF SendAccess, NothingCloses, Close
  <1>8. CASE Revoke
    BY <1>8, IdleKeepsHandles DEF Revoke, NothingCloses
  <1>9. CASE UNCHANGED vars
    BY <1>9, IdleKeepsHandles DEF vars
  <1> QED
    BY <1>1, <1>2, <1>3, <1>4, <1>5, <1>6, <1>7, <1>8, <1>9,
       RegisterKeepsHandles, EmitCloseKeepsHandles DEF Next

\* However a client leaves, before its listener is there or after, no handle
\* stays open once the response has emitted its `close` (stream-routes.ts: the
\* registry entry and the interval would stay for ever).
THEOREM NoHandleOutlivesItsClient == Spec => []NoGhosts
  <1>1. HandleInv => NoGhosts
    BY DEF HandleInv
  <1>2. HandleInv /\ [Next]_vars => HandleInv'
    BY HandlesStep
  <1> QED
    BY <1>1, <1>2, HandlesInit, PTL DEF Spec

-----------------------------------------------------------------------------

LEMMA SendsInit == Init => SendsInv
  BY DEF Init, SendsInv, HintsNeedAccess

\* Dropping sends, while nothing is written, keeps the invariant.
LEMMA FewerSends ==
    ASSUME SendsInv, UNCHANGED <<session, access, wrote>>, sends' \subseteq sends
    PROVE  SendsInv'
  BY DEF SendsInv, HintsNeedAccess

LEMMA PublishKeepsSends ==
    ASSUME SendsInv, Publish
    PROVE  SendsInv'
  <1>1. PICK h \in unsent :
            /\ sends' = sends \cup
                  [conn : Registered, hint : {h}, at : {"session"}, ever : {access}]
            /\ UNCHANGED <<session, access, wrote>>
    BY DEF Publish
  <1>2. ASSUME NEW s \in [conn : Registered, hint : {h}, at : {"session"}, ever : {access}]
        PROVE  /\ s = [conn |-> s.conn, hint |-> s.hint, at |-> s.at, ever |-> s.ever]
               /\ s.ever = access
    OBVIOUS
  <1> QED
    BY <1>1, <1>2 DEF SendsInv, HintsNeedAccess

\* News of the catalog may be written without the board, nothing else.
LEMMA AuthenticateKeepsSends ==
    ASSUME SendsInv, SendAuthenticate
    PROVE  SendsInv'
  <1>1. PICK s \in sends :
            /\ \/ sends' = sends \ {s} /\ UNCHANGED wrote
               \/ /\ sends' = (sends \ {s}) \cup {[s EXCEPT !.at = "access"]}
                  /\ IF s.hint \in Catalog THEN Write(s) ELSE UNCHANGED wrote
            /\ UNCHANGED <<session, access>>
    BY DEF SendAuthenticate
  <1>2. CASE sends' = sends \ {s} /\ UNCHANGED wrote
    BY <1>1, <1>2, FewerSends
  <1>3. CASE /\ sends' = (sends \ {s}) \cup {[s EXCEPT !.at = "access"]}
             /\ IF s.hint \in Catalog THEN Write(s) ELSE UNCHANGED wrote
    <2> DEFINE t == [s EXCEPT !.at = "access"]
    <2>1. s = [conn |-> s.conn, hint |-> s.hint, at |-> s.at, ever |-> s.ever]
      BY DEF SendsInv
    <2>2. t = [conn |-> s.conn, hint |-> s.hint, at |-> "access", ever |-> s.ever]
      BY <2>1
    <2>3. /\ t = [conn |-> t.conn, hint |-> t.hint, at |-> t.at, ever |-> t.ever]
          /\ t.ever = s.ever
      BY <2>2
    <2> HIDE DEF t
    <2>4. \A w \in wrote' : w \in wrote \/ w.hint \in Catalog
      BY <1>3 DEF Write
    <2> QED
      BY <1>1, <1>3, <2>3, <2>4 DEF SendsInv, HintsNeedAccess, t
  <1> QED BY <1>1, <1>2, <1>3

\* A hint of the board is written under an access check that passes.
LEMMA AccessKeepsSends ==
    ASSUME SendsInv, SendAccess
    PROVE  SendsInv'
  <1>1. PICK s \in sends :
            /\ sends' = sends \ {s}
            /\ UNCHANGED wrote \/ (access /\ Write(s))
            /\ UNCHANGED <<session, access>>
    BY DEF SendAccess
  <1>2. \A w \in wrote' : w \in wrote \/ (access /\ w.ever = s.ever)
    BY <1>1 DEF Write
  <1> QED
    BY <1>1, <1>2 DEF SendsInv, HintsNeedAccess

LEMMA RevokeKeepsSends ==
    ASSUME SendsInv, Revoke
    PROVE  SendsInv'
  <1>1. /\ session' \in BOOLEAN /\ access' \in BOOLEAN
        /\ sends' = {[s EXCEPT !.ever = @ \/ access'] : s \in sends}
        /\ UNCHANGED wrote
    BY DEF Revoke
  <1>2. ASSUME NEW t \in sends'
        PROVE  /\ t = [conn |-> t.conn, hint |-> t.hint, at |-> t.at, ever |-> t.ever]
               /\ t.ever \in BOOLEAN
               /\ access' => t.ever
    <2>1. PICK s \in sends : t = [s EXCEPT !.ever = @ \/ access']
      BY <1>1
    <2>2. s = [conn |-> s.conn, hint |-> s.hint, at |-> s.at, ever |-> s.ever]
      BY DEF SendsInv
    <2>3. t = [conn |-> s.conn, hint |-> s.hint, at |-> s.at, ever |-> s.ever \/ access']
      BY <2>1, <2>2
    <2>4. t.ever = (s.ever \/ access')
      BY <2>3
    <2> QED
      BY <1>1, <2>3, <2>4
  <1> QED
    BY <1>1, <1>2 DEF SendsInv, HintsNeedAccess

LEMMA SendsStep ==
    ASSUME SendsInv, [Next]_vars
    PROVE  SendsInv'
  <1>1. ASSUME NEW c \in Conns,
               Request(c) \/ Register(c) \/ Leave(c) \/ EmitClose(c) \/ Keepalive(c)
        PROVE  SendsInv'
    BY <1>1, FewerSends DEF Request, Register, Leave, EmitClose, Keepalive
  <1>2. CASE PreClose
    BY <1>2, FewerSends DEF PreClose
  <1>3. CASE UNCHANGED vars
    BY <1>3, FewerSends DEF vars
  <1> QED
    BY <1>1, <1>2, <1>3, PublishKeepsSends, AuthenticateKeepsSends, AccessKeepsSends,
       RevokeKeepsSends DEF Next

\* Whatever happens to the session and to the access while a hint waits for
\* its checks, it is written only to a user who has had the board since the
\* change (stream-routes.ts send).
THEOREM HintsReachOnlyReaders == Spec => []HintsNeedAccess
  <1>1. SendsInv => HintsNeedAccess
    BY DEF SendsInv
  <1>2. SendsInv /\ [Next]_vars => SendsInv'
    BY SendsStep
  <1> QED
    BY <1>1, <1>2, SendsInit, PTL DEF Spec

-----------------------------------------------------------------------------

OpenHandles == {c \in Conns : phase[c] = "open"}

\* A list that names each handle once.
Once(list) ==
    /\ list \in Seq(Conns)
    /\ \A i, j \in DOMAIN list : list[i] = list[j] => i = j

CountInv ==
    /\ HandlesType
    /\ Once(streams) /\ Len(streams) <= Limit
    /\ Registered = OpenHandles
    /\ IsFiniteSet(OpenHandles)
    /\ gauge = Cardinality(OpenHandles)

\* A list without one of its places.
LEMMA TakenOut ==
    ASSUME NEW list \in Seq(Conns), NEW k \in DOMAIN list
    PROVE  /\ RemoveAt(list, k) \in Seq(Conns)
           /\ Len(RemoveAt(list, k)) = Len(list) - 1
           /\ DOMAIN RemoveAt(list, k) = 1 .. Len(list) - 1
           /\ \A i \in 1 .. Len(list) - 1 :
                 RemoveAt(list, k)[i] = IF i < k THEN list[i] ELSE list[i + 1]
  <1>1. k \in 1 .. Len(list) /\ Len(list) \in Nat
    BY LenProperties
  <1>2. PICK u, v : u = SubSeq(list, 1, k - 1) /\ v = SubSeq(list, k + 1, Len(list))
    OBVIOUS
  <1>3. u \in Seq(Conns) /\ Len(u) = k - 1 /\ \A i \in 1 .. k - 1 : u[i] = list[i]
    BY <1>1, <1>2
  <1>4. /\ v \in Seq(Conns) /\ Len(v) = Len(list) - k
        /\ \A i \in 1 .. Len(list) - k : v[i] = list[i + k]
    BY <1>1, <1>2
  <1>5. PICK w : w = u \o v
    OBVIOUS
  <1>6. /\ w \in Seq(Conns) /\ Len(w) = Len(list) - 1
        /\ \A i \in 1 .. Len(w) : w[i] = IF i <= Len(u) THEN u[i] ELSE v[i - Len(u)]
    <2>1. /\ w \in Seq(Conns) /\ Len(w) = Len(u) + Len(v)
          /\ \A i \in 1 .. Len(u) + Len(v) : w[i] = IF i <= Len(u) THEN u[i] ELSE v[i - Len(u)]
      BY <1>3, <1>4, <1>5, ConcatProperties
    <2>2. Len(u) + Len(v) = Len(list) - 1
      BY <1>1, <1>3, <1>4
    <2> QED BY <2>1, <2>2
  <1>7. ASSUME NEW i \in 1 .. Len(list) - 1
        PROVE  w[i] = IF i < k THEN list[i] ELSE list[i + 1]
    <2>1. CASE i < k
      BY <1>1, <1>3, <1>6, <2>1
    <2>2. CASE ~(i < k)
      <3>1. i - (k - 1) \in 1 .. Len(list) - k /\ (i - (k - 1)) + k = i + 1
        BY <1>1, <2>2
      <3>2. w[i] = v[i - (k - 1)]
        BY <1>1, <1>3, <1>6, <2>2
      <3>3. v[i - (k - 1)] = list[i + 1]
        BY <1>4, <3>1
      <3> QED BY <2>2, <3>2, <3>3
    <2> QED BY <2>1, <2>2
  <1>8. RemoveAt(list, k) = w
    BY <1>2, <1>5 DEF RemoveAt
  <1>9. DOMAIN w = 1 .. Len(list) - 1
    BY <1>6, LenProperties
  <1> QED BY <1>6, <1>7, <1>8, <1>9

\* Taking a handle off a list takes it off once and for all.
LEMMA WithoutIsWithout ==
    ASSUME NEW list, Once(list), NEW c
    PROVE  /\ Once(Without(list, c))
           /\ Len(Without(list, c)) <= Len(list)
           /\ ToSet(Without(list, c)) = ToSet(list) \ {c}
  <1>0. list \in Seq(Conns) /\ Len(list) \in Nat /\ DOMAIN list = 1 .. Len(list)
    BY LenProperties DEF Once
  <1>1. CASE c \notin ToSet(list)
    BY <1>0, <1>1 DEF Without
  <1>2. CASE c \in ToSet(list)
    <2>1. \E i \in DOMAIN list : list[i] = c
      BY <1>2 DEF ToSet
    <2>2. PICK k : k = CHOOSE i \in DOMAIN list : list[i] = c
      OBVIOUS
    <2>3. k \in DOMAIN list /\ list[k] = c
      BY <2>1, <2>2
    <2>4. PICK w : w = RemoveAt(list, k)
      OBVIOUS
    <2>5. Without(list, c) = w
      BY <1>2, <2>2, <2>4 DEF Without
    <2>6. /\ w \in Seq(Conns) /\ Len(w) = Len(list) - 1 /\ DOMAIN w = 1 .. Len(list) - 1
          /\ \A i \in 1 .. Len(list) - 1 : w[i] = IF i < k THEN list[i] ELSE list[i + 1]
      BY <1>0, <2>3, <2>4, TakenOut
    <2>7. ASSUME NEW i \in DOMAIN w, NEW j \in DOMAIN w, w[i] = w[j] PROVE i = j
      <3>1. PICK ii \in DOMAIN list : ii = (IF i < k THEN i ELSE i + 1) /\ w[i] = list[ii]
        BY <1>0, <2>3, <2>6
      <3>2. PICK jj \in DOMAIN list : jj = (IF j < k THEN j ELSE j + 1) /\ w[j] = list[jj]
        BY <1>0, <2>3, <2>6
      <3>3. ii = jj
        BY <2>7, <3>1, <3>2 DEF Once
      <3> QED BY <1>0, <2>3, <2>6, <3>1, <3>2, <3>3
    <2>8. ASSUME NEW i \in DOMAIN w PROVE w[i] \in ToSet(list) /\ w[i] # c
      <3>1. PICK ii \in DOMAIN list : ii = (IF i < k THEN i ELSE i + 1) /\ w[i] = list[ii]
        BY <1>0, <2>3, <2>6
      <3>2. ii # k
        BY <1>0, <2>3, <2>6, <3>1
      <3>3. list[ii] # list[k]
        BY <2>3, <3>2 DEF Once
      <3> QED BY <2>3, <3>1, <3>3 DEF ToSet
    <2>9. ASSUME NEW d \in ToSet(list), d # c PROVE d \in ToSet(w)
      <3>1. PICK ii \in DOMAIN list : list[ii] = d
        BY DEF ToSet
      <3>2. ii # k
        BY <2>3, <2>9, <3>1
      <3>3. CASE ii < k
        BY <1>0, <2>3, <2>6, <3>1, <3>3 DEF ToSet
      <3>4. CASE ii > k
        <4>1. ii - 1 \in DOMAIN w /\ ~(ii - 1 < k) /\ (ii - 1) + 1 = ii
          BY <1>0, <2>3, <2>6, <3>4
        <4>2. w[ii - 1] = d
          BY <2>6, <3>1, <4>1
        <4> QED BY <4>1, <4>2 DEF ToSet
      <3> QED BY <1>0, <2>3, <3>2, <3>3, <3>4
    <2>10. ToSet(w) = ToSet(list) \ {c}
      BY <2>8, <2>9 DEF ToSet
    <2>11. Once(w)
      BY <2>6, <2>7 DEF Once
    <2>12. Len(w) <= Len(list)
      BY <1>0, <2>6
    <2> QED BY <2>5, <2>10, <2>11, <2>12
  <1> QED BY <1>1, <1>2

\* The newest handles of a list that is one too long: all but the first.
LEMMA NewestOnes ==
    ASSUME StreamAccessAssumption, NEW list, Once(list), list # << >>, Len(list) <= Limit + 1
    PROVE  /\ Once(Newest(list)) /\ Len(Newest(list)) <= Limit
           /\ list[Len(list)] \in ToSet(Newest(list))
           /\ ToSet(Newest(list)) \subseteq ToSet(list)
  <1>0. /\ list \in Seq(Conns) /\ Len(list) \in Nat \ {0} /\ DOMAIN list = 1 .. Len(list)
        /\ Limit \in Nat \ {0}
    BY LenProperties, EmptySeq DEF Once, StreamAccessAssumption
  <1>1. CASE ~(Len(list) > Limit)
    <2>1. Newest(list) = list
      BY <1>1 DEF Newest
    <2>2. Len(list) \in DOMAIN list
      BY <1>0
    <2> QED BY <1>0, <1>1, <2>1, <2>2 DEF ToSet
  <1>2. CASE Len(list) > Limit
    <2>1. Len(list) = Limit + 1
      <3>1. PICK n, m : n = Len(list) /\ m = Limit
        OBVIOUS
      <3>2. n \in Nat /\ m \in Nat /\ n <= m + 1 /\ n > m
        BY <1>0, <1>2, <3>1
      <3>3. n = m + 1
        BY <3>2
      <3> QED BY <3>1, <3>3
    <2>2. PICK w : w = SubSeq(list, 2, Len(list))
      OBVIOUS
    <2>3. Newest(list) = w
      <3>1. Len(list) - Limit + 1 = 2
        BY <1>0, <2>1
      <3> QED BY <1>2, <2>2, <3>1 DEF Newest
    <2>4. w \in Seq(Conns) /\ Len(w) = Limit /\ \A i \in 1 .. Limit : w[i] = list[i + 1]
      BY <1>0, <2>1, <2>2
    <2>5. DOMAIN w = 1 .. Limit
      BY <2>4, LenProperties
    <2>6. \A i, j \in DOMAIN w : w[i] = w[j] => i = j
      <3> SUFFICES ASSUME NEW i \in DOMAIN w, NEW j \in DOMAIN w, w[i] = w[j] PROVE i = j
        OBVIOUS
      <3>1. i + 1 \in DOMAIN list /\ j + 1 \in DOMAIN list /\ list[i + 1] = list[j + 1]
        BY <1>0, <2>1, <2>4, <2>5
      <3>2. i + 1 = j + 1
        BY <3>1 DEF Once
      <3> QED BY <1>0, <2>5, <3>2
    <2>7. Limit \in DOMAIN w /\ w[Limit] = list[Len(list)]
      BY <1>0, <2>1, <2>4, <2>5
    <2>8. \A i \in DOMAIN w : i + 1 \in DOMAIN list /\ w[i] = list[i + 1]
      BY <1>0, <2>1, <2>4, <2>5
    <2>9. ToSet(w) \subseteq ToSet(list)
      BY <2>8 DEF ToSet
    <2>10. list[Len(list)] \in ToSet(w)
      BY <2>7 DEF ToSet
    <2> QED BY <1>0, <2>3, <2>4, <2>6, <2>9, <2>10 DEF Once
  <1> QED BY <1>1, <1>2

LEMMA CountInit == StreamAccessAssumption /\ Init => CountInv
  <1> SUFFICES ASSUME StreamAccessAssumption, Init PROVE CountInv
    OBVIOUS
  <1>1. OpenHandles = {} /\ HandlesType
    BY DEF Init, OpenHandles, HandlesType
  <1>2. streams = << >> /\ gauge = 0 /\ Limit \in Nat
    BY DEF Init, StreamAccessAssumption
  <1>3. Once(streams) /\ Len(streams) = 0 /\ Registered = {}
    BY <1>2 DEF Once, Registered, ToSet
  <1> QED BY <1>1, <1>2, <1>3, FS_EmptySet DEF CountInv

\* What sockets may be.
Sockets == [Conns -> {"up", "destroyed", "closed"}]

LEMMA OpenAfter ==
    ASSUME NEW p \in [Conns -> {"new", "opening", "open", "refused", "closed"}],
           NEW cs, phase' = Ended(p, cs), socket' \in Sockets
    PROVE  HandlesType' /\ OpenHandles' = {c \in Conns : p[c] = "open"} \ cs
  BY EndedOpensNone DEF HandlesType, OpenHandles, Sockets

\* A handle that closes is off the list and off the gauge.
LEMMA CloseCounts ==
    ASSUME CountInv, StreamAccessAssumption, NEW c \in Conns, Close(c), socket' \in Sockets
    PROVE  CountInv'
  <1>1. /\ phase' = Ended(phase, {c}) /\ streams' = Without(streams, c)
        /\ gauge' = gauge - Cardinality({d \in {c} : phase[d] = "open"})
    BY DEF Close, End
  <1>2. HandlesType' /\ OpenHandles' = OpenHandles \ {c}
    BY <1>1, OpenAfter DEF CountInv, HandlesType, OpenHandles
  <1>3. Once(streams') /\ Len(streams') <= Len(streams) /\ ToSet(streams') = ToSet(streams) \ {c}
    BY <1>1, WithoutIsWithout DEF CountInv
  <1>4. Registered' = OpenHandles'
    BY <1>2, <1>3 DEF CountInv, Registered
  <1>5. Len(streams') <= Limit
    <2>1. Len(streams) \in Nat /\ Len(streams') \in Nat /\ Limit \in Nat
      BY <1>3, LenProperties DEF CountInv, Once, StreamAccessAssumption
    <2> QED BY <1>3, <2>1 DEF CountInv
  <1>6. /\ IsFiniteSet(OpenHandles \ {c})
        /\ Cardinality(OpenHandles \ {c}) =
              IF c \in OpenHandles THEN Cardinality(OpenHandles) - 1 ELSE Cardinality(OpenHandles)
    BY FS_RemoveElement DEF CountInv
  <1>7. gauge' = Cardinality(OpenHandles \ {c})
    <2>1. Cardinality(OpenHandles) \in Nat
      BY FS_CardinalityType DEF CountInv
    <2>2. CASE c \in OpenHandles
      <3>1. {d \in {c} : phase[d] = "open"} = {c}
        BY <2>2 DEF OpenHandles
      <3>2. Cardinality({c}) = 1
        BY FS_Singleton
      <3> QED BY <1>1, <1>6, <2>2, <3>1, <3>2 DEF CountInv
    <2>3. CASE c \notin OpenHandles
      <3>1. {d \in {c} : phase[d] = "open"} = {}
        BY <2>3 DEF OpenHandles
      <3>2. Cardinality({}) = 0
        BY FS_EmptySet
      <3>3. gauge' = gauge - 0
        BY <1>1, <3>1, <3>2
      <3> QED BY <1>6, <2>1, <2>3, <3>3 DEF CountInv
    <2> QED BY <2>2, <2>3
  <1> QED BY <1>2, <1>3, <1>4, <1>5, <1>6, <1>7 DEF CountInv

LEMMA IdleCounts ==
    ASSUME CountInv, UNCHANGED <<phase, gauge, streams>>, HandlesType'
    PROVE  CountInv'
  <1>1. OpenHandles' = OpenHandles /\ Registered' = Registered
    BY DEF OpenHandles, Registered
  <1> QED BY <1>1 DEF CountInv

LEMMA RequestCounts ==
    ASSUME CountInv, NEW c \in Conns, Request(c)
    PROVE  CountInv'
  <1>1. HandlesType' /\ OpenHandles' = OpenHandles
    BY DEF Request, CountInv, HandlesType, OpenHandles
  <1>2. UNCHANGED <<gauge, streams>>
    BY DEF Request
  <1>3. Registered' = Registered
    BY <1>2 DEF Registered
  <1> QED BY <1>1, <1>2, <1>3 DEF CountInv

LEMMA LeaveCounts ==
    ASSUME CountInv, NEW c \in Conns, Leave(c)
    PROVE  CountInv'
  <1>1. HandlesType' /\ UNCHANGED <<phase, gauge, streams>>
    BY DEF Leave, NothingCloses, CountInv, HandlesType
  <1> QED BY <1>1, IdleCounts

LEMMA EmitCloseCounts ==
    ASSUME CountInv, StreamAccessAssumption, NEW c \in Conns, EmitClose(c)
    PROVE  CountInv'
  <1>1. socket' \in Sockets
    BY DEF EmitClose, CountInv, HandlesType, Sockets
  <1>2. CASE phase[c] \in {"open", "closed"}
    BY <1>1, <1>2, CloseCounts DEF EmitClose
  <1>3. CASE phase[c] \notin {"open", "closed"}
    <2>1. HandlesType' /\ UNCHANGED <<phase, gauge, streams>>
      BY <1>1, <1>3 DEF EmitClose, NothingCloses, CountInv, HandlesType, Sockets
    <2> QED BY <2>1, IdleCounts
  <1> QED BY <1>2, <1>3

\* A handle added at the end of the list.
LEMMA Appended ==
    ASSUME NEW list, Once(list), NEW c \in Conns, c \notin ToSet(list)
    PROVE  LET all == Append(list, c)
           IN  /\ Once(all) /\ all # << >> /\ Len(all) = Len(list) + 1
               /\ all[Len(all)] = c /\ ToSet(all) = ToSet(list) \cup {c}
  <1>1. list \in Seq(Conns) /\ Len(list) \in Nat /\ DOMAIN list = 1 .. Len(list)
    BY LenProperties DEF Once
  <1>2. PICK all : all = Append(list, c)
    OBVIOUS
  <1>3. /\ all \in Seq(Conns) /\ Len(all) = Len(list) + 1 /\ DOMAIN all = 1 .. Len(list) + 1
        /\ \A i \in 1 .. Len(list) : all[i] = list[i]
        /\ all[Len(list) + 1] = c
    BY <1>1, <1>2, AppendProperties, LenProperties
  <1>4. \A i \in 1 .. Len(list) : list[i] # c
    BY <1>1 DEF ToSet
  <1>5. ASSUME NEW i \in DOMAIN all, NEW j \in DOMAIN all, all[i] = all[j] PROVE i = j
    <2>1. CASE i \in 1 .. Len(list) /\ j \in 1 .. Len(list)
      BY <1>1, <1>3, <1>5, <2>1 DEF Once
    <2>2. CASE i \notin 1 .. Len(list) \/ j \notin 1 .. Len(list)
      BY <1>1, <1>3, <1>4, <1>5, <2>2
    <2> QED BY <2>1, <2>2
  <1>6. ToSet(all) = ToSet(list) \cup {c}
    <2>1. ASSUME NEW d \in ToSet(all) PROVE d \in ToSet(list) \cup {c}
      <3>1. PICK i \in DOMAIN all : all[i] = d
        BY DEF ToSet
      <3>2. CASE i \in 1 .. Len(list)
        BY <1>1, <1>3, <3>1, <3>2 DEF ToSet
      <3>3. CASE i \notin 1 .. Len(list)
        BY <1>1, <1>3, <3>1, <3>3
      <3> QED BY <3>2, <3>3
    <2>2. ASSUME NEW d \in ToSet(list) PROVE d \in ToSet(all)
      <3>1. PICK i \in DOMAIN list : list[i] = d
        BY DEF ToSet
      <3>2. i \in DOMAIN all /\ all[i] = d
        BY <1>1, <1>3, <3>1
      <3> QED BY <3>2 DEF ToSet
    <2>3. c \in ToSet(all)
      <3>1. Len(list) + 1 \in DOMAIN all
        BY <1>1, <1>3
      <3> QED BY <1>3, <3>1 DEF ToSet
    <2> QED BY <2>1, <2>2, <2>3
  <1>7. all # << >>
    BY <1>1, <1>3, EmptySeq
  <1>8. Once(all)
    BY <1>3, <1>5 DEF Once
  <1>9. all[Len(all)] = c
    BY <1>3
  <1> QED BY <1>2, <1>3, <1>6, <1>7, <1>8, <1>9

\* The handle that opens is counted, those it pushes out are not, nor is it if
\* its client has left.
LEMMA RegisterCounts ==
    ASSUME CountInv, StreamAccessAssumption, NEW c \in Conns, Register(c)
    PROVE  CountInv'
  <1>1. PICK all, newest : all = Append(streams, c) /\ newest = Newest(all)
    OBVIOUS
  <1>2. PICK over : over = ((Registered \cup {c}) \ ToSet(newest)) \cup Reaped(c)
    OBVIOUS
  <1>3. PICK p : p = [phase EXCEPT ![c] = "open"]
    OBVIOUS
  <1>4. /\ phase[c] = "opening" /\ socket' = socket
        /\ streams' = IF Reaped(c) = {} THEN newest ELSE Without(newest, c)
        /\ phase' = Ended(p, over)
        /\ gauge' = gauge + 1 - Cardinality(over)
    BY <1>1, <1>2, <1>3 DEF Register
  <1>5. c \notin OpenHandles /\ c \notin Registered
    BY <1>4 DEF CountInv, OpenHandles
  <1>6. /\ Once(all) /\ all # << >> /\ Len(all) = Len(streams) + 1
        /\ all[Len(all)] = c /\ ToSet(all) = Registered \cup {c}
    BY <1>1, <1>5, Appended DEF CountInv, Registered
  <1>7. Len(all) <= Limit + 1
    <2>1. Len(streams) \in Nat /\ Limit \in Nat
      BY LenProperties DEF CountInv, Once, StreamAccessAssumption
    <2> QED BY <1>6, <2>1 DEF CountInv
  <1>8. /\ Once(newest) /\ Len(newest) <= Limit /\ c \in ToSet(newest)
        /\ ToSet(newest) \subseteq Registered \cup {c}
    BY <1>1, <1>6, <1>7, NewestOnes
  <1>9. /\ Once(streams') /\ Len(streams') <= Limit
        /\ ToSet(streams') = ToSet(newest) \ Reaped(c)
    <2>1. CASE Reaped(c) = {}
      BY <1>4, <1>8, <2>1
    <2>2. CASE Reaped(c) # {}
      <3>1. Reaped(c) = {c} /\ streams' = Without(newest, c)
        BY <1>4, <2>2 DEF Reaped
      <3>2. /\ Once(streams') /\ Len(streams') <= Len(newest)
            /\ ToSet(streams') = ToSet(newest) \ {c}
        BY <1>8, <3>1, WithoutIsWithout
      <3>3. Len(streams') \in Nat /\ Len(newest) \in Nat /\ Limit \in Nat
        BY <1>8, <3>2, LenProperties DEF Once, StreamAccessAssumption
      <3> QED BY <1>8, <3>1, <3>2, <3>3
    <2> QED BY <2>1, <2>2
  <1>10. /\ p \in [Conns -> {"new", "opening", "open", "refused", "closed"}]
         /\ {d \in Conns : p[d] = "open"} = OpenHandles \cup {c}
    BY <1>3 DEF CountInv, HandlesType, OpenHandles
  <1>11. HandlesType' /\ OpenHandles' = (OpenHandles \cup {c}) \ over
    <2>1. socket' \in Sockets
      BY <1>4 DEF CountInv, HandlesType, Sockets
    <2> QED BY <1>4, <1>10, <2>1, OpenAfter
  <1>12. over \subseteq OpenHandles \cup {c} /\ ToSet(streams') = (OpenHandles \cup {c}) \ over
    BY <1>2, <1>8, <1>9 DEF CountInv, Reaped
  <1>13. Registered' = OpenHandles'
    BY <1>11, <1>12 DEF Registered
  <1>14. /\ IsFiniteSet(OpenHandles \cup {c})
         /\ Cardinality(OpenHandles \cup {c}) = Cardinality(OpenHandles) + 1
    BY <1>5, FS_AddElement DEF CountInv
  <1>15. /\ IsFiniteSet(OpenHandles')
         /\ Cardinality(OpenHandles') = Cardinality(OpenHandles \cup {c}) - Cardinality(over)
    <2>1. PICK A : A = OpenHandles \cup {c}
      OBVIOUS
    <2>2. A \cap over = over /\ IsFiniteSet(A)
      BY <1>12, <1>14, <2>1
    <2>3. IsFiniteSet(A \ over) /\ Cardinality(A \ over) = Cardinality(A) - Cardinality(A \cap over)
      BY <2>2, FS_Difference
    <2>4. OpenHandles' = A \ over
      BY <1>11, <2>1
    <2> QED BY <2>1, <2>2, <2>3, <2>4
  <1>16. gauge' = Cardinality(OpenHandles')
    <2>1. Cardinality(OpenHandles) \in Nat /\ gauge = Cardinality(OpenHandles)
      BY FS_CardinalityType DEF CountInv
    <2>2. IsFiniteSet(over) /\ Cardinality(over) \in Nat
      BY <1>12, <1>14, FS_Subset, FS_CardinalityType
    <2>3. PICK n, m : n = Cardinality(OpenHandles) /\ m = Cardinality(over)
      OBVIOUS
    <2>4. gauge' = n + 1 - m
      BY <1>4, <2>1, <2>3
    <2>5. Cardinality(OpenHandles \cup {c}) = n + 1
      BY <1>14, <2>3
    <2>6. Cardinality(OpenHandles') = n + 1 - m
      <3>1. Cardinality(OpenHandles') = Cardinality(OpenHandles \cup {c}) - m
        BY <1>15, <2>3
      <3>2. n \in Nat /\ m \in Nat
        BY <2>1, <2>2, <2>3
      <3> QED BY <2>5, <3>1, <3>2
    <2> QED BY <2>4, <2>6
  <1> QED BY <1>9, <1>11, <1>13, <1>15, <1>16 DEF CountInv

LEMMA PreCloseCounts ==
    ASSUME CountInv, StreamAccessAssumption, PreClose
    PROVE  CountInv'
  <1>1. /\ phase' = Ended(phase, Registered) /\ streams' = << >> /\ socket' = socket
        /\ gauge' = gauge - Cardinality({c \in Registered : phase[c] = "open"})
    BY DEF PreClose, End
  <1>2. HandlesType' /\ OpenHandles' = OpenHandles \ Registered
    <2>1. socket' \in Sockets /\ phase \in [Conns -> {"new", "opening", "open", "refused", "closed"}]
      BY <1>1 DEF CountInv, HandlesType, Sockets
    <2> QED BY <1>1, <2>1, OpenAfter DEF OpenHandles
  <1>3. OpenHandles' = {}
    BY <1>2 DEF CountInv
  <1>4. {c \in Registered : phase[c] = "open"} = OpenHandles
    BY DEF CountInv, OpenHandles
  <1>5. gauge' = 0
    <2>1. Cardinality(OpenHandles) \in Nat
      BY FS_CardinalityType DEF CountInv
    <2> QED BY <1>1, <1>4, <2>1 DEF CountInv
  <1>6. Once(streams') /\ Len(streams') = 0 /\ ToSet(streams') = {}
    BY <1>1 DEF Once, ToSet
  <1>7. Registered' = {} /\ Limit \in Nat
    BY <1>6 DEF Registered, StreamAccessAssumption
  <1>8. IsFiniteSet(OpenHandles') /\ Cardinality(OpenHandles') = 0
    BY <1>3, FS_EmptySet
  <1>9. Len(streams') <= Limit
    BY <1>6, <1>7
  <1> QED BY <1>2, <1>3, <1>5, <1>6, <1>7, <1>8, <1>9 DEF CountInv

\* Hints are sent to handles that were registered.
SendsToConns == \A s \in sends : s.conn \in Conns

LEMMA SendsStayToConns ==
    ASSUME CountInv, SendsInv, SendsToConns, [Next]_vars
    PROVE  SendsToConns'
  <1>1. ASSUME NEW c \in Conns,
               Request(c) \/ Register(c) \/ Leave(c) \/ EmitClose(c) \/ Keepalive(c)
        PROVE  SendsToConns'
    BY <1>1 DEF Request, Register, Leave, EmitClose, Keepalive, SendsToConns
  <1>2. CASE PreClose \/ UNCHANGED vars
    BY <1>2 DEF PreClose, vars, SendsToConns
  <1>3. CASE Publish
    <2>1. PICK h \in unsent : sends' = sends \cup
              [conn : Registered, hint : {h}, at : {"session"}, ever : {access}]
      BY <1>3 DEF Publish
    <2>2. Registered \subseteq Conns
      BY DEF CountInv, OpenHandles
    <2> QED BY <2>1, <2>2 DEF SendsToConns
  <1>4. CASE SendAuthenticate
    <2>1. PICK s \in sends : sends' \subseteq sends \cup {[s EXCEPT !.at = "access"]}
      BY <1>4 DEF SendAuthenticate
    <2>2. s = [conn |-> s.conn, hint |-> s.hint, at |-> s.at, ever |-> s.ever]
      BY DEF SendsInv
    <2>3. [s EXCEPT !.at = "access"].conn = s.conn
      BY <2>2
    <2> QED BY <2>1, <2>3 DEF SendsToConns
  <1>5. CASE SendAccess
    BY <1>5 DEF SendAccess, SendsToConns
  <1>6. CASE Revoke
    <2>1. ASSUME NEW t \in sends' PROVE t.conn \in Conns
      <3>1. PICK s \in sends : t = [s EXCEPT !.ever = @ \/ access']
        BY <1>6 DEF Revoke
      <3>2. s = [conn |-> s.conn, hint |-> s.hint, at |-> s.at, ever |-> s.ever]
        BY DEF SendsInv
      <3>3. t.conn = s.conn
        BY <3>1, <3>2
      <3> QED BY <3>3 DEF SendsToConns
    <2> QED BY <2>1 DEF SendsToConns
  <1> QED BY <1>1, <1>2, <1>3, <1>4, <1>5, <1>6 DEF Next

LEMMA CountStep ==
    ASSUME CountInv, SendsToConns, StreamAccessAssumption, [Next]_vars
    PROVE  CountInv'
  <1>0. ASSUME UNCHANGED <<socket, phase, gauge, streams>> PROVE CountInv'
    BY <1>0, IdleCounts DEF CountInv, HandlesType
  <1>1. ASSUME NEW c \in Conns, Close(c), UNCHANGED socket PROVE CountInv'
    <2>1. socket' \in Sockets
      BY <1>1 DEF CountInv, HandlesType, Sockets
    <2> QED BY <1>1, <2>1, CloseCounts
  <1>2. ASSUME NEW c \in Conns, Keepalive(c) PROVE CountInv'
    BY <1>1, <1>2 DEF Keepalive
  <1>3. CASE Publish
    BY <1>0, <1>3 DEF Publish, NothingCloses
  <1>4. CASE SendAuthenticate
    BY <1>0, <1>1, <1>4 DEF SendAuthenticate, NothingCloses, SendsToConns
  <1>5. CASE SendAccess
    BY <1>0, <1>1, <1>5 DEF SendAccess, NothingCloses, SendsToConns
  <1>6. CASE Revoke
    BY <1>0, <1>6 DEF Revoke, NothingCloses
  <1>7. CASE UNCHANGED vars
    BY <1>0, <1>7 DEF vars
  <1> QED
    BY <1>2, <1>3, <1>4, <1>5, <1>6, <1>7, RequestCounts, RegisterCounts, LeaveCounts,
       EmitCloseCounts, PreCloseCounts DEF Next

\* For any connections and any limit, however streams are opened, pushed out,
\* lost and ended: the handles registered are the open ones, at most the limit,
\* and the gauge counts them (stream-routes.ts: `so the gauge cannot drift`).
THEOREM HandlesAreCounted == Spec => []StreamsAreCounted
  <1>1. Init => CountInv /\ SendsInv /\ SendsToConns
    BY CountInit, SendsInit, StreamAccessAssumption DEF Init, SendsToConns
  <1>2. CountInv /\ SendsInv /\ SendsToConns /\ [Next]_vars => (CountInv /\ SendsInv /\ SendsToConns)'
    BY CountStep, SendsStep, SendsStayToConns, StreamAccessAssumption
  <1>3. CountInv => StreamsAreCounted
    BY DEF CountInv, StreamsAreCounted, OpenHandles
  <1> QED
    BY <1>1, <1>2, <1>3, PTL DEF Spec
=============================================================================
