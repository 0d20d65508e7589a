--------------------------- MODULE LaneOrderProofs ---------------------------
(***************************************************************************)
(* The order of a column, proved for any number of cards, calls and keys,   *)
(* and any Between and Fresh that keep to their assumptions.                *)
(*                                                                         *)
(* On SQLite one transaction is open at a time, so that what a call        *)
(* computed from the rows it read is still lawful when it writes: LaneIInv  *)
(* carries the list of updates of the open call, how many of them are       *)
(* written, and that each of them fits the rows as they are.  On Postgres   *)
(* calls interleave and only the database stands between them: OpenIInv     *)
(* says that no transaction sees a key twice and that two of them write     *)
(* different rows and keys, which the index and the waits keep up.          *)
(*                                                                         *)
(* The same lists in order carry the pages of ActivityFeed: whatever is    *)
(* written or discarded between two of them, a reader goes on behind the   *)
(* last row it got (PagesFollow).                                          *)
(*                                                                         *)
(* Above the keys, a column is the list of its cards (BoardMoves): a move   *)
(* lands between the neighbours it names, if the service accepts them.      *)
(***************************************************************************)
EXTENDS LaneOrder, FiniteSetTheorems, SequenceTheorems, WellFoundedInduction, TLAPS

CONSTANTS Reader, Others, Tokens, Limit, Window, Late, MaxEvents, MaxNow   \* of ActivityFeed

VARIABLES now, log, pending, made, walk, start      \* of ActivityFeed

A == INSTANCE ActivityFeed

-----------------------------------------------------------------------------
(* Finite sets of rows: greatest and least keys, and lists in order.        *)

\* Induction over the subsets of a finite set: each that is not empty is good
\* if it is without some element.
LEMMA SubsetInduction ==
    ASSUME NEW S, IsFiniteSet(S), NEW Good,
           {} \in Good,
           \A T \in SUBSET S : T # {} => \E x \in T : T \ {x} \in Good => T \in Good
    PROVE  S \in Good
  <1> DEFINE Bad == {T \in SUBSET S : T \notin Good}
             R   == StrictSubsetOrdering(S)
  <1>1. IsWellFoundedOn(R, SUBSET S)
    BY FS_StrictSubsetOrderingWellFounded, FS_FiniteSubsetsOfFinite
  <1>2. SUFFICES ASSUME Bad # {} PROVE FALSE
    OBVIOUS
  <1>3. Bad \subseteq SUBSET S
    OBVIOUS
  <1> HIDE DEF Bad, R
  <1>4. PICK T \in Bad : \A U \in Bad : ~(<<U, T>> \in R)
    BY <1>1, <1>2, <1>3, WFMin
  <1>5. T \in SUBSET S /\ T \notin Good
    BY <1>4 DEF Bad
  <1>6. PICK x \in T : T \ {x} \in Good => T \in Good
    BY <1>5
  <1>7. T \ {x} \in SUBSET S /\ <<T \ {x}, T>> \in R
    BY <1>5, <1>6 DEF R, StrictSubsetOrdering
  <1>8. T \ {x} \in Good
    BY <1>4, <1>7 DEF Bad
  <1> QED
    BY <1>5, <1>6, <1>8

\* A finite set of keys has a greatest and a least one.
LEMMA GreatestIs ==
    ASSUME NEW K, K \subseteq Int, IsFiniteSet(K), K # {}
    PROVE  Greatest(K) \in K /\ \A l \in K : l <= Greatest(K)
  <1> DEFINE Good == {T \in SUBSET K : T # {} => \E k \in T : \A l \in T : l <= k}
  <1>1. {} \in Good
    OBVIOUS
  <1>2. ASSUME NEW T \in SUBSET K, NEW x \in T, T \ {x} \in Good
        PROVE  T \in Good
    <2>1. CASE T = {x}
      BY <2>1
    <2>2. CASE T # {x}
      <3>1. PICK k \in T \ {x} : \A l \in T \ {x} : l <= k
        BY <1>2, <2>2
      <3>2. k \in Int /\ x \in Int /\ T \subseteq Int
        BY <3>1
      <3>3. CASE x <= k
        BY <3>1, <3>2, <3>3
      <3>4. CASE ~(x <= k)
        <4>1. \A l \in T : l <= x
          BY <3>1, <3>2, <3>4
        <4> QED BY <4>1
      <3> QED BY <3>3, <3>4
    <2> QED BY <2>1, <2>2
  <1>3. K \in Good
    <2> HIDE DEF Good
    <2> QED BY <1>1, <1>2, SubsetInduction
  <1>4. \E k \in K : \A l \in K : l <= k
    BY <1>3
  <1> QED
    BY <1>4 DEF Greatest

\* A least one likewise.
LEMMA LeastIs ==
    ASSUME NEW K, K \subseteq Int, IsFiniteSet(K), K # {}
    PROVE  Least(K) \in K /\ \A l \in K : Least(K) <= l
  <1> DEFINE Good == {T \in SUBSET K : T # {} => \E k \in T : \A l \in T : k <= l}
  <1>1. {} \in Good
    OBVIOUS
  <1>2. ASSUME NEW T \in SUBSET K, NEW x \in T, T \ {x} \in Good
        PROVE  T \in Good
    <2>1. CASE T = {x}
      BY <2>1
    <2>2. CASE T # {x}
      <3>1. PICK k \in T \ {x} : \A l \in T \ {x} : k <= l
        BY <1>2, <2>2
      <3>2. k \in Int /\ x \in Int /\ T \subseteq Int
        BY <3>1
      <3>3. CASE k <= x
        BY <3>1, <3>2, <3>3
      <3>4. CASE ~(k <= x)
        <4>1. \A l \in T : x <= l
          BY <3>1, <3>2, <3>4
        <4> QED BY <4>1
      <3> QED BY <3>3, <3>4
    <2> QED BY <2>1, <2>2
  <1>3. K \in Good
    <2> HIDE DEF Good
    <2> QED BY <1>1, <1>2, SubsetInduction
  <1>4. \E k \in K : \A l \in K : k <= l
    BY <1>3
  <1> QED
    BY <1>4 DEF Least

\* Orders on a set, as sets of pairs, and the lists of its elements in order.
Orders(S) ==
    {R \in SUBSET (S \X S) :
        /\ \A x \in S : <<x, x>> \notin R
        /\ \A x, y \in S : x # y => <<x, y>> \in R \/ <<y, x>> \in R
        /\ \A x, y, z \in S : <<x, y>> \in R /\ <<y, z>> \in R => <<x, z>> \in R}
Sorted(R, S) ==
    {s \in [1 .. Cardinality(S) -> S] :
        \A i, j \in DOMAIN s : i < j => <<s[i], s[j]>> \in R}

\* A set that is not empty has a last element.
LEMMA LastExists ==
    ASSUME NEW S, IsFiniteSet(S), S # {}, NEW R \in Orders(S)
    PROVE  \E x \in S : \A y \in S : y # x => <<y, x>> \in R
  <1> DEFINE Good == {T \in SUBSET S : T # {} => \E x \in T : \A y \in T : y # x => <<y, x>> \in R}
  <1>1. {} \in Good
    OBVIOUS
  <1>2. ASSUME NEW T \in SUBSET S, NEW x \in T, T \ {x} \in Good
        PROVE  T \in Good
    <2>1. CASE T = {x}
      BY <2>1
    <2>2. CASE T # {x}
      <3>1. PICK k \in T \ {x} : \A y \in T \ {x} : y # k => <<y, k>> \in R
        BY <1>2, <2>2
      <3>2. <<x, k>> \in R \/ <<k, x>> \in R
        BY <3>1 DEF Orders
      <3>3. CASE <<x, k>> \in R
        <4>1. \A y \in T : y # k => <<y, k>> \in R
          BY <3>1, <3>3
        <4> QED BY <4>1
      <3>4. CASE <<k, x>> \in R
        <4>1. \A y \in T : y # x => <<y, x>> \in R
          BY <3>1, <3>4 DEF Orders
        <4> QED BY <4>1
      <3> QED BY <3>2, <3>3, <3>4
    <2> QED BY <2>1, <2>2
  <1>3. S \in Good
    <2> HIDE DEF Good
    <2>1. \A T \in SUBSET S : T # {} => \E x \in T : T \ {x} \in Good => T \in Good
      BY <1>2, Zenon
    <2> QED BY <1>1, <2>1, SubsetInduction, Zenon
  <1> QED
    BY <1>3

\* A finite set can be listed in order.
LEMMA SortedExists ==
    ASSUME NEW S, IsFiniteSet(S), NEW R \in Orders(S)
    PROVE  Sorted(R, S) # {}
  <1> DEFINE Good == {T \in SUBSET S : Sorted(R, T) # {}}
  <1>1. {} \in Good
    <2>1. Cardinality({}) = 0
      BY FS_EmptySet
    <2>2. [i \in 1 .. 0 |-> 0] \in Sorted(R, {})
      BY <2>1 DEF Sorted
    <2> QED BY <2>2
  <1>2. ASSUME NEW T \in SUBSET S, T # {}
        PROVE  \E x \in T : T \ {x} \in Good => T \in Good
    <2>1. IsFiniteSet(T)
      BY FS_Subset
    <2>2. R \cap (T \X T) \in Orders(T)
      BY DEF Orders
    <2>3. PICK x \in T : \A y \in T : y # x => <<y, x>> \in R
      <3>1. \E x \in T : \A y \in T : y # x => <<y, x>> \in R \cap (T \X T)
        BY <1>2, <2>1, <2>2, LastExists
      <3> QED BY <3>1
    <2>4. ASSUME T \ {x} \in Good PROVE T \in Good
      <3> DEFINE n == Cardinality(T \ {x})
      <3>1. n \in Nat /\ Cardinality(T) = n + 1
        <4>1. Cardinality(T) \in Nat /\ n \in Nat /\ n = Cardinality(T) - 1
          BY <2>1, FS_RemoveElement, FS_CardinalityType
        <4> HIDE DEF n
        <4> QED BY <4>1
      <3>2. PICK s \in Sorted(R, T \ {x}) : TRUE
        BY <2>4
      <3>3. s \in [1 .. n -> T \ {x}]
            /\ \A i, j \in 1 .. n : i < j => <<s[i], s[j]>> \in R
        BY <3>2 DEF Sorted
      <3> DEFINE t == [i \in 1 .. n + 1 |-> IF i <= n THEN s[i] ELSE x]
      <3> HIDE DEF n
      <3>4. \A i \in 1 .. n : s[i] \in T /\ <<s[i], x>> \in R
        BY <2>3, <3>3
      <3>5. t \in [1 .. n + 1 -> T]
        <4>1. ASSUME NEW i \in 1 .. n + 1 PROVE t[i] \in T
          <5>1. CASE i <= n
            <6>1. i \in 1 .. n BY <3>1, <5>1
            <6> QED BY <3>4, <5>1, <6>1
          <5>2. CASE ~(i <= n) BY <5>2
          <5> QED BY <5>1, <5>2
        <4> QED BY <4>1
      <3>6. ASSUME NEW i \in 1 .. n + 1, NEW j \in 1 .. n + 1, i < j
            PROVE  <<t[i], t[j]>> \in R
        <4>1. i \in 1 .. n
          BY <3>1, <3>6
        <4>2. CASE j <= n
          <5>1. j \in 1 .. n BY <3>1, <3>6, <4>2
          <5> QED BY <4>1, <4>2, <5>1, <3>3, <3>6, <3>1
        <4>3. CASE j = n + 1
          BY <4>1, <4>3, <3>4, <3>1
        <4> QED BY <4>2, <4>3, <3>1
      <3>7. t \in Sorted(R, T)
        <4> HIDE DEF t
        <4> QED BY <3>1, <3>5, <3>6 DEF Sorted
      <3> QED BY <3>7
    <2> QED BY <2>4
  <1>3. S \in Good
    <2> HIDE DEF Good
    <2> QED BY <1>1, <1>2, SubsetInduction
  <1> QED
    BY <1>3

\* Such a list names every element.
LEMMA SortedIsWhole ==
    ASSUME NEW S, IsFiniteSet(S), NEW R \in Orders(S), NEW s \in Sorted(R, S)
    PROVE  \A x \in S : \E i \in DOMAIN s : s[i] = x
  <1> DEFINE n == Cardinality(S)
  <1>1. n \in Nat /\ s \in [1 .. n -> S] /\ DOMAIN s = 1 .. n
        /\ \A i, j \in 1 .. n : i < j => <<s[i], s[j]>> \in R
    BY FS_CardinalityType DEF Sorted
  <1>2. ASSUME NEW i \in 1 .. n, NEW j \in 1 .. n, i # j
        PROVE  s[i] # s[j]
    <2>1. i < j \/ j < i
      BY <1>1, <1>2
    <2>2. <<s[i], s[j]>> \in R \/ <<s[j], s[i]>> \in R
      BY <1>1, <2>1
    <2> QED BY <1>1, <2>2 DEF Orders
  <1>3. s \in Injection(1 .. n, S)
    BY <1>1, <1>2 DEF Injection, IsInjective
  <1>4. IsFiniteSet(1 .. n) /\ Cardinality(1 .. n) = n
    <2> HIDE DEF n
    <2> QED BY <1>1, FS_Interval
  <1>5. s \in Surjection(1 .. n, S)
    BY <1>3, <1>4, FS_Injection
  <1> QED
    BY <1>1, <1>5 DEF Surjection

\* Cards with keys of their own can be listed in the order of these.
Ordered(key, S) ==
    {s \in [1 .. Cardinality(S) -> S] :
        \A i, j \in DOMAIN s : i < j => key[s[i]] < key[s[j]]}
ByKey(key, S) == {p \in S \X S : key[p[1]] < key[p[2]]}

LEMMA KeysOrder ==
    ASSUME NEW S, NEW key, \A c \in S : key[c] \in Int,
           \A c, d \in S : c # d => key[c] # key[d]
    PROVE  ByKey(key, S) \in Orders(S) /\ Ordered(key, S) = Sorted(ByKey(key, S), S)
  <1>1. \A c, d \in S : <<c, d>> \in ByKey(key, S) <=> key[c] < key[d]
    BY DEF ByKey
  <1>2. ByKey(key, S) \in SUBSET (S \X S)
    BY DEF ByKey
  <1>3. ByKey(key, S) \in Orders(S)
    <2>1. \A c \in S : <<c, c>> \notin ByKey(key, S)
      BY <1>1
    <2>2. \A c, d \in S : c # d => <<c, d>> \in ByKey(key, S) \/ <<d, c>> \in ByKey(key, S)
      BY <1>1
    <2>3. \A c, d, e \in S : <<c, d>> \in ByKey(key, S) /\ <<d, e>> \in ByKey(key, S)
                                => <<c, e>> \in ByKey(key, S)
      <3>1. \A c, d, e \in S : key[c] < key[d] /\ key[d] < key[e] => key[c] < key[e]
        OBVIOUS
      <3> QED BY <1>1, <3>1
    <2> QED BY <1>2, <2>1, <2>2, <2>3 DEF Orders
  <1>4. ASSUME NEW s \in [1 .. Cardinality(S) -> S]
        PROVE  \A i, j \in DOMAIN s : key[s[i]] < key[s[j]] <=> <<s[i], s[j]>> \in ByKey(key, S)
    BY <1>1
  <1>5. Ordered(key, S) = Sorted(ByKey(key, S), S)
    BY <1>4 DEF Ordered, Sorted
  <1> QED BY <1>3, <1>5

LEMMA ListingExists ==
    ASSUME NEW S, IsFiniteSet(S), NEW key, \A c \in S : key[c] \in Int,
           \A c, d \in S : c # d => key[c] # key[d]
    PROVE  Ordered(key, S) # {}
  BY KeysOrder, SortedExists

\* Such a list names every card, and each once.
LEMMA ListingIsWhole ==
    ASSUME NEW S, IsFiniteSet(S), NEW key, \A c \in S : key[c] \in Int,
           NEW s \in Ordered(key, S)
    PROVE  /\ \A i, j \in DOMAIN s : i # j => s[i] # s[j]
           /\ \A c \in S : \E i \in DOMAIN s : s[i] = c
  <1> DEFINE n == Cardinality(S)
  <1>1. n \in Nat /\ s \in [1 .. n -> S] /\ DOMAIN s = 1 .. n
        /\ \A i, j \in 1 .. n : i < j => key[s[i]] < key[s[j]]
    BY FS_CardinalityType DEF Ordered
  <1>2. ASSUME NEW i \in 1 .. n, NEW j \in 1 .. n, i # j
        PROVE  s[i] # s[j]
    <2>1. i < j \/ j < i
      BY <1>1, <1>2
    <2>2. key[s[i]] \in Int /\ key[s[j]] \in Int
      BY <1>1
    <2>3. key[s[i]] # key[s[j]]
      BY <1>1, <2>1, <2>2
    <2> QED BY <2>3
  <1>3. ASSUME NEW c \in S, \A i \in 1 .. n : s[i] # c
        PROVE  FALSE
    <2>1. IsFiniteSet(S \ {c}) /\ Cardinality(S \ {c}) = n - 1
      BY FS_RemoveElement
    <2>2. IsFiniteSet(1 .. n) /\ Cardinality(1 .. n) = n
      BY <1>1, FS_Interval
    <2>3. s \in [1 .. n -> S \ {c}]
      BY <1>1, <1>3
    <2>4. \E i, j \in 1 .. n : i # j /\ s[i] = s[j]
      BY <1>1, <2>1, <2>2, <2>3, FS_PigeonHole
    <2> QED BY <2>4, <1>2
  <1> QED
    BY <1>1, <1>2, <1>3

-----------------------------------------------------------------------------
(* The invariant on SQLite.                                                 *)

\* k is a key no other row has; for a move, in the gap the client aimed at.
FreeFor(q, k) ==
    /\ \A d \in Cards \ {q.card} : rows[d].here => rows[d].key # k
    /\ q.kind = "move" =>
          /\ q.prev # None => rows[q.prev].key < k
          /\ q.next # None => k < rows[q.next].key
          /\ \A d \in Cards \ {q.card} : rows[d].here /\ k < rows[d].key
                => q.next # None /\ rows[q.next].key <= rows[d].key

\* One update, of the card the call is about.
Places(q, u) ==
    Len(u) = 1 /\ u[1].card = q.card
    /\ \E k \in Keys : u[1].row = Placed(k) /\ FreeFor(q, k)
Leaves(q, u) == Len(u) = 1 /\ u[1].card = q.card /\ u[1].row = Away
Archives(q, u) ==
    Len(u) = 1 /\ u[1].card = q.card
    /\ u[1].row = [rows[q.card] EXCEPT !.archived = TRUE]

\* The active cards, each once and in their order, with keys beyond all others.
Rewrites(u) ==
    /\ \A i \in DOMAIN u : \E k \in Keys :
          /\ u[i].row = [rows[u[i].card] EXCEPT !.key = k]
          /\ \A d \in Cards : rows[d].here => rows[d].key < k
    /\ \A i \in DOMAIN u : Active(u[i].card)
    /\ \A c \in Cards : Active(c) => \E i \in DOMAIN u : u[i].card = c
    /\ \A i, j \in DOMAIN u : i < j =>
          u[i].row.key < u[j].row.key /\ rows[u[i].card].key < rows[u[j].card].key

\* What a call may compute from the rows it found.
Lawful(q, u) ==
    /\ u \in Seq(Updates)
    /\ \A i, j \in DOMAIN u : i # j => u[i].card # u[j].card
    /\ q.kind \in Retriable => Places(q, u)
    /\ q.kind = "leave" => Leaves(q, u)
    /\ q.kind = "archive" => Archives(q, u)
    /\ q.kind = "rebalance" => Rewrites(u)

\* The first j of these updates are written, the others are left.
Progress(m, u, j) ==
    /\ plan[m] \in Seq(Updates)
    /\ Len(plan[m]) = Len(u) - j
    /\ \A i \in 1 .. Len(plan[m]) : plan[m][i] = u[i + j]
    /\ \A i \in 1 .. j : staged[m][u[i].card] = u[i].row
    /\ \A c \in Cards : (\A i \in 1 .. j : u[i].card # c) => staged[m][c] = None

Writes(m) ==
    \E u \in Seq(Updates) :
        /\ Lawful(request[m], u)
        /\ \E j \in 0 .. Len(u) : Progress(m, u, j)

\* A call under way: it was asked for something acceptable, and still is.
OpenInv(m) ==
    /\ request[m] \in Requests \cup {RebalanceRequest}
    /\ Acceptable(request[m])
    /\ pc[m] = "aiming" => staged[m] = Nothing /\ plan[m] = << >>
    /\ pc[m] = "writing" => Writes(m)

LaneIInv ==
    /\ LaneInv
    /\ \A c \in Cards : rows[c].here => rows[c].key \in Keys
    /\ \A m \in Calls : pc[m] # "again"
    /\ \A m \in Calls : IsOpen(m) => OpenInv(m)

-----------------------------------------------------------------------------
(* The keys a call computes.                                                *)

\* The keys of some of the cards: finitely many, and those of the rows that are here.
LEMMA KeysFinite ==
    ASSUME TypeOK, \A c \in Cards : rows[c].here => rows[c].key \in Keys,
           NEW S \in SUBSET Cards
    PROVE  /\ KeysIn(S) \subseteq Keys /\ IsFiniteSet(KeysIn(S))
           /\ \A d \in S : rows[d].here => rows[d].key \in KeysIn(S)
           /\ \A k \in KeysIn(S) : \E d \in S : rows[d].here /\ rows[d].key = k
  <1> DEFINE D == {e \in S : rows[e].here}
             f == [d \in D |-> rows[d].key]
  <1>1. KeysIn(S) = {rows[d].key : d \in D}
    BY DEF KeysIn
  <1>2. IsFiniteSet(D)
    BY ParametersAssumption, FS_Subset
  <1>3. f \in Surjection(D, KeysIn(S))
    BY <1>1 DEF Surjection
  <1>4. IsFiniteSet(KeysIn(S))
    BY <1>2, <1>3, FS_Surjection
  <1> QED
    BY <1>1, <1>4

\* PositionBefore is the greatest key below the bound of all the other rows.
LEMMA PositionBeforeIs ==
    ASSUME TypeOK, \A c \in Cards : rows[c].here => rows[c].key \in Keys,
           NEW bound \in Keys \cup {None}, NEW c
    PROVE  /\ PositionBefore(bound, c) \in Keys \cup {None}
           /\ PositionBefore(bound, c) # None /\ bound # None
                 => PositionBefore(bound, c) < bound
           /\ \A d \in Cards \ {c} :
                 rows[d].here /\ (bound = None \/ rows[d].key < bound)
                 => PositionBefore(bound, c) # None /\ rows[d].key <= PositionBefore(bound, c)
  <1> DEFINE K == {k \in KeysIn(Cards \ {c}) : bound = None \/ k < bound}
  <1>1. K \subseteq Keys /\ IsFiniteSet(K) /\ K \subseteq Int
        /\ \A d \in Cards \ {c} : rows[d].here /\ (bound = None \/ rows[d].key < bound)
              => rows[d].key \in K
    BY KeysFinite, FS_Subset, ParametersAssumption
  <1>2. PositionBefore(bound, c) = Greatest(K)
    BY DEF PositionBefore
  <1>3. CASE K = {}
    BY <1>1, <1>2, <1>3 DEF Greatest
  <1>4. CASE K # {}
    <2>1. Greatest(K) \in K /\ \A l \in K : l <= Greatest(K)
      <3> HIDE DEF K
      <3> QED BY <1>1, <1>4, GreatestIs
    <2>2. Greatest(K) \in Keys /\ Greatest(K) # None /\ (bound # None => Greatest(K) < bound)
      BY <1>1, <2>1, ParametersAssumption
    <2> HIDE DEF K
    <2> QED BY <1>1, <1>2, <2>1, <2>2
  <1> QED
    BY <1>3, <1>4

\* What an open call read of a row is the row.
LEMMA ReadIsRow ==
    ASSUME LaneIInv, NEW m \in Calls, IsOpen(m)
    PROVE  \A c \in Reads(request[m]) : image[m][c] = rows[c]
  BY DEF LaneIInv, LaneInv, KeysApart

\* A move, a creation, a cancel or a reopening: one update, to a free key in its gap.
LEMMA PlaceLawful ==
    ASSUME LaneIInv, NEW m \in Calls, pc[m] = "aiming", AimPlace(m)
    PROVE  Lawful(request[m], plan'[m])
  <1> DEFINE q == request[m]
             k == KeyFor(m)
             u == plan'[m]
  <1>1. IsOpen(m) /\ OpenInv(m) /\ TypeOK
        /\ \A c \in Cards : rows[c].here => rows[c].key \in Keys
    BY DEF LaneIInv, LaneInv, KeysApart, IsOpen
  <1>2. q \in Requests /\ q.kind \in {"move", "top", "bottom"} /\ q.card \in Cards
    BY <1>1 DEF OpenInv, AimPlace, Retriable, Requests, RebalanceRequest
  <1>3. k \in Keys /\ u = <<[card |-> q.card, row |-> Placed(k)]>>
    BY <1>1 DEF AimPlace, TypeOK
  <1>4. Placed(k) \in Rows
    BY <1>3 DEF Placed, Rows
  <1>5. k # None
    BY <1>3, ParametersAssumption
  <1>6. FreeFor(q, k)
    <2>1. CASE q.kind = "move"
      <3> DEFINE b == Bound(m)
                 a == PositionBefore(b, q.card)
      <3>1. /\ q.prev \in Cards \cup {None} /\ q.next \in Cards \cup {None}
            /\ Neighbour(q.prev, q.card) /\ Neighbour(q.next, q.card)
            /\ q.prev # None /\ q.next # None => rows[q.prev].key < rows[q.next].key
        BY <1>1, <1>2, <2>1 DEF OpenInv, Acceptable, Requests
      <3>2. q.next # None => b = rows[q.next].key /\ rows[q.next].here /\ q.next \in Cards
                             /\ q.next # q.card
        BY <1>1, <1>2, <2>1, <3>1, ReadIsRow DEF Bound, Reads, Neighbour, Active
      <3>3. q.prev # None => rows[q.prev].here /\ q.prev \in Cards /\ q.prev # q.card
        BY <3>1 DEF Neighbour, Active
      <3>4. b \in Keys \cup {None} /\ (b = None <=> q.next = None)
        BY <1>1, <3>2, ParametersAssumption DEF Bound
      <3>5. k = Between(a, b)
        BY <2>1 DEF KeyFor
      <3> HIDE DEF a, b, k
      <3>6. /\ a \in Keys \cup {None}
            /\ a # None => a < k
            /\ b # None => k < b
        BY <1>1, <1>5, <3>4, <3>5, PositionBeforeIs, BetweenAssumption DEF a
      <3>7. ASSUME NEW d \in Cards \ {q.card}, rows[d].here, b = None \/ rows[d].key < b
            PROVE  rows[d].key < k
        <4>1. a # None /\ rows[d].key <= a
          BY <1>1, <3>4, <3>7, PositionBeforeIs DEF a
        <4>2. a \in Int /\ k \in Int /\ rows[d].key \in Int
          BY <1>1, <1>3, <3>6, <3>7, <4>1, ParametersAssumption DEF k
        <4> QED BY <3>6, <4>1, <4>2
      <3>8. \A d \in Cards : rows[d].here => rows[d].key \in Int
        BY <1>1, ParametersAssumption
      <3>9. k \in Int
        BY <1>3, ParametersAssumption DEF k
      <3>10. q.prev # None => rows[q.prev].key < k
        BY <3>1, <3>2, <3>3, <3>4, <3>7
      <3>11. q.next # None => k < rows[q.next].key
        BY <3>2, <3>4, <3>6
      <3>12. ASSUME NEW d \in Cards \ {q.card}, rows[d].here
             PROVE  /\ rows[d].key # k
                    /\ k < rows[d].key => q.next # None /\ rows[q.next].key <= rows[d].key
        <4>1. CASE b = None \/ rows[d].key < b
          BY <3>7, <3>8, <3>9, <3>12, <4>1
        <4>2. CASE b # None /\ ~(rows[d].key < b)
          <5>1. b \in Int
            BY <3>4, <4>2, ParametersAssumption
          <5>2. rows[d].key \in Int /\ ~(rows[d].key < b)
            BY <3>8, <3>12, <4>2
          <5>3. b <= rows[d].key
            BY <5>1, <5>2
          <5> QED BY <3>2, <3>4, <3>6, <3>8, <3>9, <3>12, <4>2, <5>1, <5>3
        <4> QED BY <4>1, <4>2
      <3> QED BY <3>10, <3>11, <3>12 DEF FreeFor
    <2>2. CASE q.kind = "top"
      <3> DEFINE b == Least(KeysIn(Cards))
      <3>1. k = Between(None, b)
        BY <2>2 DEF KeyFor
      <3>2. CASE KeysIn(Cards) = {}
        BY <1>1, <2>2, <3>2, KeysFinite DEF FreeFor
      <3>3. CASE KeysIn(Cards) # {}
        <4>1. /\ KeysIn(Cards) \subseteq Keys
              /\ \A d \in Cards : rows[d].here => rows[d].key \in KeysIn(Cards)
          BY <1>1, KeysFinite
        <4>2. b \in KeysIn(Cards) /\ \A l \in KeysIn(Cards) : b <= l
          BY <1>1, <3>3, KeysFinite, LeastIs, ParametersAssumption
        <4> HIDE DEF b, k
        <4>3. b \in Keys /\ b # None /\ b \in Int /\ k \in Int
          BY <1>3, <4>1, <4>2, ParametersAssumption DEF k
        <4>4. k < b
          BY <1>5, <3>1, <4>3, BetweenAssumption DEF k
        <4>5. ASSUME NEW d \in Cards, rows[d].here PROVE rows[d].key # k
          <5>1. b <= rows[d].key /\ rows[d].key \in Int
            BY <4>1, <4>2, <4>5, ParametersAssumption
          <5> QED BY <5>1, <4>3, <4>4
        <4> QED BY <2>2, <4>5 DEF FreeFor
      <3> QED BY <3>2, <3>3
    <2>3. CASE q.kind = "bottom"
      <3> DEFINE a == Greatest(KeysIn(Cards))
      <3>1. k = Between(a, None)
        BY <2>3 DEF KeyFor
      <3>2. CASE KeysIn(Cards) = {}
        BY <1>1, <2>3, <3>2, KeysFinite DEF FreeFor
      <3>3. CASE KeysIn(Cards) # {}
        <4>1. /\ KeysIn(Cards) \subseteq Keys
              /\ \A d \in Cards : rows[d].here => rows[d].key \in KeysIn(Cards)
          BY <1>1, KeysFinite
        <4>2. a \in KeysIn(Cards) /\ \A l \in KeysIn(Cards) : l <= a
          BY <1>1, <3>3, KeysFinite, GreatestIs, ParametersAssumption
        <4> HIDE DEF a, k
        <4>3. a \in Keys /\ a # None /\ a \in Int /\ k \in Int
          BY <1>3, <4>1, <4>2, ParametersAssumption DEF k
        <4>4. a < k
          BY <1>5, <3>1, <4>3, BetweenAssumption DEF k
        <4>5. ASSUME NEW d \in Cards, rows[d].here PROVE rows[d].key # k
          <5>1. rows[d].key <= a /\ rows[d].key \in Int
            BY <4>1, <4>2, <4>5, ParametersAssumption
          <5> QED BY <5>1, <4>3, <4>4
        <4> QED BY <2>3, <4>5 DEF FreeFor
      <3> QED BY <3>2, <3>3
    <2> QED BY <1>2, <2>1, <2>2, <2>3
  <1> HIDE DEF k
  <1>7. u \in Seq(Updates) /\ DOMAIN u = {1} /\ Len(u) = 1 /\ u[1].card = q.card
        /\ u[1].row = Placed(k)
    BY <1>2, <1>3, <1>4 DEF Updates
  <1> HIDE DEF u
  <1>8. Places(q, u)
    BY <1>3, <1>6, <1>7 DEF Places
  <1> QED
    BY <1>2, <1>7, <1>8 DEF Lawful, u

\* A card that leaves or is archived: one update that keeps its key or gives it up.
LEMMA LeaveLawful ==
    ASSUME LaneIInv, NEW m \in Calls, pc[m] = "aiming", AimLeave(m) \/ AimArchive(m)
    PROVE  Lawful(request[m], plan'[m])
  <1> DEFINE q == request[m]
             u == plan'[m]
             row == IF q.kind = "leave" THEN Away ELSE [rows[q.card] EXCEPT !.archived = TRUE]
  <1>1. IsOpen(m) /\ OpenInv(m) /\ TypeOK
    BY DEF LaneIInv, LaneInv, KeysApart, IsOpen
  <1>2. q.kind \in {"leave", "archive"} /\ q.card \in Cards
    BY <1>1 DEF OpenInv, AimLeave, AimArchive, Requests, RebalanceRequest
  <1>3. q.kind = "archive" => image[m][q.card] = rows[q.card]
    BY <1>1, ReadIsRow DEF Reads
  <1>4. row \in Rows
    BY <1>1, <1>2, ZenonT(60) DEF TypeOK, Rows, Away
  <1>5. u = <<[card |-> q.card, row |-> row]>>
    BY <1>1, <1>2, <1>3 DEF AimLeave, AimArchive, TypeOK
  <1> HIDE DEF row
  <1>6. u \in Seq(Updates) /\ DOMAIN u = {1} /\ Len(u) = 1 /\ u[1].card = q.card
        /\ u[1].row = row
    BY <1>2, <1>4, <1>5 DEF Updates
  <1> HIDE DEF u
  <1> QED
    BY <1>2, <1>6 DEF Lawful, Leaves, Archives, Retriable, u, row

\* The rebalance: every active card once, in order, with keys beyond all others.
LEMMA RebalanceLawful ==
    ASSUME LaneIInv, NEW m \in Calls, pc[m] = "aiming", AimRebalance(m)
    PROVE  Lawful(request[m], plan'[m])
  <1> DEFINE seen == {c \in Cards : Active(c)}
             key == [c \in Cards |-> rows[c].key]
             list == Listed(m)
             n == Cardinality(seen)
             a == Greatest(KeysIn(Cards))
             keys == Fresh(a, n)
             u == plan'[m]
  <1>1. /\ IsOpen(m) /\ OpenInv(m) /\ TypeOK /\ request[m].kind = "rebalance"
        /\ \A c \in Cards : rows[c].here => rows[c].key \in Keys
        /\ \A c, d \in Cards : rows[c].here /\ rows[d].here /\ c # d => rows[c].key # rows[d].key
    BY DEF LaneIInv, LaneInv, KeysApart, IsOpen, AimRebalance
  <1>2. image[m] = rows
    BY <1>1, ReadIsRow DEF Reads, TypeOK
  <1>3. IsFiniteSet(seen) /\ n \in Nat /\ n <= Cardinality(Cards) /\ seen \subseteq Cards
        /\ Cardinality(Cards) \in Nat
    BY ParametersAssumption, FS_Subset, FS_CardinalityType
  <1>4. seen # {} /\ n \in 1 .. Cardinality(Cards)
    <2>1. seen # {}
      BY <1>1 DEF OpenInv, Acceptable
    <2>2. n # 0
      BY <1>3, <2>1, FS_EmptySet
    <2> QED BY <1>3, <2>1, <2>2
  <1>5. \A c \in seen : rows[c].here /\ key[c] = rows[c].key /\ key[c] \in Int
    BY <1>1, ParametersAssumption DEF Active
  <1>6. Ordered(key, seen) # {}
    <2>1. \A c, d \in seen : c # d => key[c] # key[d]
      BY <1>1, <1>5
    <2> HIDE DEF key, seen
    <2> QED BY <1>3, <1>5, <2>1, ListingExists
  <1>7. list \in Ordered(key, seen)
    <2>1. {c \in Cards : image[m][c].here /\ ~image[m][c].archived} = seen
      BY <1>2 DEF Active
    <2>2. list = CHOOSE s \in [1 .. n -> seen] :
                    \A i, j \in DOMAIN s : i < j => rows[s[i]].key < rows[s[j]].key
      BY <1>2, <2>1 DEF Listed
    <2>3. \A s \in [1 .. n -> seen] : \A i \in DOMAIN s : key[s[i]] = rows[s[i]].key
      BY <1>3
    <2>4. \E s \in [1 .. n -> seen] :
             \A i, j \in DOMAIN s : i < j => rows[s[i]].key < rows[s[j]].key
      BY <1>6, <2>3 DEF Ordered
    <2> HIDE DEF list, key, seen, n
    <2>5. list \in [1 .. n -> seen]
          /\ \A i, j \in DOMAIN list : i < j => rows[list[i]].key < rows[list[j]].key
      BY <2>2, <2>4
    <2> QED BY <2>3, <2>5 DEF Ordered, n
  <1>8. /\ list \in [1 .. n -> seen]
        /\ \A i, j \in 1 .. n : i < j => rows[list[i]].key < rows[list[j]].key
        /\ \A i, j \in 1 .. n : i # j => list[i] # list[j]
        /\ \A c \in seen : \E i \in 1 .. n : list[i] = c
    <2> HIDE DEF list, key, seen
    <2>1. list \in [1 .. n -> seen] /\ DOMAIN list = 1 .. n
          /\ \A i, j \in DOMAIN list : i < j => key[list[i]] < key[list[j]]
      BY <1>7 DEF Ordered
    <2>2. \A i, j \in DOMAIN list : i # j => list[i] # list[j]
      BY <1>3, <1>5, <1>7, ListingIsWhole
    <2>3. \A c \in seen : \E i \in DOMAIN list : list[i] = c
      BY <1>3, <1>5, <1>7, ListingIsWhole
    <2>4. \A i \in 1 .. n : key[list[i]] = rows[list[i]].key
      BY <1>5, <2>1
    <2> QED BY <2>1, <2>2, <2>3, <2>4
  <1>9. Len(list) = n
    BY <1>3, <1>8
  <1>10. /\ KeysIn(Cards) # {} /\ Len(keys) = n
         /\ u = [i \in 1 .. n |-> [card |-> list[i], row |-> [rows[list[i]] EXCEPT !.key = keys[i]]]]
    BY <1>1, <1>2, <1>8, <1>9 DEF AimRebalance, FreshKeys, TypeOK
  <1>11. a \in Keys /\ \A d \in Cards : rows[d].here => rows[d].key <= a
    <2>1. a \in KeysIn(Cards) /\ \A l \in KeysIn(Cards) : l <= a
      BY <1>1, <1>10, KeysFinite, GreatestIs, ParametersAssumption
    <2> HIDE DEF a
    <2> QED BY <1>1, <2>1, KeysFinite
  <1> HIDE DEF a
  <1>12. /\ keys \in [1 .. n -> Keys]
         /\ \A i \in 1 .. n : a < keys[i]
         /\ \A i, j \in 1 .. n : i < j => keys[i] < keys[j]
    <2>1. keys # << >>
      BY <1>4, <1>10
    <2> HIDE DEF n
    <2> QED BY <1>4, <1>11, <2>1, FreshAssumption DEF keys
  <1> HIDE DEF keys, list, n
  <1>13. ASSUME NEW i \in 1 .. n
         PROVE  /\ u[i].card = list[i] /\ list[i] \in seen /\ list[i] \in Cards
                /\ u[i].row = [rows[list[i]] EXCEPT !.key = keys[i]]
                /\ u[i].row.key = keys[i] /\ keys[i] \in Keys
                /\ u[i] \in Updates
    <2>1. list[i] \in seen /\ keys[i] \in Keys /\ rows[list[i]] \in Rows
      BY <1>1, <1>8, <1>12 DEF TypeOK
    <2>2. u[i] = [card |-> list[i], row |-> [rows[list[i]] EXCEPT !.key = keys[i]]]
      BY <1>10
    <2> QED BY <2>1, <2>2 DEF Rows, Updates
  <1>14. n \in Nat /\ u \in Seq(Updates) /\ DOMAIN u = 1 .. n /\ Len(u) = n
    <2>1. n \in Nat /\ u \in [1 .. n -> Updates]
      BY <1>3, <1>10, <1>13
    <2> HIDE DEF u
    <2> QED BY <2>1
  <1> HIDE DEF u
  <1>15. \A i, j \in DOMAIN u : i # j => u[i].card # u[j].card
    <2> TAKE i, j \in DOMAIN u
    <2>1. i \in 1 .. n /\ j \in 1 .. n
      BY <1>14
    <2>2. u[i].card = list[i] /\ u[j].card = list[j]
      BY <1>13, <2>1
    <2> QED BY <1>8, <2>1, <2>2
  <1>16. Rewrites(u)
    <2>1. \A i \in DOMAIN u : \E k \in Keys :
            /\ u[i].row = [rows[u[i].card] EXCEPT !.key = k]
            /\ \A d \in Cards : rows[d].here => rows[d].key < k
      <3> TAKE i \in DOMAIN u
      <3>1. i \in 1 .. n
        BY <1>14
      <3>2. ASSUME NEW d \in Cards, rows[d].here PROVE rows[d].key < keys[i]
        <4>1. rows[d].key <= a /\ a < keys[i]
          BY <1>11, <1>12, <3>1, <3>2
        <4>2. rows[d].key \in Int /\ a \in Int /\ keys[i] \in Int
          BY <1>1, <1>11, <1>13, <3>1, <3>2, ParametersAssumption
        <4> QED BY <4>1, <4>2
      <3>3. /\ u[i].row = [rows[u[i].card] EXCEPT !.key = keys[i]] /\ keys[i] \in Keys
        BY <1>13, <3>1
      <3> QED BY <3>2, <3>3
    <2>2. \A i \in DOMAIN u : Active(u[i].card)
      BY <1>13, <1>14
    <2>3. ASSUME NEW c \in Cards, Active(c) PROVE \E i \in DOMAIN u : u[i].card = c
      <3>0. c \in seen
        BY <2>3
      <3>1. PICK i \in 1 .. n : list[i] = c
        BY <1>8, <3>0
      <3>2. u[i].card = c /\ i \in DOMAIN u
        BY <1>13, <1>14, <3>1
      <3> QED BY <3>2
    <2>4. \A i, j \in DOMAIN u : i < j =>
            u[i].row.key < u[j].row.key /\ rows[u[i].card].key < rows[u[j].card].key
      <3> TAKE i, j \in DOMAIN u
      <3> HAVE i < j
      <3>1. u[i].row.key = keys[i] /\ u[j].row.key = keys[j] /\ keys[i] < keys[j]
        BY <1>12, <1>13, <1>14
      <3>2. u[i].card = list[i] /\ u[j].card = list[j] /\ rows[list[i]].key < rows[list[j]].key
        BY <1>8, <1>13, <1>14
      <3> QED BY <3>1, <3>2
    <2> QED BY <2>1, <2>2, <2>3, <2>4 DEF Rewrites
  <1> QED
    BY <1>1, <1>14, <1>15, <1>16 DEF Lawful, Retriable, u

-----------------------------------------------------------------------------
(* The backstop stays idle.                                                 *)

\* A call that writes has a lawful list of updates, some of them written.
LEMMA WritingIs ==
    ASSUME LaneIInv, NEW m \in Calls, pc[m] = "writing"
    PROVE  /\ TypeOK /\ request[m] \in Requests \cup {RebalanceRequest}
           /\ Acceptable(request[m])
           /\ \E u \in Seq(Updates), j \in Nat :
                 j <= Len(u) /\ Lawful(request[m], u) /\ Progress(m, u, j)
  <1>1. OpenInv(m) /\ TypeOK
    BY DEF LaneIInv, LaneInv, KeysApart, IsOpen
  <1>2. PICK u \in Seq(Updates) : Lawful(request[m], u) /\ \E j \in 0 .. Len(u) : Progress(m, u, j)
    BY <1>1 DEF OpenInv, Writes
  <1>3. PICK j \in 0 .. Len(u) : Progress(m, u, j)
    BY <1>2
  <1>4. j \in Nat /\ j <= Len(u)
    BY <1>3
  <1> QED
    BY <1>1, <1>2, <1>3, <1>4 DEF OpenInv

\* What the call sees of a row: the update it wrote to it, or the row.
LEMMA SeenIs ==
    ASSUME TypeOK, NEW m \in Calls, NEW u \in Seq(Updates), NEW j \in Nat, j <= Len(u),
           Progress(m, u, j), NEW d \in Cards
    PROVE  \/ \E i \in 1 .. j : u[i].card = d /\ Seen(m, d) = u[i].row
           \/ (\A i \in 1 .. j : u[i].card # d) /\ Seen(m, d) = rows[d]
  <1>1. CASE \A i \in 1 .. j : u[i].card # d
    <2>1. staged[m][d] = None
      BY <1>1 DEF Progress
    <2> QED BY <1>1, <2>1 DEF Seen
  <1>2. CASE ~(\A i \in 1 .. j : u[i].card # d)
    <2>1. PICK i \in 1 .. j : u[i].card = d
      BY <1>2
    <2>2. u[i] \in Updates
      BY <2>1
    <2>3. staged[m][d] = u[i].row /\ u[i].row \in Rows
      BY <2>1, <2>2 DEF Progress, Updates
    <2>4. staged[m][d] # None
      BY <2>3, NoneAssumption
    <2> QED BY <2>1, <2>3, <2>4 DEF Seen
  <1> QED BY <1>1, <1>2

\* A request is about a card, or it is the rebalance.
LEMMA KindIs ==
    ASSUME NEW q \in Requests \cup {RebalanceRequest}
    PROVE  /\ q.kind \in Retriable \cup {"leave", "archive", "rebalance"}
           /\ q.kind # "rebalance" => q \in Requests /\ q.card \in Cards
           /\ q.kind = "rebalance" => q = RebalanceRequest
  BY DEF Requests, RebalanceRequest, Retriable

\* The next update's key is no other row's.
LEMMA NeverTaken ==
    ASSUME LaneIInv, NEW m \in Calls, pc[m] = "writing", plan[m] # << >>
    PROVE  ~Taken(m)
  <1> DEFINE q == request[m]
  <1>1. /\ TypeOK /\ q \in Requests \cup {RebalanceRequest} /\ Acceptable(q)
        /\ \E u \in Seq(Updates), j \in Nat : j <= Len(u) /\ Lawful(q, u) /\ Progress(m, u, j)
    BY WritingIs
  <1>2. PICK u \in Seq(Updates), j \in Nat : j <= Len(u) /\ Lawful(q, u) /\ Progress(m, u, j)
    BY <1>1
  <1> DEFINE v == u[j + 1]
  <1>3. Len(u) \in Nat /\ plan[m] \in Seq(Updates) /\ Len(plan[m]) \in Nat /\ Len(plan[m]) # 0
    BY <1>1, <1>2 DEF Progress
  <1>4. j + 1 <= Len(u) /\ j + 1 \in DOMAIN u /\ Head(plan[m]) = v
    <2>1. Len(plan[m]) = Len(u) - j /\ \A i \in 1 .. Len(plan[m]) : plan[m][i] = u[i + j]
      BY <1>2 DEF Progress
    <2>2. 1 \in 1 .. Len(plan[m])
      BY <1>3
    <2>3. plan[m][1] = u[1 + j]
      BY <2>1, <2>2
    <2> QED BY <1>3, <2>1, <2>3
  <1>5. v \in Updates
    BY <1>4
  <1>6. SUFFICES ASSUME v.row.here, NEW d \in Cards \ {v.card}, Seen(m, d).here,
                        Seen(m, d).key = v.row.key
                 PROVE  FALSE
    BY <1>4 DEF Taken
  <1>7. \A c \in Cards : rows[c].here => rows[c].key \in Keys /\ rows[c].key \in Int
    BY ParametersAssumption DEF LaneIInv
  <1>8. CASE q.kind = "rebalance"
    <2>1. Rewrites(u)
      BY <1>2, <1>8 DEF Lawful
    <2>2. PICK k \in Keys : v.row.key = k /\ \A e \in Cards : rows[e].here => rows[e].key < k
      <3>1. PICK k \in Keys : /\ v.row = [rows[v.card] EXCEPT !.key = k]
                              /\ \A e \in Cards : rows[e].here => rows[e].key < k
        BY <1>4, <2>1 DEF Rewrites
      <3>2. v.card \in Cards /\ rows[v.card] \in Rows
        BY <1>1, <1>5 DEF Updates, TypeOK
      <3>3. v.row.key = k
        BY <3>1, <3>2 DEF Rows
      <3> QED BY <3>1, <3>3
    <2>3. k \in Int
      BY ParametersAssumption
    <2>4. CASE \E i \in 1 .. j : u[i].card = d /\ Seen(m, d) = u[i].row
      <3>1. PICK i \in 1 .. j : u[i].card = d /\ Seen(m, d) = u[i].row
        BY <2>4
      <3>2. i \in DOMAIN u /\ i < j + 1
        BY <1>2, <1>3, <3>1
      <3>3. u[i].row.key < v.row.key
        BY <1>4, <2>1, <3>2 DEF Rewrites
      <3> QED BY <1>6, <2>2, <2>3, <3>1, <3>3
    <2>5. CASE Seen(m, d) = rows[d]
      <3>1. rows[d].key < k /\ rows[d].key = k
        BY <1>6, <2>2, <2>5
      <3> QED BY <2>3, <3>1
    <2> QED BY <1>1, <1>2, <1>6, <2>4, <2>5, SeenIs
  <1>9. CASE q.kind # "rebalance"
    <2>1. q.kind \in Retriable \cup {"leave", "archive"} /\ q.card \in Cards
      BY <1>1, <1>9, KindIs
    <2>2. Len(u) = 1 /\ u[1].card = q.card
      BY <1>2, <2>1 DEF Lawful, Places, Leaves, Archives
    <2>3. j = 0 /\ v = u[1]
      BY <1>4, <2>2
    <2>4. Seen(m, d) = rows[d] /\ d # q.card
      BY <1>1, <1>2, <1>6, <2>2, <2>3, SeenIs
    <2>5. CASE q.kind \in Retriable
      <3>1. Places(q, u)
        BY <1>2, <2>5 DEF Lawful
      <3>2. PICK k \in Keys : u[1].row = Placed(k) /\ FreeFor(q, k)
        BY <3>1 DEF Places
      <3>3. v.row.key = k
        BY <2>3, <3>2 DEF Placed
      <3> QED BY <1>6, <2>4, <3>2, <3>3 DEF FreeFor
    <2>6. CASE q.kind = "leave"
      <3>1. v.row = Away
        BY <1>2, <2>3, <2>6 DEF Lawful, Leaves
      <3> QED BY <1>6, <3>1 DEF Away
    <2>7. CASE q.kind = "archive"
      <3>1. v.row = [rows[q.card] EXCEPT !.archived = TRUE] /\ rows[q.card].here
        BY <1>1, <1>2, <2>3, <2>7 DEF Lawful, Archives, Acceptable, Active
      <3>2. rows[q.card] \in Rows
        BY <1>1, <2>1 DEF TypeOK
      <3>3. v.row.key = rows[q.card].key
        BY <3>1, <3>2 DEF Rows
      <3> QED BY <1>6, <2>1, <2>4, <3>1, <3>3 DEF LaneIInv, LaneInv, KeysApart
    <2> QED BY <2>1, <2>5, <2>6, <2>7
  <1> QED BY <1>8, <1>9

-----------------------------------------------------------------------------
(* The steps.                                                               *)

\* An empty column keeps the invariant of SQLite.
THEOREM InitLane == Init => LaneIInv
  <1> SUFFICES ASSUME Init PROVE LaneIInv
    OBVIOUS
  <1>1. TypeOK
    <2>1. Away \in Rows /\ Blank \in [Cards -> Rows] /\ Nothing \in [Cards -> Rows \cup {None}]
      BY DEF Away, Rows, Blank, Nothing
    <2> QED BY <2>1 DEF Init, TypeOK
  <1>2. /\ \A m \in Calls : pc[m] = "idle" /\ staged[m] = Nothing /\ plan[m] = << >>
        /\ \A c \in Cards : ~rows[c].here
    BY DEF Init, Blank, Away
  <1> QED
    BY <1>1, <1>2 DEF LaneIInv, LaneInv, KeysApart, IsOpen

\* A call that is open is the only one; nothing of the others is in its way.
LEMMA OnlyOne ==
    ASSUME LaneIInv, NEW m \in Calls, IsOpen(m), NEW n \in Calls \ {m}
    PROVE  ~IsOpen(n) /\ pc[n] = "idle" /\ staged[n] = Nothing /\ plan[n] = << >>
  BY DEF LaneIInv, LaneInv, KeysApart, IsOpen, TypeOK

\* A call that begins finds no other open, so what it reads stays so.
LEMMA BeginKeeps ==
    ASSUME Adapter = "sqlite", LaneIInv, NEW m \in Calls,
           NEW q \in Requests \cup {RebalanceRequest}, pc[m] = "idle", Begin(m, q)
    PROVE  LaneIInv'
  <1>1. /\ TypeOK /\ \A n \in Calls : n # m => pc[n] = "idle"
        /\ \A n \in Calls : staged[n] = Nothing /\ plan[n] = << >>
    BY DEF LaneIInv, LaneInv, KeysApart, IsOpen, Begin, MayBegin
  <1>2. /\ pc' = [pc EXCEPT ![m] = "aiming"]
        /\ request' = [request EXCEPT ![m] = q]
        /\ image' = [image EXCEPT ![m] = [c \in Cards |-> IF c \in Reads(q) THEN rows[c] ELSE Away]]
        /\ UNCHANGED <<rows, plan, staged, retried>> /\ Acceptable(q)
    BY DEF Begin
  <1>3. TypeOK'
    <2>1. [c \in Cards |-> IF c \in Reads(q) THEN rows[c] ELSE Away] \in [Cards -> Rows]
      BY <1>1 DEF TypeOK, Away, Rows
    <2> QED BY <1>1, <1>2, <2>1 DEF TypeOK
  <1>4. /\ pc'[m] = "aiming" /\ request'[m] = q
        /\ \A n \in Calls : n # m => pc'[n] = "idle"
        /\ \A c \in Cards : c \in Reads(q) => image'[m][c] = rows[c]
        /\ \A n \in Calls : staged'[n] = Nothing /\ plan'[n] = << >>
    BY <1>1, <1>2 DEF TypeOK
  <1>5. Acceptable(q)'
    BY <1>2 DEF Acceptable, Neighbour, Active
  <1>6. /\ \A n \in Calls : IsOpen(n)' => n = m
        /\ \A n \in Calls : ~IsOpen(n)' => (staged[n] = Nothing /\ plan[n] = << >>)'
        /\ \A n \in Calls : pc'[n] # "again"
    BY <1>4 DEF IsOpen
  <1>7. \A c \in Cards : (c \in Reads(request[m]) => image[m][c] = rows[c])'
    BY <1>2, <1>4 DEF Reads
  <1>8. Reads(request[m])' \subseteq Cards
    <2>1. q.kind # "rebalance" => q.card \in Cards
      BY KindIs
    <2> QED BY <1>4, <2>1 DEF Reads
  <1>9. OpenInv(m)'
    BY <1>4, <1>5 DEF OpenInv
  <1>10. LaneInv'
    <2>1. (\A c, d \in Cards : rows[c].here /\ rows[d].here /\ c # d => rows[c].key # rows[d].key)'
      BY <1>2 DEF LaneIInv, LaneInv, KeysApart
    <2>2. (\A n \in Calls : IF IsOpen(n) THEN \A c \in Reads(request[n]) : image[n][c] = rows[c]
                            ELSE staged[n] = Nothing /\ plan[n] = << >>)'
      BY <1>6, <1>7, <1>8
    <2> QED BY <1>3, <1>6, <2>1, <2>2 DEF LaneInv, KeysApart
  <1>11. (\A c \in Cards : rows[c].here => rows[c].key \in Keys)'
    BY <1>2 DEF LaneIInv
  <1> QED
    BY <1>6, <1>9, <1>10, <1>11 DEF LaneIInv

\* What a call is going to write is lawful when it computes it.
LEMMA AimKeeps ==
    ASSUME LaneIInv, NEW m \in Calls, Aim(m)
    PROVE  LaneIInv'
  <1> DEFINE q == request[m]
  <1>0. PICK u : u = plan'[m]
    OBVIOUS
  <1>1. /\ pc[m] = "aiming" /\ pc' = [pc EXCEPT ![m] = "writing"]
        /\ UNCHANGED <<rows, request, image, staged, retried>>
        /\ AimPlace(m) \/ AimLeave(m) \/ AimArchive(m) \/ AimRebalance(m)
    BY DEF Aim
  <1>2. Lawful(q, u)
    BY <1>0, <1>1, PlaceLawful, LeaveLawful, RebalanceLawful
  <1>3. IsOpen(m) /\ OpenInv(m) /\ TypeOK /\ staged[m] = Nothing
    BY <1>1 DEF IsOpen, LaneIInv, LaneInv, KeysApart, OpenInv
  <1>4. u \in Seq(Updates) /\ plan'[m] = u /\ \A n \in Calls : n # m => plan'[n] = plan[n]
    <2>1. \A n \in Calls : n # m => plan'[n] = plan[n]
      BY <1>1, <1>3 DEF TypeOK, AimPlace, AimLeave, AimArchive, AimRebalance
    <2> QED BY <1>0, <1>2, <2>1 DEF Lawful
  <1>5. plan' \in [Calls -> Seq(Updates)]
    <2>1. \E e : plan' = [plan EXCEPT ![m] = e]
      BY <1>1 DEF AimPlace, AimLeave, AimArchive, AimRebalance
    <2>2. PICK e : plan' = [plan EXCEPT ![m] = e]
      BY <2>1
    <2>3. e = u
      BY <1>3, <1>4, <2>2 DEF TypeOK
    <2> QED BY <1>3, <1>4, <2>2, <2>3 DEF TypeOK
  <1>6. TypeOK'
    BY <1>1, <1>3, <1>5 DEF TypeOK
  <1>7. Lawful(request[m], u)'
    BY <1>1, <1>2, ZenonT(60) DEF Lawful, Places, FreeFor, Leaves, Archives, Rewrites, Active
  <1>8. Progress(m, u, 0)'
    <2>1. Len(u) \in Nat /\ \A i \in 1 .. Len(u) : u[i] = u[i + 0]
      BY <1>4
    <2>2. plan'[m] = u /\ staged'[m] = Nothing
      BY <1>1, <1>3, <1>4
    <2> QED BY <1>4, <2>1, <2>2 DEF Progress, Nothing
  <1>9. Writes(m)'
    <2>1. 0 \in 0 .. Len(u)
      BY <1>4
    <2> QED BY <1>4, <1>7, <1>8, <2>1 DEF Writes
  <1>10. \A n \in Calls : (IsOpen(n) <=> IsOpen(n)')
    BY <1>1, <1>3 DEF IsOpen, TypeOK
  <1>11. LaneInv'
    <2>1. \A n \in Calls : ~IsOpen(n)' => (staged[n] = Nothing /\ plan[n] = << >>)'
      BY <1>1, <1>3, <1>4, <1>10 DEF LaneIInv, LaneInv, KeysApart
    <2>2. \A n \in Calls : IsOpen(n)' => (\A c \in Reads(request[n]) : image[n][c] = rows[c])'
      BY <1>1, <1>10 DEF LaneIInv, LaneInv, KeysApart, Reads
    <2> QED BY <1>1, <1>6, <1>10, <2>1, <2>2 DEF LaneIInv, LaneInv, KeysApart
  <1>12. OpenInv(m)'
    BY <1>1, <1>3, <1>9 DEF OpenInv, Acceptable, Neighbour, Active, TypeOK
  <1>13. \A n \in Calls : IsOpen(n)' => n = m
    BY <1>3, <1>10, OnlyOne
  <1>14. \A n \in Calls : pc'[n] # "again"
    BY <1>1 DEF LaneIInv, LaneInv, KeysApart, TypeOK
  <1> QED
    BY <1>1, <1>11, <1>12, <1>13, <1>14 DEF LaneIInv

\* One more update is written; no row has changed.
LEMMA WriteKeeps ==
    ASSUME LaneIInv, NEW m \in Calls, Write(m)
    PROVE  LaneIInv'
  <1> DEFINE q == request[m]
             v == Head(plan[m])
  <1>1. /\ pc[m] = "writing" /\ plan[m] # << >>
        /\ staged' = [staged EXCEPT ![m][v.card] = v.row]
        /\ plan' = [plan EXCEPT ![m] = Tail(@)]
        /\ UNCHANGED <<rows, pc, request, image, retried>>
    BY DEF Write, Ready
  <1>2. /\ TypeOK /\ q \in Requests \cup {RebalanceRequest} /\ Acceptable(q)
        /\ \E u \in Seq(Updates), j \in Nat : j <= Len(u) /\ Lawful(q, u) /\ Progress(m, u, j)
    BY <1>1, WritingIs
  <1>3. PICK u \in Seq(Updates), j \in Nat : j <= Len(u) /\ Lawful(q, u) /\ Progress(m, u, j)
    BY <1>2
  <1>4. /\ Len(u) \in Nat /\ plan[m] \in Seq(Updates) /\ Len(plan[m]) \in Nat /\ Len(plan[m]) # 0
        /\ Len(plan[m]) = Len(u) - j
        /\ \A i \in 1 .. Len(plan[m]) : plan[m][i] = u[i + j]
        /\ \A i \in 1 .. j : staged[m][u[i].card] = u[i].row
        /\ \A c \in Cards : (\A i \in 1 .. j : u[i].card # c) => staged[m][c] = None
    BY <1>1, <1>3 DEF Progress
  <1>5. j + 1 <= Len(u) /\ v = u[j + 1] /\ v \in Updates
    <2>1. 1 \in 1 .. Len(plan[m]) /\ v = plan[m][1]
      BY <1>4
    <2>2. v = u[1 + j]
      BY <1>4, <2>1
    <2> QED BY <1>4, <2>1, <2>2
  <1>6. v.card \in Cards /\ v.row \in Rows
    BY <1>5 DEF Updates
  <1>7. /\ Tail(plan[m]) \in Seq(Updates) /\ Len(Tail(plan[m])) = Len(plan[m]) - 1
        /\ \A i \in 1 .. Len(plan[m]) - 1 : Tail(plan[m])[i] = plan[m][i + 1]
    BY <1>4
  <1> HIDE DEF v
  <1>8. /\ plan'[m] = Tail(plan[m]) /\ plan' \in [Calls -> Seq(Updates)]
        /\ \A n \in Calls : n # m => plan'[n] = plan[n] /\ staged'[n] = staged[n]
        /\ staged' \in [Calls -> [Cards -> Rows \cup {None}]]
        /\ staged'[m] = [staged[m] EXCEPT ![v.card] = v.row]
    BY <1>1, <1>2, <1>6, <1>7 DEF TypeOK
  <1>9. TypeOK'
    BY <1>1, <1>2, <1>8 DEF TypeOK
  <1>10. Lawful(request[m], u)'
    BY <1>1, <1>3 DEF Lawful, Places, FreeFor, Leaves, Archives, Rewrites, Active
  <1>11. Progress(m, u, j + 1)'
    <2>1. /\ plan'[m] \in Seq(Updates)
          /\ Len(plan'[m]) = Len(u) - (j + 1)
          /\ \A i \in 1 .. Len(plan'[m]) : plan'[m][i] = u[i + (j + 1)]
      <3>1. plan'[m] \in Seq(Updates) /\ Len(plan'[m]) = Len(u) - (j + 1)
        BY <1>4, <1>7, <1>8
      <3>2. ASSUME NEW i \in 1 .. Len(plan'[m])
            PROVE  plan'[m][i] = u[i + (j + 1)]
        <4>1. i \in 1 .. Len(plan[m]) - 1 /\ i + 1 \in 1 .. Len(plan[m])
          BY <1>4, <1>7, <1>8, <3>2
        <4>2. plan'[m][i] = plan[m][i + 1]
          BY <1>7, <1>8, <4>1
        <4>3. plan[m][i + 1] = u[(i + 1) + j]
          BY <1>4, <4>1
        <4>4. (i + 1) + j = i + (j + 1)
          BY <4>1
        <4> QED BY <4>2, <4>3, <4>4
      <3> QED BY <3>1, <3>2
    <2>2. ASSUME NEW i \in 1 .. j + 1 PROVE staged'[m][u[i].card] = u[i].row
      <3>1. CASE i = j + 1
        BY <1>2, <1>5, <1>6, <1>8, <3>1 DEF TypeOK
      <3>2. CASE i # j + 1
        <4>1. i \in 1 .. j /\ i \in DOMAIN u /\ j + 1 \in DOMAIN u
          BY <1>4, <1>5, <2>2, <3>2
        <4>2. u[i].card # v.card /\ u[i].card \in Cards
          <5>1. \A x, y \in DOMAIN u : x # y => u[x].card # u[y].card
            BY <1>3 DEF Lawful
          <5>2. u[i] \in Updates
            BY <4>1
          <5> QED BY <1>5, <3>2, <4>1, <5>1, <5>2 DEF Updates
        <4> QED BY <1>2, <1>4, <1>8, <4>1, <4>2 DEF TypeOK
      <3> QED BY <3>1, <3>2
    <2>3. ASSUME NEW c \in Cards, \A i \in 1 .. j + 1 : u[i].card # c
          PROVE  staged'[m][c] = None
      <3>1. c # v.card /\ \A i \in 1 .. j : u[i].card # c
        BY <1>5, <2>3
      <3> QED BY <1>2, <1>4, <1>8, <3>1 DEF TypeOK
    <2> QED BY <2>1, <2>2, <2>3 DEF Progress
  <1>12. Writes(m)'
    <2>1. j + 1 \in 0 .. Len(u)
      BY <1>4, <1>5
    <2> QED BY <1>10, <1>11, <2>1 DEF Writes
  <1>13. \A n \in Calls : (IsOpen(n) <=> IsOpen(n)')
    BY <1>1 DEF IsOpen
  <1>14. LaneInv'
    <2>1. \A n \in Calls : ~IsOpen(n)' => (staged[n] = Nothing /\ plan[n] = << >>)'
      BY <1>1, <1>8, <1>13 DEF LaneIInv, LaneInv, KeysApart, IsOpen
    <2>2. \A n \in Calls : IsOpen(n)' => (\A c \in Reads(request[n]) : image[n][c] = rows[c])'
      BY <1>1, <1>13 DEF LaneIInv, LaneInv, KeysApart, Reads
    <2> QED BY <1>1, <1>9, <1>13, <2>1, <2>2 DEF LaneIInv, LaneInv, KeysApart
  <1>15. OpenInv(m)'
    BY <1>1, <1>2, <1>12 DEF OpenInv, Acceptable, Neighbour, Active
  <1>16. \A n \in Calls : IsOpen(n)' => n = m
    BY <1>1, <1>13, OnlyOne DEF IsOpen
  <1> QED
    BY <1>1, <1>14, <1>15, <1>16 DEF LaneIInv

\* What a commit leaves in the column.
LEMMA CommittedRows ==
    ASSUME LaneIInv, NEW m \in Calls, Commit(m), NEW q, q = request[m]
    PROVE  /\ q \in Requests \cup {RebalanceRequest} /\ Acceptable(q)
           /\ q.kind # "rebalance" => /\ q \in Requests /\ q.card \in Cards
                                      /\ \A d \in Cards \ {q.card} : rows'[d] = rows[d]
           /\ q.kind \in Retriable => \E k \in Keys : rows'[q.card] = Placed(k) /\ FreeFor(q, k)
           /\ q.kind = "leave" => rows'[q.card] = Away
           /\ q.kind = "archive" => rows'[q.card] = [rows[q.card] EXCEPT !.archived = TRUE]
           /\ q.kind = "rebalance" =>
                 /\ \A c \in Cards : ~Active(c) => rows'[c] = rows[c]
                 /\ \A c \in Cards : Active(c) =>
                       \E k \in Keys : /\ rows'[c] = [rows[c] EXCEPT !.key = k]
                                       /\ \A d \in Cards : rows[d].here => rows[d].key < k
                 /\ \A c, d \in Cards : Active(c) /\ Active(d) /\ rows[c].key < rows[d].key
                       => rows'[c].key < rows'[d].key
  <1>1. pc[m] = "writing" /\ plan[m] = << >> /\ rows' = [c \in Cards |-> Seen(m, c)]
    BY DEF Commit
  <1>2. /\ TypeOK /\ q \in Requests \cup {RebalanceRequest} /\ Acceptable(q)
        /\ \E u \in Seq(Updates), j \in Nat : j <= Len(u) /\ Lawful(q, u) /\ Progress(m, u, j)
    BY <1>1, WritingIs
  <1>3. PICK u \in Seq(Updates), j \in Nat : j <= Len(u) /\ Lawful(q, u) /\ Progress(m, u, j)
    BY <1>2
  <1>4. j = Len(u) /\ DOMAIN u = 1 .. j
    BY <1>1, <1>3 DEF Progress
  <1>5. ASSUME NEW c \in Cards
        PROVE  \/ \E i \in DOMAIN u : u[i].card = c /\ rows'[c] = u[i].row
               \/ (\A i \in DOMAIN u : u[i].card # c) /\ rows'[c] = rows[c]
    <2>1. rows'[c] = Seen(m, c)
      BY <1>1
    <2> QED BY <1>2, <1>3, <1>4, <2>1, SeenIs, SMTT(60)
  <1>6. CASE q.kind # "rebalance"
    <2>1. q.kind \in Retriable \cup {"leave", "archive"} /\ q \in Requests /\ q.card \in Cards
      BY <1>2, <1>6, KindIs
    <2>2. Len(u) = 1 /\ u[1].card = q.card
      BY <1>3, <2>1 DEF Lawful, Places, Leaves, Archives
    <2>3. DOMAIN u = {1}
      BY <1>4, <2>2
    <2>4. rows'[q.card] = u[1].row /\ \A d \in Cards \ {q.card} : rows'[d] = rows[d]
      <3>1. rows'[q.card] = u[1].row
        BY <1>5, <2>1, <2>2, <2>3
      <3>2. ASSUME NEW d \in Cards \ {q.card} PROVE rows'[d] = rows[d]
        BY <1>5, <2>2, <2>3
      <3> QED BY <3>1, <3>2
    <2>5. q.kind \in Retriable => \E k \in Keys : rows'[q.card] = Placed(k) /\ FreeFor(q, k)
      BY <1>3, <2>4 DEF Lawful, Places
    <2>6. /\ q.kind = "leave" => rows'[q.card] = Away
          /\ q.kind = "archive" => rows'[q.card] = [rows[q.card] EXCEPT !.archived = TRUE]
      BY <1>3, <2>4 DEF Lawful, Leaves, Archives
    <2> QED BY <1>2, <1>6, <2>1, <2>4, <2>5, <2>6
  <1>7. CASE q.kind = "rebalance"
    <2>1. /\ \A i \in DOMAIN u : \E k \in Keys :
                /\ u[i].row = [rows[u[i].card] EXCEPT !.key = k]
                /\ \A d \in Cards : rows[d].here => rows[d].key < k
          /\ \A i \in DOMAIN u : Active(u[i].card)
          /\ \A c \in Cards : Active(c) => \E i \in DOMAIN u : u[i].card = c
          /\ \A i, j2 \in DOMAIN u : i < j2 =>
                u[i].row.key < u[j2].row.key /\ rows[u[i].card].key < rows[u[j2].card].key
      BY <1>3, <1>7 DEF Lawful, Rewrites
    <2>2. ASSUME NEW c \in Cards, ~Active(c) PROVE rows'[c] = rows[c]
      BY <1>5, <2>1, <2>2
    <2>3. ASSUME NEW c \in Cards, Active(c)
          PROVE  \E i \in DOMAIN u : u[i].card = c /\ rows'[c] = u[i].row
      BY <1>5, <2>1, <2>3
    <2>4. ASSUME NEW c \in Cards, Active(c)
          PROVE  \E k \in Keys : /\ rows'[c] = [rows[c] EXCEPT !.key = k]
                                 /\ \A d \in Cards : rows[d].here => rows[d].key < k
      <3>1. PICK i \in DOMAIN u : u[i].card = c /\ rows'[c] = u[i].row
        BY <2>3, <2>4
      <3> QED BY <2>1, <3>1
    <2>5. ASSUME NEW c \in Cards, NEW d \in Cards, Active(c), Active(d),
                 rows[c].key < rows[d].key
          PROVE  rows'[c].key < rows'[d].key
      <3>1. PICK x \in DOMAIN u : u[x].card = c /\ rows'[c] = u[x].row
        BY <2>3, <2>5
      <3>2. PICK y \in DOMAIN u : u[y].card = d /\ rows'[d] = u[y].row
        BY <2>3, <2>5
      <3>3. rows[c].key \in Int /\ rows[d].key \in Int
        BY <2>5, ParametersAssumption DEF LaneIInv, Active
      <3>4. x \in Int /\ y \in Int /\ x # y
        BY <1>4, <2>5, <3>1, <3>2, <3>3
      <3>5. CASE x < y
        BY <2>1, <3>1, <3>2, <3>5
      <3>6. CASE y < x
        <4>1. rows[d].key < rows[c].key
          BY <2>1, <3>1, <3>2, <3>6
        <4> QED BY <2>5, <3>3, <4>1
      <3> QED BY <3>4, <3>5, <3>6
    <2>6. q.kind \notin Retriable
      BY <1>7 DEF Retriable
    <2> QED BY <1>2, <1>7, <2>2, <2>4, <2>5, <2>6
  <1> QED BY <1>6, <1>7

\* A call that ends leaves nothing of its own.
LEMMA ForgetTypes ==
    ASSUME TypeOK, NEW m \in Calls, Forget(m)
    PROVE  /\ pc' \in [Calls -> {"idle", "again", "aiming", "writing"}]
           /\ request' \in [Calls -> Requests \cup {RebalanceRequest, None}]
           /\ image' \in [Calls -> [Cards -> Rows]]
           /\ plan' \in [Calls -> Seq(Updates)]
           /\ staged' \in [Calls -> [Cards -> Rows \cup {None}]]
           /\ retried' \in SUBSET Movers
           /\ pc'[m] = "idle" /\ staged'[m] = Nothing /\ plan'[m] = << >>
           /\ \A n \in Calls : n # m => /\ pc'[n] = pc[n] /\ staged'[n] = staged[n]
                                        /\ plan'[n] = plan[n]
  <1>1. Blank \in [Cards -> Rows] /\ Nothing \in [Cards -> Rows \cup {None}]
        /\ << >> \in Seq(Updates)
    BY DEF Blank, Away, Rows, Nothing
  <1> QED
    BY <1>1 DEF TypeOK, Forget

\* After the only open call ends, the keys are what there is to say.
LEMMA EndKeeps ==
    ASSUME LaneIInv, NEW m \in Calls, IsOpen(m), Forget(m),
           rows' \in [Cards -> Rows],
           \A c \in Cards : rows'[c].here => rows'[c].key \in Keys,
           \A c, d \in Cards : rows'[c].here /\ rows'[d].here /\ c # d => rows'[c].key # rows'[d].key
    PROVE  LaneIInv'
  <1>1. TypeOK'
    BY ForgetTypes DEF LaneIInv, LaneInv, KeysApart, TypeOK
  <1>2. \A n \in Calls : pc'[n] = "idle" /\ staged'[n] = Nothing /\ plan'[n] = << >>
    <2> TAKE n \in Calls
    <2>0. TypeOK
      BY DEF LaneIInv, LaneInv
    <2>1. CASE n = m
      BY <2>0, <2>1, ForgetTypes
    <2>2. CASE n # m
      BY <2>0, <2>2, ForgetTypes, OnlyOne
    <2> QED BY <2>1, <2>2
  <1> QED
    BY <1>1, <1>2 DEF LaneIInv, LaneInv, KeysApart, IsOpen

\* A commit writes keys that no other row has.
LEMMA CommitKeeps ==
    ASSUME LaneIInv, NEW m \in Calls, Commit(m)
    PROVE  LaneIInv'
  <1> DEFINE q == request[m]
  <1>1. /\ TypeOK /\ IsOpen(m) /\ Forget(m)
        /\ \A c \in Cards : rows[c].here => rows[c].key \in Keys /\ rows[c].key \in Int
        /\ \A c, d \in Cards : rows[c].here /\ rows[d].here /\ c # d => rows[c].key # rows[d].key
    BY ParametersAssumption DEF Commit, LaneIInv, LaneInv, KeysApart, IsOpen
  <1>2. rows' \in [Cards -> Rows]
    <2>1. \A c \in Cards : Seen(m, c) \in Rows
      BY <1>1 DEF Seen, TypeOK
    <2> QED BY <2>1 DEF Commit
  <1>3. CASE q.kind # "rebalance"
    <2>1. /\ q \in Requests /\ Acceptable(q) /\ q.card \in Cards
          /\ \A d \in Cards \ {q.card} : rows'[d] = rows[d]
          /\ q.kind \in Retriable \cup {"leave", "archive"}
      BY <1>3, CommittedRows, KindIs
    <2>2. ASSUME rows'[q.card].here
          PROVE  /\ rows'[q.card].key \in Keys
                 /\ \A d \in Cards \ {q.card} : rows[d].here => rows[d].key # rows'[q.card].key
      <3>1. CASE q.kind \in Retriable
        <4>1. PICK k \in Keys : rows'[q.card] = Placed(k) /\ FreeFor(q, k)
          BY <3>1, CommittedRows
        <4> QED BY <4>1 DEF Placed, FreeFor
      <3>2. CASE q.kind = "leave"
        <4>1. rows'[q.card] = Away
          BY <3>2, CommittedRows
        <4> QED BY <2>2, <4>1 DEF Away
      <3>3. CASE q.kind = "archive"
        <4>1. rows'[q.card] = [rows[q.card] EXCEPT !.archived = TRUE] /\ rows[q.card].here
          BY <2>1, <3>3, CommittedRows DEF Acceptable, Active
        <4>2. rows'[q.card].key = rows[q.card].key
          BY <1>1, <2>1, <4>1 DEF TypeOK, Rows
        <4> QED BY <1>1, <2>1, <4>1, <4>2
      <3> QED BY <2>1, <3>1, <3>2, <3>3
    <2>3. \A c \in Cards : rows'[c].here => rows'[c].key \in Keys
      BY <1>1, <2>1, <2>2
    <2>4. ASSUME NEW c \in Cards, NEW d \in Cards, rows'[c].here, rows'[d].here, c # d
          PROVE  rows'[c].key # rows'[d].key
      BY <1>1, <2>1, <2>2, <2>4
    <2> QED BY <1>1, <1>2, <2>3, <2>4, EndKeeps
  <1>4. CASE q.kind = "rebalance"
    <2>1. /\ \A c \in Cards : ~Active(c) => rows'[c] = rows[c]
          /\ \A c \in Cards : Active(c) =>
                \E k \in Keys : /\ rows'[c] = [rows[c] EXCEPT !.key = k]
                                /\ \A d \in Cards : rows[d].here => rows[d].key < k
          /\ \A c, d \in Cards : Active(c) /\ Active(d) /\ rows[c].key < rows[d].key
                => rows'[c].key < rows'[d].key
      BY <1>4, CommittedRows
    <2>2. ASSUME NEW c \in Cards, Active(c)
          PROVE  /\ rows'[c].key \in Keys /\ rows'[c].key \in Int
                 /\ \A d \in Cards : rows[d].here => rows[d].key < rows'[c].key
      <3>1. PICK k \in Keys : /\ rows'[c] = [rows[c] EXCEPT !.key = k]
                              /\ \A d \in Cards : rows[d].here => rows[d].key < k
        BY <2>1, <2>2
      <3>2. rows'[c].key = k
        BY <1>1, <3>1 DEF TypeOK, Rows
      <3> QED BY <3>1, <3>2, ParametersAssumption
    <2>3. \A c \in Cards : rows'[c].here => rows'[c].key \in Keys
      BY <1>1, <2>1, <2>2
    <2>4. ASSUME NEW c \in Cards, NEW d \in Cards, rows'[c].here, rows'[d].here, c # d
          PROVE  rows'[c].key # rows'[d].key
      <3>1. CASE Active(c) /\ Active(d)
        <4>1. rows[c].key # rows[d].key /\ rows[c].key \in Int /\ rows[d].key \in Int
          BY <1>1, <2>4, <3>1 DEF Active
        <4>2. rows[c].key < rows[d].key \/ rows[d].key < rows[c].key
          BY <4>1
        <4>3. rows'[c].key < rows'[d].key \/ rows'[d].key < rows'[c].key
          BY <2>1, <3>1, <4>2
        <4>4. rows'[c].key \in Int /\ rows'[d].key \in Int
          BY <2>2, <3>1
        <4> QED BY <4>3, <4>4
      <3>2. CASE Active(c) /\ ~Active(d)
        <4>1. rows'[d] = rows[d] /\ rows[d].key < rows'[c].key /\ rows[d].key \in Int
          BY <1>1, <2>1, <2>2, <2>4, <3>2
        <4> QED BY <2>2, <3>2, <4>1
      <3>3. CASE ~Active(c) /\ Active(d)
        <4>1. rows'[c] = rows[c] /\ rows[c].key < rows'[d].key /\ rows[c].key \in Int
          BY <1>1, <2>1, <2>2, <2>4, <3>3
        <4> QED BY <2>2, <3>3, <4>1
      <3>4. CASE ~Active(c) /\ ~Active(d)
        BY <1>1, <2>1, <2>4, <3>4
      <3> QED BY <3>1, <3>2, <3>3, <3>4
    <2> QED BY <1>1, <1>2, <2>3, <2>4, EndKeeps
  <1> QED BY <1>3, <1>4

\* On SQLite every step keeps the invariant: the one retry is never reached.
THEOREM LaneStep == Adapter = "sqlite" /\ LaneIInv /\ [Next]_vars => LaneIInv'
  <1> SUFFICES ASSUME Adapter = "sqlite", LaneIInv, [Next]_vars PROVE LaneIInv'
    OBVIOUS
  <1>1. ASSUME NEW m \in Movers, NEW q \in Requests, Start(m, q) PROVE LaneIInv'
    BY <1>1, BeginKeeps DEF Start, Calls
  <1>2. ASSUME NEW m \in Jobs, Start(m, RebalanceRequest) PROVE LaneIInv'
    BY <1>2, BeginKeeps DEF Start, Calls
  <1>3. ASSUME NEW m \in Calls, Again(m) \/ RefuseAgain(m) PROVE LaneIInv'
    BY <1>3 DEF LaneIInv, Again, RefuseAgain
  <1>4. ASSUME NEW m \in Calls, Aim(m) PROVE LaneIInv'
    BY <1>4, AimKeeps
  <1>5. ASSUME NEW m \in Calls, Write(m) PROVE LaneIInv'
    BY <1>5, WriteKeeps
  <1>6. ASSUME NEW m \in Calls, Collide(m) PROVE LaneIInv'
    BY <1>6, NeverTaken DEF Collide, Ready
  <1>7. ASSUME NEW m \in Calls, Commit(m) PROVE LaneIInv'
    BY <1>7, CommitKeeps
  <1>8. ASSUME NEW m \in Calls, Abort(m) PROVE LaneIInv'
    <2>1. IsOpen(m) /\ Forget(m) /\ rows' = rows
      BY <1>8 DEF Abort, IsOpen
    <2>2. /\ rows' \in [Cards -> Rows]
          /\ \A c \in Cards : rows'[c].here => rows'[c].key \in Keys
          /\ \A c, d \in Cards : rows'[c].here /\ rows'[d].here /\ c # d
                => rows'[c].key # rows'[d].key
      BY <2>1 DEF LaneIInv, LaneInv, KeysApart, TypeOK
    <2> QED BY <2>1, <2>2, EndKeeps
  <1>9. CASE UNCHANGED vars
    <2>1. UNCHANGED <<rows, pc, request, image, plan, staged, retried>>
      BY <1>9 DEF vars
    <2>2. TypeOK' /\ LaneInv'
      BY <2>1 DEF LaneIInv, LaneInv, KeysApart, TypeOK, Reads, IsOpen
    <2>3. ASSUME NEW m \in Calls, IsOpen(m)' PROVE OpenInv(m)'
      <3>1. OpenInv(m)
        BY <2>1, <2>3 DEF LaneIInv, IsOpen
      <3>2. Writes(m) <=> Writes(m)'
        BY <2>1 DEF Writes, Progress, Lawful, Places, FreeFor, Leaves, Archives, Rewrites, Active
      <3> QED BY <2>1, <3>1, <3>2 DEF OpenInv, Acceptable, Neighbour, Active
    <2> QED BY <2>1, <2>2, <2>3 DEF LaneIInv, IsOpen
  <1> QED
    BY <1>1, <1>2, <1>3, <1>4, <1>5, <1>6, <1>7, <1>8, <1>9 DEF Next, Step

-----------------------------------------------------------------------------
(* The theorems, for SQLite.                                                *)

\* The invariant of SQLite holds throughout.
THEOREM LaneIsKept == Adapter = "sqlite" /\ Spec => []LaneIInv
  <1> SUFFICES ASSUME Adapter = "sqlite" PROVE Spec => []LaneIInv
    OBVIOUS
  <1>1. LaneIInv /\ [Next]_vars => LaneIInv'
    BY LaneStep
  <1> QED
    BY <1>1, InitLane, PTL DEF Spec

\* A card dropped in a gap lands in it.
LEMMA CommitLands == LaneIInv /\ [Next]_vars => LandsInGap
  <1> SUFFICES ASSUME LaneIInv, NEW m \in Movers, Commit(m), request[m].kind = "move",
                      NEW q, q = request[m]
               PROVE  /\ rows'[q.card].here
                      /\ q.prev # None => Before(rows', q.prev, q.card)
                      /\ q.next # None => Before(rows', q.card, q.next)
                      /\ \A d \in Cards \ {q.next} : Before(rows', q.card, d)
                            => q.next # None /\ Before(rows', q.next, d)
    BY DEF LandsInGap
  <1>1. /\ q \in Requests /\ Acceptable(q) /\ q.card \in Cards
        /\ \A d \in Cards \ {q.card} : rows'[d] = rows[d]
        /\ \E k \in Keys : rows'[q.card] = Placed(k) /\ FreeFor(q, k)
    BY CommittedRows DEF Calls, Retriable
  <1>2. PICK k \in Keys : rows'[q.card] = Placed(k) /\ FreeFor(q, k)
    BY <1>1
  <1>3. rows'[q.card].here /\ rows'[q.card].key = k /\ k \in Int
    BY <1>2, ParametersAssumption DEF Placed
  <1>4. /\ q.prev \in Cards \cup {None} /\ q.next \in Cards \cup {None}
        /\ Neighbour(q.prev, q.card) /\ Neighbour(q.next, q.card)
    BY <1>1 DEF Acceptable, Requests
  <1>5. \A d \in Cards : rows[d].here => rows[d].key \in Int
    BY ParametersAssumption DEF LaneIInv
  <1>6. /\ q.prev # None => rows[q.prev].key < k /\ rows'[q.prev] = rows[q.prev] /\ rows[q.prev].here
        /\ q.next # None => k < rows[q.next].key /\ rows'[q.next] = rows[q.next] /\ rows[q.next].here
    BY <1>1, <1>2, <1>4 DEF FreeFor, Neighbour, Active
  <1>7. ASSUME NEW d \in Cards \ {q.next}, Before(rows', q.card, d)
        PROVE  q.next # None /\ Before(rows', q.next, d)
    <2>1. d # q.card
      BY <1>3, <1>7 DEF Before
    <2>2. rows'[d] = rows[d] /\ rows[d].here /\ k < rows[d].key
      BY <1>1, <1>3, <1>7, <2>1 DEF Before
    <2>3. q.next # None /\ rows[q.next].key <= rows[d].key
      BY <1>1, <1>2, <2>1, <2>2 DEF FreeFor
    <2>4. q.next \in Cards /\ d \in Cards /\ rows[q.next].key # rows[d].key
      BY <1>4, <1>6, <1>7, <2>2, <2>3 DEF LaneIInv, LaneInv, KeysApart
    <2>5. rows[q.next].key < rows[d].key
      BY <1>5, <1>6, <2>2, <2>3, <2>4
    <2> QED BY <1>6, <2>2, <2>3, <2>5 DEF Before
  <1> QED
    BY <1>3, <1>6, <1>7 DEF Before

\* A commit moves nothing but the card it is about: neither another move nor
\* the nightly rebalance reorders, shows or hides any of the others.
LEMMA CommitLeavesOthers == LaneIInv /\ [Next]_vars => OtherCardsStay
  <1> SUFFICES ASSUME LaneIInv, NEW m \in Calls, Commit(m), NEW q, q = request[m],
                      NEW c \in Cards \ {q.card}, NEW d \in Cards \ {q.card}
               PROVE  /\ rows'[c].here = rows[c].here /\ rows'[c].archived = rows[c].archived
                      /\ Active(c) /\ Active(d) => (Before(rows, c, d) <=> Before(rows', c, d))
    BY DEF OtherCardsStay
  <1>1. CASE q.kind # "rebalance"
    <2>1. rows'[c] = rows[c] /\ rows'[d] = rows[d]
      BY <1>1, CommittedRows
    <2> QED BY <2>1 DEF Before
  <1>2. CASE q.kind = "rebalance"
    <2>1. /\ \A e \in Cards : ~Active(e) => rows'[e] = rows[e]
          /\ \A e \in Cards : Active(e) =>
                \E k \in Keys : /\ rows'[e] = [rows[e] EXCEPT !.key = k]
                                /\ \A f \in Cards : rows[f].here => rows[f].key < k
          /\ \A e, f \in Cards : Active(e) /\ Active(f) /\ rows[e].key < rows[f].key
                => rows'[e].key < rows'[f].key
      BY <1>2, CommittedRows
    <2>2. ASSUME NEW e \in Cards, Active(e)
          PROVE  /\ rows'[e].here = rows[e].here /\ rows'[e].archived = rows[e].archived
                 /\ rows[e].here
                 /\ rows'[e].key \in Int /\ rows[e].key \in Int
      <3>1. PICK k \in Keys : rows'[e] = [rows[e] EXCEPT !.key = k]
        BY <2>1, <2>2
      <3>2. rows[e] \in Rows
        BY DEF LaneIInv, LaneInv, KeysApart, TypeOK
      <3>3. rows'[e].key = k /\ rows'[e].here = rows[e].here /\ rows'[e].archived = rows[e].archived
        BY <3>1, <3>2 DEF Rows
      <3> QED BY <2>2, <3>3, ParametersAssumption DEF Active, LaneIInv
    <2>3. rows'[c].here = rows[c].here /\ rows'[c].archived = rows[c].archived
      <3>0. c \in Cards
        OBVIOUS
      <3>1. CASE Active(c)
        BY <2>2, <3>0, <3>1
      <3>2. CASE ~Active(c)
        BY <2>1, <3>0, <3>2
      <3> QED BY <3>1, <3>2
    <2>4. ASSUME Active(c), Active(d)
          PROVE  Before(rows, c, d) <=> Before(rows', c, d)
      <3>1. CASE c = d
        BY <2>2, <2>4, <3>1 DEF Before
      <3>2. CASE c # d
        <4>1. rows[c].key # rows[d].key
          BY <2>4, <3>2 DEF LaneIInv, LaneInv, KeysApart, Active
        <4>2. rows[c].key < rows[d].key \/ rows[d].key < rows[c].key
          BY <2>2, <2>4, <4>1
        <4>3. rows[c].key < rows[d].key => rows'[c].key < rows'[d].key
          BY <2>1, <2>4
        <4>4. rows[d].key < rows[c].key => rows'[d].key < rows'[c].key
          BY <2>1, <2>4
        <4> QED BY <2>2, <2>4, <4>2, <4>3, <4>4 DEF Before
      <3> QED BY <3>1, <3>2
    <2> QED BY <2>3, <2>4
  <1> QED BY <1>1, <1>2

\* The property of the run: a commit leaves the other cards as they were.
THEOREM OthersStayInOrder == Adapter = "sqlite" /\ Spec => OnlyTheMovedCardMoves
  BY LaneIsKept, CommitLeavesOthers, PTL DEF Spec, OnlyTheMovedCardMoves

-----------------------------------------------------------------------------
(* The invariant on either adapter: transactions that interleave, with the  *)
(* unique index and the waits of the database between them.                 *)

Good == {r \in Rows : r.here => r.key \in Keys}

GoodTypes ==
    /\ rows \in [Cards -> Good]
    /\ pc \in [Calls -> {"idle", "again", "aiming", "writing"}]
    /\ request \in [Calls -> Requests \cup {RebalanceRequest, None}]
    /\ image \in [Calls -> [Cards -> Good]]
    /\ plan \in [Calls -> Seq([card : Cards, row : Good])]
    /\ staged \in [Calls -> [Cards -> Good \cup {None}]]
    /\ retried \in SUBSET Movers

\* No transaction sees a key twice.
SeenApart(m) ==
    \A c, d \in Cards :
        c # d /\ Seen(m, c).here /\ Seen(m, d).here => Seen(m, c).key # Seen(m, d).key

\* Two transactions write different rows, and neither writes a key the other
\* writes or frees.
WritesApart(m, n) ==
    \A c, d \in Cards :
        staged[m][c] # None /\ staged[n][d] # None =>
           /\ c # d
           /\ staged[m][c].here /\ staged[n][d].here => staged[m][c].key # staged[n][d].key
           /\ staged[m][c].here /\ rows[d].here => staged[m][c].key # rows[d].key

\* A move before a neighbour: what it found there, and what it writes.
Drops(m) == request[m] # None /\ request[m].kind = "move" /\ request[m].next # None
Lands(m) ==
    LET q == request[m]
    IN /\ q.next \in Cards /\ q.next # q.card /\ image[m][q.next].here
       /\ pc[m] = "aiming" => staged[m] = Nothing /\ plan[m] = << >>
       /\ pc[m] = "writing" =>
             /\ \A d \in Cards \ {q.card} : staged[m][d] = None
             /\ \E k \in Keys :
                   /\ k < image[m][q.next].key
                   /\ \/ plan[m] = <<[card |-> q.card, row |-> Placed(k)]>>
                      \/ plan[m] = << >> /\ staged[m][q.card] = Placed(k)

Asks(m) == IF m \in Movers THEN Requests ELSE {RebalanceRequest}

CallInv(m) ==
    /\ pc[m] # "idle" => request[m] \in Asks(m)
    /\ ~IsOpen(m) => staged[m] = Nothing /\ plan[m] = << >>
    /\ \A c, d \in Cards : c # d /\ image[m][c].here /\ image[m][d].here
          => image[m][c].key # image[m][d].key
    /\ SeenApart(m)
    /\ IsOpen(m) /\ Drops(m) => Lands(m)

OpenIInv ==
    /\ GoodTypes
    /\ \A c, d \in Cards : rows[c].here /\ rows[d].here /\ c # d => rows[c].key # rows[d].key
    /\ \A m \in Calls : CallInv(m)
    /\ \A m, n \in Calls : m # n => WritesApart(m, n)

\* The rows a call writes are good.
LEMMA GoodRows ==
    /\ Away \in Good /\ ~Away.here
    /\ Blank \in [Cards -> Good] /\ Nothing \in [Cards -> Good \cup {None}]
    /\ \A k \in Keys : Placed(k) \in Good
    /\ Good \subseteq Rows /\ None \notin Good
    /\ \A r \in Good, k \in Keys : [r EXCEPT !.key = k] \in Good
    /\ \A r \in Good : [r EXCEPT !.archived = TRUE] \in Good
    /\ << >> \in Seq([card : Cards, row : Good])
  <1>1. Away \in Good /\ ~Away.here
    BY DEF Good, Rows, Away
  <1>2. Blank \in [Cards -> Good] /\ Nothing \in [Cards -> Good \cup {None}]
    BY <1>1 DEF Blank, Nothing
  <1>3. \A k \in Keys : Placed(k) \in Good
    BY DEF Good, Rows, Placed
  <1>4. Good \subseteq Rows /\ None \notin Good
    BY NoneAssumption DEF Good
  <1>5. ASSUME NEW r \in Good, NEW k \in Keys PROVE [r EXCEPT !.key = k] \in Good
    BY DEF Good, Rows
  <1>6. ASSUME NEW r \in Good PROVE [r EXCEPT !.archived = TRUE] \in Good
    BY DEF Good, Rows
  <1>7. << >> \in Seq([card : Cards, row : Good])
    OBVIOUS
  <1> QED
    BY <1>1, <1>2, <1>3, <1>4, <1>5, <1>6, <1>7

\* Good types are types.
LEMMA GoodTypesType == GoodTypes => /\ TypeOK
                                    /\ \A c \in Cards : rows[c].here => rows[c].key \in Keys
  <1> SUFFICES ASSUME GoodTypes PROVE TypeOK /\ \A c \in Cards : rows[c].here => rows[c].key \in Keys
    OBVIOUS
  <1>1. Good \subseteq Rows
    BY GoodRows
  <1>2. Seq([card : Cards, row : Good]) \subseteq Seq(Updates)
    <2> DEFINE G == [card : Cards, row : Good]
    <2>1. G \subseteq Updates
      BY <1>1 DEF Updates
    <2> HIDE DEF G
    <2>2. ASSUME NEW s \in Seq(G) PROVE s \in Seq(Updates)
      BY <2>1
    <2> QED BY <2>2 DEF G
  <1>3. /\ rows \in [Cards -> Rows] /\ image \in [Calls -> [Cards -> Rows]]
        /\ staged \in [Calls -> [Cards -> Rows \cup {None}]]
        /\ plan \in [Calls -> Seq(Updates)]
    BY <1>1, <1>2 DEF GoodTypes
  <1> QED
    BY <1>3 DEF GoodTypes, TypeOK, Good

\* An empty column keeps the invariant of either adapter.
THEOREM InitOpen == Init => OpenIInv
  <1> SUFFICES ASSUME Init PROVE OpenIInv
    OBVIOUS
  <1>1. GoodTypes
    BY GoodRows DEF Init, GoodTypes
  <1>2. /\ \A m \in Calls : /\ pc[m] = "idle" /\ staged[m] = Nothing /\ plan[m] = << >>
                            /\ \A c \in Cards : ~image[m][c].here /\ staged[m][c] = None
        /\ \A c \in Cards : ~rows[c].here
    BY DEF Init, Blank, Away, Nothing
  <1>3. \A m \in Calls : SeenApart(m)
    BY <1>2 DEF SeenApart, Seen
  <1> QED
    BY <1>1, <1>2, <1>3 DEF OpenIInv, CallInv, IsOpen, WritesApart

\* A call that neither writes nor ends leaves what transactions see alone.
LEMMA QuietKeeps ==
    ASSUME OpenIInv, UNCHANGED <<rows, staged>>
    PROVE  /\ (\A c, d \in Cards : rows[c].here /\ rows[d].here /\ c # d => rows[c].key # rows[d].key)'
           /\ (\A m, n \in Calls : m # n => WritesApart(m, n))'
           /\ \A m \in Calls : SeenApart(m)'
  BY DEF OpenIInv, CallInv, WritesApart, SeenApart, Seen

\* A call that begins reads a column in which no key is twice.
LEMMA BeginKeepsOpen ==
    ASSUME OpenIInv, NEW m \in Calls, NEW q \in Asks(m), pc[m] \in {"idle", "again"}, Begin(m, q)
    PROVE  OpenIInv'
  <1>0. q \in Requests \cup {RebalanceRequest}
    BY DEF Asks
  <1> DEFINE pic == [c \in Cards |-> IF c \in Reads(q) THEN rows[c] ELSE Away]
  <1>1. /\ pc' = [pc EXCEPT ![m] = "aiming"]
        /\ request' = [request EXCEPT ![m] = q]
        /\ image' = [image EXCEPT ![m] = pic]
        /\ UNCHANGED <<rows, plan, staged, retried>> /\ Acceptable(q)
    BY DEF Begin
  <1>2. /\ pic \in [Cards -> Good]
        /\ \A c \in Cards : pic[c].here => pic[c] = rows[c]
    BY GoodRows DEF OpenIInv, GoodTypes
  <1> HIDE DEF pic
  <1>3. GoodTypes'
    BY <1>0, <1>1, <1>2 DEF OpenIInv, GoodTypes
  <1>4. /\ pc'[m] = "aiming" /\ request'[m] = q /\ image'[m] = pic
        /\ \A n \in Calls : n # m => pc'[n] = pc[n] /\ request'[n] = request[n] /\ image'[n] = image[n]
        /\ staged[m] = Nothing /\ plan[m] = << >>
    BY <1>1 DEF OpenIInv, GoodTypes, CallInv, IsOpen
  <1>5. ASSUME NEW n \in Calls, n # m PROVE CallInv(n)'
    <2>1. CallInv(n)
      BY DEF OpenIInv
    <2> QED
      BY <1>1, <1>4, <1>5, <2>1, QuietKeeps DEF CallInv, IsOpen, Drops, Lands
  <1>6. CallInv(m)'
    <2>1. IsOpen(m)' /\ pc'[m] # "idle" /\ pc'[m] # "writing"
      BY <1>4 DEF IsOpen
    <2>2. \A c, d \in Cards : c # d /\ pic[c].here /\ pic[d].here => pic[c].key # pic[d].key
      BY <1>2 DEF OpenIInv
    <2>3. ASSUME Drops(m)' PROVE Lands(m)'
      <3>1. q.kind = "move" /\ q.next # None
        BY <1>4, <2>3 DEF Drops
      <3>2. q \in Requests
        BY <1>0, <3>1 DEF RebalanceRequest
      <3>3. q.next \in Cards
        BY <3>1, <3>2 DEF Requests
      <3>4. q.next # q.card /\ rows[q.next].here
        BY <1>1, <3>1 DEF Acceptable, Neighbour, Active
      <3>5. pic[q.next] = rows[q.next]
        BY <3>1, <3>3 DEF pic, Reads
      <3> QED BY <1>1, <1>4, <2>1, <3>3, <3>4, <3>5 DEF Lands
    <2> QED BY <1>4, <2>1, <2>2, <2>3, QuietKeeps, <1>1 DEF CallInv
  <1> QED
    BY <1>1, <1>3, <1>5, <1>6, QuietKeeps DEF OpenIInv

\* The keys the rebalance lays are keys, whatever rows it listed.
LEMMA RebalanceGood ==
    ASSUME OpenIInv, NEW m \in Calls, AimRebalance(m), NEW u, u = plan'[m]
    PROVE  u \in Seq([card : Cards, row : Good])
  <1> DEFINE seen == {c \in Cards : image[m][c].here /\ ~image[m][c].archived}
             key == [c \in Cards |-> image[m][c].key]
             list == Listed(m)
             n == Cardinality(seen)
             a == Greatest(KeysIn(Cards))
             keys == Fresh(a, n)
  <1>1. /\ GoodTypes /\ TypeOK
        /\ \A c \in Cards : rows[c].here => rows[c].key \in Keys
        /\ \A c, d \in Cards : c # d /\ image[m][c].here /\ image[m][d].here
              => image[m][c].key # image[m][d].key
    BY GoodTypesType DEF OpenIInv, CallInv
  <1>2. IsFiniteSet(seen) /\ n \in Nat /\ n <= Cardinality(Cards) /\ seen \subseteq Cards
        /\ Cardinality(Cards) \in Nat
    BY ParametersAssumption, FS_Subset, FS_CardinalityType
  <1>3. \A c \in seen : key[c] \in Int
    <2> TAKE c \in seen
    <2>1. image[m][c] \in Good /\ image[m][c].here /\ key[c] = image[m][c].key
      BY <1>1 DEF GoodTypes
    <2> HIDE DEF key, seen
    <2> QED BY <2>1, ParametersAssumption DEF Good
  <1>4. \A c, d \in seen : c # d => key[c] # key[d]
    BY <1>1
  <1>5. Ordered(key, seen) # {}
    <2> HIDE DEF key, seen
    <2> QED BY <1>2, <1>3, <1>4, ListingExists
  <1>6. list \in [1 .. n -> seen]
    <2>1. list = CHOOSE s \in [1 .. n -> seen] :
                    \A i, j \in DOMAIN s : i < j => image[m][s[i]].key < image[m][s[j]].key
      BY DEF Listed
    <2>2. \A s \in [1 .. n -> seen] : \A i \in DOMAIN s : key[s[i]] = image[m][s[i]].key
      BY <1>2
    <2>3. \E s \in [1 .. n -> seen] :
             \A i, j \in DOMAIN s : i < j => image[m][s[i]].key < image[m][s[j]].key
      BY <1>5, <2>2 DEF Ordered
    <2> HIDE DEF list, key, seen, n
    <2> QED BY <2>1, <2>3
  <1>7. Len(list) = n /\ DOMAIN list = 1 .. n
    <2> HIDE DEF list, seen, n
    <2> QED BY <1>2, <1>6
  <1>8. /\ KeysIn(Cards) # {}
        /\ u = [i \in 1 .. n |-> [card |-> list[i], row |-> [image[m][list[i]] EXCEPT !.key = keys[i]]]]
    BY <1>1, <1>7 DEF AimRebalance, FreshKeys, TypeOK
  <1>9. Len(keys) = n
    BY <1>7 DEF AimRebalance, FreshKeys
  <1>10. a \in Keys
    <2>1. a \in KeysIn(Cards)
      BY <1>1, <1>8, KeysFinite, GreatestIs, ParametersAssumption
    <2> HIDE DEF a
    <2> QED BY <1>1, <2>1, KeysFinite
  <1> HIDE DEF a, list
  <1>11. ASSUME NEW i \in 1 .. n
         PROVE  u[i] \in [card : Cards, row : Good]
    <2>1. n \in 1 .. Cardinality(Cards)
      <3> HIDE DEF n
      <3> QED BY <1>2, <1>11
    <2>2. keys # << >>
      BY <1>9, <2>1
    <2> HIDE DEF n
    <2>3. keys \in [1 .. n -> Keys]
      BY <1>10, <2>1, <2>2, FreshAssumption DEF keys
    <2> HIDE DEF keys
    <2>4. keys[i] \in Keys /\ list[i] \in Cards /\ image[m][list[i]] \in Good
      BY <1>1, <1>2, <1>6, <1>11, <2>3 DEF GoodTypes
    <2>5. u[i] = [card |-> list[i], row |-> [image[m][list[i]] EXCEPT !.key = keys[i]]]
      BY <1>8
    <2> QED BY <2>4, <2>5, GoodRows
  <1>12. u \in [1 .. n -> [card : Cards, row : Good]]
    <2>1. u = [i \in 1 .. n |-> u[i]]
      BY <1>8
    <2> HIDE DEF n
    <2> QED BY <1>11, <2>1
  <1> DEFINE G == [card : Cards, row : Good]
  <1> HIDE DEF n, G
  <1>13. u \in [1 .. n -> G]
    BY <1>12 DEF G
  <1>14. u \in Seq(G)
    BY <1>2, <1>13
  <1> QED
    BY <1>14 DEF G

\* A list of one update.
LEMMA OneUpdate ==
    ASSUME NEW c \in Cards, NEW r \in Good
    PROVE  <<[card |-> c, row |-> r]>> \in Seq([card : Cards, row : Good])
  <1> DEFINE G == [card : Cards, row : Good]
             g == [card |-> c, row |-> r]
  <1>1. g \in G
    OBVIOUS
  <1> HIDE DEF G, g
  <1>2. <<g>> \in Seq(G)
    BY <1>1
  <1> QED BY <1>2 DEF G, g

\* What a call is going to write are rows with keys.
LEMMA AimGood ==
    ASSUME OpenIInv, NEW m \in Calls, Aim(m), NEW u, u = plan'[m]
    PROVE  /\ u \in Seq([card : Cards, row : Good])
           /\ plan' = [plan EXCEPT ![m] = u]
  <1>1. /\ pc[m] = "aiming" /\ GoodTypes /\ TypeOK
        /\ AimPlace(m) \/ AimLeave(m) \/ AimArchive(m) \/ AimRebalance(m)
        /\ request[m] \in Requests \cup {RebalanceRequest}
    BY GoodTypesType DEF OpenIInv, CallInv, Aim, Asks
  <1>2. plan' = [plan EXCEPT ![m] = u]
    <2>1. \E e : plan' = [plan EXCEPT ![m] = e]
      BY <1>1 DEF AimPlace, AimLeave, AimArchive, AimRebalance
    <2>2. PICK e : plan' = [plan EXCEPT ![m] = e]
      BY <2>1
    <2>3. e = u
      BY <1>1, <2>2 DEF TypeOK
    <2> QED BY <2>2, <2>3
  <1>3. CASE AimRebalance(m)
    BY <1>2, <1>3, RebalanceGood
  <1>4. CASE AimPlace(m)
    <2>1. request[m].card \in Cards
      BY <1>1, <1>4, KindIs DEF AimPlace, Retriable
    <2>2. u = <<[card |-> request[m].card, row |-> Placed(KeyFor(m))]>> /\ KeyFor(m) \in Keys
      BY <1>1, <1>4 DEF AimPlace, TypeOK
    <2>3. Placed(KeyFor(m)) \in Good
      BY <2>2, GoodRows
    <2> QED BY <1>2, <2>1, <2>2, <2>3, OneUpdate
  <1>5. CASE AimLeave(m)
    <2>1. request[m].card \in Cards
      BY <1>1, <1>5, KindIs DEF AimLeave
    <2>2. u = <<[card |-> request[m].card, row |-> Away]>>
      BY <1>1, <1>5 DEF AimLeave, TypeOK
    <2> QED BY <1>2, <2>1, <2>2, GoodRows, OneUpdate
  <1>6. CASE AimArchive(m)
    <2>1. request[m].card \in Cards
      BY <1>1, <1>6, KindIs DEF AimArchive
    <2>2. PICK c \in Cards : u = <<[card |-> c, row |-> [image[m][c] EXCEPT !.archived = TRUE]]>>
      BY <1>1, <1>6, <2>1 DEF AimArchive, TypeOK
    <2>3. [image[m][c] EXCEPT !.archived = TRUE] \in Good
      BY <1>1, GoodRows DEF GoodTypes
    <2> QED BY <1>2, <2>2, <2>3, OneUpdate
  <1> QED BY <1>1, <1>3, <1>4, <1>5, <1>6

\* A move aims below the key of its neighbour.
LEMMA AimKeepsOpen ==
    ASSUME OpenIInv, NEW m \in Calls, Aim(m)
    PROVE  OpenIInv'
  <1>0. PICK u : u = plan'[m]
    OBVIOUS
  <1>1. /\ pc[m] = "aiming" /\ pc' = [pc EXCEPT ![m] = "writing"]
        /\ UNCHANGED <<rows, request, image, staged, retried>>
    BY DEF Aim
  <1>2. /\ u \in Seq([card : Cards, row : Good])
        /\ plan' = [plan EXCEPT ![m] = u]
    BY <1>0, AimGood
  <1>3. GoodTypes'
    BY <1>1, <1>2 DEF OpenIInv, GoodTypes
  <1>4. /\ pc'[m] = "writing" /\ plan'[m] = u
        /\ \A n \in Calls : n # m => pc'[n] = pc[n] /\ plan'[n] = plan[n]
    BY <1>1, <1>2 DEF OpenIInv, GoodTypes
  <1>5. ASSUME NEW n \in Calls, n # m PROVE CallInv(n)'
    <2>1. CallInv(n)
      BY DEF OpenIInv
    <2> QED
      BY <1>1, <1>4, <1>5, <2>1, QuietKeeps DEF CallInv, IsOpen, Drops, Lands
  <1>6. CallInv(m) /\ IsOpen(m) /\ IsOpen(m)'
    BY <1>1, <1>4 DEF OpenIInv, IsOpen
  <1>7. ASSUME Drops(m)' PROVE Lands(m)'
    <2> DEFINE q == request[m]
               b == image[m][q.next].key
               k == KeyFor(m)
    <2>1. q.kind = "move" /\ q.next # None /\ Lands(m)
      BY <1>1, <1>6, <1>7 DEF CallInv, Drops
    <2>2. /\ q.next \in Cards /\ q.next # q.card /\ image[m][q.next].here /\ staged[m] = Nothing
      BY <1>1, <2>1 DEF Lands
    <2>3. AimPlace(m)
      BY <2>1 DEF Aim, AimPlace, AimLeave, AimArchive, AimRebalance
    <2>4. k \in Keys /\ u = <<[card |-> q.card, row |-> Placed(k)]>>
      BY <1>0, <2>3 DEF AimPlace, OpenIInv, GoodTypes
    <2>5. b \in Keys /\ b # None /\ b \in Int
      <3>1. image[m][q.next] \in Good
        BY <2>2 DEF OpenIInv, GoodTypes
      <3>2. b \in Keys
        BY <2>2, <3>1 DEF Good
      <3> QED BY <3>2, ParametersAssumption
    <2>6. k = Between(PositionBefore(b, q.card), b)
      BY <2>1 DEF KeyFor, Bound
    <2>7. PositionBefore(b, q.card) \in Keys \cup {None}
      BY <2>5, PositionBeforeIs, GoodTypesType DEF OpenIInv
    <2>8. k # None
      BY <2>4, ParametersAssumption
    <2>9. k < b
      <3> HIDE DEF k, b
      <3> QED BY <2>5, <2>6, <2>7, <2>8, BetweenAssumption
    <2>10. \A d \in Cards : staged'[m][d] = None
      BY <1>1, <2>2 DEF Nothing
    <2> HIDE DEF k
    <2>11. request'[m] = q /\ image'[m][q.next].key = b /\ image'[m][q.next].here
      BY <1>1, <2>2
    <2> QED BY <1>4, <2>2, <2>4, <2>9, <2>10, <2>11 DEF Lands
  <1>8. CallInv(m)'
    BY <1>1, <1>4, <1>6, <1>7, QuietKeeps DEF CallInv
  <1> QED
    BY <1>1, <1>3, <1>5, <1>8, QuietKeeps DEF OpenIInv

\* An update that neither waits nor collides keeps transactions apart.
LEMMA WriteKeepsOpen ==
    ASSUME OpenIInv, NEW m \in Calls, Write(m)
    PROVE  OpenIInv'
  <1>0. PICK v : v = Head(plan[m])
    OBVIOUS
  <1>1. /\ pc[m] = "writing" /\ plan[m] # << >> /\ ~Waits(m) /\ ~Taken(m)
        /\ staged' = [staged EXCEPT ![m][v.card] = v.row]
        /\ plan' = [plan EXCEPT ![m] = Tail(plan[m])]
        /\ UNCHANGED <<rows, pc, request, image, retried>>
    BY <1>0 DEF Write, Ready
  <1>2. GoodTypes /\ CallInv(m)
    BY DEF OpenIInv
  <1>3. /\ v.card \in Cards /\ v.row \in Good
        /\ Tail(plan[m]) \in Seq([card : Cards, row : Good])
    <2>1. plan[m] \in Seq([card : Cards, row : Good])
      BY <1>2 DEF GoodTypes
    <2> DEFINE G == [card : Cards, row : Good]
    <2>2. v \in G /\ Tail(plan[m]) \in Seq(G)
      <3> HIDE DEF G
      <3>1. plan[m] \in Seq(G)
        BY <2>1 DEF G
      <3> QED BY <1>0, <1>1, <3>1
    <2> QED BY <2>2
  <1>4. GoodTypes'
    BY <1>1, <1>2, <1>3 DEF GoodTypes
  <1>5. /\ staged'[m][v.card] = v.row /\ plan'[m] = Tail(plan[m])
        /\ \A d \in Cards \ {v.card} : staged'[m][d] = staged[m][d]
        /\ \A n \in Calls : n # m => staged'[n] = staged[n] /\ plan'[n] = plan[n]
    BY <1>1, <1>2, <1>3 DEF GoodTypes
  <1>6. v.row # None
    BY <1>3, GoodRows
  <1>7. \A n \in Calls \ {m}, d \in Cards : staged[n][d] # None =>
           d # v.card /\ (v.row.here => v.row.key # staged[n][d].key /\ v.row.key # rows[d].key)
    BY <1>0, <1>1 DEF Waits
  <1>8. \A d \in Cards \ {v.card} : v.row.here /\ Seen(m, d).here => Seen(m, d).key # v.row.key
    BY <1>0, <1>1 DEF Taken
  <1>9. /\ Seen(m, v.card)' = v.row
        /\ \A d \in Cards \ {v.card} : Seen(m, d)' = Seen(m, d)
        /\ \A n \in Calls \ {m}, d \in Cards : Seen(n, d)' = Seen(n, d)
    BY <1>1, <1>5, <1>6 DEF Seen
  <1>10. \A n \in Calls : SeenApart(n)'
    <2> TAKE n \in Calls
    <2>1. SeenApart(n)
      BY DEF OpenIInv, CallInv
    <2>2. CASE n # m
      BY <1>9, <2>1, <2>2 DEF SeenApart
    <2>3. CASE n = m
      <3> SUFFICES ASSUME NEW c \in Cards, NEW d \in Cards, c # d, Seen(m, c)'.here, Seen(m, d)'.here
                   PROVE  Seen(m, c)'.key # Seen(m, d)'.key
        BY <2>3 DEF SeenApart
      <3>1. CASE c = v.card
        <4>1. Seen(m, c)' = v.row /\ Seen(m, d)' = Seen(m, d) /\ d \in Cards \ {v.card}
          BY <1>9, <3>1
        <4> QED BY <1>8, <4>1
      <3>2. CASE d = v.card
        <4>1. Seen(m, d)' = v.row /\ Seen(m, c)' = Seen(m, c) /\ c \in Cards \ {v.card}
          BY <1>9, <3>2
        <4> QED BY <1>8, <4>1
      <3>3. CASE c # v.card /\ d # v.card
        <4>1. Seen(m, d)' = Seen(m, d) /\ Seen(m, c)' = Seen(m, c)
          BY <1>9, <3>3
        <4> QED BY <2>1, <2>3, <4>1 DEF SeenApart
      <3> QED BY <3>1, <3>2, <3>3
    <2> QED BY <2>2, <2>3
  <1>11. ASSUME NEW n \in Calls, NEW p \in Calls, n # p PROVE WritesApart(n, p)'
    <2>1. WritesApart(n, p) /\ SeenApart(n)
      BY <1>11 DEF OpenIInv, CallInv
    <2>2. CASE n # m /\ p # m
      BY <1>1, <1>5, <2>1, <2>2 DEF WritesApart
    <2>3. CASE n = m
      <3> SUFFICES ASSUME NEW c \in Cards, NEW d \in Cards, staged'[m][c] # None, staged[p][d] # None
                   PROVE  /\ c # d
                          /\ staged'[m][c].here /\ staged[p][d].here => staged'[m][c].key # staged[p][d].key
                          /\ staged'[m][c].here /\ rows[d].here => staged'[m][c].key # rows[d].key
        BY <1>1, <1>5, <1>11, <2>3 DEF WritesApart
      <3>1. CASE c = v.card
        BY <1>5, <1>7, <1>11, <2>3, <3>1
      <3>2. CASE c # v.card
        BY <1>5, <2>1, <2>3, <3>2 DEF WritesApart
      <3> QED BY <3>1, <3>2
    <2>4. CASE p = m
      <3> SUFFICES ASSUME NEW c \in Cards, NEW d \in Cards, staged[n][c] # None, staged'[m][d] # None
                   PROVE  /\ c # d
                          /\ staged[n][c].here /\ staged'[m][d].here => staged[n][c].key # staged'[m][d].key
                          /\ staged[n][c].here /\ rows[d].here => staged[n][c].key # rows[d].key
        BY <1>1, <1>5, <1>11, <2>4 DEF WritesApart
      <3>1. CASE d = v.card
        <4>1. c # d /\ (v.row.here => v.row.key # staged[n][c].key) /\ staged'[m][d] = v.row
          BY <1>5, <1>7, <1>11, <2>4, <3>1
        <4>2. staged[n][d] = None
          BY <1>7, <1>11, <2>4, <3>1
        <4>3. Seen(n, c) = staged[n][c] /\ Seen(n, d) = rows[d]
          BY <4>2 DEF Seen
        <4> QED BY <2>1, <4>1, <4>3 DEF SeenApart
      <3>2. CASE d # v.card
        BY <1>5, <2>1, <2>4, <3>2 DEF WritesApart
      <3> QED BY <3>1, <3>2
    <2> QED BY <2>2, <2>3, <2>4
  <1>12. ASSUME NEW n \in Calls, n # m PROVE CallInv(n)'
    <2>1. CallInv(n)
      BY DEF OpenIInv
    <2> QED BY <1>1, <1>5, <1>10, <1>12, <2>1 DEF CallInv, IsOpen, Drops, Lands
  <1>13. ASSUME Drops(m)' PROVE Lands(m)'
    <2> DEFINE q == request[m]
    <2>1. Lands(m) /\ q.next \in Cards
      BY <1>1, <1>2, <1>13 DEF CallInv, Drops, IsOpen, Lands
    <2>2. PICK k \in Keys : /\ k < image[m][q.next].key
                            /\ plan[m] = <<[card |-> q.card, row |-> Placed(k)]>>
      BY <1>1, <2>1 DEF Lands
    <2>3. v.card = q.card /\ v.row = Placed(k) /\ Tail(plan[m]) = << >>
      BY <1>0, <2>2
    <2>4. \A d \in Cards \ {q.card} : staged'[m][d] = None
      BY <1>1, <1>5, <2>1, <2>3 DEF Lands
    <2> QED BY <1>1, <1>5, <2>1, <2>2, <2>3, <2>4 DEF Lands
  <1>14. CallInv(m)'
    BY <1>1, <1>2, <1>10, <1>13 DEF CallInv, IsOpen
  <1> QED
    BY <1>1, <1>4, <1>11, <1>12, <1>14 DEF OpenIInv

\* A call gives up its rows: all of them written, or none.
LEMMA ReleaseKeepsOpen ==
    ASSUME OpenIInv, NEW m \in Calls, GoodTypes',
           staged'[m] = Nothing, plan'[m] = << >>, image'[m] = Blank, pc'[m] \in {"idle", "again"},
           pc'[m] = "again" => request'[m] \in Asks(m),
           \A n \in Calls \ {m} : /\ pc'[n] = pc[n] /\ request'[n] = request[n]
                                  /\ image'[n] = image[n] /\ plan'[n] = plan[n]
                                  /\ staged'[n] = staged[n],
           rows' = rows \/ rows' = [c \in Cards |-> Seen(m, c)]
    PROVE  OpenIInv'
  <1>1. \A n \in Calls : SeenApart(n) /\ CallInv(n)
    BY DEF OpenIInv, CallInv
  <1>2. \A n \in Calls \ {m}, c, d \in Cards :
           /\ staged[n][c] # None /\ staged[m][d] # None =>
                 /\ c # d
                 /\ staged[n][c].here /\ staged[m][d].here => staged[n][c].key # staged[m][d].key
    BY DEF OpenIInv, WritesApart
  <1>3. \A d \in Cards : staged'[m][d] = None /\ Seen(m, d)' = rows'[d]
    BY DEF Nothing, Seen
  <1>4. (\A c, d \in Cards : rows[c].here /\ rows[d].here /\ c # d => rows[c].key # rows[d].key)'
    <2>1. CASE rows' = rows
      BY <2>1 DEF OpenIInv
    <2>2. CASE rows' = [c \in Cards |-> Seen(m, c)]
      BY <1>1, <2>2 DEF SeenApart
    <2> QED BY <2>1, <2>2
  <1>5. SeenApart(m)'
    BY <1>3, <1>4 DEF SeenApart
  <1>6. ASSUME NEW n \in Calls \ {m} PROVE SeenApart(n)'
    <2>1. CASE rows' = rows
      BY <1>1, <2>1 DEF SeenApart, Seen
    <2>2. CASE rows' = [c \in Cards |-> Seen(m, c)]
      <3>1. \A d \in Cards : \/ /\ staged[n][d] # None
                                /\ Seen(n, d)' = staged[n][d] /\ Seen(n, d) = staged[n][d]
                             \/ staged[n][d] = None /\ Seen(n, d)' = Seen(m, d)
        BY <2>2 DEF Seen
      <3>2. ASSUME NEW c \in Cards, NEW d \in Cards, c # d, staged[n][c] # None, staged[n][d] = None,
                   staged[n][c].here, Seen(m, d).here
            PROVE  staged[n][c].key # Seen(m, d).key
        <4>1. CASE staged[m][d] # None
          <5>1. Seen(m, d) = staged[m][d]
            BY <4>1 DEF Seen
          <5> QED BY <1>2, <3>2, <4>1, <5>1
        <4>2. CASE staged[m][d] = None
          <5>1. Seen(m, d) = rows[d] /\ Seen(n, d) = rows[d] /\ Seen(n, c) = staged[n][c]
            BY <3>2, <4>2 DEF Seen
          <5> QED BY <1>1, <3>2, <5>1 DEF SeenApart
        <4> QED BY <4>1, <4>2
      <3> SUFFICES ASSUME NEW c \in Cards, NEW d \in Cards, c # d, Seen(n, c)'.here, Seen(n, d)'.here
                   PROVE  Seen(n, c)'.key # Seen(n, d)'.key
        BY DEF SeenApart
      <3>3. CASE staged[n][c] # None /\ staged[n][d] # None
        <4>1. Seen(n, c)' = Seen(n, c) /\ Seen(n, d)' = Seen(n, d)
          BY <3>1, <3>3
        <4> QED BY <1>1, <4>1 DEF SeenApart
      <3>4. CASE staged[n][c] # None /\ staged[n][d] = None
        <4>1. Seen(n, c)' = staged[n][c] /\ Seen(n, d)' = Seen(m, d)
          BY <3>1, <3>4
        <4> QED BY <3>2, <3>4, <4>1
      <3>5. CASE staged[n][c] = None /\ staged[n][d] # None
        <4>1. Seen(n, d)' = staged[n][d] /\ Seen(n, c)' = Seen(m, c)
          BY <3>1, <3>5
        <4>2. staged[n][d].key # Seen(m, c).key
          BY <3>2, <3>5, <4>1
        <4> QED BY <4>1, <4>2
      <3>6. CASE staged[n][c] = None /\ staged[n][d] = None
        <4>1. Seen(n, c)' = Seen(m, c) /\ Seen(n, d)' = Seen(m, d)
          BY <3>1, <3>6
        <4> QED BY <1>1, <4>1 DEF SeenApart
      <3> QED BY <3>3, <3>4, <3>5, <3>6
    <2> QED BY <2>1, <2>2
  <1>7. ASSUME NEW n \in Calls, NEW p \in Calls, n # p PROVE WritesApart(n, p)'
    <2>1. CASE n = m \/ p = m
      BY <1>3, <2>1 DEF WritesApart
    <2>2. CASE n # m /\ p # m
      <3>1. WritesApart(n, p)
        BY <1>7 DEF OpenIInv
      <3>2. \A d \in Cards : staged[p][d] # None => rows'[d] = rows[d]
        <4> SUFFICES ASSUME NEW d \in Cards, staged[p][d] # None PROVE Seen(m, d) = rows[d]
          OBVIOUS
        <4>1. staged[m][d] = None
          BY <1>2, <2>2
        <4> QED BY <4>1 DEF Seen
      <3> QED BY <2>2, <3>1, <3>2 DEF WritesApart
    <2> QED BY <2>1, <2>2
  <1>8. ASSUME NEW n \in Calls \ {m} PROVE CallInv(n)'
    BY <1>1, <1>6 DEF CallInv, IsOpen, Drops, Lands
  <1>9. CallInv(m)'
    BY <1>5 DEF CallInv, IsOpen, Blank, Away
  <1> QED
    BY <1>4, <1>7, <1>8, <1>9 DEF OpenIInv

\* However a call ends, it is over or run again with nothing left of it.
LEMMA CommitKeepsOpen ==
    ASSUME OpenIInv, NEW m \in Calls, Commit(m) \/ Abort(m) \/ RefuseAgain(m) \/ Collide(m)
    PROVE  OpenIInv'
  <1>1. \/ Forget(m)
        \/ /\ pc' = [pc EXCEPT ![m] = "again"]
           /\ image' = [image EXCEPT ![m] = Blank]
           /\ plan' = [plan EXCEPT ![m] = << >>]
           /\ staged' = [staged EXCEPT ![m] = Nothing]
           /\ retried' = retried \cup {m}
           /\ request[m].kind \in Retriable
           /\ UNCHANGED request
           /\ pc[m] = "writing"
    BY DEF Commit, Abort, RefuseAgain, Collide, Ready
  <1>2. rows' = rows \/ rows' = [c \in Cards |-> Seen(m, c)]
    BY DEF Commit, Abort, RefuseAgain, Collide
  <1>3. GoodTypes /\ CallInv(m)
    BY DEF OpenIInv
  <1>4. rows' \in [Cards -> Good]
    <2>1. \A c \in Cards : Seen(m, c) \in Good
      BY <1>3 DEF Seen, GoodTypes
    <2> QED BY <1>2, <1>3, <2>1 DEF GoodTypes
  <1>5. CASE Forget(m)
    <2>1. GoodTypes'
      BY <1>3, <1>4, <1>5, GoodRows DEF GoodTypes, Forget
    <2>2. /\ staged'[m] = Nothing /\ plan'[m] = << >> /\ image'[m] = Blank /\ pc'[m] = "idle"
          /\ \A n \in Calls \ {m} : /\ pc'[n] = pc[n] /\ request'[n] = request[n]
                                    /\ image'[n] = image[n] /\ plan'[n] = plan[n]
                                    /\ staged'[n] = staged[n]
      BY <1>3, <1>5 DEF GoodTypes, Forget
    <2> QED BY <1>2, <2>1, <2>2, ReleaseKeepsOpen
  <1>6. CASE ~Forget(m)
    <2>1. /\ pc' = [pc EXCEPT ![m] = "again"]
          /\ image' = [image EXCEPT ![m] = Blank]
          /\ plan' = [plan EXCEPT ![m] = << >>]
          /\ staged' = [staged EXCEPT ![m] = Nothing]
          /\ retried' = retried \cup {m}
          /\ request[m].kind \in Retriable
          /\ UNCHANGED request
          /\ request[m] \in Asks(m) /\ m \in Movers
      BY <1>1, <1>3, <1>6 DEF CallInv, Asks, Retriable, RebalanceRequest
    <2>2. GoodTypes'
      BY <1>3, <1>4, <2>1, GoodRows DEF GoodTypes
    <2>3. /\ staged'[m] = Nothing /\ plan'[m] = << >> /\ image'[m] = Blank /\ pc'[m] = "again"
          /\ request'[m] = request[m]
          /\ \A n \in Calls \ {m} : /\ pc'[n] = pc[n] /\ request'[n] = request[n]
                                    /\ image'[n] = image[n] /\ plan'[n] = plan[n]
                                    /\ staged'[n] = staged[n]
      BY <1>3, <2>1 DEF GoodTypes
    <2> QED BY <1>2, <2>1, <2>2, <2>3, ReleaseKeepsOpen
  <1> QED BY <1>5, <1>6

\* On either adapter every step keeps the invariant.
THEOREM OpenStep == OpenIInv /\ [Next]_vars => OpenIInv'
  <1> SUFFICES ASSUME OpenIInv, [Next]_vars PROVE OpenIInv'
    OBVIOUS
  <1>1. ASSUME NEW m \in Movers, NEW q \in Requests, Start(m, q) PROVE OpenIInv'
    <2>1. m \in Calls /\ q \in Asks(m)
      BY DEF Calls, Asks
    <2> QED BY <1>1, <2>1, BeginKeepsOpen DEF Start
  <1>2. ASSUME NEW m \in Jobs, Start(m, RebalanceRequest) PROVE OpenIInv'
    <2>1. m \in Calls /\ RebalanceRequest \in Asks(m)
      BY ParametersAssumption DEF Calls, Asks
    <2> QED BY <1>2, <2>1, BeginKeepsOpen DEF Start
  <1>3. ASSUME NEW m \in Calls, Again(m) PROVE OpenIInv'
    <2>1. pc[m] = "again" /\ request[m] \in Asks(m) /\ Begin(m, request[m])
      BY <1>3 DEF Again, OpenIInv, CallInv
    <2> QED BY <2>1, BeginKeepsOpen
  <1>4. ASSUME NEW m \in Calls, Aim(m) PROVE OpenIInv'
    BY <1>4, AimKeepsOpen
  <1>5. ASSUME NEW m \in Calls, Write(m) PROVE OpenIInv'
    BY <1>5, WriteKeepsOpen
  <1>6. ASSUME NEW m \in Calls, Commit(m) \/ Abort(m) \/ RefuseAgain(m) \/ Collide(m) PROVE OpenIInv'
    BY <1>6, CommitKeepsOpen
  <1>7. CASE UNCHANGED vars
    <2>1. UNCHANGED <<rows, pc, request, image, plan, staged, retried>>
      BY <1>7 DEF vars
    <2>2. \A m \in Calls : CallInv(m)'
      BY <2>1, QuietKeeps DEF OpenIInv, CallInv, IsOpen, Drops, Lands, Asks
    <2> QED BY <2>1, <2>2, QuietKeeps DEF OpenIInv, GoodTypes
  <1> QED
    BY <1>1, <1>2, <1>3, <1>4, <1>5, <1>6, <1>7 DEF Next, Step

\* The invariant of either adapter holds throughout.
THEOREM OpenIsKept == Spec => []OpenIInv
  BY InitOpen, OpenStep, PTL DEF Spec

\* A move that commits is before its neighbour, if that one has not moved.
LEMMA CommitLandsBefore == OpenIInv /\ [Next]_vars => LandsBeforeNext
  <1> SUFFICES ASSUME OpenIInv, NEW m \in Movers, Commit(m), request[m].kind = "move",
                      request[m].next # None, NEW q, q = request[m],
                      rows[q.next] = image[m][q.next]
               PROVE  Before(rows', q.card, q.next)
    BY DEF LandsBeforeNext
  <1>1. m \in Calls /\ pc[m] = "writing" /\ plan[m] = << >> /\ rows' = [c \in Cards |-> Seen(m, c)]
    BY DEF Commit, Calls
  <1>2. q \in Requests /\ GoodTypes /\ Lands(m)
    <2>1. CallInv(m) /\ q \in Asks(m) /\ q # None /\ m \in Calls
      BY <1>1, NoneAssumption DEF OpenIInv, CallInv, Asks
    <2> QED BY <1>1, <2>1 DEF OpenIInv, CallInv, Asks, IsOpen, Drops
  <1>3. PICK k \in Keys : k < image[m][q.next].key /\ staged[m][q.card] = Placed(k)
    BY <1>1, <1>2 DEF Lands
  <1>4. q.card \in Cards /\ q.next \in Cards /\ q.next # q.card /\ image[m][q.next].here
        /\ staged[m][q.next] = None
    BY <1>1, <1>2 DEF Lands, Requests
  <1>5. Placed(k) # None
    BY GoodRows
  <1>6. rows'[q.card] = Placed(k) /\ rows'[q.next] = rows[q.next]
    BY <1>1, <1>3, <1>4, <1>5 DEF Seen
  <1> QED
    BY <1>3, <1>4, <1>6 DEF Before, Placed

\* On either adapter a move lands before the neighbour it was dropped before.
THEOREM DroppedCardsLand == Spec => LandsWhereDropped
  <1>1. Adapter = "sqlite" /\ Spec => [][LandsInGap]_vars
    BY LaneIsKept, CommitLands, PTL DEF Spec
  <1>2. Spec => [][LandsBeforeNext]_vars
    BY OpenIsKept, CommitLandsBefore, PTL DEF Spec
  <1>3. CASE Adapter = "sqlite"
    <2>1. Spec => [][LandsInGap]_vars
      BY <1>1, <1>3
    <2>2. LandsInGap /\ LandsBeforeNext => LandsInPlace
      BY DEF LandsInPlace
    <2> QED BY <1>2, <2>1, <2>2, PTL DEF LandsWhereDropped
  <1>4. CASE Adapter # "sqlite"
    <2>1. LandsBeforeNext => LandsInPlace
      BY <1>4 DEF LandsInPlace
    <2> QED BY <1>2, <2>1, PTL DEF LandsWhereDropped
  <1> QED BY <1>3, <1>4

\* The property of the run: no key twice in the column on either adapter, and
\* on SQLite none ever found taken, so that the retry never runs.
THEOREM KeysKeptApart == Spec => []KeysStayApart
  <1>1. LaneIInv => LaneInv /\ BackstopIdle
    BY NeverTaken DEF LaneIInv, BackstopIdle
  <1>2. OpenIInv => KeysApart
    BY DEF OpenIInv, KeysApart
  <1>3. CASE Adapter = "sqlite"
    <2>1. Spec => []LaneIInv
      BY <1>3, LaneIsKept
    <2>2. LaneInv /\ BackstopIdle /\ KeysApart => KeysStayApart
      BY DEF KeysStayApart
    <2> QED BY <1>1, <1>2, <2>1, <2>2, OpenIsKept, PTL
  <1>4. CASE Adapter # "sqlite"
    <2>1. KeysApart => KeysStayApart
      BY <1>4 DEF KeysStayApart
    <2> QED BY <1>2, <2>1, OpenIsKept, PTL
  <1> QED BY <1>3, <1>4

-----------------------------------------------------------------------------
(* The pages of ActivityFeed: a reader goes on from the last row it got,    *)
(* and time and id order every two events, so that what is written or       *)
(* discarded between two pages can neither repeat nor hide a row.           *)

EventRows == [id : Nat, at : Nat, card : Cards, actor : {Reader} \cup Others \cup Tokens]
Walks ==
    [list : {"board", "own", "history"}, card : Cards, since : {None} \cup Nat,
     cursor : {None} \cup EventRows, got : Seq(EventRows), open : BOOLEAN]

FeedConstants ==
    /\ Limit \in Nat \ {0} /\ Window \in Nat /\ Late \in BOOLEAN
    /\ None \notin Nat \cup EventRows \cup Walks

ReadSoFar == IF walk = None THEN {} ELSE A!Got

FeedTypes ==
    /\ now \in Nat /\ made \in Nat
    /\ log \subseteq EventRows /\ IsFiniteSet(log)
    /\ pending \subseteq EventRows /\ start \subseteq EventRows
    /\ walk \in Walks \cup {None}
    /\ ~Late => pending = {}

\* Ids tell events apart, those that are gone included.
Stamped ==
    /\ \A e \in log \cup pending \cup start \cup ReadSoFar : e.id < made /\ e.at <= now
    /\ \A e, f \in log \cup pending \cup start \cup ReadSoFar : e.id = f.id => e = f
    /\ pending \cap (log \cup start) = {}

\* The cursor is the last row the reader got.
CursorIsLast ==
    walk # None =>
        /\ walk.open /\ walk.cursor = None => walk.got = << >>
        /\ walk.cursor # None =>
              /\ walk.cursor \in A!Got
              /\ \A f \in A!Got : f = walk.cursor \/ A!Precedes(walk, f, walk.cursor)

\* What has been passed has been read: of what there was from the beginning;
\* and of a card's history everything.
PassedIsRead ==
    walk # None =>
        \A e \in start \cap log :
            A!Matches(walk, e) /\ (walk.open => ~A!AfterCursor(walk, e)) => e \in A!Got
HistoryIsRead ==
    ~Late /\ walk # None /\ walk.list = "history" =>
        \A e \in log, f \in A!Got : A!Matches(walk, e) /\ ~A!Older(f, e) => e \in A!Got

FeedIInv ==
    /\ FeedTypes /\ Stamped /\ CursorIsLast /\ A!PagesInOrder
    /\ PassedIsRead /\ HistoryIsRead

\* Time and id order the events, newest first or oldest first.
LEMMA TimeOrders ==
    /\ \A e, f \in EventRows : e.id # f.id => A!Older(e, f) \/ A!Older(f, e)
    /\ \A e, f, g \in EventRows : A!Older(e, f) /\ A!Older(f, g) => A!Older(e, g)
    /\ \A e, f \in EventRows : A!Older(e, f) => ~A!Older(f, e)
  BY DEF EventRows, A!Older

LEMMA ListOrders ==
    ASSUME NEW w
    PROVE  /\ \A e, f \in EventRows : e.id # f.id => A!Precedes(w, e, f) \/ A!Precedes(w, f, e)
           /\ \A e, f, g \in EventRows : A!Precedes(w, e, f) /\ A!Precedes(w, f, g) => A!Precedes(w, e, g)
           /\ \A e, f \in EventRows : A!Precedes(w, e, f) => ~A!Precedes(w, f, e)
  BY TimeOrders DEF A!Precedes

LEMMA ReadIs ==
    ASSUME FeedTypes, walk # None
    PROVE  /\ walk \in Walks /\ walk.got \in Seq(EventRows)
           /\ A!Got = {walk.got[i] : i \in 1 .. Len(walk.got)} /\ ReadSoFar = A!Got
           /\ A!Got \subseteq EventRows
           /\ walk.cursor # None => walk.cursor \in EventRows
  <1>1. walk \in Walks
    BY DEF FeedTypes
  <1>2. walk.got \in Seq(EventRows) /\ (walk.cursor # None => walk.cursor \in EventRows)
    BY <1>1 DEF Walks
  <1>3. A!Got = {walk.got[i] : i \in 1 .. Len(walk.got)}
    BY <1>2 DEF A!Got, A!ToSet
  <1> QED
    BY <1>1, <1>2, <1>3 DEF ReadSoFar

LEMMA InitFeed == A!Init => FeedIInv
  <1> SUFFICES ASSUME A!Init PROVE FeedIInv
    OBVIOUS
  <1>1. now = 0 /\ log = {} /\ pending = {} /\ made = 0 /\ walk = None /\ start = {}
    BY DEF A!Init
  <1>2. FeedTypes
    BY <1>1, FS_EmptySet DEF FeedTypes
  <1>3. Stamped /\ CursorIsLast /\ A!PagesInOrder /\ PassedIsRead /\ HistoryIsRead
    BY <1>1 DEF Stamped, CursorIsLast, A!PagesInOrder, PassedIsRead, HistoryIsRead, ReadSoFar
  <1> QED
    BY <1>2, <1>3 DEF FeedIInv

\* What goes on between two pages takes nothing from the reader: no event
\* comes late into what there was, and on SQLite none before what was read.
LEMMA OthersKeepFeed ==
    ASSUME FeedConstants, FeedIInv, walk' = walk, start' = start,
           FeedTypes', Stamped', now <= now', start \cap log' \subseteq log,
           ~Late => \A e \in log' \ log : \A f \in ReadSoFar : A!Older(f, e)
    PROVE  FeedIInv'
  <1>1. A!Got' = A!Got /\ ReadSoFar' = ReadSoFar
    BY DEF A!Got, ReadSoFar
  <1>2. CursorIsLast' /\ A!PagesInOrder'
    BY <1>1 DEF FeedIInv, CursorIsLast, A!PagesInOrder, A!Precedes, A!Older
  <1>3. PassedIsRead'
    <2> SUFFICES ASSUME walk # None, NEW e \in start \cap log', A!Matches(walk, e)',
                        walk.open => ~A!AfterCursor(walk, e)
                 PROVE  e \in A!Got
      BY <1>1 DEF PassedIsRead, A!AfterCursor, A!Precedes, A!Older
    <2>1. e \in start \cap log /\ e.at \in Nat
      BY DEF FeedIInv, FeedTypes, EventRows
    <2>2. A!DefaultSince <= A!DefaultSince' /\ A!DefaultSince \in Nat /\ A!DefaultSince' \in Nat
      <3>1. now \in Nat /\ now' \in Nat /\ Window \in Nat
        BY DEF FeedConstants, FeedIInv, FeedTypes
      <3>2. PICK a, b, w : a = now /\ b = now' /\ w = Window
        OBVIOUS
      <3>3. A!DefaultSince = (IF a < w THEN 0 ELSE a - w)
        BY <3>2 DEF A!DefaultSince
      <3>4. A!DefaultSince' = (IF b < w THEN 0 ELSE b - w)
        BY <3>2 DEF A!DefaultSince
      <3>5. a \in Nat /\ b \in Nat /\ w \in Nat /\ a <= b
        BY <3>1, <3>2
      <3>6. LET x == IF a < w THEN 0 ELSE a - w
                y == IF b < w THEN 0 ELSE b - w
            IN  x \in Nat /\ y \in Nat /\ x <= y
        BY <3>5
      <3> QED BY <3>3, <3>4, <3>6
    <2>3. A!Matches(walk, e)
      BY <2>1, <2>2 DEF A!Matches, A!SelfActorIds
    <2> QED BY <2>1, <2>3 DEF FeedIInv, PassedIsRead
  <1>4. HistoryIsRead'
    <2> SUFFICES ASSUME ~Late, walk # None, walk.list = "history",
                        NEW e \in log', NEW f \in A!Got, A!Matches(walk, e), ~A!Older(f, e)
                 PROVE  e \in A!Got
      BY <1>1 DEF HistoryIsRead, A!Matches, A!Older
    <2>1. e \in log
      BY DEF ReadSoFar
    <2> QED BY <2>1 DEF FeedIInv, HistoryIsRead
  <1> QED
    BY <1>2, <1>3, <1>4 DEF FeedIInv

LEMMA StampKeepsFeed ==
    ASSUME FeedConstants, FeedIInv, A!Stamp
    PROVE  FeedIInv'
  <1>1. PICK e \in EventRows :
            /\ e.id = made /\ e.at = now
            /\ IF Late THEN pending' = pending \cup {e} /\ log' = log
               ELSE log' = log \cup {e} /\ pending' = pending
    <2>1. PICK c \in Cards, a \in {Reader} \cup Others \cup Tokens :
              LET f == [id |-> made, at |-> now, card |-> c, actor |-> a]
              IN  IF Late THEN pending' = pending \cup {f} /\ log' = log
                  ELSE log' = log \cup {f} /\ pending' = pending
      BY DEF A!Stamp
    <2>2. [id |-> made, at |-> now, card |-> c, actor |-> a] \in EventRows
      BY DEF EventRows, FeedIInv, FeedTypes
    <2> QED BY <2>1, <2>2
  <1>2. made' = made + 1 /\ now' = now /\ walk' = walk /\ start' = start
    BY DEF A!Stamp
  <1>3. e \in EventRows /\ e.id = made /\ e.at = now
    BY <1>1
  <1>4. IsFiniteSet(log')
    <2>1. IsFiniteSet(log) /\ IsFiniteSet(log \cup {e})
      BY FS_AddElement DEF FeedIInv, FeedTypes
    <2>2. log' = log \/ log' = log \cup {e}
      BY <1>1
    <2> QED BY <2>1, <2>2
  <1>5. FeedTypes'
    BY <1>1, <1>2, <1>3, <1>4 DEF FeedIInv, FeedTypes
  <1>6. ReadSoFar' = ReadSoFar /\ ReadSoFar \subseteq EventRows
    BY <1>2, ReadIs DEF ReadSoFar, A!Got, FeedIInv
  <1>7. \A f \in log \cup pending \cup start \cup ReadSoFar :
            f.id < made /\ f.at <= now /\ f.id \in Nat /\ f.at \in Nat /\ f # e
    <2> SUFFICES ASSUME NEW f \in log \cup pending \cup start \cup ReadSoFar
                 PROVE  f.id < made /\ f.at <= now /\ f.id \in Nat /\ f.at \in Nat /\ f # e
      OBVIOUS
    <2>1. f.id < made /\ f.at <= now
      BY DEF FeedIInv, Stamped
    <2>2. f \in EventRows
      BY <1>6 DEF FeedIInv, FeedTypes
    <2>3. f.id \in Nat /\ f.at \in Nat
      BY <2>2 DEF EventRows
    <2> QED BY <1>3, <2>1, <2>3
  <1>8. made \in Nat /\ now \in Nat
    BY DEF FeedIInv, FeedTypes
  <1>9. Stamped'
    <2>1. (log \cup pending \cup start \cup ReadSoFar)' = (log \cup pending \cup start \cup ReadSoFar) \cup {e}
      BY <1>1, <1>2, <1>6
    <2>2. \A f \in (log \cup pending \cup start \cup ReadSoFar)' : f.id < made' /\ f.at <= now'
      BY <1>2, <1>3, <1>7, <1>8, <2>1
    <2>3. \A f, g \in (log \cup pending \cup start \cup ReadSoFar)' : f.id = g.id => f = g
      <3>1. \A f, g \in log \cup pending \cup start \cup ReadSoFar : f.id = g.id => f = g
        BY DEF FeedIInv, Stamped
      <3>2. \A f \in log \cup pending \cup start \cup ReadSoFar : f.id # e.id
        BY <1>3, <1>7, <1>8
      <3> QED BY <2>1, <3>1, <3>2
    <2>4. (pending \cap (log \cup start))' = {}
      BY <1>1, <1>2, <1>7 DEF FeedIInv, Stamped
    <2> QED BY <2>2, <2>3, <2>4 DEF Stamped
  <1>10. start \cap log' \subseteq log
    BY <1>1, <1>7
  <1>11. \A f \in ReadSoFar : A!Older(f, e)
    BY <1>3, <1>7, <1>8 DEF A!Older
  <1> QED
    BY <1>1, <1>2, <1>5, <1>8, <1>9, <1>10, <1>11, OthersKeepFeed

LEMMA CommitKeepsFeed ==
    ASSUME FeedConstants, FeedIInv, A!Commit
    PROVE  FeedIInv'
  <1>1. PICK e \in pending : /\ pending' = pending \ {e} /\ log' = log \cup {e}
                             /\ UNCHANGED <<now, made, walk, start>>
    BY DEF A!Commit
  <1>2. IsFiniteSet(log')
    BY <1>1, FS_AddElement DEF FeedIInv, FeedTypes
  <1>3. FeedTypes'
    BY <1>1, <1>2 DEF FeedIInv, FeedTypes
  <1>4. ReadSoFar' = ReadSoFar
    BY <1>1 DEF ReadSoFar, A!Got
  <1>5. Stamped'
    <2>1. (log \cup pending \cup start \cup ReadSoFar)' = log \cup pending \cup start \cup ReadSoFar
      BY <1>1, <1>4
    <2>2. (pending \cap (log \cup start))' = {}
      BY <1>1 DEF FeedIInv, Stamped
    <2> QED BY <1>1, <2>1, <2>2 DEF FeedIInv, Stamped
  <1>6. start \cap log' \subseteq log /\ Late /\ now <= now'
    BY <1>1, <1>3 DEF FeedIInv, FeedTypes, Stamped
  <1> QED
    BY <1>1, <1>3, <1>5, <1>6, OthersKeepFeed

LEMMA LessKeepsFeed ==
    ASSUME FeedConstants, FeedIInv, log' \subseteq log, now' = now \/ now' = now + 1,
           UNCHANGED <<pending, made, walk, start>>
    PROVE  FeedIInv'
  <1>1. IsFiniteSet(log')
    BY FS_Subset DEF FeedIInv, FeedTypes
  <1>2. FeedTypes'
    BY <1>1 DEF FeedIInv, FeedTypes
  <1>3. ReadSoFar' = ReadSoFar /\ ReadSoFar \subseteq EventRows
    BY ReadIs DEF ReadSoFar, A!Got, FeedIInv
  <1>4. Stamped'
    <2>1. (log \cup pending \cup start \cup ReadSoFar)' \subseteq log \cup pending \cup start \cup ReadSoFar
      BY <1>3
    <2>2. \A e \in log \cup pending \cup start \cup ReadSoFar : e.at \in Nat
      BY <1>3 DEF EventRows, FeedIInv, FeedTypes
    <2>3. \A e \in log \cup pending \cup start \cup ReadSoFar : e.id < made /\ e.at <= now'
      <3>1. \A e \in log \cup pending \cup start \cup ReadSoFar : e.id < made /\ e.at <= now
        BY DEF FeedIInv, Stamped
      <3>2. now \in Nat
        BY DEF FeedIInv, FeedTypes
      <3> QED BY <2>2, <3>1, <3>2
    <2>4. \A e, f \in log \cup pending \cup start \cup ReadSoFar : e.id = f.id => e = f
      BY DEF FeedIInv, Stamped
    <2>5. (pending \cap (log \cup start))' = {}
      BY DEF FeedIInv, Stamped
    <2> QED BY <2>1, <2>3, <2>4, <2>5 DEF Stamped
  <1>5. now <= now' /\ log' \ log = {}
    BY DEF FeedIInv, FeedTypes
  <1> QED
    BY <1>2, <1>4, <1>5, OthersKeepFeed

LEMMA BeginKeepsFeed ==
    ASSUME FeedConstants, FeedIInv, A!Begin
    PROVE  FeedIInv'
  <1>1. PICK list \in {"board", "own", "history"}, c \in Cards, since \in {None} \cup 0 .. now :
            walk' = [list |-> list, card |-> c, since |-> since, cursor |-> None,
                     got |-> << >>, open |-> TRUE]
    BY DEF A!Begin
  <1>2. start' = log /\ UNCHANGED <<now, log, pending, made>> /\ walk = None
    BY DEF A!Begin
  <1>3. walk' \in Walks
    BY <1>1 DEF Walks, FeedIInv, FeedTypes
  <1>4. walk' # None /\ walk'.got = << >> /\ walk'.cursor = None /\ walk'.open
    BY <1>1, <1>3 DEF FeedConstants
  <1>5. A!Got' = {}
    BY <1>4 DEF A!Got, A!ToSet
  <1>6. FeedTypes'
    BY <1>2, <1>3 DEF FeedIInv, FeedTypes
  <1>7. Stamped'
    <2>1. (log \cup pending \cup start \cup ReadSoFar)' = log \cup pending
      BY <1>2, <1>4, <1>5 DEF ReadSoFar
    <2> QED BY <1>2, <2>1 DEF FeedIInv, Stamped
  <1>8. CursorIsLast' /\ A!PagesInOrder' /\ PassedIsRead' /\ HistoryIsRead'
    BY <1>4, <1>5 DEF CursorIsLast, A!PagesInOrder, PassedIsRead, HistoryIsRead, A!AfterCursor
  <1> QED
    BY <1>6, <1>7, <1>8 DEF FeedIInv

\* What a page is cut from: everything beyond the cursor, in order.
Rest == {e \in log : A!Matches(walk, e) /\ A!AfterCursor(walk, e)}

LEMMA RowsAre ==
    ASSUME FeedConstants, FeedIInv, walk # None
    PROVE  \E n \in Nat :
              /\ A!Rows(walk) \in [1 .. n -> Rest]
              /\ \A i, j \in 1 .. n : i < j => A!Precedes(walk, A!Rows(walk)[i], A!Rows(walk)[j])
              /\ \A e \in Rest : \E i \in 1 .. n : A!Rows(walk)[i] = e
  <1> DEFINE n == Cardinality(Rest)
             R == {p \in Rest \X Rest : A!Precedes(walk, p[1], p[2])}
  <1>1. Rest \subseteq EventRows /\ Rest \subseteq log
    BY DEF Rest, FeedIInv, FeedTypes
  <1>2. IsFiniteSet(Rest) /\ n \in Nat
    BY <1>1, FS_Subset, FS_CardinalityType DEF FeedIInv, FeedTypes
  <1>3. \A e, f \in Rest : e.id = f.id => e = f
    BY <1>1 DEF FeedIInv, Stamped
  <1>4. \A e, f \in Rest : <<e, f>> \in R <=> A!Precedes(walk, e, f)
    OBVIOUS
  <1>5. R \in Orders(Rest)
    <2>1. R \in SUBSET (Rest \X Rest)
      OBVIOUS
    <2>2. \A e \in Rest : <<e, e>> \notin R
      <3> HIDE DEF R
      <3> QED BY <1>1, <1>4, ListOrders
    <2>3. \A e, f \in Rest : e # f => <<e, f>> \in R \/ <<f, e>> \in R
      <3> HIDE DEF R
      <3> QED BY <1>1, <1>3, <1>4, ListOrders
    <2>4. \A e, f, g \in Rest : <<e, f>> \in R /\ <<f, g>> \in R => <<e, g>> \in R
      <3> HIDE DEF R
      <3>1. \A e, f, g \in Rest : A!Precedes(walk, e, f) /\ A!Precedes(walk, f, g) => A!Precedes(walk, e, g)
        BY <1>1, ListOrders
      <3> QED BY <1>4, <3>1
    <2> HIDE DEF R
    <2> QED BY <2>1, <2>2, <2>3, <2>4 DEF Orders
  <1> HIDE DEF R
  <1>6. Sorted(R, Rest) # {}
    BY <1>2, <1>5, SortedExists
  <1>7. \E s \in [1 .. Cardinality(Rest) -> Rest] :
            \A i, j \in DOMAIN s : i < j => A!Precedes(walk, s[i], s[j])
    <2>1. PICK s \in Sorted(R, Rest) : TRUE
      BY <1>6
    <2>2. s \in [1 .. Cardinality(Rest) -> Rest]
          /\ \A i, j \in DOMAIN s : i < j => <<s[i], s[j]>> \in R
      BY <2>1 DEF Sorted
    <2>3. \A i \in DOMAIN s : s[i] \in Rest
      BY <2>2
    <2> QED BY <1>4, <2>2, <2>3
  <1>8. A!Rows(walk) = CHOOSE s \in [1 .. Cardinality(Rest) -> Rest] :
            \A i, j \in DOMAIN s : i < j => A!Precedes(walk, s[i], s[j])
    <2>1. \A S : A!Cardinality(S) = Cardinality(S)
      BY DEF A!Cardinality, Cardinality
    <2>2. A!Rows(walk) = CHOOSE s \in [1 .. A!Cardinality(Rest) -> Rest] :
              \A i, j \in DOMAIN s : i < j => A!Precedes(walk, s[i], s[j])
      BY Zenon DEF A!Rows, Rest
    <2>3. A!Cardinality(Rest) = Cardinality(Rest)
      BY <2>1
    <2> QED BY <2>2, <2>3, Zenon
  <1>9. /\ A!Rows(walk) \in [1 .. n -> Rest]
        /\ \A i, j \in DOMAIN A!Rows(walk) : i < j => A!Precedes(walk, A!Rows(walk)[i], A!Rows(walk)[j])
    BY <1>7, <1>8
  <1>10. DOMAIN A!Rows(walk) = 1 .. n
    BY <1>9
  <1>11. A!Rows(walk) \in Sorted(R, Rest)
    <2>1. \A i \in 1 .. n : A!Rows(walk)[i] \in Rest
      BY <1>9
    <2> QED BY <1>4, <1>9, <1>10, <2>1 DEF Sorted
  <1>12. \A e \in Rest : \E i \in 1 .. n : A!Rows(walk)[i] = e
    BY <1>2, <1>5, <1>10, <1>11, SortedIsWhole
  <1> HIDE DEF n
  <1> QED
    BY <1>2, <1>9, <1>10, <1>12

\* A page: the first m of the n rows that are left.
PageOf(n, m, list) ==
    /\ list \in [1 .. n -> Rest] /\ m <= n
    /\ \A i, j \in 1 .. n : i < j => A!Precedes(walk, list[i], list[j])
    /\ \A e \in Rest : \E i \in 1 .. n : list[i] = e
    /\ walk'.got \in Seq(EventRows) /\ Len(walk'.got) = Len(walk.got) + m
    /\ \A i \in 1 .. Len(walk.got) : walk'.got[i] = walk.got[i]
    /\ \A i \in 1 .. m : walk'.got[Len(walk.got) + i] = list[i]
    /\ walk' \in Walks
    /\ walk'.list = walk.list /\ walk'.card = walk.card /\ walk'.since = walk.since
    /\ \/ walk'.open /\ m # 0 /\ walk'.cursor = list[m]
       \/ ~walk'.open /\ m = n /\ walk'.cursor = None

LEMMA PageIs ==
    ASSUME FeedConstants, FeedIInv, A!Page
    PROVE  \E n, m \in Nat : \E list : PageOf(n, m, list)
  <1>1. walk # None /\ walk.open
    BY DEF A!Page
  <1>2. PICK n \in Nat :
              /\ A!Rows(walk) \in [1 .. n -> Rest]
              /\ \A i, j \in 1 .. n : i < j => A!Precedes(walk, A!Rows(walk)[i], A!Rows(walk)[j])
              /\ \A e \in Rest : \E i \in 1 .. n : A!Rows(walk)[i] = e
    BY <1>1, RowsAre
  <1>3. PICK list : list = A!Rows(walk)
    OBVIOUS
  <1>4. list \in [1 .. n -> Rest] /\ Rest \subseteq EventRows
    BY <1>2, <1>3 DEF Rest, FeedIInv, FeedTypes
  <1>5. list \in Seq(EventRows) /\ Len(list) = n
    BY <1>4
  <1>6. PICK m \in Nat : m = IF n > Limit THEN Limit ELSE n
    BY DEF FeedConstants
  <1>7. Limit \in Nat /\ Limit # 0
    BY DEF FeedConstants
  <1>8. m <= n /\ (n > Limit => m # 0 /\ m = Limit) /\ (~(n > Limit) => m = n)
    BY <1>6, <1>7
  <1>9. PICK items : items = IF Len(list) > Limit THEN SubSeq(list, 1, Limit) ELSE list
    OBVIOUS
  <1>10. items \in Seq(EventRows) /\ Len(items) = m /\ \A i \in 1 .. m : items[i] = list[i]
    BY <1>5, <1>7, <1>8, <1>9
  <1>11. PICK next : next = A!NextCursor(list)
    OBVIOUS
  <1>12. /\ n > Limit => next = list[m] /\ list[m] \in EventRows /\ list[m] # None
         /\ ~(n > Limit) => next = None
    <2>1. n > Limit => m \in 1 .. n
      BY <1>7, <1>8
    <2>2. n > Limit => list[m] \in EventRows
      BY <2>1, <1>4
    <2> QED BY <1>5, <1>8, <1>11, <2>2 DEF A!NextCursor, FeedConstants
  <1>13. walk' = [walk EXCEPT !.got = @ \o items, !.cursor = next, !.open = (next # None)]
    BY <1>3, <1>9, <1>11 DEF A!Page
  <1>14. walk \in Walks /\ walk.got \in Seq(EventRows)
    BY <1>1, ReadIs DEF FeedIInv
  <1>15. walk.got \o items \in Seq(EventRows) /\ Len(walk.got \o items) = Len(walk.got) + m
         /\ (\A i \in 1 .. Len(walk.got) : (walk.got \o items)[i] = walk.got[i])
         /\ (\A i \in 1 .. m : (walk.got \o items)[Len(walk.got) + i] = items[i])
    BY <1>10, <1>14
  <1>16. next \in {None} \cup EventRows
    BY <1>12
  <1>17. /\ walk'.got = walk.got \o items /\ walk'.cursor = next /\ walk'.open = (next # None)
         /\ walk'.list = walk.list /\ walk'.card = walk.card /\ walk'.since = walk.since
         /\ walk' \in Walks
    BY <1>13, <1>14, <1>15, <1>16 DEF Walks
  <1>18. \/ walk'.open /\ m # 0 /\ walk'.cursor = list[m]
         \/ ~walk'.open /\ m = n /\ walk'.cursor = None
    BY <1>8, <1>12, <1>17
  <1>19. \A i \in 1 .. m : walk'.got[Len(walk.got) + i] = list[i]
    BY <1>10, <1>15, <1>17
  <1> QED
    <2>1. /\ \A i, j \in 1 .. n : i < j => A!Precedes(walk, list[i], list[j])
          /\ \A e \in Rest : \E i \in 1 .. n : list[i] = e
      BY <1>2, <1>3
    <2>2. /\ walk'.got \in Seq(EventRows) /\ Len(walk'.got) = Len(walk.got) + m
          /\ \A i \in 1 .. Len(walk.got) : walk'.got[i] = walk.got[i]
      BY <1>15, <1>17
    <2>3. PageOf(n, m, list)
      BY <1>4, <1>8, <1>17, <1>18, <1>19, <2>1, <2>2 DEF PageOf
    <2> QED BY <2>3

LEMMA PageKeepsFeed ==
    ASSUME FeedConstants, FeedIInv, A!Page
    PROVE  FeedIInv'
  <1>1. walk # None /\ walk.open /\ UNCHANGED <<now, log, pending, made, start>>
    BY DEF A!Page
  <1>some. PICK n \in Nat, m \in Nat : \E list : PageOf(n, m, list)
    BY PageIs
  <1>page. PICK list : PageOf(n, m, list)
    BY <1>some
  <1>2. /\ list \in [1 .. n -> Rest]
        /\ \A i, j \in 1 .. n : i < j => A!Precedes(walk, list[i], list[j])
        /\ \A e \in Rest : \E i \in 1 .. n : list[i] = e
        /\ walk'.got \in Seq(EventRows) /\ Len(walk'.got) = Len(walk.got) + m
        /\ \A i \in 1 .. Len(walk.got) : walk'.got[i] = walk.got[i]
        /\ \A i \in 1 .. m : walk'.got[Len(walk.got) + i] = list[i]
        /\ walk' \in Walks
        /\ walk'.list = walk.list /\ walk'.card = walk.card /\ walk'.since = walk.since
        /\ \/ walk'.open /\ m # 0 /\ walk'.cursor = list[m]
           \/ ~walk'.open /\ m = n /\ walk'.cursor = None
    BY <1>page DEF PageOf
  <1>few. m <= n
    BY <1>page DEF PageOf
  <1>3. FeedTypes' /\ walk' # None
    BY <1>1, <1>2 DEF FeedIInv, FeedTypes, FeedConstants
  <1>4. /\ walk.got \in Seq(EventRows) /\ A!Got = {walk.got[i] : i \in 1 .. Len(walk.got)}
        /\ A!Got \subseteq EventRows /\ ReadSoFar = A!Got
        /\ (walk.cursor # None => walk.cursor \in EventRows)
    BY <1>1, ReadIs DEF FeedIInv
  <1>5. Rest \subseteq EventRows /\ Rest \subseteq log /\ \A i \in 1 .. n : list[i] \in Rest
    BY <1>2 DEF Rest, FeedIInv, FeedTypes
  <1>6. A!Got' = A!Got \cup {list[i] : i \in 1 .. m} /\ ReadSoFar' = A!Got'
    <2>1. A!Got' = {walk'.got[i] : i \in 1 .. Len(walk'.got)} /\ ReadSoFar' = A!Got'
      <3>1. A!Got' = {walk'.got[i] : i \in DOMAIN walk'.got}
        BY DEF A!Got, A!ToSet
      <3>2. DOMAIN walk'.got = 1 .. Len(walk'.got)
        BY <1>2
      <3>3. ReadSoFar' = A!Got'
        BY <1>3 DEF ReadSoFar
      <3> QED BY <3>1, <3>2, <3>3
    <2>2. Len(walk.got) \in Nat
      BY <1>4
    <2>3. ASSUME NEW i \in 1 .. Len(walk'.got) PROVE walk'.got[i] \in A!Got \cup {list[j] : j \in 1 .. m}
      <3>1. CASE i <= Len(walk.got)
        <4>1. i \in 1 .. Len(walk.got)
          BY <1>2, <2>2, <3>1
        <4> QED BY <1>2, <1>4, <4>1
      <3>2. CASE ~(i <= Len(walk.got))
        <4>1. i - Len(walk.got) \in 1 .. m /\ i = Len(walk.got) + (i - Len(walk.got))
          BY <1>2, <2>2, <3>2
        <4> QED BY <1>2, <4>1, ZenonT(60)
      <3> QED BY <3>1, <3>2
    <2>4. ASSUME NEW i \in 1 .. Len(walk.got) PROVE walk.got[i] \in A!Got'
      <3>1. i \in 1 .. Len(walk'.got)
        BY <1>2, <2>2
      <3> QED BY <1>2, <2>1, <3>1
    <2>5. ASSUME NEW i \in 1 .. m PROVE list[i] \in A!Got'
      <3>1. Len(walk.got) + i \in 1 .. Len(walk'.got)
        BY <1>2, <2>2
      <3> QED BY <1>2, <2>1, <3>1
    <2> QED BY <1>4, <2>1, <2>3, <2>4, <2>5
  <1>7. \A e, f \in EventRows :
            /\ A!Precedes(walk', e, f) = A!Precedes(walk, e, f)
            /\ A!Matches(walk, e)' = A!Matches(walk, e)
    BY <1>1, <1>2 DEF A!Precedes, A!Matches, A!DefaultSince, A!SelfActorIds, A!Older
  <1>8. Stamped'
    <2>1. (log \cup pending \cup start \cup ReadSoFar)' = log \cup pending \cup start \cup ReadSoFar
      <3>1. {list[i] : i \in 1 .. m} \subseteq log
        BY <1>few, <1>5
      <3>2. ReadSoFar' = ReadSoFar \cup {list[i] : i \in 1 .. m}
        BY <1>4, <1>6
      <3> QED BY <1>1, <3>1, <3>2
    <2> QED BY <1>1, <2>1 DEF FeedIInv, Stamped
  <1>9. \A f \in A!Got, i \in 1 .. n : A!Precedes(walk, f, list[i])
    <2> SUFFICES ASSUME NEW f \in A!Got, NEW i \in 1 .. n PROVE A!Precedes(walk, f, list[i])
      OBVIOUS
    <2>1. walk.cursor # None
      BY <1>1, <1>4 DEF FeedIInv, CursorIsLast
    <2>2. A!Precedes(walk, walk.cursor, list[i])
      BY <1>5, <2>1 DEF Rest, A!AfterCursor
    <2>3. f = walk.cursor \/ A!Precedes(walk, f, walk.cursor)
      BY <1>1, <2>1 DEF FeedIInv, CursorIsLast
    <2> QED BY <1>4, <1>5, <2>1, <2>2, <2>3, ListOrders
  <1>10. CursorIsLast'
    <2>1. CASE ~walk'.open /\ walk'.cursor = None
      BY <2>1 DEF CursorIsLast
    <2>2. CASE walk'.open /\ m # 0 /\ walk'.cursor = list[m]
      <3>1. m \in 1 .. m /\ m \in 1 .. n
        BY <1>few, <2>2
      <3>2. list[m] \in A!Got' /\ list[m] \in EventRows /\ list[m] # None
        BY <1>5, <1>6, <3>1 DEF FeedConstants
      <3>3. \A f \in A!Got' : f = list[m] \/ A!Precedes(walk, f, list[m])
        <4> SUFFICES ASSUME NEW f \in A!Got' PROVE f = list[m] \/ A!Precedes(walk, f, list[m])
          OBVIOUS
        <4>1. CASE f \in A!Got
          BY <1>9, <3>1, <4>1
        <4>2. CASE f \notin A!Got
          <5>1. PICK i \in 1 .. m : f = list[i]
            BY <1>6, <4>2
          <5>2. i \in 1 .. n /\ (i < m \/ i = m)
            BY <1>few, <5>1
          <5> QED BY <1>2, <3>1, <5>1, <5>2
        <4> QED BY <4>1, <4>2
      <3>4. \A f \in A!Got' : f \in EventRows
        <4>1. {list[i] : i \in 1 .. m} \subseteq EventRows
          BY <1>few, <1>5
        <4> QED BY <1>4, <1>6, <4>1
      <3> QED
        BY <1>7, <2>2, <3>2, <3>3, <3>4 DEF CursorIsLast
    <2> QED BY <1>2, <2>1, <2>2
  <1>11. A!PagesInOrder'
    <2> SUFFICES ASSUME NEW i \in DOMAIN walk'.got, NEW j \in DOMAIN walk'.got, i < j
                 PROVE  A!Precedes(walk', walk'.got[i], walk'.got[j])
      BY DEF A!PagesInOrder
    <2>1. PICK l \in Nat : l = Len(walk.got)
      BY <1>4
    <2>2. i \in 1 .. l + m /\ j \in 1 .. l + m /\ DOMAIN walk.got = 1 .. l
      BY <1>2, <1>4, <2>1
    <2>3. walk'.got[i] \in EventRows /\ walk'.got[j] \in EventRows
      BY <1>2
    <2>4. CASE j <= l
      <3>1. i \in 1 .. l /\ j \in 1 .. l
        BY <2>1, <2>2, <2>4
      <3>2. A!Precedes(walk, walk.got[i], walk.got[j])
        BY <1>1, <2>2, <3>1 DEF FeedIInv, A!PagesInOrder
      <3> QED BY <1>2, <1>7, <2>1, <2>3, <3>1, <3>2
    <2>5. CASE i <= l /\ ~(j <= l)
      <3>1. i \in 1 .. l /\ j - l \in 1 .. m /\ j = l + (j - l) /\ j - l \in 1 .. n
        BY <1>few, <2>2, <2>5
      <3>2. walk'.got[i] = walk.got[i] /\ walk.got[i] \in A!Got /\ walk'.got[j] = list[j - l]
        BY <1>2, <1>4, <2>1, <3>1
      <3> QED BY <1>7, <1>9, <2>3, <3>1, <3>2
    <2>6. CASE ~(i <= l)
      <3>1. /\ i - l \in 1 .. m /\ i = l + (i - l) /\ i - l \in 1 .. n
            /\ j - l \in 1 .. m /\ j = l + (j - l) /\ j - l \in 1 .. n
            /\ i - l < j - l
        BY <1>few, <2>2, <2>6
      <3>2. walk'.got[i] = list[i - l] /\ walk'.got[j] = list[j - l]
        BY <1>2, <2>1, <3>1
      <3>3. A!Precedes(walk, list[i - l], list[j - l])
        BY <1>2, <3>1
      <3> QED BY <1>7, <2>3, <3>2, <3>3
    <2> QED BY <2>4, <2>5, <2>6
  <1>12. PassedIsRead'
    <2> SUFFICES ASSUME NEW e \in start \cap log, A!Matches(walk, e),
                        walk'.open => ~A!AfterCursor(walk', e)
                 PROVE  e \in A!Got'
      <3>1. start \cap log \subseteq EventRows
        BY DEF FeedIInv, FeedTypes
      <3> QED BY <1>1, <1>7, <3>1 DEF PassedIsRead
    <2>1. CASE ~A!AfterCursor(walk, e)
      BY <1>1, <1>6, <2>1 DEF FeedIInv, PassedIsRead
    <2>2. CASE A!AfterCursor(walk, e)
      <3>1. PICK i \in 1 .. n : list[i] = e
        BY <1>2, <2>2 DEF Rest
      <3>2. i <= m
        <4>1. CASE m = n BY <4>1
        <4>2. CASE walk'.open /\ m # 0 /\ walk'.cursor = list[m]
          <5>1. m \in 1 .. n
            BY <1>few, <4>2
          <5>2. list[m] \in EventRows /\ list[m] # None /\ e \in EventRows
            BY <1>5, <3>1, <5>1 DEF FeedConstants
          <5>3. ~A!Precedes(walk, list[m], list[i])
            BY <1>7, <3>1, <4>2, <5>2 DEF A!AfterCursor
          <5> QED BY <1>2, <5>1, <5>3
        <4> QED BY <1>2, <4>1, <4>2
      <3> QED BY <1>6, <3>1, <3>2
    <2> QED BY <2>1, <2>2
  <1>13. HistoryIsRead'
    <2> SUFFICES ASSUME ~Late, walk.list = "history", NEW e \in log, NEW f \in A!Got',
                        A!Matches(walk, e), ~A!Older(f, e)
                 PROVE  e \in A!Got'
      <3>1. log \subseteq EventRows
        BY DEF FeedIInv, FeedTypes
      <3> QED BY <1>1, <1>2, <1>7, <3>1 DEF HistoryIsRead, A!Older
    <2>1. CASE f \in A!Got
      <3>1. CASE e \in A!Got'
        BY <3>1
      <3>2. CASE e \notin A!Got'
        BY <1>1, <1>6, <2>1 DEF FeedIInv, HistoryIsRead
      <3> QED BY <3>1, <3>2
    <2>2. CASE f \notin A!Got
      <3>1. PICK j \in 1 .. m : f = list[j]
        BY <1>6, <2>2
      <3>2. j \in 1 .. n
        BY <1>few, <3>1
      <3>3. CASE A!AfterCursor(walk, e)
        <4>1. PICK i \in 1 .. n : list[i] = e
          BY <1>2, <3>3 DEF Rest
        <4>2. ~(j < i)
          <5>1. j < i => A!Precedes(walk, f, e)
            BY <1>2, <3>1, <3>2, <4>1
          <5> QED BY <5>1 DEF A!Precedes
        <4>3. i \in 1 .. m
          BY <1>2, <3>1, <4>1, <4>2
        <4> QED BY <1>6, <4>1, <4>3
      <3>4. CASE ~A!AfterCursor(walk, e)
        <4>1. walk.cursor # None /\ ~A!Older(walk.cursor, e) /\ walk.cursor \in A!Got
          BY <1>1, <3>4 DEF A!AfterCursor, A!Precedes, FeedIInv, CursorIsLast
        <4> QED BY <1>1, <1>6, <4>1 DEF FeedIInv, HistoryIsRead
      <3> QED BY <3>3, <3>4
    <2> QED BY <2>1, <2>2
  <1> QED
    BY <1>3, <1>8, <1>10, <1>11, <1>12, <1>13 DEF FeedIInv

LEMMA FeedStep ==
    ASSUME FeedConstants, FeedIInv, [A!Next]_(A!vars)
    PROVE  FeedIInv'
  <1>1. CASE UNCHANGED A!vars
    BY <1>1, LessKeepsFeed DEF A!vars
  <1>2. ASSUME A!Discard PROVE FeedIInv'
    BY <1>2, LessKeepsFeed DEF A!Discard
  <1>3. ASSUME A!Tick PROVE FeedIInv'
    BY <1>3, LessKeepsFeed DEF A!Tick
  <1> QED
    BY <1>1, <1>2, <1>3, StampKeepsFeed, CommitKeepsFeed, BeginKeepsFeed, PageKeepsFeed
    DEF A!Next

\* The pages of the activity of a board, of one's own and of a card's history:
\* no event twice, each page after the one before, nothing left out that was
\* there from the beginning and still is; on SQLite a history has no gaps, not
\* even of what was written meanwhile.
THEOREM PagesFollow ==
    FeedConstants /\ A!Spec => [](A!PagesInOrder /\ A!NothingSkipped /\ (~Late => A!HistoryHasNoGaps))
  <1> SUFFICES ASSUME FeedConstants
               PROVE  A!Spec => [](A!PagesInOrder /\ A!NothingSkipped /\ (~Late => A!HistoryHasNoGaps))
    OBVIOUS
  <1>1. FeedIInv /\ [A!Next]_(A!vars) => FeedIInv'
    BY FeedStep
  <1>2. FeedIInv => A!PagesInOrder /\ A!NothingSkipped /\ (~Late => A!HistoryHasNoGaps)
    <2> SUFFICES ASSUME FeedIInv
                 PROVE  A!PagesInOrder /\ A!NothingSkipped /\ (~Late => A!HistoryHasNoGaps)
      OBVIOUS
    <2>1. A!NothingSkipped
      BY DEF FeedIInv, PassedIsRead, A!NothingSkipped, A!Ended
    <2>2. ASSUME ~Late PROVE A!HistoryHasNoGaps
      <3> SUFFICES ASSUME walk # None, walk.list = "history", NEW e \in log, A!Matches(walk, e),
                          NEW f \in A!Got, A!Older(e, f)
                   PROVE  e \in A!Got
        BY DEF A!HistoryHasNoGaps, A!Ended
      <3>1. e \in EventRows /\ f \in EventRows
        BY ReadIs DEF FeedIInv, FeedTypes
      <3>2. ~A!Older(f, e)
        BY <3>1, TimeOrders
      <3> QED BY <2>2, <3>2 DEF FeedIInv, HistoryIsRead
    <2> QED BY <2>1, <2>2 DEF FeedIInv
  <1> QED
    BY <1>1, <1>2, InitFeed, PTL DEF A!Spec

-----------------------------------------------------------------------------
(* Where a move puts a card, seen from the column (BoardMoves): however old *)
(* the board its neighbours were read from.                                *)

CONSTANTS Lanes, Filtered, Limits, InitialLanes, MaxOthers    \* of BoardMoves
VARIABLES lanes, archived, view, newer, entry, others         \* of BoardMoves

M == INSTANCE BoardMoves WITH Limit <- Limits

\* A column names each of its cards once.
Distinct(s) ==
    /\ s \in Seq(Cards)
    /\ \A i, j \in DOMAIN s : s[i] = s[j] => i = j

\* Every card is in one column.
Arranged(columns) ==
    /\ \A l \in Lanes : Distinct(columns[l])
    /\ \A c \in Cards : \E l \in Lanes : M!Holding(columns, c) = {l}

\* What is undone or redone is the move of a card to a lane.
EntryOK ==
    entry # None =>
        /\ entry = [card |-> entry.card, done |-> entry.done, undo |-> entry.undo,
                    redo |-> entry.redo, quiet |-> entry.quiet, before |-> entry.before]
        /\ entry.card \in Cards /\ entry.done \in BOOLEAN
        /\ entry.undo.to \in Lanes /\ entry.redo.to \in Lanes

PlacesIInv == Arranged(lanes) /\ EntryOK

MovesConstants == Arranged(InitialLanes)

LEMMA DistinctType ==
    ASSUME NEW s, Distinct(s)
    PROVE  s \in Seq(Cards) /\ Len(s) \in Nat /\ DOMAIN s = 1 .. Len(s)
  BY LenProperties DEF Distinct

\* Where a card is in a column that has it once.
LEMMA PlaceIs ==
    ASSUME NEW s, Distinct(s)
    PROVE  /\ \A i \in 1 .. Len(s) : M!Position(s, s[i]) = i /\ M!Contains(s, s[i])
           /\ \A d : M!Contains(s, d) => /\ M!Position(s, d) \in 1 .. Len(s)
                                         /\ s[M!Position(s, d)] = d
           /\ \A d : ~M!Contains(s, d) => M!Position(s, d) = 0
  <1>1. Len(s) \in Nat /\ DOMAIN s = 1 .. Len(s)
    BY DistinctType
  <1>2. ASSUME NEW d, M!Contains(s, d)
        PROVE  M!Position(s, d) \in 1 .. Len(s) /\ s[M!Position(s, d)] = d
    <2>1. \E i \in DOMAIN s : s[i] = d
      BY <1>1, <1>2 DEF M!Contains
    <2>2. M!Position(s, d) = CHOOSE i \in DOMAIN s : s[i] = d
      BY <1>2 DEF M!Position
    <2> QED BY <1>1, <2>1, <2>2
  <1>3. ASSUME NEW i \in 1 .. Len(s)
        PROVE  M!Position(s, s[i]) = i /\ M!Contains(s, s[i])
    <2>1. M!Contains(s, s[i])
      BY <1>3 DEF M!Contains
    <2>2. M!Position(s, s[i]) \in 1 .. Len(s) /\ s[M!Position(s, s[i])] = s[i]
      BY <1>2, <2>1
    <2> QED BY <1>1, <2>1, <2>2 DEF Distinct
  <1>4. \A d : ~M!Contains(s, d) => M!Position(s, d) = 0
    BY DEF M!Position
  <1> QED BY <1>2, <1>3, <1>4

\* A column without one of its places.
LEMMA PlaceTaken ==
    ASSUME NEW s \in Seq(Cards), NEW k \in DOMAIN s
    PROVE  /\ M!RemoveAt(s, k) \in Seq(Cards)
           /\ Len(M!RemoveAt(s, k)) = Len(s) - 1
           /\ \A i \in 1 .. Len(s) - 1 :
                 M!RemoveAt(s, k)[i] = IF i < k THEN s[i] ELSE s[i + 1]
  <1>1. k \in 1 .. Len(s) /\ Len(s) \in Nat
    BY LenProperties
  <1>2. PICK u, v : u = SubSeq(s, 1, k - 1) /\ v = SubSeq(s, k + 1, Len(s))
    OBVIOUS
  <1>3. u \in Seq(Cards) /\ Len(u) = k - 1 /\ \A i \in 1 .. k - 1 : u[i] = s[i]
    BY <1>1, <1>2
  <1>4. v \in Seq(Cards) /\ Len(v) = Len(s) - k /\ \A i \in 1 .. Len(s) - k : v[i] = s[i + k]
    BY <1>1, <1>2
  <1>5. PICK w : w = u \o v
    OBVIOUS
  <1>6. /\ w \in Seq(Cards) /\ Len(w) = Len(s) - 1
        /\ \A i \in 1 .. Len(w) : w[i] = IF i <= Len(u) THEN u[i] ELSE v[i - Len(u)]
    <2>1. /\ w \in Seq(Cards) /\ Len(w) = Len(u) + Len(v)
          /\ \A i \in 1 .. Len(u) + Len(v) : w[i] = IF i <= Len(u) THEN u[i] ELSE v[i - Len(u)]
      BY <1>3, <1>4, <1>5, ConcatProperties
    <2>2. Len(u) + Len(v) = Len(s) - 1
      BY <1>1, <1>3, <1>4
    <2> QED BY <2>1, <2>2
  <1>7. ASSUME NEW i \in 1 .. Len(s) - 1
        PROVE  w[i] = IF i < k THEN s[i] ELSE s[i + 1]
    <2>1. CASE i < k
      BY <1>1, <1>3, <1>6, <2>1
    <2>2. CASE ~(i < k)
      <3>1. i - (k - 1) \in 1 .. Len(s) - k /\ (i - (k - 1)) + k = i + 1
        BY <1>1, <2>2
      <3>2. w[i] = v[i - (k - 1)]
        BY <1>1, <1>3, <1>6, <2>2
      <3>3. v[i - (k - 1)] = s[i + 1]
        BY <1>4, <3>1
      <3> QED BY <2>2, <3>2, <3>3
    <2> QED BY <2>1, <2>2
  <1>8. M!RemoveAt(s, k) = w
    BY <1>2, <1>5 DEF M!RemoveAt
  <1> QED BY <1>6, <1>7, <1>8

\* Taking a card out of a column leaves the others, in their order.
LEMMA TakenFrom ==
    ASSUME NEW s, Distinct(s), NEW c
    PROVE  LET w == M!Without(s, c)
           IN  /\ Distinct(w)
               /\ \A d : M!Contains(w, d) <=> M!Contains(s, d) /\ d # c
               /\ \A d, e : /\ M!Contains(w, d) /\ M!Contains(w, e)
                            /\ M!Position(s, d) < M!Position(s, e)
                            => M!Position(w, d) < M!Position(w, e)
  <1>0. s \in Seq(Cards) /\ Len(s) \in Nat /\ DOMAIN s = 1 .. Len(s)
    BY DistinctType
  <1>1. CASE ~M!Contains(s, c)
    <2>1. M!Without(s, c) = s
      BY <1>1 DEF M!Without
    <2> QED BY <1>1, <2>1
  <1>2. CASE M!Contains(s, c)
    <2>1. PICK k : k = M!Position(s, c)
      OBVIOUS
    <2>2. k \in 1 .. Len(s) /\ s[k] = c
      BY <1>2, <2>1, PlaceIs
    <2>3. PICK w : w = M!RemoveAt(s, k)
      OBVIOUS
    <2>4. M!Without(s, c) = w
      BY <1>2, <2>1, <2>3 DEF M!Without
    <2>5. /\ w \in Seq(Cards) /\ Len(w) = Len(s) - 1
          /\ \A i \in 1 .. Len(s) - 1 : w[i] = IF i < k THEN s[i] ELSE s[i + 1]
      BY <1>0, <2>2, <2>3, PlaceTaken
    <2>6. DOMAIN w = 1 .. Len(s) - 1
      BY <2>5, LenProperties
    <2>7. \A i \in 1 .. Len(s) - 1 : \E j \in 1 .. Len(s) :
              /\ w[i] = s[j] /\ j # k /\ i = IF j < k THEN j ELSE j - 1
      <3> SUFFICES ASSUME NEW i \in 1 .. Len(s) - 1
                   PROVE  \E j \in 1 .. Len(s) :
                             w[i] = s[j] /\ j # k /\ i = IF j < k THEN j ELSE j - 1
        OBVIOUS
      <3>1. CASE i < k
        <4>1. i \in 1 .. Len(s) /\ i # k
          BY <1>0, <2>2, <3>1
        <4>2. w[i] = s[i]
          BY <2>5, <3>1
        <4> QED BY <3>1, <4>1, <4>2
      <3>2. CASE ~(i < k)
        <4>1. /\ i + 1 \in 1 .. Len(s) /\ i + 1 # k /\ ~(i + 1 < k) /\ i = (i + 1) - 1
              /\ w[i] = s[i + 1]
          BY <1>0, <2>2, <2>5, <3>2
        <4> QED BY <4>1
      <3> QED BY <3>1, <3>2
    <2>8. \A j \in 1 .. Len(s) : j # k =>
              \E i \in 1 .. Len(s) - 1 : w[i] = s[j] /\ i = IF j < k THEN j ELSE j - 1
      <3> SUFFICES ASSUME NEW j \in 1 .. Len(s), j # k
                   PROVE  \E i \in 1 .. Len(s) - 1 : w[i] = s[j] /\ i = IF j < k THEN j ELSE j - 1
        OBVIOUS
      <3>1. CASE j < k
        <4>1. j \in 1 .. Len(s) - 1
          BY <1>0, <2>2, <3>1
        <4>2. w[j] = s[j]
          BY <2>5, <3>1, <4>1
        <4> QED BY <3>1, <4>1, <4>2
      <3>2. CASE ~(j < k)
        <4>1. j - 1 \in 1 .. Len(s) - 1 /\ ~(j - 1 < k) /\ (j - 1) + 1 = j
          BY <1>0, <2>2, <3>2
        <4>2. w[j - 1] = s[j]
          BY <2>5, <4>1
        <4> QED BY <3>2, <4>1, <4>2
      <3> QED BY <3>1, <3>2
    <2>9. Distinct(w)
      <3> SUFFICES ASSUME NEW i \in DOMAIN w, NEW h \in DOMAIN w, w[i] = w[h] PROVE i = h
        BY <2>5 DEF Distinct
      <3>1. PICK j \in 1 .. Len(s) : w[i] = s[j] /\ j # k /\ i = IF j < k THEN j ELSE j - 1
        BY <2>6, <2>7
      <3>2. PICK g \in 1 .. Len(s) : w[h] = s[g] /\ g # k /\ h = IF g < k THEN g ELSE g - 1
        BY <2>6, <2>7
      <3>3. j = g
        BY <1>0, <3>1, <3>2 DEF Distinct
      <3> QED BY <3>1, <3>2, <3>3
    <2>10. ASSUME NEW d PROVE M!Contains(w, d) <=> M!Contains(s, d) /\ d # c
      <3>1. ASSUME M!Contains(w, d) PROVE M!Contains(s, d) /\ d # c
        <4>1. PICK i \in 1 .. Len(s) - 1 : w[i] = d
          BY <2>5, <3>1 DEF M!Contains
        <4>2. PICK j \in 1 .. Len(s) : w[i] = s[j] /\ j # k
          BY <2>7
        <4>3. s[j] # s[k]
          BY <1>0, <2>2, <4>2 DEF Distinct
        <4> QED BY <2>2, <4>1, <4>2, <4>3 DEF M!Contains
      <3>2. ASSUME M!Contains(s, d), d # c PROVE M!Contains(w, d)
        <4>1. PICK j \in 1 .. Len(s) : s[j] = d
          BY <3>2 DEF M!Contains
        <4>2. PICK i \in 1 .. Len(s) - 1 : w[i] = s[j]
          BY <2>2, <2>8, <3>2, <4>1
        <4> QED BY <2>5, <4>1, <4>2 DEF M!Contains
      <3> QED BY <3>1, <3>2
    <2>11. ASSUME NEW d, NEW e, M!Contains(w, d), M!Contains(w, e),
                  M!Position(s, d) < M!Position(s, e)
           PROVE  M!Position(w, d) < M!Position(w, e)
      <3>1. PICK i \in 1 .. Len(s) - 1 : w[i] = d
        BY <2>5, <2>11 DEF M!Contains
      <3>2. PICK h \in 1 .. Len(s) - 1 : w[h] = e
        BY <2>5, <2>11 DEF M!Contains
      <3>3. PICK j \in 1 .. Len(s) : w[i] = s[j] /\ j # k /\ i = IF j < k THEN j ELSE j - 1
        BY <2>7
      <3>4. PICK g \in 1 .. Len(s) : w[h] = s[g] /\ g # k /\ h = IF g < k THEN g ELSE g - 1
        BY <2>7
      <3>5. M!Position(s, d) = j /\ M!Position(s, e) = g
        BY <3>1, <3>2, <3>3, <3>4, PlaceIs
      <3>6. M!Position(w, d) = i /\ M!Position(w, e) = h
        BY <2>5, <2>9, <3>1, <3>2, PlaceIs
      <3>7. j < g
        BY <2>11, <3>5
      <3>8. i < h
        BY <1>0, <2>2, <3>3, <3>4, <3>7
      <3> QED BY <3>6, <3>8
    <2> QED BY <2>4, <2>9, <2>10, <2>11
  <1> QED BY <1>1, <1>2

\* t is s with c at place k.
PutAt(s, c, k, t) ==
    /\ t \in Seq(Cards) /\ Len(t) = Len(s) + 1
    /\ \A i \in 1 .. Len(s) + 1 : t[i] = IF i < k THEN s[i] ELSE IF i = k THEN c ELSE s[i - 1]

\* Putting a card that is not there into a column leaves the others, in their
\* order.
LEMMA InsertedAt ==
    ASSUME NEW s, Distinct(s), NEW c \in Cards, ~M!Contains(s, c),
           NEW k \in 1 .. Len(s) + 1, NEW t, PutAt(s, c, k, t)
    PROVE  /\ Distinct(t)
           /\ M!Position(t, c) = k
           /\ \A d : M!Contains(t, d) <=> M!Contains(s, d) \/ d = c
           /\ \A d : M!Contains(s, d) =>
                 M!Position(t, d) = IF M!Position(s, d) < k THEN M!Position(s, d)
                                    ELSE M!Position(s, d) + 1
  <1>0. /\ s \in Seq(Cards) /\ Len(s) \in Nat /\ DOMAIN s = 1 .. Len(s)
        /\ t \in Seq(Cards) /\ Len(t) = Len(s) + 1 /\ DOMAIN t = 1 .. Len(s) + 1
        /\ \A i \in 1 .. Len(s) + 1 :
              t[i] = IF i < k THEN s[i] ELSE IF i = k THEN c ELSE s[i - 1]
    BY DistinctType, LenProperties DEF PutAt
  <1>1. \A i \in 1 .. Len(s) : s[i] # c
    BY DEF M!Contains
  <1>2. k \in 1 .. Len(s) + 1 /\ t[k] = c
    BY <1>0
  <1>3. ASSUME NEW i \in 1 .. Len(s) + 1, i # k
        PROVE  \E j \in 1 .. Len(s) : t[i] = s[j] /\ i = IF j < k THEN j ELSE j + 1
    <2>1. CASE i < k
      <3>1. i \in 1 .. Len(s) /\ t[i] = s[i]
        BY <1>0, <2>1
      <3> QED BY <2>1, <3>1
    <2>2. CASE ~(i < k)
      <3>1. i - 1 \in 1 .. Len(s) /\ ~(i - 1 < k) /\ (i - 1) + 1 = i /\ t[i] = s[i - 1]
        BY <1>0, <1>3, <2>2
      <3> QED BY <3>1
    <2> QED BY <2>1, <2>2
  <1>4. ASSUME NEW j \in 1 .. Len(s)
        PROVE  \E i \in 1 .. Len(s) + 1 : t[i] = s[j] /\ i = IF j < k THEN j ELSE j + 1
    <2>1. CASE j < k
      <3>1. j \in 1 .. Len(s) + 1 /\ t[j] = s[j]
        BY <1>0, <2>1
      <3> QED BY <2>1, <3>1
    <2>2. CASE ~(j < k)
      <3>1. j + 1 \in 1 .. Len(s) + 1 /\ ~(j + 1 < k) /\ j + 1 # k /\ (j + 1) - 1 = j
        BY <1>0, <2>2
      <3>2. t[j + 1] = s[j]
        BY <1>0, <3>1
      <3> QED BY <2>2, <3>1, <3>2
    <2> QED BY <2>1, <2>2
  <1>5. Distinct(t)
    <2> SUFFICES ASSUME NEW i \in DOMAIN t, NEW h \in DOMAIN t, t[i] = t[h] PROVE i = h
      BY <1>0 DEF Distinct
    <2>1. CASE i = k \/ h = k
      <3>1. ASSUME NEW g \in 1 .. Len(s) + 1, g # k PROVE t[g] # c
        BY <1>1, <1>3, <3>1
      <3> QED BY <1>0, <1>2, <2>1, <3>1
    <2>2. CASE i # k /\ h # k
      <3>1. PICK j \in 1 .. Len(s) : t[i] = s[j] /\ i = IF j < k THEN j ELSE j + 1
        BY <1>0, <1>3, <2>2
      <3>2. PICK g \in 1 .. Len(s) : t[h] = s[g] /\ h = IF g < k THEN g ELSE g + 1
        BY <1>0, <1>3, <2>2
      <3>3. j = g
        BY <1>0, <3>1, <3>2 DEF Distinct
      <3> QED BY <3>1, <3>2, <3>3
    <2> QED BY <2>1, <2>2
  <1>6. M!Position(t, c) = k
    BY <1>0, <1>2, <1>5, PlaceIs
  <1>7. ASSUME NEW d PROVE M!Contains(t, d) <=> M!Contains(s, d) \/ d = c
    <2>1. ASSUME M!Contains(t, d), d # c PROVE M!Contains(s, d)
      <3>1. PICK i \in 1 .. Len(s) + 1 : t[i] = d
        BY <1>0, <2>1 DEF M!Contains
      <3>2. \E j \in 1 .. Len(s) : t[i] = s[j]
        BY <1>2, <1>3, <2>1, <3>1
      <3> QED BY <3>1, <3>2 DEF M!Contains
    <2>2. ASSUME M!Contains(s, d) PROVE M!Contains(t, d)
      <3>1. PICK j \in 1 .. Len(s) : s[j] = d
        BY <2>2 DEF M!Contains
      <3>2. \E i \in 1 .. Len(s) + 1 : t[i] = s[j]
        BY <1>4
      <3> QED BY <1>0, <3>1, <3>2 DEF M!Contains
    <2>3. M!Contains(t, c)
      BY <1>0, <1>2 DEF M!Contains
    <2> QED BY <2>1, <2>2, <2>3
  <1>8. ASSUME NEW d, M!Contains(s, d)
        PROVE  M!Position(t, d) = IF M!Position(s, d) < k THEN M!Position(s, d)
                                  ELSE M!Position(s, d) + 1
    <2>1. PICK j \in 1 .. Len(s) : s[j] = d
      BY <1>8 DEF M!Contains
    <2>2. PICK i \in 1 .. Len(s) + 1 : t[i] = s[j] /\ i = IF j < k THEN j ELSE j + 1
      BY <1>4
    <2>3. M!Position(s, d) = j
      BY <2>1, PlaceIs
    <2>4. M!Position(t, d) = i
      <3>1. i \in 1 .. Len(t) /\ t[i] = d
        BY <1>0, <2>1, <2>2
      <3>2. M!Position(t, t[i]) = i
        BY <1>5, <3>1, PlaceIs
      <3> QED BY <3>1, <3>2
    <2> QED BY <2>2, <2>3, <2>4
  <1> QED BY <1>5, <1>6, <1>7, <1>8

\* InsertAt puts a card where it says, Append behind all others.
LEMMA InsertAtIs ==
    ASSUME NEW s \in Seq(Cards), NEW c \in Cards, NEW k \in 1 .. Len(s) + 1
    PROVE  PutAt(s, c, k, M!InsertAt(s, k, c))
  <1>1. Len(s) \in Nat /\ k \in 1 .. Len(s) + 1
    BY LenProperties
  <1>2. PICK u, v : u = SubSeq(s, 1, k - 1) /\ v = SubSeq(s, k, Len(s))
    OBVIOUS
  <1>3. u \in Seq(Cards) /\ Len(u) = k - 1 /\ \A i \in 1 .. k - 1 : u[i] = s[i]
    BY <1>1, <1>2
  <1>4. /\ v \in Seq(Cards) /\ Len(v) = Len(s) - k + 1
        /\ \A i \in 1 .. Len(s) - k + 1 : v[i] = s[i + k - 1]
    BY <1>1, <1>2
  <1>5. PICK one, w, t : one = <<c>> /\ w = u \o one /\ t = w \o v
    OBVIOUS
  <1>6. one \in Seq(Cards) /\ Len(one) = 1 /\ one[1] = c
    BY <1>5
  <1>7. /\ w \in Seq(Cards) /\ Len(w) = k
        /\ \A i \in 1 .. k - 1 : w[i] = s[i]
        /\ w[k] = c
    <2>1. /\ w \in Seq(Cards) /\ Len(w) = Len(u) + Len(one)
          /\ \A i \in 1 .. Len(u) + Len(one) : w[i] = IF i <= Len(u) THEN u[i] ELSE one[i - Len(u)]
      BY <1>3, <1>5, <1>6, ConcatProperties
    <2>2. Len(u) + Len(one) = k
      BY <1>1, <1>3, <1>6
    <2>3. \A i \in 1 .. k - 1 : w[i] = s[i]
      BY <1>1, <1>3, <2>1, <2>2
    <2>4. ~(k <= Len(u)) /\ k - Len(u) = 1 /\ k \in 1 .. k
      BY <1>1, <1>3
    <2>5. w[k] = c
      BY <1>6, <2>1, <2>2, <2>4
    <2> QED BY <2>1, <2>2, <2>3, <2>5
  <1>8. /\ t \in Seq(Cards) /\ Len(t) = Len(s) + 1
        /\ \A i \in 1 .. Len(s) + 1 : t[i] = IF i <= k THEN w[i] ELSE v[i - k]
    <2>1. /\ t \in Seq(Cards) /\ Len(t) = Len(w) + Len(v)
          /\ \A i \in 1 .. Len(w) + Len(v) : t[i] = IF i <= Len(w) THEN w[i] ELSE v[i - Len(w)]
      <3>1. w \in Seq(Cards) /\ v \in Seq(Cards) /\ t = w \o v
        BY <1>4, <1>5, <1>7
      <3> QED BY <3>1, ConcatProperties
    <2>2. Len(w) + Len(v) = Len(s) + 1
      BY <1>1, <1>4, <1>7
    <2> QED BY <1>7, <2>1, <2>2
  <1>9. ASSUME NEW i \in 1 .. Len(s) + 1
        PROVE  t[i] = IF i < k THEN s[i] ELSE IF i = k THEN c ELSE s[i - 1]
    <2>1. CASE i < k
      <3>1. i \in 1 .. k - 1 /\ i <= k
        BY <1>1, <2>1
      <3> QED BY <1>7, <1>8, <2>1, <3>1
    <2>2. CASE i = k
      BY <1>1, <1>7, <1>8, <2>2
    <2>3. CASE i > k
      <3>1. /\ i - k \in 1 .. Len(s) - k + 1 /\ (i - k) + k - 1 = i - 1
            /\ ~(i <= k) /\ ~(i < k) /\ i # k
        BY <1>1, <2>3
      <3>2. v[i - k] = s[i - 1]
        BY <1>4, <3>1
      <3> QED BY <1>8, <3>1, <3>2
    <2> QED BY <1>1, <2>1, <2>2, <2>3
  <1>10. M!InsertAt(s, k, c) = t
    BY <1>2, <1>5 DEF M!InsertAt
  <1> QED BY <1>8, <1>9, <1>10 DEF PutAt

LEMMA AppendIs ==
    ASSUME NEW s \in Seq(Cards), NEW c \in Cards
    PROVE  PutAt(s, c, Len(s) + 1, Append(s, c))
  <1>1. PICK t : t = Append(s, c)
    OBVIOUS
  <1>2. /\ t \in Seq(Cards) /\ Len(t) = Len(s) + 1 /\ Len(s) \in Nat
        /\ \A i \in 1 .. Len(s) : t[i] = s[i]
        /\ t[Len(s) + 1] = c
    BY <1>1, AppendProperties, LenProperties
  <1>3. ASSUME NEW i \in 1 .. Len(s) + 1
        PROVE  t[i] = IF i < Len(s) + 1 THEN s[i] ELSE IF i = Len(s) + 1 THEN c ELSE s[i - 1]
    BY <1>2
  <1> QED BY <1>1, <1>2, <1>3 DEF PutAt

-----------------------------------------------------------------------------

\* What CardService.move has looked at.
MayLand(c, q) ==
    /\ c \in Cards /\ q.to \in Lanes
    /\ q.prev # None => q.prev # c /\ M!Contains(lanes[q.to], q.prev)
    /\ q.next # None => q.next # c /\ M!Contains(lanes[q.to], q.next)
    /\ q.prev # None /\ q.next # None
          => M!Position(lanes[q.to], q.prev) < M!Position(lanes[q.to], q.next)

\* The lane of a move gets the card, between its neighbours.
LEMMA LandsIn ==
    ASSUME Arranged(lanes), NEW c, NEW q, MayLand(c, q)
    PROVE  LET t == M!Placed(c, q)[q.to]
           IN  /\ Distinct(t)
               /\ \A d : M!Contains(t, d) <=> M!Contains(lanes[q.to], d) \/ d = c
               /\ M!Position(t, c) # 0
               /\ q.prev # None => M!Position(t, q.prev) < M!Position(t, c)
               /\ q.next # None => M!Position(t, q.next) > M!Position(t, c)
  <1>1. PICK s, w : s = lanes[q.to] /\ w = M!Without(s, c)
    OBVIOUS
  <1>2. PICK t : t = M!Placed(c, q)[q.to]
    OBVIOUS
  <1>3. t = IF q.next = None THEN Append(w, c) ELSE M!InsertAt(w, M!Position(w, q.next), c)
    BY <1>1, <1>2 DEF M!Placed, MayLand
  <1>4. /\ Distinct(s) /\ Distinct(w)
        /\ \A d : M!Contains(w, d) <=> M!Contains(s, d) /\ d # c
        /\ \A d, e : /\ M!Contains(w, d) /\ M!Contains(w, e)
                     /\ M!Position(s, d) < M!Position(s, e)
                     => M!Position(w, d) < M!Position(w, e)
    <2>1. Distinct(s)
      BY <1>1 DEF Arranged, MayLand
    <2> QED BY <1>1, <2>1, TakenFrom
  <1>5. w \in Seq(Cards) /\ Len(w) \in Nat /\ DOMAIN w = 1 .. Len(w)
    BY <1>4, DistinctType
  <1>6. ~M!Contains(w, c) /\ c \in Cards
    BY <1>4 DEF MayLand
  <1>7. /\ q.prev # None => M!Contains(w, q.prev)
        /\ q.next # None => M!Contains(w, q.next)
        /\ q.prev # None /\ q.next # None => M!Position(w, q.prev) < M!Position(w, q.next)
    BY <1>1, <1>4 DEF MayLand
  <1>8. PICK k : k = IF q.next = None THEN Len(w) + 1 ELSE M!Position(w, q.next)
    OBVIOUS
  <1>9. k \in 1 .. Len(w) + 1
    <2>1. CASE q.next = None
      BY <1>5, <1>8, <2>1
    <2>2. CASE q.next # None
      <3>1. M!Position(w, q.next) \in 1 .. Len(w)
        BY <1>4, <1>7, <2>2, PlaceIs
      <3> QED BY <1>5, <1>8, <2>2, <3>1
    <2> QED BY <2>1, <2>2
  <1>10. PutAt(w, c, k, t)
    <2>1. CASE q.next = None
      <3>1. t = Append(w, c) /\ k = Len(w) + 1
        BY <1>3, <1>8, <2>1
      <3> QED BY <1>5, <1>6, <3>1, AppendIs
    <2>2. CASE q.next # None
      <3>1. t = M!InsertAt(w, k, c)
        BY <1>3, <1>8, <2>2
      <3> QED BY <1>5, <1>6, <1>9, <3>1, InsertAtIs
    <2> QED BY <2>1, <2>2
  <1>11. /\ Distinct(t) /\ M!Position(t, c) = k
         /\ \A d : M!Contains(t, d) <=> M!Contains(w, d) \/ d = c
         /\ \A d : M!Contains(w, d) =>
               M!Position(t, d) = IF M!Position(w, d) < k THEN M!Position(w, d)
                                  ELSE M!Position(w, d) + 1
    BY <1>4, <1>6, <1>9, <1>10, InsertedAt
  <1>12. ASSUME q.prev # None PROVE M!Position(t, q.prev) < M!Position(t, c)
    <2>1. M!Contains(w, q.prev) /\ M!Position(w, q.prev) \in 1 .. Len(w)
      BY <1>4, <1>7, <1>12, PlaceIs
    <2>2. M!Position(w, q.prev) < k
      <3>1. CASE q.next = None
        BY <1>5, <1>8, <2>1, <3>1
      <3>2. CASE q.next # None
        BY <1>7, <1>8, <1>12, <3>2
      <3> QED BY <3>1, <3>2
    <2> QED BY <1>11, <2>1, <2>2
  <1>13. ASSUME q.next # None PROVE M!Position(t, q.next) > M!Position(t, c)
    <2>1. M!Contains(w, q.next) /\ M!Position(w, q.next) = k
      BY <1>7, <1>8, <1>13
    <2>2. M!Position(t, q.next) = k + 1
      BY <1>9, <1>11, <2>1
    <2> QED BY <1>5, <1>9, <1>11, <2>2
  <1>14. M!Position(t, c) # 0
    BY <1>5, <1>9, <1>11
  <1>15. \A d : M!Contains(t, d) <=> M!Contains(s, d) \/ d = c
    BY <1>4, <1>11
  <1> QED BY <1>1, <1>2, <1>11, <1>12, <1>13, <1>14, <1>15

\* A move leaves every card in one column.
LEMMA PlacedArranged ==
    ASSUME Arranged(lanes), NEW c, NEW q, MayLand(c, q), lanes' = M!Placed(c, q)
    PROVE  Arranged(lanes')
  <1>0. c \in Cards /\ q.to \in Lanes
    BY DEF MayLand
  <1>1. /\ Distinct(lanes'[q.to])
        /\ \A d : M!Contains(lanes'[q.to], d) <=> M!Contains(lanes[q.to], d) \/ d = c
    BY LandsIn
  <1>2. ASSUME NEW l \in Lanes, l # q.to
        PROVE  /\ Distinct(lanes'[l])
               /\ \A d : M!Contains(lanes'[l], d) <=> M!Contains(lanes[l], d) /\ d # c
    <2>1. lanes'[l] = M!Without(lanes[l], c) /\ Distinct(lanes[l])
      BY <1>2 DEF M!Placed, Arranged
    <2> QED BY <2>1, TakenFrom
  <1>3. ASSUME NEW l \in Lanes PROVE Distinct(lanes'[l])
    BY <1>1, <1>2
  <1>4. ASSUME NEW d \in Cards PROVE \E l \in Lanes : M!Holding(lanes', d) = {l}
    <2>1. CASE d = c
      <3>1. M!Holding(lanes', d) = {q.to}
        BY <1>0, <1>1, <1>2, <2>1 DEF M!Holding
      <3> QED BY <1>0, <3>1
    <2>2. CASE d # c
      <3>1. \A l \in Lanes : M!Contains(lanes'[l], d) <=> M!Contains(lanes[l], d)
        BY <1>1, <1>2, <2>2
      <3>2. M!Holding(lanes', d) = M!Holding(lanes, d)
        BY <3>1 DEF M!Holding
      <3> QED BY <3>2 DEF Arranged
    <2> QED BY <2>1, <2>2
  <1> QED BY <1>3, <1>4 DEF Arranged

LEMMA AcceptedIsGood ==
    ASSUME NEW c \in Cards, NEW q, q.to \in Lanes, M!Accepts(c, q)
    PROVE  MayLand(c, q)
  BY DEF M!Accepts, M!Neighbour, MayLand

\* A request either is refused, and changes nothing, or moves the card.
LEMMA RequestKeeps ==
    ASSUME Arranged(lanes), NEW c \in Cards, NEW q, q.to \in Lanes, M!Request(c, q)
    PROVE  Arranged(lanes') /\ (M!Accepts(c, q) \/ UNCHANGED lanes)
  <1>1. CASE M!Accepts(c, q)
    <2>1. MayLand(c, q) /\ lanes' = M!Placed(c, q)
      BY <1>1, AcceptedIsGood DEF M!Request
    <2> QED BY <1>1, <2>1, PlacedArranged
  <1>2. CASE ~M!Accepts(c, q)
    BY <1>2 DEF M!Request
  <1> QED BY <1>1, <1>2

\* The lane a card goes back to is one of the board.
LEMMA RestoresToLane ==
    ASSUME NEW c \in M!OnBoard
    PROVE  M!Restore(c).to \in Lanes /\ c \in Cards
  <1>1. M!Holding(M!Shown, c) # {} /\ c \in Cards
    BY DEF M!OnBoard
  <1>2. PICK l : l = CHOOSE k \in M!Holding(M!Shown, c) : TRUE
    OBVIOUS
  <1>3. l \in M!Holding(M!Shown, c)
    BY <1>1, <1>2
  <1>4. l \in Lanes
    BY <1>3 DEF M!Holding
  <1>5. M!Restore(c).to = l
    BY <1>2 DEF M!Restore, M!Intent
  <1> QED BY <1>1, <1>4, <1>5

\* A card dropped, or moved from the menu.
Moves(c, q) == M!Request(c, q) /\ M!Record(c, q)

LEMMA MoveKeeps ==
    ASSUME PlacesIInv, NEW c \in M!OnBoard, NEW q, q.to \in Lanes, Moves(c, q)
    PROVE  PlacesIInv'
  <1>1. c \in Cards /\ M!Restore(c).to \in Lanes
    BY RestoresToLane
  <1>2. Arranged(lanes')
    BY <1>1, RequestKeeps DEF PlacesIInv, Moves
  <1>3. EntryOK'
    <2>1. CASE M!Accepts(c, q)
      <3>1. PICK undo, quiet, before :
                undo = M!Restore(c) /\ quiet = M!Current /\ before = M!Shown
        OBVIOUS
      <3>2. entry' = [card |-> c, done |-> TRUE, undo |-> undo, redo |-> q,
                      quiet |-> quiet, before |-> before]
        BY <2>1, <3>1 DEF Moves, M!Record, M!Entry
      <3> QED BY <1>1, <3>1, <3>2 DEF EntryOK
    <2>2. CASE ~M!Accepts(c, q)
      <3>1. entry' = entry
        BY <2>2 DEF Moves, M!Record
      <3> QED BY <3>1 DEF PlacesIInv, EntryOK
    <2> QED BY <2>1, <2>2
  <1> QED BY <1>2, <1>3 DEF PlacesIInv

LEMMA MoveLands ==
    ASSUME PlacesIInv, NEW c \in M!OnBoard, NEW q, q.to \in Lanes, Moves(c, q)
    PROVE  M!LandsBetweenNeighbours
  <1>1. c \in Cards
    BY RestoresToLane
  <1>2. CASE ~M!Accepts(c, q)
    <2>1. lanes' = lanes
      BY <1>2 DEF Moves, M!Request
    <2> QED BY <2>1 DEF M!LandsBetweenNeighbours, M!Accepted
  <1>3. CASE M!Accepts(c, q)
    <2>1. MayLand(c, q) /\ lanes' = M!Placed(c, q)
      BY <1>1, <1>3, AcceptedIsGood DEF Moves, M!Request
    <2>2. entry'.card = c /\ entry'.done = TRUE /\ entry'.redo = q
      BY <1>3 DEF Moves, M!Record, M!Entry
    <2>3. M!Meant = q
      BY <2>2 DEF M!Meant
    <2> QED BY <2>1, <2>2, <2>3, LandsIn DEF PlacesIInv, M!LandsBetweenNeighbours
  <1> QED BY <1>2, <1>3

\* The move of an entry, again or back.
MoveAgain(q, done) ==
    /\ entry # None /\ q \in {entry.undo, entry.redo}
    /\ q = IF done THEN entry.redo ELSE entry.undo
    /\ M!Request(entry.card, q)
    /\ entry' = IF M!Accepts(entry.card, q)
                THEN [entry EXCEPT !.done = done, !.before = M!Shown] ELSE entry

LEMMA EntryAfter ==
    ASSUME EntryOK, entry # None, NEW done \in BOOLEAN, NEW before,
           entry' = [entry EXCEPT !.done = done, !.before = before]
    PROVE  /\ EntryOK'
           /\ entry'.card = entry.card /\ entry'.done = done
           /\ entry'.undo = entry.undo /\ entry'.redo = entry.redo
  <1>1. PICK card, was, undo, redo, quiet, prior :
            /\ entry = [card |-> card, done |-> was, undo |-> undo, redo |-> redo,
                        quiet |-> quiet, before |-> prior]
            /\ card \in Cards /\ undo.to \in Lanes /\ redo.to \in Lanes
    BY DEF EntryOK
  <1>2. entry' = [card |-> card, done |-> done, undo |-> undo, redo |-> redo,
                  quiet |-> quiet, before |-> before]
    BY <1>1
  <1>3. /\ entry'.card = card /\ entry'.done = done /\ entry'.undo = undo
        /\ entry'.redo = redo /\ entry'.quiet = quiet /\ entry'.before = before
    <2>1. PICK e : e = entry'
      OBVIOUS
    <2>2. /\ e.card = card /\ e.done = done /\ e.undo = undo
          /\ e.redo = redo /\ e.quiet = quiet /\ e.before = before
      BY <1>2, <2>1
    <2> QED BY <2>1, <2>2
  <1>4. entry.card = card /\ entry.undo = undo /\ entry.redo = redo
    BY <1>1
  <1>5. entry' = [card |-> entry'.card, done |-> entry'.done, undo |-> entry'.undo,
                  redo |-> entry'.redo, quiet |-> entry'.quiet, before |-> entry'.before]
    BY <1>2, <1>3
  <1> QED BY <1>1, <1>3, <1>4, <1>5 DEF EntryOK

LEMMA AgainKeeps ==
    ASSUME PlacesIInv, NEW q, NEW done \in BOOLEAN, MoveAgain(q, done)
    PROVE  PlacesIInv' /\ M!LandsBetweenNeighbours
  <1>1. PICK c : c = entry.card
    OBVIOUS
  <1>2. c \in Cards /\ q.to \in Lanes /\ entry # None /\ M!Request(c, q) /\ EntryOK
    BY <1>1 DEF MoveAgain, PlacesIInv, EntryOK
  <1>3. Arranged(lanes')
    BY <1>2, RequestKeeps DEF PlacesIInv
  <1>4. CASE ~M!Accepts(c, q)
    <2>1. lanes' = lanes /\ entry' = entry
      BY <1>1, <1>2, <1>4 DEF MoveAgain, M!Request
    <2> QED BY <1>2, <1>3, <2>1 DEF PlacesIInv, EntryOK, M!LandsBetweenNeighbours, M!Accepted
  <1>5. CASE M!Accepts(c, q)
    <2>1. MayLand(c, q) /\ lanes' = M!Placed(c, q)
      BY <1>2, <1>5, AcceptedIsGood DEF M!Request
    <2>2. PICK before : before = M!Shown
      OBVIOUS
    <2>3. entry' = [entry EXCEPT !.done = done, !.before = before]
      BY <1>1, <1>5, <2>2 DEF MoveAgain
    <2>4. /\ EntryOK' /\ entry'.card = c /\ entry'.done = done
          /\ entry'.undo = entry.undo /\ entry'.redo = entry.redo
      BY <1>1, <1>2, <2>3, EntryAfter
    <2>5. M!Meant = q
      BY <2>4 DEF M!Meant, MoveAgain
    <2>6. M!LandsBetweenNeighbours
      BY <2>1, <2>4, <2>5, LandsIn DEF PlacesIInv, M!LandsBetweenNeighbours
    <2> QED BY <1>3, <2>4, <2>6 DEF PlacesIInv
  <1> QED BY <1>4, <1>5

\* What others do disturbs the entry, not the columns.
LEMMA DisturbedKeeps ==
    ASSUME EntryOK, entry' = M!Disturbed
    PROVE  EntryOK'
  <1>1. CASE entry = None
    BY <1>1 DEF M!Disturbed, EntryOK
  <1>2. CASE entry # None
    <2>1. PICK card, done, undo, redo, quiet, before :
              /\ entry = [card |-> card, done |-> done, undo |-> undo, redo |-> redo,
                          quiet |-> quiet, before |-> before]
              /\ card \in Cards /\ done \in BOOLEAN /\ undo.to \in Lanes /\ redo.to \in Lanes
      BY <1>2 DEF EntryOK
    <2>2. entry' = [card |-> card, done |-> done, undo |-> undo, redo |-> redo,
                    quiet |-> FALSE, before |-> before]
      BY <1>2, <2>1 DEF M!Disturbed
    <2> QED BY <2>1, <2>2 DEF EntryOK
  <1> QED BY <1>1, <1>2

LEMMA OthersKeepPlaces ==
    ASSUME PlacesIInv, NEW c \in Cards, NEW q, q.to \in Lanes, q.prev = None, M!OtherMoves(c, q)
    PROVE  PlacesIInv' /\ M!LandsBetweenNeighbours
  <1>1. MayLand(c, q) /\ lanes' = M!Placed(c, q) /\ view' = view /\ entry' = M!Disturbed
    BY DEF M!OtherMoves, M!Neighbour, MayLand
  <1>2. Arranged(lanes') /\ EntryOK'
    BY <1>1, PlacedArranged, DisturbedKeeps DEF PlacesIInv
  <1> QED BY <1>1, <1>2 DEF PlacesIInv, M!LandsBetweenNeighbours, M!Accepted

LEMMA PlacesInit == MovesConstants /\ M!Init => PlacesIInv
  BY DEF MovesConstants, M!Init, PlacesIInv, EntryOK

LEMMA PlacesStep ==
    ASSUME PlacesIInv, [M!Next]_(M!vars)
    PROVE  PlacesIInv' /\ M!LandsBetweenNeighbours
  <1>1. ASSUME UNCHANGED lanes, EntryOK'
        PROVE  PlacesIInv' /\ M!LandsBetweenNeighbours
    BY <1>1 DEF PlacesIInv, M!LandsBetweenNeighbours, M!Accepted
  <1>2. ASSUME UNCHANGED entry PROVE EntryOK'
    BY <1>2 DEF PlacesIInv, EntryOK
  <1>3. CASE M!Refresh
    BY <1>1, <1>2, <1>3 DEF M!Refresh
  <1>4. CASE M!Undo
    <2>1. MoveAgain(entry.undo, FALSE)
      BY <1>4 DEF M!Undo, MoveAgain
    <2> QED BY <2>1, AgainKeeps
  <1>5. CASE M!Redo
    <2>1. MoveAgain(entry.redo, TRUE)
      BY <1>5 DEF M!Redo, MoveAgain
    <2> QED BY <2>1, AgainKeeps
  <1>6. ASSUME NEW c \in M!OnBoard, NEW q, q.to \in Lanes, M!Drop(c, q) \/ M!MenuMove(c, q)
        PROVE  PlacesIInv' /\ M!LandsBetweenNeighbours
    <2>1. Moves(c, q)
      BY <1>6 DEF M!Drop, M!MenuMove, Moves
    <2> QED BY <1>6, <2>1, MoveKeeps, MoveLands
  <1>7. ASSUME NEW c \in M!OnBoard, NEW l \in Lanes, NEW q \in M!DropIntents(l, c), M!Drop(c, q)
        PROVE  PlacesIInv' /\ M!LandsBetweenNeighbours
    <2>1. q.to = l
      BY <1>7 DEF M!DropIntents, M!DropIntent, M!Intent
    <2> QED BY <1>6, <1>7, <2>1
  <1>8. ASSUME NEW c \in M!OnBoard, NEW l \in Lanes, NEW q \in M!MenuIntents(l, c), M!MenuMove(c, q)
        PROVE  PlacesIInv' /\ M!LandsBetweenNeighbours
    <2>1. q.to = l
      BY <1>8 DEF M!MenuIntents, M!Intent
    <2> QED BY <1>6, <1>8, <2>1
  <1>9. ASSUME NEW c \in Cards, NEW l \in Lanes, NEW n, M!OtherMoves(c, M!Intent(l, None, n))
        PROVE  PlacesIInv' /\ M!LandsBetweenNeighbours
    <2>1. M!Intent(l, None, n).to = l /\ M!Intent(l, None, n).prev = None
      BY DEF M!Intent
    <2> QED BY <1>9, <2>1, OthersKeepPlaces
  <1>10. ASSUME NEW c \in Cards, M!OtherArchives(c)
         PROVE  PlacesIInv' /\ M!LandsBetweenNeighbours
    <2>1. UNCHANGED lanes /\ entry' = M!Disturbed
      BY <1>10 DEF M!OtherArchives
    <2> QED BY <1>1, <2>1, DisturbedKeeps DEF PlacesIInv
  <1>11. CASE UNCHANGED M!vars
    BY <1>1, <1>2, <1>11 DEF M!vars
  <1> QED BY <1>3, <1>4, <1>5, <1>7, <1>8, <1>9, <1>10, <1>11 DEF M!Next

LEMMA ArrangedIsOnePlace == ASSUME Arranged(lanes) PROVE M!OnePlaceOnServer
  <1> SUFFICES ASSUME NEW c \in Cards
               PROVE  \E l \in Lanes : \E i \in DOMAIN lanes[l] :
                         \A k \in Lanes : \A j \in DOMAIN lanes[k] :
                            lanes[k][j] = c <=> k = l /\ j = i
    BY DEF M!OnePlaceOnServer
  <1>1. PICK l \in Lanes : M!Holding(lanes, c) = {l}
    BY DEF Arranged
  <1>2. M!Contains(lanes[l], c)
    BY <1>1 DEF M!Holding
  <1>3. \A k \in Lanes : /\ Distinct(lanes[k]) /\ DOMAIN lanes[k] = 1 .. Len(lanes[k])
                         /\ k # l => ~M!Contains(lanes[k], c)
    BY <1>1, DistinctType DEF Arranged, M!Holding
  <1>4. PICK i \in DOMAIN lanes[l] : lanes[l][i] = c
    BY <1>2, <1>3 DEF M!Contains
  <1>5. ASSUME NEW k \in Lanes, NEW j \in DOMAIN lanes[k]
        PROVE  lanes[k][j] = c <=> k = l /\ j = i
    <2>1. CASE k = l
      BY <1>3, <1>4, <2>1 DEF Distinct
    <2>2. CASE k # l
      BY <1>3, <2>2 DEF M!Contains
    <2> QED BY <2>1, <2>2
  <1> QED BY <1>4, <1>5

\* For any columns and cards, filter and limits: a card is in one place of one
\* column, and however old the board was, an accepted move lands behind the one
\* and before the other neighbour it named (CardService.move, board-cache.ts).
THEOREM MovesLand ==
    MovesConstants /\ M!Spec =>
        [](M!OnePlaceOnServer) /\ [][M!LandsBetweenNeighbours]_(M!vars)
  <1> SUFFICES ASSUME MovesConstants
               PROVE  M!Spec => [](M!OnePlaceOnServer) /\ [][M!LandsBetweenNeighbours]_(M!vars)
    OBVIOUS
  <1>1. M!Init => PlacesIInv
    BY PlacesInit
  <1>2. PlacesIInv /\ [M!Next]_(M!vars) => PlacesIInv'
    BY PlacesStep
  <1>3. PlacesIInv /\ [M!Next]_(M!vars) => [M!LandsBetweenNeighbours]_(M!vars)
    BY PlacesStep
  <1>4. PlacesIInv => M!OnePlaceOnServer
    BY ArrangedIsOnePlace DEF PlacesIInv
  <1> QED BY <1>1, <1>2, <1>3, <1>4, PTL DEF M!Spec
=============================================================================
