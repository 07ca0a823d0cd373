------------------------- MODULE NotificationProofs -------------------------
(***************************************************************************)
(* Proofs about NotificationStream, for every number of tabs, connections, *)
(* notifications and faults: no cursor of the worker or of localStorage    *)
(* passes a notification that was neither shown nor given up, and no       *)
(* notification raises a badge twice.                                      *)
(*                                                                         *)
(* Both are promises to one wallet: the id in localStorage belongs to none *)
(* in particular, so a tab that connects for another wallet hands it over. *)
(***************************************************************************)
EXTENDS NotificationStream, FiniteSetTheorems, SequenceTheorems, TLAPS

\* The tabs connect for one wallet, with whatever tokens.
OneWallet == \A s, t \in Sessions : s.wallet = t.wallet

Mine == CHOOSE w \in Wallets : \A s \in Sessions : s.wallet = w

-----------------------------------------------------------------------------
(* The inductive invariant *)

Given == shown \cup passedOver

\* A cursor among n rows: an id that was handed out, or none yet.
Cursor(c, n) == c = None \/ c \in 0..n

\* What of the ids lies up to the cursor was given.
Covered(c, ids, given) == c # None => \A id \in ids : id <= c => id \in given

\* Whatever a frame leaves behind was given, or stands before it on the wire.
Unbroken(q, ids, given) ==
    \A i \in DOMAIN q : \A id \in ids :
        id < q[i] => id \in given \/ \E j \in DOMAIN q : j < i /\ q[j] = id

\* What is neither given nor on the wire is still to be fanned out.
Reaches(q, ids, given, last) ==
    \A id \in ids : id \in given \cup ToSet(q) \/ (last # None /\ id > last)

Requests == {Request(s, n) : s \in Sessions, n \in {None} \cup Nat}

IsOpen(c) == stream[c].phase = "open"

TypeInv ==
    /\ rows \in Seq(Wallets) /\ Cursor(lastSeenId, Len(rows))
    /\ stream \in [Streams -> {Idle, Opened} \cup Requests]
    /\ registry \in [Wallets -> SUBSET Streams]
    /\ wire \in [Streams -> Seq(Nat)]
    /\ session \in {None} \cup Sessions
    /\ timer \/ ports # {} => session \in Sessions
    /\ controller # None /\ controller \in Streams => stream[controller].phase # "idle"

\* The registry knows the open streams, and only they carry frames, of the wallet's ids.
RegistryInv ==
    /\ \A w \in Wallets : registry[w] = {c \in Streams : w = Mine /\ IsOpen(c)}
    /\ \A c \in Streams : ToSet(wire[c]) \subseteq RowsFor(Mine)
    /\ \A c \in Streams : ~IsOpen(c) => wire[c] = << >>

\* A request hands over a cursor that covers what lies before it, as the worker and
\* localStorage do.
CursorsInv ==
    /\ Cursor(lastEventId, Len(rows)) /\ Covered(lastEventId, RowsFor(Mine), Given)
    /\ Cursor(stored, Len(rows)) /\ Covered(stored, RowsFor(Mine), Given)
    /\ \A c \in Streams : stream[c].phase = "fetching" =>
          /\ Cursor(stream[c].since, Len(rows))
          /\ Covered(stream[c].since, RowsFor(Mine), Given)

WireInv ==
    \A c \in Streams : IsOpen(c) =>
        /\ Unbroken(wire[c], RowsFor(Mine), Given)
        /\ Reaches(wire[c], RowsFor(Mine), Given, lastSeenId)

StreamInv == TypeInv /\ RegistryInv /\ CursorsInv /\ WireInv

\* The worker's memory of what it has read.
BufferInv ==
    /\ buffer \in Seq(Nat)
    /\ ToSet(buffer) \subseteq RowsFor(Mine)
    /\ \A i, j \in DOMAIN buffer : buffer[i] = buffer[j] => i = j
    /\ shown \subseteq RowsFor(Mine)
    /\ unread \in Nat /\ badge \in [Tabs -> Nat]

Counted == Cardinality(shown \cap ToSet(buffer))

\* As long as the buffer forgets nothing, no badge counts beyond what was shown since
\* the worker started.
CountInv ==
    Cardinality(RowsFor(Mine)) <= MAX_BUFFER =>
        /\ \A t \in Tabs : badge[t] <= Counted
        /\ ports # {} => unread <= Counted

-----------------------------------------------------------------------------
(* Ids in ascending order *)

Below(S, x) == {y \in S : y < x}
Rank(S, x) == Cardinality(Below(S, x))

\* An element has as many below it as there are places before it.
LEMMA RankFacts ==
  ASSUME NEW S, S \subseteq Nat, IsFiniteSet(S)
  PROVE  /\ Cardinality(S) \in Nat
         /\ \A x \in S : Rank(S, x) \in Nat /\ Rank(S, x) + 1 \in 1..Cardinality(S)
         /\ \A x, y \in S : x < y => Rank(S, x) < Rank(S, y)
<1>1. Cardinality(S) \in Nat
  BY FS_CardinalityType
<1>2. ASSUME NEW x \in S
      PROVE  /\ IsFiniteSet(Below(S, x)) /\ Cardinality(Below(S, x)) \in Nat
             /\ Cardinality(Below(S, x)) + 1 \in 1..Cardinality(S)
  <2>1. x \notin Below(S, x) /\ Below(S, x) \subseteq S \ {x}
    BY DEF Below
  <2>2. IsFiniteSet(S \ {x}) /\ Cardinality(S \ {x}) = Cardinality(S) - 1
    BY FS_RemoveElement
  <2>3. IsFiniteSet(Below(S, x)) /\ Cardinality(Below(S, x)) <= Cardinality(S \ {x})
    BY <2>1, <2>2, FS_Subset
  <2>4. Cardinality(Below(S, x)) \in Nat
    BY <2>3, FS_CardinalityType
  <2>5. QED
    BY <1>1, <2>2, <2>3, <2>4
<1>3. ASSUME NEW x \in S, NEW y \in S, x < y
      PROVE  Cardinality(Below(S, x)) < Cardinality(Below(S, y))
  <2>1. x \notin Below(S, x) /\ Below(S, x) \cup {x} \subseteq Below(S, y)
    <3>1. \A z \in S : z \in Nat
      OBVIOUS
    <3>2. \A z \in S : z < x => z < y
      BY <1>3, <3>1
    <3>3. ~(x < x)
      BY <3>1
    <3>4. QED
      BY <1>3, <3>2, <3>3 DEF Below
  <2>2. Cardinality(Below(S, x) \cup {x}) = Cardinality(Below(S, x)) + 1
    BY <1>2, <2>1, FS_AddElement
  <2>3. Cardinality(Below(S, x) \cup {x}) <= Cardinality(Below(S, y))
    BY <1>2, <2>1, FS_Subset
  <2>4. QED
    BY <1>2, <2>2, <2>3
<1>4. QED
  BY <1>1, <1>2, <1>3 DEF Rank

\* A sequence of exactly the members of a set, each greater than the one before.
IsAscending(q, S) ==
    /\ q \in Seq(Nat) /\ ToSet(q) = S
    /\ \A i \in DOMAIN q : q[i] \in S
    /\ \A i, j \in DOMAIN q : i < j => q[i] < q[j]

\* The database hands out the ids of a query so.
LEMMA AscendingIs ==
  ASSUME NEW S, S \subseteq Nat, IsFiniteSet(S)
  PROVE  IsAscending(Ascending(S), S)
<1> DEFINE n == Cardinality(S)
           q == Ascending(S)
           r(x) == Rank(S, x)
<1>1. n \in Nat /\ DOMAIN q = 1..n
  BY RankFacts DEF Ascending
<1>2. /\ \A x \in S : x \in Nat /\ r(x) \in Nat /\ r(x) + 1 \in 1..n
      /\ \A x, y \in S : x < y => r(x) < r(y)
  BY RankFacts
<1>3. \A x, y \in S : r(x) = r(y) => x = y
  <2>1. SUFFICES ASSUME NEW x \in S, NEW y \in S, r(x) = r(y), x # y PROVE FALSE
    OBVIOUS
  <2> HIDE DEF r
  <2>2. x \in Nat /\ y \in Nat /\ r(x) \in Nat
    BY <1>2
  <2>3. x < y \/ y < x
    BY <2>1, <2>2
  <2>4. r(x) < r(y) \/ r(y) < r(x)
    BY <1>2, <2>3
  <2>5. QED
    BY <2>1, <2>2, <2>4
<1>4. ASSUME NEW k \in 1..n
      PROVE  \E x \in S : r(x) = k - 1
  <2> DEFINE T == (1..n) \ {k}
             f == [x \in S |-> r(x) + 1]
  <2> SUFFICES ASSUME \A x \in S : r(x) # k - 1 PROVE FALSE
    OBVIOUS
  <2> HIDE DEF r
  <2>1. \A x \in S : r(x) + 1 # k
    <3>1. k \in Int
      BY <1>1
    <3>2. QED
      BY <1>2, <3>1
  <2>2. f \in [S -> T]
    BY <1>2, <2>1
  <2>3. IsFiniteSet(1..n) /\ Cardinality(1..n) = n
    BY <1>1, FS_Interval
  <2>4. IsFiniteSet(T) /\ Cardinality(T) = n - 1
    BY <2>3, FS_RemoveElement
  <2>5. \A x, y \in S : f[x] = f[y] => x = y
    <3>1. SUFFICES ASSUME NEW x \in S, NEW y \in S, f[x] = f[y] PROVE x = y
      OBVIOUS
    <3>2. r(x) = r(y)
      BY <1>2, <3>1
    <3>3. QED
      BY <1>3, <3>2
  <2>6. Cardinality(T) < n
    BY <1>1, <2>4
  <2>7. QED
    <3> HIDE DEF T, f
    <3>1. \E x, y \in S : x # y /\ f[x] = f[y]
      BY <2>2, <2>4, <2>6, FS_PigeonHole
    <3>2. QED
      BY <2>5, <3>1
<1>5. \A k \in 1..n : q[k] = CHOOSE x \in S : r(x) = k - 1
  BY Zenon DEF Ascending, Below, Rank
<1>6. \A k \in 1..n : q[k] \in S /\ r(q[k]) = k - 1
  BY <1>4, <1>5, Zenon
<1> HIDE DEF n, q, r
<1>7. ASSUME NEW i \in 1..n, NEW j \in 1..n, i < j PROVE q[i] < q[j]
  <2>1. r(q[i]) = i - 1 /\ r(q[j]) = j - 1 /\ q[i] \in S /\ q[j] \in S
    BY <1>6
  <2>2. i \in Int /\ j \in Int
    BY <1>1
  <2>3. r(q[i]) < r(q[j])
    BY <1>7, <2>1, <2>2
  <2>4. q[i] \in Nat /\ q[j] \in Nat /\ r(q[i]) \in Nat /\ r(q[j]) \in Nat
    BY <1>2, <2>1
  <2>5. ~(q[j] < q[i])
    <3>1. q[j] < q[i] => r(q[j]) < r(q[i])
      BY <1>2, <2>1
    <3>2. QED
      BY <2>3, <2>4, <3>1
  <2>6. q[i] # q[j]
    BY <2>3, <2>4
  <2>7. QED
    BY <2>4, <2>5, <2>6
<1>8. ASSUME NEW x \in S PROVE x \in ToSet(q)
  <2> DEFINE k == r(x) + 1
  <2>1. k \in 1..n /\ k - 1 = r(x)
    BY <1>2
  <2> HIDE DEF k
  <2>2. q[k] \in S /\ r(q[k]) = r(x)
    BY <1>6, <2>1
  <2>3. q[k] = x
    BY <1>3, <2>2
  <2>4. QED
    BY <1>1, <2>1, <2>3 DEF ToSet
<1>9. q \in Seq(Nat)
  <2> DEFINE g(k) == CHOOSE id \in S : Cardinality({x \in S : x < id}) = k - 1
  <2>1. q = [k \in 1..n |-> g(k)]
    BY DEF q, Ascending, n
  <2> HIDE DEF g
  <2>2. \A k \in 1..n : q[k] = g(k) /\ g(k) \in Nat
    BY <1>2, <1>6, <2>1
  <2>3. QED
    BY <1>1, <2>1, <2>2, IsASeq
<1>10. IsAscending(q, S)
  BY <1>1, <1>6, <1>7, <1>8, <1>9 DEF IsAscending, ToSet
<1>11. QED
  BY <1>10 DEF q

-----------------------------------------------------------------------------
(* Cursors and wires *)

\* A row of the wallet is a row.
LEMMA RowFacts ==
  ASSUME rows \in Seq(Wallets)
  PROVE  /\ Len(rows) \in Nat /\ RowsFor(Mine) \subseteq 1..Len(rows)
         /\ RowsFor(Mine) \subseteq Nat /\ IsFiniteSet(RowsFor(Mine))
<1>1. Len(rows) \in Nat /\ RowsFor(Mine) \subseteq 1..Len(rows)
  BY DEF RowsFor, Ids
<1>2. IsFiniteSet(1..Len(rows))
  BY <1>1, FS_Interval
<1>3. QED
  BY <1>1, <1>2, FS_Subset

\* A cursor covers what it covered when more is given and later rows are written.
LEMMA CoverStays ==
  ASSUME NEW n \in Nat, NEW m \in Nat, n <= m, NEW c, Cursor(c, n),
         NEW ids, NEW more, NEW given, NEW after, given \subseteq after,
         \A id \in more : id \in ids \/ id > n, more \subseteq Nat,
         Covered(c, ids, given)
  PROVE  Cursor(c, m) /\ Covered(c, more, after)
<1>1. CASE c = None
  BY <1>1 DEF Cursor, Covered
<1>2. CASE c # None
  <2>1. c \in 0..n
    BY <1>2 DEF Cursor
  <2>2. \A id \in more : id <= c => id \in ids
    BY <2>1
  <2>3. QED
    BY <2>1, <2>2 DEF Cursor, Covered
<1>3. QED
  BY <1>1, <1>2

\* So does a wire.
LEMMA UnbrokenStays ==
  ASSUME NEW n \in Nat, NEW q \in Seq(Nat), NEW ids, NEW more, NEW given, NEW after,
         given \subseteq after, ToSet(q) \subseteq ids, ids \subseteq 0..n,
         \A id \in more : id \in ids \/ id > n, more \subseteq Nat,
         Unbroken(q, ids, given)
  PROVE  Unbroken(q, more, after)
<1> SUFFICES ASSUME NEW i \in DOMAIN q, NEW id \in more, id < q[i]
             PROVE  id \in after \/ \E j \in DOMAIN q : j < i /\ q[j] = id
  BY DEF Unbroken
<1>1. q[i] \in 0..n
  BY DEF ToSet
<1>2. id \in ids
  BY <1>1
<1>3. QED
  BY <1>2 DEF Unbroken

\* Reading the first frame leaves nothing behind it.
LEMMA ReadFrame ==
  ASSUME NEW q \in Seq(Nat), q # << >>, NEW ids, ids \subseteq Nat, NEW given,
         Unbroken(q, ids, given)
  PROVE  /\ Head(q) \in ToSet(q) /\ Tail(q) \in Seq(Nat)
         /\ ToSet(q) = {Head(q)} \cup ToSet(Tail(q))
         /\ Covered(Head(q), ids, given \cup {Head(q)})
         /\ Unbroken(Tail(q), ids, given \cup {Head(q)})
<1>1. /\ Len(q) \in Nat /\ Len(q) >= 1 /\ DOMAIN q = 1..Len(q) /\ Head(q) = q[1]
      /\ \A i \in DOMAIN q : q[i] \in Nat
  BY EmptySeq
<1>2. /\ Tail(q) \in Seq(Nat) /\ DOMAIN Tail(q) = 1..(Len(q) - 1)
      /\ \A i \in DOMAIN Tail(q) : Tail(q)[i] = q[i + 1]
  BY <1>1
<1>3. 1 \in DOMAIN q
  BY <1>1
<1>4. \A i \in DOMAIN Tail(q) : i + 1 \in DOMAIN q
  BY <1>1, <1>2
<1>5. \A j \in DOMAIN q : j = 1 \/ (j - 1 \in DOMAIN Tail(q) /\ q[j] = Tail(q)[j - 1])
  BY <1>1, <1>2
<1>6. ToSet(q) = {Head(q)} \cup ToSet(Tail(q))
  <2>1. \A x \in ToSet(q) : x = Head(q) \/ x \in ToSet(Tail(q))
    <3>1. SUFFICES ASSUME NEW j \in DOMAIN q
                   PROVE  q[j] = Head(q) \/ \E i \in DOMAIN Tail(q) : q[j] = Tail(q)[i]
      BY Zenon DEF ToSet
    <3>2. QED
      BY <1>1, <1>5
  <2>2. Head(q) \in ToSet(q)
    BY <1>1, <1>3 DEF ToSet
  <2>3. \A x \in ToSet(Tail(q)) : x \in ToSet(q)
    <3>1. SUFFICES ASSUME NEW i \in DOMAIN Tail(q)
                   PROVE  \E j \in DOMAIN q : Tail(q)[i] = q[j]
      BY Zenon DEF ToSet
    <3>2. QED
      BY <1>2, <1>4
  <2>4. QED
    BY <2>1, <2>2, <2>3
<1>7. \A id \in ids : id < q[1] => id \in given
  BY <1>1, <1>3 DEF Unbroken
<1>8. Covered(Head(q), ids, given \cup {Head(q)})
  BY <1>1, <1>3, <1>7 DEF Covered
<1>9. ASSUME NEW i \in DOMAIN Tail(q), NEW id \in ids, id < Tail(q)[i]
      PROVE  \/ id \in given \cup {Head(q)}
             \/ \E j \in DOMAIN Tail(q) : j < i /\ Tail(q)[j] = id
  <2>1. i + 1 \in DOMAIN q /\ id < q[i + 1] /\ i \in Nat
    BY <1>2, <1>4, <1>9
  <2>2. CASE id \in given
    BY <2>2
  <2>3. CASE id \notin given
    <3>1. PICK j \in DOMAIN q : j < i + 1 /\ q[j] = id
      BY <2>1, <2>3 DEF Unbroken
    <3>2. CASE j = 1
      BY <1>1, <3>1, <3>2
    <3>3. CASE j # 1
      <4>1. j - 1 \in DOMAIN Tail(q) /\ Tail(q)[j - 1] = id
        BY <1>5, <3>1, <3>3
      <4>2. j - 1 < i
        BY <1>1, <2>1, <3>1
      <4>3. QED
        BY <4>1, <4>2
    <3>4. QED
      BY <3>2, <3>3
  <2>4. QED
    BY <2>2, <2>3
<1>10. Unbroken(Tail(q), ids, given \cup {Head(q)})
  BY <1>9 DEF Unbroken
<1>11. QED
  BY <1>1, <1>2, <1>3, <1>6, <1>8, <1>10 DEF ToSet

\* Sending ids in ascending order leaves none out if all below each of them were given,
\* sent or are sent with it.
LEMMA SendFrames ==
  ASSUME NEW q \in Seq(Nat), NEW B, B \subseteq Nat, NEW b, IsAscending(b, B),
         NEW ids, ids \subseteq Nat, NEW given, Unbroken(q, ids, given),
         \A v \in B : \A id \in ids : id < v => id \in given \cup ToSet(q) \cup B
  PROVE  /\ q \o b \in Seq(Nat) /\ ToSet(q \o b) = ToSet(q) \cup B
         /\ Unbroken(q \o b, ids, given)
<1> DEFINE s == q \o b
           n == Len(q)
<1>1. /\ n \in Nat /\ DOMAIN q = 1..n /\ b \in Seq(Nat) /\ Len(b) \in Nat
      /\ DOMAIN b = 1..Len(b) /\ ToSet(b) = B
  BY DEF IsAscending
<1>2. /\ s \in Seq(Nat) /\ DOMAIN s = 1..(n + Len(b))
      /\ \A i \in DOMAIN q : s[i] = q[i]
      /\ \A i \in DOMAIN b : s[n + i] = b[i]
  BY <1>1
<1>3. \A i \in DOMAIN s : i \in DOMAIN q \/ (i - n \in DOMAIN b /\ s[i] = b[i - n] /\ i > n)
  <2>1. ASSUME NEW i \in DOMAIN s, i \notin DOMAIN q
        PROVE  i - n \in DOMAIN b /\ s[i] = b[i - n] /\ i > n
    <3>1. i - n \in DOMAIN b /\ i > n /\ n + (i - n) = i
      BY <1>1, <1>2, <2>1
    <3>2. QED
      BY <1>2, <3>1
  <2>2. QED
    BY <2>1
<1>4. \A i \in DOMAIN q : i \in DOMAIN s
  BY <1>1, <1>2
<1>5. \A i \in DOMAIN b : n + i \in DOMAIN s
  BY <1>1, <1>2
<1> HIDE DEF s
<1>6. ToSet(s) = ToSet(q) \cup B
  <2>1. ToSet(s) = ToSet(q) \cup ToSet(b)
    BY <1>2, <1>3, <1>4, <1>5 DEF ToSet
  <2>2. QED
    BY <1>1, <2>1
<1>7. ASSUME NEW i \in DOMAIN s, NEW id \in ids, id < s[i], id \notin given
      PROVE  \E j \in DOMAIN s : j < i /\ s[j] = id
  <2>1. CASE i \in DOMAIN q
    <3>1. PICK j \in DOMAIN q : j < i /\ q[j] = id
      BY <1>2, <1>7, <2>1 DEF Unbroken
    <3>2. QED
      BY <1>2, <1>4, <3>1
  <2>2. CASE i - n \in DOMAIN b /\ s[i] = b[i - n] /\ i > n
    <3>1. s[i] \in B
      BY <1>1, <2>2 DEF ToSet
    <3>2. CASE id \in ToSet(q)
      <4>1. PICK j \in DOMAIN q : q[j] = id
        BY <3>2 DEF ToSet
      <4>2. j < i
        BY <1>1, <1>2, <2>2, <4>1
      <4>3. QED
        BY <1>2, <1>4, <4>1, <4>2
    <3>3. CASE id \in B
      <4>1. PICK k \in DOMAIN b : b[k] = id
        BY <1>1, <3>3 DEF ToSet
      <4>2. b[k] < b[i - n] /\ b[k] \in Nat /\ b[i - n] \in Nat
        BY <1>1, <1>7, <2>2, <4>1
      <4>3. k < i - n
        <5>1. k \in Nat /\ i - n \in Nat
          BY <1>1, <2>2, <4>1
        <5>2. k # i - n
          BY <4>2
        <5>3. i - n < k => b[i - n] < b[k]
          BY <2>2, <4>1 DEF IsAscending
        <5>4. QED
          BY <4>2, <5>1, <5>2, <5>3
      <4>4. n + k \in DOMAIN s /\ s[n + k] = id /\ n + k < i
        BY <1>1, <1>2, <1>5, <4>1, <4>3, <2>2
      <4>5. QED
        BY <4>4
    <3>4. id \in given \cup ToSet(q) \cup B
      BY <1>7, <3>1
    <3>5. QED
      BY <1>7, <3>2, <3>3, <3>4
  <2>3. QED
    BY <1>3, <2>1, <2>2
<1>8. Unbroken(s, ids, given)
  BY <1>7 DEF Unbroken
<1>9. QED
  BY <1>2, <1>6, <1>8 DEF s

-----------------------------------------------------------------------------
(* Streams that close and streams that are asked for *)

\* Every session is the wallet's.
LEMMA MineIs ==
  ASSUME OneWallet, NEW s \in Sessions
  PROVE  s.wallet = Mine /\ Mine \in Wallets
<1>1. s.wallet \in Wallets /\ \A t \in Sessions : t.wallet = s.wallet
  BY StreamAssumption DEF OneWallet
<1>2. QED
  BY <1>1 DEF Mine

\* What the states of a connection say.
LEMMA Phases ==
  /\ Idle.phase = "idle" /\ Opened.phase = "open"
  /\ \A s, n : /\ Request(s, n).phase = "fetching"
               /\ Request(s, n).session = s /\ Request(s, n).since = n
BY DEF Idle, Opened, Request

\* A connection is idle, open, or asks for a session with a cursor.
LEMMA StreamStates ==
  ASSUME TypeInv, NEW c \in Streams
  PROVE  /\ stream[c].phase \in {"idle", "open", "fetching"}
         /\ stream[c].phase = "idle" <=> stream[c] = Idle
         /\ stream[c].phase = "fetching" =>
               \E s \in Sessions : \E n \in {None} \cup Nat : stream[c] = Request(s, n)
<1>1. stream[c] = Idle \/ stream[c] = Opened \/ stream[c] \in Requests
  BY DEF TypeInv
<1>2. stream[c] \in Requests =>
          \E s \in Sessions : \E n \in {None} \cup Nat : stream[c] = Request(s, n)
  BY DEF Requests
<1>3. QED
  BY <1>1, <1>2, Phases

\* A connection stays as it is, or drops its frames and is idle or asks anew, with a
\* cursor of the worker or of localStorage.
Moved(c) ==
    \/ stream'[c] = stream[c] /\ wire'[c] = wire[c]
    \/ /\ wire'[c] = << >>
       /\ \/ stream'[c] = Idle
          \/ \E s \in Sessions : \E n \in {stored, lastEventId} : stream'[c] = Request(s, n)

StreamsMove ==
    /\ rows' = rows /\ Given' = Given
    /\ DOMAIN stream' = Streams /\ stream' = [c \in Streams |-> stream'[c]]
    /\ DOMAIN wire' = Streams /\ wire' = [c \in Streams |-> wire'[c]]
    /\ \A c \in Streams : Moved(c)
    /\ registry' = [w \in Wallets |-> {c \in registry[w] : IsOpen(c)'}]
    /\ Cursor(lastSeenId', Len(rows))
    /\ lastSeenId' = lastSeenId \/ \A c \in Streams : ~IsOpen(c)'
    /\ stored' = stored /\ lastEventId' \in {lastEventId, stored, None}

\* A connection that is open after such a step was so before.
LEMMA OpenBefore ==
  ASSUME NEW c \in Streams, Moved(c), IsOpen(c)'
  PROVE  IsOpen(c) /\ stream'[c] = stream[c] /\ wire'[c] = wire[c]
<1>1. stream'[c].phase = "open"
  BY DEF IsOpen
<1>2. stream'[c] # Idle /\ \A s, n : stream'[c] # Request(s, n)
  BY <1>1, Phases
<1>3. QED
  BY <1>1, <1>2 DEF Moved, IsOpen

\* The session is there while a tab or a reconnect waits for it, and the worker's
\* controller is of a stream under way.
SessionInv ==
    /\ session \in {None} \cup Sessions
    /\ timer \/ ports # {} => session \in Sessions
    /\ controller # None /\ controller \in Streams => stream[controller].phase # "idle"

\* Such a step keeps the invariant.
LEMMA MoveKeeps ==
  ASSUME StreamInv, StreamsMove, SessionInv'
  PROVE  StreamInv'
<1>1. TypeInv /\ RegistryInv /\ CursorsInv /\ WireInv
  BY DEF StreamInv
<1>2. /\ rows' = rows /\ RowsFor(Mine)' = RowsFor(Mine) /\ Given' = Given
      /\ Len(rows) \in Nat
  BY <1>1, RowFacts DEF StreamsMove, RowsFor, Ids, TypeInv
<1>3. /\ Cursor(lastEventId, Len(rows)) /\ Cursor(stored, Len(rows))
      /\ Cursor(None, Len(rows)) /\ Covered(None, RowsFor(Mine), Given)
      /\ lastEventId \in {None} \cup Nat /\ stored \in {None} \cup Nat
  BY <1>1, <1>2 DEF CursorsInv, Cursor, Covered
<1>4. \A c \in Streams : stream'[c] \in {Idle, Opened} \cup Requests
  <2>1. SUFFICES ASSUME NEW c \in Streams PROVE stream'[c] \in {Idle, Opened} \cup Requests
    OBVIOUS
  <2>2. Moved(c)
    BY DEF StreamsMove
  <2>3. stream[c] \in {Idle, Opened} \cup Requests
    BY <1>1 DEF TypeInv
  <2>4. \A s \in Sessions : \A n \in {stored, lastEventId} : Request(s, n) \in Requests
    BY <1>3 DEF Requests
  <2>5. QED
    BY <2>2, <2>3, <2>4 DEF Moved
<1>5. \A c \in Streams : wire'[c] \in Seq(Nat)
  <2>1. << >> \in Seq(Nat)
    OBVIOUS
  <2>2. QED
    BY <1>1, <2>1 DEF StreamsMove, Moved, TypeInv
<1>6. TypeInv'
  <2>1. registry' \in [Wallets -> SUBSET Streams]
    <3>1. \A w \in Wallets : registry[w] \subseteq Streams
      BY <1>1 DEF TypeInv
    <3>2. QED
      BY <3>1 DEF StreamsMove
  <2>2. stream' \in [Streams -> {Idle, Opened} \cup Requests]
    BY <1>4 DEF StreamsMove
  <2>3. wire' \in [Streams -> Seq(Nat)]
    BY <1>5 DEF StreamsMove
  <2>4. rows' \in Seq(Wallets) /\ Cursor(lastSeenId', Len(rows'))
    BY <1>1, <1>2 DEF StreamsMove, TypeInv
  <2>5. QED
    BY <2>1, <2>2, <2>3, <2>4 DEF TypeInv, SessionInv, Requests
<1>7. RegistryInv'
  <2>1. \A w \in Wallets : registry'[w] = {c \in Streams : w = Mine /\ IsOpen(c)'}
    <3>1. SUFFICES ASSUME NEW w \in Wallets
                   PROVE  registry'[w] = {c \in Streams : w = Mine /\ IsOpen(c)'}
      OBVIOUS
    <3>2. registry'[w] = {c \in registry[w] : IsOpen(c)'}
      BY DEF StreamsMove
    <3>3. registry[w] = {c \in Streams : w = Mine /\ IsOpen(c)}
      BY <1>1 DEF RegistryInv
    <3>4. \A c \in Streams : IsOpen(c)' => IsOpen(c)
      BY OpenBefore DEF StreamsMove
    <3>5. QED
      BY <3>2, <3>3, <3>4
  <2>2. ASSUME NEW c \in Streams
        PROVE  ToSet(wire'[c]) \subseteq RowsFor(Mine) /\ (~IsOpen(c)' => wire'[c] = << >>)
    <3>1. CASE stream'[c] = stream[c] /\ wire'[c] = wire[c]
      BY <1>1, <3>1 DEF RegistryInv, IsOpen
    <3>2. CASE wire'[c] = << >>
      BY <3>2 DEF ToSet
    <3>3. QED
      BY <3>1, <3>2 DEF StreamsMove, Moved
  <2>3. QED
    BY <1>2, <2>1, <2>2 DEF RegistryInv
<1>8. CursorsInv'
  <2>1. ASSUME NEW c \in Streams, stream'[c].phase = "fetching"
        PROVE  Cursor(stream'[c].since, Len(rows)) /\ Covered(stream'[c].since, RowsFor(Mine), Given)
    <3>1. CASE stream'[c] = stream[c]
      BY <1>1, <2>1, <3>1 DEF CursorsInv
    <3>2. CASE stream'[c] = Idle
      BY <2>1, <3>2, Phases
    <3>3. ASSUME NEW s \in Sessions, NEW n \in {stored, lastEventId}, stream'[c] = Request(s, n)
          PROVE  /\ Cursor(stream'[c].since, Len(rows))
                 /\ Covered(stream'[c].since, RowsFor(Mine), Given)
      <4>1. stream'[c].since = n
        BY <3>3, Phases
      <4>2. QED
        BY <1>1, <3>3, <4>1 DEF CursorsInv
    <3>4. QED
      BY <3>1, <3>2, <3>3 DEF StreamsMove, Moved
  <2>2. /\ Cursor(lastEventId', Len(rows)) /\ Covered(lastEventId', RowsFor(Mine), Given)
        /\ Cursor(stored', Len(rows)) /\ Covered(stored', RowsFor(Mine), Given)
    BY <1>1, <1>3 DEF StreamsMove, CursorsInv
  <2>3. QED
    BY <1>2, <2>1, <2>2 DEF CursorsInv
<1>9. WireInv'
  <2>1. SUFFICES ASSUME NEW c \in Streams, IsOpen(c)'
                 PROVE  /\ Unbroken(wire'[c], RowsFor(Mine), Given)
                        /\ Reaches(wire'[c], RowsFor(Mine), Given, lastSeenId')
    BY <1>2 DEF WireInv
  <2>2. IsOpen(c) /\ wire'[c] = wire[c]
    BY <2>1, OpenBefore DEF StreamsMove
  <2>3. lastSeenId' = lastSeenId
    BY <2>1 DEF StreamsMove
  <2>4. QED
    BY <1>1, <2>2, <2>3 DEF WireInv
<1>10. QED
  BY <1>6, <1>7, <1>8, <1>9 DEF StreamInv

\* The session and the controller are right after every step.
LEMMA SessionKept ==
  ASSUME TypeInv, [Next]_vars
  PROVE  SessionInv'
<1>1. SessionInv
  BY DEF TypeInv, SessionInv
<1>2. stream \in [Streams -> {Idle, Opened} \cup Requests] /\ None \notin Streams
  BY HubAssumption DEF TypeInv
<1>3. ASSUME NEW w \in Wallets, NewRow(w) PROVE SessionInv'
  BY <1>1, <1>3 DEF NewRow, SessionInv, workerVars
<1>4. CASE Tick
  BY <1>1, <1>4 DEF Tick, SessionInv, workerVars
<1>5. ASSUME NEW c \in Streams, RequestArrives(c) PROVE SessionInv'
  BY <1>1, <1>2, <1>5, Phases DEF RequestArrives, SessionInv, workerVars
<1>6. ASSUME NEW cs, StreamsEnd(cs) PROVE SessionInv'
  <2>1. CASE cs = {}
    BY <1>1, <1>2, <1>6, <2>1 DEF StreamsEnd, SessionInv
  <2>2. CASE cs # {}
    BY <1>1, <1>6, <2>2 DEF StreamsEnd, SessionInv
  <2>3. QED
    BY <2>1, <2>2
<1>7. ASSUME NEW c \in Streams, HandleFrame(c) PROVE SessionInv'
  BY <1>1, <1>7 DEF HandleFrame, SessionInv
<1>8. CASE Reconnect
  BY <1>1, <1>2, <1>8, Phases DEF Reconnect, SessionInv
<1>9. ASSUME NEW t \in Tabs, Disconnect(t) PROVE SessionInv'
  <2>1. CASE ports' = {}
    BY <1>1, <1>9, <2>1 DEF Disconnect, SessionInv
  <2>2. CASE ports' # {}
    BY <1>1, <1>9, <2>2 DEF Disconnect, SessionInv
  <2>3. QED
    BY <2>1, <2>2
<1>10. ASSUME NEW t \in Tabs, NEW s \in Sessions, Open(t, s) PROVE SessionInv'
  <2>1. CASE Join(t, s)
    BY <1>1, <1>10, <2>1 DEF Open, Join, SessionInv
  <2>2. CASE Start(t, s)
    <3>1. CASE controller = None
      BY <1>2, <1>10, <2>2, <3>1, Phases DEF Open, Start, SessionInv
    <3>2. CASE controller # None
      BY <1>10, <2>2, <3>2 DEF Open, Start, SessionInv
    <3>3. QED
      BY <3>1, <3>2
  <2>3. QED
    BY <1>10, <2>1, <2>2 DEF Open
<1>11. CASE BrowserCloses
  BY <1>11 DEF BrowserCloses, SessionInv
<1>12. ASSUME NEW n, SetUnread(n) PROVE SessionInv'
  BY <1>1, <1>12 DEF SetUnread, SessionInv
<1>13. CASE UNCHANGED vars
  BY <1>1, <1>13 DEF vars, workerVars, SessionInv
<1>14. QED
  BY <1>3, <1>4, <1>5, <1>6, <1>7, <1>8, <1>9, <1>10, <1>11, <1>12, <1>13
     DEF Next, StreamFails, ServerRestarts, MarkRead, MarkAllRead

\* Closing connections and asking for new ones is such a step.
LEMMA Hangs ==
  ASSUME StreamInv, NEW cs, Hangup(cs),
         DOMAIN stream' = Streams, stream' = [c \in Streams |-> stream'[c]],
         \A c \in Streams : c \in cs => stream'[c] = Idle,
         \A c \in Streams : c \notin cs =>
            \/ stream'[c] = stream[c]
            \/ /\ stream[c] = Idle
               /\ \E s \in Sessions : \E n \in {stored, lastEventId} : stream'[c] = Request(s, n),
         rows' = rows, Given' = Given, stored' = stored,
         lastEventId' \in {lastEventId, stored, None},
         \/ lastSeenId' = lastSeenId
         \/ lastSeenId' = None /\ \A c \in Streams : c \notin cs => stream[c].phase = "idle"
                                                               /\ stream'[c] = stream[c]
  PROVE  StreamsMove
<1>1. TypeInv /\ RegistryInv
  BY DEF StreamInv
<1>2. /\ registry' = [w \in Wallets |-> registry[w] \ cs]
      /\ wire' = [c \in Streams |-> IF c \in cs THEN << >> ELSE wire[c]]
  BY DEF Hangup
<1>3. \A c \in Streams : Moved(c)
  <2>1. SUFFICES ASSUME NEW c \in Streams PROVE Moved(c)
    OBVIOUS
  <2>2. CASE c \in cs
    BY <1>2, <2>2 DEF Moved
  <2>3. CASE c \notin cs /\ stream'[c] = stream[c]
    BY <1>2, <2>3 DEF Moved
  <2>4. CASE /\ c \notin cs /\ stream[c] = Idle
             /\ \E s \in Sessions : \E n \in {stored, lastEventId} : stream'[c] = Request(s, n)
    <3>1. wire[c] = << >>
      BY <1>1, <2>4, Phases DEF RegistryInv, IsOpen
    <3>2. wire'[c] = << >>
      BY <1>2, <2>4, <3>1
    <3>3. QED
      BY <2>4, <3>2 DEF Moved
  <2>5. QED
    BY <2>2, <2>3, <2>4
<1>4. registry' = [w \in Wallets |-> {c \in registry[w] : IsOpen(c)'}]
  <2>1. SUFFICES ASSUME NEW w \in Wallets, NEW c \in registry[w]
                 PROVE  c \notin cs <=> IsOpen(c)'
    BY <1>2
  <2>2. c \in Streams /\ IsOpen(c)
    BY <1>1 DEF RegistryInv
  <2>3. c \in cs => ~IsOpen(c)'
    BY <2>2, Phases DEF IsOpen
  <2>4. c \notin cs => IsOpen(c)'
    <3>1. stream[c] # Idle
      BY <2>2, Phases DEF IsOpen
    <3>2. QED
      BY <2>2, <3>1 DEF IsOpen
  <2>5. QED
    BY <2>3, <2>4
<1>5. Cursor(lastSeenId', Len(rows))
  BY <1>1 DEF Cursor, TypeInv
<1>6. lastSeenId' = lastSeenId \/ \A c \in Streams : ~IsOpen(c)'
  BY Phases DEF IsOpen
<1>7. QED
  BY <1>2, <1>3, <1>4, <1>5, <1>6 DEF StreamsMove

\* The steps that write no row, answer no request and carry no frame.
LEMMA OtherStepsMove ==
  ASSUME StreamInv, [Next]_vars,
         ~(\E w \in Wallets : NewRow(w)), ~Tick,
         ~(\E c \in Streams : RequestArrives(c) \/ HandleFrame(c))
  PROVE  StreamsMove
<1>1. TypeInv /\ RegistryInv /\ SessionInv /\ None \notin Streams
  BY HubAssumption DEF StreamInv, TypeInv, SessionInv
<1>2. stream = [c \in Streams |-> stream[c]] /\ DOMAIN stream = Streams
  BY <1>1 DEF TypeInv
<1>3. UNCHANGED <<registry, wire>> => Hangup({})
  BY <1>1 DEF Hangup, TypeInv
<1>4. ASSUME UNCHANGED <<hubVars, stream, stored, shown>>,
             lastEventId' \in {lastEventId, stored, None}
      PROVE  StreamsMove
  <2>1. Given' = Given /\ Hangup({})
    BY <1>3, <1>4 DEF Given, hubVars
  <2>2. DOMAIN stream' = Streams /\ stream' = [c \in Streams |-> stream'[c]]
    BY <1>2, <1>4
  <2>3. rows' = rows /\ stored' = stored /\ lastSeenId' = lastSeenId
    BY <1>4 DEF hubVars
  <2>4. \A c \in Streams : stream'[c] = stream[c]
    BY <1>4
  <2>5. QED
    BY <1>4, <2>1, <2>2, <2>3, <2>4, Hangs
<1>5. ASSUME NEW cs, StreamsEnd(cs), lastSeenId' = lastSeenId \/ (cs = Live /\ lastSeenId' = None)
      PROVE  StreamsMove
  <2>1. /\ Hangup(cs) /\ rows' = rows /\ Given' = Given
        /\ stored' = stored /\ lastEventId' = lastEventId
    BY <1>5 DEF StreamsEnd, Given, tabVars
  <2>2. stream' = [c \in Streams |-> IF c \in cs THEN Idle ELSE stream[c]]
    BY <1>5 DEF StreamsEnd
  <2>3. /\ DOMAIN stream' = Streams /\ stream' = [c \in Streams |-> stream'[c]]
        /\ \A c \in Streams : c \in cs => stream'[c] = Idle
        /\ \A c \in Streams : c \notin cs => stream'[c] = stream[c]
    BY <2>2
  <2>4. cs = Live => \A c \in Streams : c \notin cs => stream[c].phase = "idle"
    BY DEF Live
  <2>5. QED
    BY <1>5, <2>1, <2>3, <2>4, Hangs
<1>6. CASE Reconnect
  <2>1. /\ Hangup({}) /\ rows' = rows /\ Given' = Given /\ lastSeenId' = lastSeenId
        /\ stored' = stored /\ lastEventId' = lastEventId
    BY <1>3, <1>6 DEF Reconnect, Given, tabVars, hubVars
  <2>2. stream' = [stream EXCEPT ![Unused] = Request(session, lastEventId)]
    BY <1>6 DEF Reconnect
  <2>3. session \in Sessions /\ stream[Unused] = Idle
    BY <1>1, <1>6 DEF Reconnect, SessionInv
  <2>4. DOMAIN stream' = Streams /\ stream' = [c \in Streams |-> stream'[c]]
    BY <1>2, <2>2
  <2>5. \A c \in Streams :
           \/ stream'[c] = stream[c]
           \/ /\ stream[c] = Idle
              /\ \E s \in Sessions : \E n \in {stored, lastEventId} : stream'[c] = Request(s, n)
    BY <1>2, <2>2, <2>3
  <2>6. QED
    BY <2>1, <2>4, <2>5, Hangs
<1>7. ASSUME NEW t \in Tabs, Disconnect(t) PROVE StreamsMove
  <2>1. rows' = rows /\ Given' = Given /\ stored' = stored /\ lastEventId' = lastEventId
        /\ lastSeenId' = lastSeenId
    BY <1>7 DEF Disconnect, Given, tabVars
  <2>2. CASE ports' = {}
    <3>1. /\ Hangup({controller})
          /\ stream' = [c \in Streams |-> IF c = controller THEN Idle ELSE stream[c]]
      BY <1>7, <2>2 DEF Disconnect
    <3>2. /\ DOMAIN stream' = Streams /\ stream' = [c \in Streams |-> stream'[c]]
          /\ \A c \in Streams : c \in {controller} => stream'[c] = Idle
          /\ \A c \in Streams : c \notin {controller} => stream'[c] = stream[c]
      BY <3>1
    <3>3. QED
      BY <2>1, <3>1, <3>2, Hangs
  <2>3. CASE ports' # {}
    BY <1>4, <1>7, <2>3 DEF Disconnect, hubVars, tabVars
  <2>4. QED
    BY <2>2, <2>3
<1>8. ASSUME NEW t \in Tabs, NEW s \in Sessions, Open(t, s) PROVE StreamsMove
  <2>1. lastEventId' = stored /\ UNCHANGED <<stored, shown>>
    BY <1>8 DEF Open, tabVars
  <2>2. CASE Join(t, s)
    BY <1>4, <2>1, <2>2 DEF Join
  <2>3. CASE Start(t, s)
    <3>1. PICK c \in {Unused} :
             /\ stream[c] = Idle
             /\ Hangup({controller})
             /\ stream' = [d \in Streams |->
                    CASE d = controller -> Idle
                      [] d = c -> Request(s, stored)
                      [] OTHER -> stream[d]]
      BY <2>3 DEF Start
    <3>2. controller \in Streams => controller # c
      BY <1>1, <3>1, Phases DEF SessionInv
    <3>3. \A d \in Streams :
             /\ d = controller => stream'[d] = Idle
             /\ d # controller /\ d = c => stream'[d] = Request(s, stored) /\ stream[d] = Idle
             /\ d # controller /\ d # c => stream'[d] = stream[d]
      BY <3>1, <3>2
    <3>4. DOMAIN stream' = Streams /\ stream' = [d \in Streams |-> stream'[d]]
      BY <3>1
    <3>5. \A d \in Streams : d \notin {controller} =>
             \/ stream'[d] = stream[d]
             \/ /\ stream[d] = Idle
                /\ \E r \in Sessions : \E n \in {stored, lastEventId} : stream'[d] = Request(r, n)
      BY <3>3
    <3>6. \A d \in Streams : d \in {controller} => stream'[d] = Idle
      BY <3>3
    <3>7. rows' = rows /\ Given' = Given /\ stored' = stored /\ lastSeenId' = lastSeenId
          /\ lastEventId' \in {lastEventId, stored, None} /\ Hangup({controller})
      BY <2>1, <2>3, <3>1 DEF Start, Given
    <3>8. QED
      BY <3>4, <3>5, <3>6, <3>7, Hangs
  <2>4. QED
    BY <1>8, <2>2, <2>3 DEF Open
<1>9. CASE BrowserCloses
  <2>1. /\ Hangup(Streams) /\ stream' = [c \in Streams |-> Idle] /\ rows' = rows
        /\ Given' = Given /\ stored' = stored /\ lastEventId' = None /\ lastSeenId' = lastSeenId
    BY <1>9 DEF BrowserCloses, Given
  <2>2. /\ DOMAIN stream' = Streams /\ stream' = [c \in Streams |-> stream'[c]]
        /\ \A c \in Streams : stream'[c] = Idle
    BY <2>1
  <2>3. QED
    BY <2>1, <2>2, Hangs
<1>10. ASSUME NEW n, SetUnread(n) PROVE StreamsMove
  BY <1>4, <1>10 DEF SetUnread
<1>11. CASE UNCHANGED vars
  BY <1>4, <1>11 DEF vars, workerVars, tabVars
<1>12. QED
  BY <1>5, <1>6, <1>7, <1>8, <1>9, <1>10, <1>11
     DEF Next, StreamFails, ServerRestarts, MarkRead, MarkAllRead

-----------------------------------------------------------------------------
(* Rows, ticks, answers and frames *)

\* A row that is written is still to be fanned out, or is given up.
LEMMA NewRowKeeps ==
  ASSUME StreamInv, SessionInv', NEW w \in Wallets, NewRow(w)
  PROVE  StreamInv'
<1> DEFINE n == Len(rows)
           ids == RowsFor(Mine)
           more == RowsFor(Mine)'
<1>1. TypeInv /\ RegistryInv /\ CursorsInv /\ WireInv
  BY DEF StreamInv
<1>2. /\ rows' = Append(rows, w) /\ rows \in Seq(Wallets) /\ n \in Nat
      /\ UNCHANGED <<lastSeenId, registry, wire, stream, lastEventId, stored, shown>>
  BY <1>1 DEF NewRow, Record, workerVars, tabVars, TypeInv
<1>3. /\ rows' \in Seq(Wallets) /\ Len(rows') = n + 1 /\ rows'[n + 1] = w
      /\ \A id \in 1..n : rows'[id] = rows[id]
  BY <1>2
<1>4. /\ ids \subseteq 1..n /\ ids \subseteq more /\ more \subseteq Nat
      /\ \A id \in more : id \in ids \/ (id = n + 1 /\ w = Mine)
  BY <1>2, <1>3 DEF RowsFor, Ids
<1>5. Given \subseteq Given'
  BY DEF NewRow, Record, Given, tabVars
<1>6. \A id \in more : id \in ids \/ id > n
  BY <1>2, <1>4
<1> HIDE DEF n, ids, more
<1>7. TypeInv'
  <2>1. Cursor(lastSeenId, n) => Cursor(lastSeenId, n + 1)
    BY <1>2 DEF Cursor
  <2>2. Cursor(lastSeenId', Len(rows'))
    BY <1>1, <1>2, <1>3, <2>1 DEF TypeInv, n
  <2>3. QED
    BY <1>1, <1>2, <1>3, <2>2 DEF TypeInv, SessionInv, Requests
<1>8. RegistryInv'
  BY <1>1, <1>2, <1>4 DEF RegistryInv, IsOpen, ids, more
<1>9. ASSUME NEW c, Cursor(c, n), Covered(c, ids, Given)
      PROVE  Cursor(c, n + 1) /\ Covered(c, more, Given')
  <2>1. n + 1 \in Nat /\ n <= n + 1
    BY <1>2
  <2>2. QED
    BY <1>2, <1>4, <1>5, <1>6, <1>9, <2>1, CoverStays
<1>10. CursorsInv'
  <2>1. /\ Cursor(lastEventId, n + 1) /\ Covered(lastEventId, more, Given')
        /\ Cursor(stored, n + 1) /\ Covered(stored, more, Given')
        /\ \A c \in Streams : stream[c].phase = "fetching" =>
              Cursor(stream[c].since, n + 1) /\ Covered(stream[c].since, more, Given')
    BY <1>1, <1>9 DEF CursorsInv, n, ids
  <2>2. QED
    BY <1>2, <1>3, <2>1 DEF CursorsInv, more
<1>11. WireInv'
  <2>1. SUFFICES ASSUME NEW c \in Streams, IsOpen(c)
                 PROVE  /\ Unbroken(wire[c], more, Given')
                        /\ Reaches(wire[c], more, Given', lastSeenId)
    BY <1>2 DEF WireInv, IsOpen, more
  <2>2. /\ wire[c] \in Seq(Nat) /\ ToSet(wire[c]) \subseteq ids
        /\ Unbroken(wire[c], ids, Given) /\ Reaches(wire[c], ids, Given, lastSeenId)
    BY <1>1, <2>1 DEF TypeInv, RegistryInv, WireInv, ids
  <2>3. Unbroken(wire[c], more, Given')
    <3>1. ids \subseteq 0..n
      BY <1>2, <1>4
    <3>2. QED
      BY <1>2, <1>4, <1>5, <1>6, <2>2, <3>1, UnbrokenStays
  <2>4. w = Mine => n + 1 \in Given' \/ (lastSeenId # None /\ n + 1 > lastSeenId)
    <3>1. CASE lastSeenId = None
      <4>1. w = Mine => registry[w] # {}
        BY <1>1, <2>1 DEF RegistryInv
      <4>2. QED
        BY <3>1, <4>1 DEF NewRow, Record, Given, n
    <3>2. CASE lastSeenId # None
      BY <1>1, <1>2, <3>2 DEF TypeInv, Cursor, n
    <3>3. QED
      BY <3>1, <3>2
  <2>5. Reaches(wire[c], more, Given', lastSeenId)
    BY <1>4, <1>5, <2>2, <2>4 DEF Reaches
  <2>6. QED
    BY <2>3, <2>5
<1>12. QED
  BY <1>7, <1>8, <1>10, <1>11 DEF StreamInv

\* A tick sends the rows between its cursors to every open stream of the wallet.
LEMMA TickKeeps ==
  ASSUME StreamInv, SessionInv', Tick
  PROVE  StreamInv'
<1> DEFINE n == Len(rows)
           ids == RowsFor(Mine)
           sent(c) == {id \in Batch : c \in registry[rows[id]]}
<1>1. TypeInv /\ RegistryInv /\ CursorsInv /\ WireInv
  BY DEF StreamInv
<1>2. /\ UNCHANGED <<rows, registry, passedOver, stream, lastEventId, stored, shown>>
      /\ wire' = [c \in Streams |-> wire[c] \o Ascending(sent(c))]
      /\ lastSeenId' = LastOfBatch
  BY DEF Tick, FanoutTick, workerVars, tabVars
<1>3. Given' = Given /\ ids' = ids
  BY <1>2 DEF Given, RowsFor, Ids
<1>4. /\ n \in Nat /\ ids \subseteq 1..n /\ ids \subseteq Nat
      /\ \A id \in 1..n : rows[id] \in Wallets
  BY <1>1, RowFacts DEF TypeInv
<1>5. /\ FirstUnseen \in 0..n /\ LastOfBatch \in 0..n
      /\ Batch \subseteq 1..n /\ LastOfBatch \in Nat
      /\ \A id \in 1..n : id \in Batch <=> (id > FirstUnseen /\ id <= LastOfBatch)
  BY <1>1, <1>4, HubAssumption DEF TypeInv, Cursor, FirstUnseen, LastOfBatch, Batch
<1>6. lastSeenId = None => Batch = {}
  BY <1>4, HubAssumption DEF FirstUnseen, LastOfBatch, Batch
<1>7. ASSUME NEW c \in Streams
      PROVE  /\ IsAscending(Ascending(sent(c)), sent(c)) /\ sent(c) \subseteq Nat
             /\ sent(c) \subseteq ids
             /\ IsOpen(c) => sent(c) = {id \in ids : id \in Batch}
             /\ ~IsOpen(c) => sent(c) = {}
  <2>1. \A id \in Batch : rows[id] \in Wallets /\ id \in 1..n
    BY <1>4, <1>5
  <2>2. \A id \in Batch : c \in registry[rows[id]] <=> (rows[id] = Mine /\ IsOpen(c))
    BY <1>1, <2>1 DEF RegistryInv
  <2>3. \A id : id \in ids <=> id \in 1..n /\ rows[id] = Mine
    BY DEF RowsFor, Ids
  <2>4. /\ IsOpen(c) => sent(c) = {id \in ids : id \in Batch}
        /\ ~IsOpen(c) => sent(c) = {}
        /\ sent(c) \subseteq ids
    BY <2>1, <2>2, <2>3
  <2>5. IsFiniteSet(sent(c)) /\ sent(c) \subseteq Nat
    <3>1. IsFiniteSet(ids)
      BY <1>1, RowFacts DEF TypeInv
    <3>2. QED
      BY <1>4, <2>4, <3>1, FS_Subset
  <2> HIDE DEF sent
  <2>6. IsAscending(Ascending(sent(c)), sent(c))
    BY <2>5, AscendingIs
  <2>7. QED
    BY <2>4, <2>5, <2>6
<1> HIDE DEF n, ids, sent
<1>8. ASSUME NEW c \in Streams, IsOpen(c)
      PROVE  /\ wire'[c] \in Seq(Nat) /\ ToSet(wire'[c]) \subseteq ids
             /\ Unbroken(wire'[c], ids, Given)
             /\ Reaches(wire'[c], ids, Given, lastSeenId')
  <2> DEFINE q == wire[c]
             b == Ascending(sent(c))
             B == sent(c)
  <2>1. /\ q \in Seq(Nat) /\ ToSet(q) \subseteq ids
        /\ Unbroken(q, ids, Given) /\ Reaches(q, ids, Given, lastSeenId)
    BY <1>1, <1>8 DEF TypeInv, RegistryInv, WireInv, ids
  <2>2. /\ IsAscending(b, B) /\ B \subseteq Nat /\ B = {id \in ids : id \in Batch}
        /\ wire'[c] = q \o b
    BY <1>2, <1>7, <1>8
  <2>3. ASSUME NEW id \in ids, id \notin Given \cup ToSet(q)
        PROVE  id \in Nat /\ (id <= LastOfBatch => id \in B)
    <3>1. id \in 1..n /\ lastSeenId # None /\ id > lastSeenId
      BY <1>4, <2>1, <2>3 DEF Reaches
    <3>2. id > FirstUnseen
      BY <3>1 DEF FirstUnseen
    <3>3. id <= LastOfBatch => id \in Batch
      BY <1>5, <3>1, <3>2
    <3>4. QED
      BY <2>2, <2>3, <3>1, <3>3
  <2> HIDE DEF q, b, B
  <2>4. ASSUME NEW v \in B, NEW id \in ids, id < v PROVE id \in Given \cup ToSet(q) \cup B
    <3>1. v \in Nat /\ v <= LastOfBatch /\ id \in Nat
      BY <1>4, <1>5, <2>2
    <3>2. id <= LastOfBatch
      BY <1>5, <2>4, <3>1
    <3>3. QED
      BY <2>3, <3>2
  <2>5. /\ q \o b \in Seq(Nat) /\ ToSet(q \o b) = ToSet(q) \cup B
        /\ Unbroken(q \o b, ids, Given)
    BY <1>4, <2>1, <2>2, <2>4, SendFrames
  <2>6. Reaches(q \o b, ids, Given, lastSeenId')
    <3>1. lastSeenId' # None /\ lastSeenId' \in Nat /\ lastSeenId' = LastOfBatch
      BY <1>2, <1>5, HubAssumption
    <3>2. QED
      BY <2>3, <2>5, <3>1 DEF Reaches
  <2>7. QED
    BY <2>1, <2>2, <2>5, <2>6
<1>9. ASSUME NEW c \in Streams, ~IsOpen(c) PROVE wire'[c] = << >>
  <2>1. wire[c] = << >> /\ sent(c) = {} /\ IsAscending(Ascending(sent(c)), sent(c))
    BY <1>1, <1>7, <1>9 DEF RegistryInv
  <2>2. Ascending(sent(c)) \in Seq(Nat) /\ ToSet(Ascending(sent(c))) = {}
    BY <2>1 DEF IsAscending
  <2>3. Ascending(sent(c)) = << >>
    <3>1. \A s \in Seq(Nat) : ToSet(s) = {} => s = << >>
      <4>1. SUFFICES ASSUME NEW s \in Seq(Nat), s # << >> PROVE ToSet(s) # {}
        OBVIOUS
      <4>2. s[1] \in ToSet(s)
        BY <4>1, EmptySeq DEF ToSet
      <4>3. QED
        BY <4>2
    <3>2. QED
      BY <2>2, <3>1
  <2>4. \A s \in Seq(Nat) : s \o << >> = s
    OBVIOUS
  <2>5. wire'[c] = wire[c] \o Ascending(sent(c))
    BY <1>2
  <2>6. wire'[c] = << >> \o << >>
    BY <2>1, <2>3, <2>5, Zenon
  <2>7. << >> \in Seq(Nat)
    OBVIOUS
  <2>8. QED
    BY <2>4, <2>6, <2>7
<1>10. TypeInv'
  <2>1. wire' \in [Streams -> Seq(Nat)]
    <3>0. << >> \in Seq(Nat)
      OBVIOUS
    <3>1. \A c \in Streams : wire'[c] \in Seq(Nat)
      BY <1>8, <1>9, <3>0
    <3>2. QED
      BY <1>2, <3>1
  <2>2. Cursor(lastSeenId', Len(rows'))
    BY <1>2, <1>5 DEF Cursor, n
  <2>3. QED
    BY <1>1, <1>2, <2>1, <2>2 DEF TypeInv, SessionInv, Requests
<1>11. RegistryInv'
  <2>1. \A c \in Streams : IsOpen(c)' <=> IsOpen(c)
    BY <1>2 DEF IsOpen
  <2>2. \A c \in Streams : ToSet(wire'[c]) \subseteq ids
    BY <1>8, <1>9 DEF ToSet
  <2>3. QED
    BY <1>1, <1>2, <1>3, <1>9, <2>1, <2>2 DEF RegistryInv, ids
<1>12. CursorsInv'
  BY <1>1, <1>2, <1>3 DEF CursorsInv, ids
<1>13. WireInv'
  BY <1>2, <1>3, <1>8 DEF WireInv, IsOpen, ids
<1>14. QED
  BY <1>10, <1>11, <1>12, <1>13 DEF StreamInv

\* An answered request sends what its cursor does not cover; one without a cursor gives
\* up everything written so far.
LEMMA AnswerKeeps ==
  ASSUME OneWallet, StreamInv, SessionInv', NEW c \in Streams, RequestArrives(c)
  PROVE  StreamInv'
<1> DEFINE n == Len(rows)
           ids == RowsFor(Mine)
           since == stream[c].since
           later == {id \in RowsFor(Mine) : id > since}
<1>1. TypeInv /\ RegistryInv /\ CursorsInv /\ WireInv
  BY DEF StreamInv
<1>2. /\ stream[c].phase = "fetching" /\ stream' = [stream EXCEPT ![c] = Opened]
      /\ UNCHANGED <<rows, lastSeenId, lastEventId, stored, shown>>
      /\ RegisterStream(c, stream[c].session.wallet, since)
  BY DEF RequestArrives, RegisterStream, workerVars, tabVars
<1>3. stream[c].session.wallet = Mine /\ Mine \in Wallets
  <2>1. PICK s \in Sessions : \E m \in {None} \cup Nat : stream[c] = Request(s, m)
    BY <1>1, <1>2, StreamStates
  <2>2. QED
    BY <2>1, Phases, MineIs
<1>4. /\ wire' = [wire EXCEPT ![c] = Missed(Mine, since)]
      /\ registry' = [registry EXCEPT ![Mine] = @ \cup {c}]
      /\ passedOver' = IF since = None THEN passedOver \cup ids ELSE passedOver
  BY <1>2, <1>3, Zenon DEF RegisterStream
<1>5. ids' = ids /\ Given \subseteq Given'
  BY <1>2, <1>4 DEF Given, RowsFor, Ids
<1>6. /\ n \in Nat /\ ids \subseteq 1..n /\ ids \subseteq Nat /\ IsFiniteSet(ids)
  BY <1>1, RowFacts DEF TypeInv
<1>7. Cursor(since, n) /\ Covered(since, ids, Given)
  BY <1>1, <1>2 DEF CursorsInv
<1>8. \A d \in Streams : /\ d # c => stream'[d] = stream[d] /\ wire'[d] = wire[d]
                         /\ IsOpen(d)' <=> IsOpen(d) \/ d = c
  BY <1>1, <1>2, <1>4, Phases DEF TypeInv, IsOpen
<1>9. /\ wire'[c] \in Seq(Nat) /\ ToSet(wire'[c]) \subseteq ids
      /\ Unbroken(wire'[c], ids, Given') /\ Reaches(wire'[c], ids, Given', lastSeenId)
  <2>1. wire'[c] = Missed(Mine, since)
    BY <1>1, <1>4 DEF TypeInv
  <2>2. CASE since = None
    <3>1. wire'[c] = << >> /\ ids \subseteq Given'
      BY <1>4, <2>1, <2>2 DEF Missed, Given
    <3>2. DOMAIN wire'[c] = {} /\ wire'[c] \in Seq(Nat)
      BY <3>1
    <3>3. QED
      BY <3>1, <3>2 DEF Unbroken, Reaches, ToSet
  <2>3. CASE since # None
    <3>1. later \subseteq Nat /\ IsFiniteSet(later) /\ later \subseteq ids
      BY <1>6, FS_Subset
    <3>2. IsAscending(wire'[c], later)
      <4>1. wire'[c] = Ascending(later)
        BY <2>1, <2>3 DEF Missed
      <4>2. QED
        BY <3>1, <4>1, AscendingIs
    <3>3. since \in Nat /\ Given' = Given
      BY <1>2, <1>4, <1>7, <2>3 DEF Cursor, Given
    <3> HIDE DEF ids, since
    <3>4. \A id \in ids : id \in Given \/ id \in later
      BY <1>6, <1>7, <2>3, <3>3 DEF Covered, ids
    <3>5. wire'[c] \in Seq(Nat) /\ ToSet(wire'[c]) = later
      BY <3>2 DEF IsAscending
    <3>6. Unbroken(wire'[c], ids, Given)
      <4>1. ASSUME NEW i \in DOMAIN wire'[c], NEW id \in ids, id < wire'[c][i], id \in later
            PROVE  \E j \in DOMAIN wire'[c] : j < i /\ wire'[c][j] = id
        <5>1. PICK j \in DOMAIN wire'[c] : wire'[c][j] = id
          BY <3>5, <4>1 DEF ToSet
        <5>2. /\ i \in Nat /\ j \in Nat /\ wire'[c][i] \in Nat /\ id \in Nat
              /\ i < j => wire'[c][i] < wire'[c][j]
          BY <3>2, <4>1, <5>1 DEF IsAscending
        <5>3. j < i
          BY <4>1, <5>1, <5>2
        <5>4. QED
          BY <5>1, <5>3
      <4>2. QED
        BY <3>4, <4>1 DEF Unbroken
    <3>7. Reaches(wire'[c], ids, Given, lastSeenId)
      BY <3>4, <3>5 DEF Reaches
    <3>8. QED
      BY <3>1, <3>3, <3>5, <3>6, <3>7
  <2>4. QED
    BY <2>2, <2>3
<1> HIDE DEF n, ids, since
<1>10. ASSUME NEW d \in Streams, d # c, IsOpen(d)
       PROVE  Unbroken(wire[d], ids, Given') /\ Reaches(wire[d], ids, Given', lastSeenId)
  BY <1>1, <1>5, <1>10 DEF WireInv, Unbroken, Reaches, ids
<1>11. TypeInv'
  <2>1. wire' \in [Streams -> Seq(Nat)]
    <3>1. \A d \in Streams : wire'[d] \in Seq(Nat)
      BY <1>1, <1>8, <1>9 DEF TypeInv
    <3>2. QED
      BY <1>1, <1>4, <3>1 DEF TypeInv
  <2>2. stream' \in [Streams -> {Idle, Opened} \cup Requests]
    BY <1>1, <1>2 DEF TypeInv
  <2>3. registry' \in [Wallets -> SUBSET Streams]
    BY <1>1, <1>4 DEF TypeInv
  <2>4. QED
    BY <1>1, <1>2, <2>1, <2>2, <2>3 DEF TypeInv, SessionInv, Requests
<1>12. RegistryInv'
  <2>1. \A w \in Wallets : registry'[w] = {d \in Streams : w = Mine /\ IsOpen(d)'}
    <3>1. SUFFICES ASSUME NEW w \in Wallets
                   PROVE  registry'[w] = {d \in Streams : w = Mine /\ IsOpen(d)'}
      OBVIOUS
    <3>2. registry'[w] = IF w = Mine THEN registry[w] \cup {c} ELSE registry[w]
      BY <1>1, <1>4 DEF TypeInv
    <3>3. registry[w] = {d \in Streams : w = Mine /\ IsOpen(d)}
      BY <1>1 DEF RegistryInv
    <3>4. QED
      BY <1>8, <3>2, <3>3
  <2>2. \A d \in Streams : ToSet(wire'[d]) \subseteq ids /\ (~IsOpen(d)' => wire'[d] = << >>)
    BY <1>1, <1>8, <1>9 DEF RegistryInv, ids
  <2>3. QED
    BY <1>5, <2>1, <2>2 DEF RegistryInv, ids
<1>13. CursorsInv'
  <2>1. \A x : Covered(x, ids, Given) => Covered(x, ids, Given')
    BY <1>5 DEF Covered
  <2>2. \A d \in Streams : stream'[d].phase = "fetching" => stream'[d] = stream[d]
    BY <1>2, <1>1, Phases DEF TypeInv
  <2>3. QED
    BY <1>1, <1>2, <1>5, <2>1, <2>2 DEF CursorsInv, ids
<1>14. WireInv'
  <2>1. SUFFICES ASSUME NEW d \in Streams, IsOpen(d)'
                 PROVE  Unbroken(wire'[d], ids, Given') /\ Reaches(wire'[d], ids, Given', lastSeenId)
    BY <1>2, <1>5 DEF WireInv, ids
  <2>2. QED
    BY <1>8, <1>9, <1>10, <2>1
<1>15. QED
  BY <1>11, <1>12, <1>13, <1>14 DEF StreamInv

\* A frame that is read leaves nothing behind it, on its wire or before the cursor it
\* becomes.
LEMMA FrameKeeps ==
  ASSUME StreamInv, SessionInv', NEW c \in Streams, HandleFrame(c)
  PROVE  StreamInv'
<1> DEFINE n == Len(rows)
           ids == RowsFor(Mine)
           q == wire[c]
           id == Head(wire[c])
<1>1. TypeInv /\ RegistryInv /\ CursorsInv /\ WireInv
  BY DEF StreamInv
<1>2. /\ UNCHANGED <<rows, lastSeenId, registry, stream>> /\ IsOpen(c) /\ q # << >>
      /\ wire' = [wire EXCEPT ![c] = Tail(@)]
      /\ lastEventId' = id /\ stored' \in {id, stored}
  BY DEF HandleFrame, IsOpen
<1>3. ids' = ids /\ Given' = Given \cup {id}
  <2>1. ids' = ids
    BY <1>2 DEF RowsFor, Ids
  <2>2. CASE ports = {}
    BY <2>1, <2>2 DEF HandleFrame, Given
  <2>3. CASE ports # {}
    BY <2>1, <2>3 DEF HandleFrame, Given
  <2>4. QED
    BY <2>2, <2>3
<1>4. n \in Nat /\ ids \subseteq 1..n /\ ids \subseteq Nat
  BY <1>1, RowFacts DEF TypeInv
<1>5. /\ q \in Seq(Nat) /\ ToSet(q) \subseteq ids
      /\ Unbroken(q, ids, Given) /\ Reaches(q, ids, Given, lastSeenId)
  BY <1>1, <1>2 DEF TypeInv, RegistryInv, WireInv
<1> HIDE DEF n, ids, q, id
<1>6. /\ id \in ToSet(q) /\ Tail(q) \in Seq(Nat) /\ ToSet(q) = {id} \cup ToSet(Tail(q))
      /\ Covered(id, ids, Given') /\ Unbroken(Tail(q), ids, Given')
  BY <1>2, <1>3, <1>4, <1>5, ReadFrame DEF id, q
<1>7. Reaches(Tail(q), ids, Given', lastSeenId)
  BY <1>3, <1>5, <1>6 DEF Reaches
<1>8. \A d \in Streams : wire'[d] = IF d = c THEN Tail(q) ELSE wire[d]
  BY <1>1, <1>2 DEF TypeInv, q
<1>9. Cursor(id, n)
  <2>1. id \in 1..n
    BY <1>4, <1>5, <1>6
  <2>2. QED
    BY <1>4, <2>1 DEF Cursor
<1>10. TypeInv'
  <2>1. wire' \in [Streams -> Seq(Nat)]
    <3>1. \A d \in Streams : wire'[d] \in Seq(Nat)
      BY <1>1, <1>6, <1>8 DEF TypeInv
    <3>2. QED
      BY <1>1, <1>2, <3>1 DEF TypeInv
  <2>2. QED
    BY <1>1, <1>2, <2>1 DEF TypeInv, SessionInv, Requests
<1>11. RegistryInv'
  <2>1. \A d \in Streams : ToSet(wire'[d]) \subseteq ids /\ (~IsOpen(d) => wire'[d] = << >>)
    BY <1>1, <1>2, <1>5, <1>6, <1>8 DEF RegistryInv, ids
  <2>2. QED
    BY <1>1, <1>2, <1>3, <2>1 DEF RegistryInv, IsOpen, ids
<1>12. CursorsInv'
  <2>1. \A x : Covered(x, ids, Given) => Covered(x, ids, Given')
    BY <1>3 DEF Covered
  <2>2. QED
    BY <1>1, <1>2, <1>3, <1>6, <1>9, <2>1 DEF CursorsInv, ids, n
<1>13. WireInv'
  <2>1. SUFFICES ASSUME NEW d \in Streams, IsOpen(d)
                 PROVE  Unbroken(wire'[d], ids, Given') /\ Reaches(wire'[d], ids, Given', lastSeenId)
    BY <1>2, <1>3 DEF WireInv, IsOpen, ids
  <2>2. CASE d = c
    BY <1>6, <1>7, <1>8, <2>2
  <2>3. CASE d # c
    BY <1>1, <1>3, <1>8, <2>1, <2>3 DEF WireInv, Unbroken, Reaches, ids
  <2>4. QED
    BY <2>2, <2>3
<1>14. QED
  BY <1>10, <1>11, <1>12, <1>13 DEF StreamInv

-----------------------------------------------------------------------------
(* No cursor passes a notification *)

\* Nothing is there to be passed when the worker first starts.
LEMMA InitStream ==
  ASSUME Init
  PROVE  StreamInv
<1>1. /\ rows = << >> /\ lastSeenId = None /\ registry = [w \in Wallets |-> {}]
      /\ wire = [c \in Streams |-> << >>] /\ stream = [c \in Streams |-> Idle]
      /\ session = None /\ lastEventId = None /\ stored = None /\ controller = None
      /\ ports = {} /\ timer = FALSE
  BY DEF Init, HubInit
<1>2. rows \in Seq(Wallets) /\ << >> \in Seq(Nat) /\ RowsFor(Mine) = {}
  BY <1>1 DEF RowsFor, Ids
<1>3. TypeInv
  BY <1>1, <1>2 DEF TypeInv, Cursor
<1>4. \A c \in Streams : stream[c].phase = "idle" /\ ~IsOpen(c)
  BY <1>1, Phases DEF IsOpen
<1>5. RegistryInv
  BY <1>1, <1>4 DEF RegistryInv, ToSet
<1>6. CursorsInv
  BY <1>1, <1>4 DEF CursorsInv, Cursor, Covered
<1>7. WireInv
  BY <1>4 DEF WireInv
<1>8. QED
  BY <1>3, <1>5, <1>6, <1>7 DEF StreamInv

\* The invariant holds after every step.
LEMMA StepStream ==
  ASSUME OneWallet, StreamInv, [Next]_vars
  PROVE  StreamInv'
<1>1. SessionInv'
  BY SessionKept DEF StreamInv
<1>2. CASE \E w \in Wallets : NewRow(w)
  BY <1>1, <1>2, NewRowKeeps
<1>3. CASE Tick
  BY <1>1, <1>3, TickKeeps
<1>4. CASE \E c \in Streams : RequestArrives(c) \/ HandleFrame(c)
  BY <1>1, <1>4, AnswerKeeps, FrameKeeps
<1>5. CASE /\ ~(\E w \in Wallets : NewRow(w)) /\ ~Tick
           /\ ~(\E c \in Streams : RequestArrives(c) \/ HandleFrame(c))
  BY <1>1, <1>5, OtherStepsMove, MoveKeeps
<1>6. QED
  BY <1>2, <1>3, <1>4, <1>5

\* NothingPassedBy (NotificationStream): the cursor of the worker and the id in
\* localStorage, which later connections resume from, never stand past a notification
\* of the wallet that was neither shown nor given up, as long as the tabs connect for
\* one wallet.
THEOREM NoCursorPasses ==
  ASSUME OneWallet
  PROVE  FairSpec => []NothingPassedBy
<1>1. Init => StreamInv
  BY InitStream
<1>2. StreamInv /\ [Next]_vars => StreamInv'
  BY StepStream
<1>3. StreamInv => NothingPassedBy
  <2>1. SUFFICES ASSUME StreamInv, session # None, NEW id \in RowsFor(session.wallet),
                        id \notin shown \cup passedOver
                 PROVE  /\ stored = None \/ id > stored
                        /\ ports = {} \/ lastEventId = None \/ id > lastEventId
    BY DEF NothingPassedBy
  <2>2. session \in Sessions /\ rows \in Seq(Wallets) /\ CursorsInv
    BY <2>1 DEF StreamInv, TypeInv
  <2>3. id \in RowsFor(Mine) /\ id \in Nat
    BY <2>1, <2>2, MineIs, RowFacts
  <2>4. \A x : Cursor(x, Len(rows)) /\ Covered(x, RowsFor(Mine), Given) => x = None \/ id > x
    BY <2>1, <2>2, <2>3, RowFacts DEF Cursor, Covered, Given
  <2>5. QED
    BY <2>2, <2>4 DEF CursorsInv
<1>4. QED
  BY <1>1, <1>2, <1>3, PTL DEF FairSpec

-----------------------------------------------------------------------------
(* No notification is counted twice *)

\* A sequence without repetition is as long as its set is large.
LEMMA Distinct ==
  ASSUME NEW S, IsFiniteSet(S), NEW q \in Seq(S),
         \A i, j \in DOMAIN q : q[i] = q[j] => i = j
  PROVE  Len(q) <= Cardinality(S)
<1>1. Len(q) \in Nat /\ DOMAIN q = 1..Len(q) /\ q \in [1..Len(q) -> S]
  OBVIOUS
<1>2. IsFiniteSet(1..Len(q)) /\ Cardinality(1..Len(q)) = Len(q)
  BY <1>1, FS_Interval
<1>3. Cardinality(S) \in Nat
  BY FS_CardinalityType
<1>4. Cardinality(S) < Len(q) => \E i, j \in 1..Len(q) : i # j /\ q[i] = q[j]
  BY <1>1, <1>2, FS_PigeonHole
<1>5. QED
  BY <1>1, <1>3, <1>4

\* The buffer takes an id it does not hold, and keeps its ids distinct.
LEMMA Pushed ==
  ASSUME BufferInv, NEW id \in RowsFor(Mine), id \notin ToSet(buffer),
         rows \in Seq(Wallets)
  PROVE  /\ PushToBuffer(id) \in Seq(Nat)
         /\ ToSet(PushToBuffer(id)) \subseteq RowsFor(Mine)
         /\ \A i, j \in DOMAIN PushToBuffer(id) :
               PushToBuffer(id)[i] = PushToBuffer(id)[j] => i = j
         /\ Cardinality(RowsFor(Mine)) <= MAX_BUFFER =>
               ToSet(PushToBuffer(id)) = ToSet(buffer) \cup {id}
<1> DEFINE b == buffer
           S == RowsFor(Mine)
<1>1. /\ b \in Seq(Nat) /\ ToSet(b) \subseteq S /\ id \in Nat /\ S \subseteq Nat
      /\ IsFiniteSet(S) /\ Len(b) \in Nat /\ DOMAIN b = 1..Len(b)
      /\ \A i, j \in DOMAIN b : b[i] = b[j] => i = j
      /\ \A i \in DOMAIN b : b[i] \in S /\ b[i] # id
  BY RowFacts DEF BufferInv, ToSet
<1> HIDE DEF S
<1>2. ASSUME NEW s \in Seq(Nat), \A i \in DOMAIN s : s[i] \in S /\ s[i] # id,
             \A i, j \in DOMAIN s : s[i] = s[j] => i = j
      PROVE  /\ Append(s, id) \in Seq(Nat)
             /\ ToSet(Append(s, id)) = ToSet(s) \cup {id} /\ ToSet(s) \subseteq S
             /\ \A i, j \in DOMAIN Append(s, id) : Append(s, id)[i] = Append(s, id)[j] => i = j
  <2> DEFINE a == Append(s, id)
             n == Len(s)
  <2>1. /\ n \in Nat /\ DOMAIN s = 1..n /\ a \in Seq(Nat) /\ DOMAIN a = 1..(n + 1)
        /\ a[n + 1] = id /\ \A i \in 1..n : a[i] = s[i]
    BY <1>1
  <2>2. \A i \in 1..(n + 1) : i \in 1..n \/ i = n + 1
    BY <2>1
  <2>3. \A i \in 1..n : i \in 1..(n + 1)
    BY <2>1
  <2>4. n + 1 \in 1..(n + 1)
    BY <2>1
  <2> HIDE DEF a, n
  <2>5. \A i, j \in DOMAIN a : a[i] = a[j] => i = j
    BY <1>2, <2>1, <2>2
  <2>6. ToSet(a) = ToSet(s) \cup {id}
    BY <2>1, <2>2, <2>3, <2>4 DEF ToSet
  <2>7. ToSet(s) \subseteq S
    BY <1>2 DEF ToSet
  <2>8. QED
    BY <2>1, <2>5, <2>6, <2>7 DEF a
<1>3. CASE Len(b) < MAX_BUFFER
  <2>1. PushToBuffer(id) = Append(b, id)
    BY <1>3 DEF PushToBuffer
  <2>2. id \in S
    BY DEF S
  <2>3. QED
    BY <1>1, <1>2, <2>1, <2>2 DEF S
<1>4. CASE ~(Len(b) < MAX_BUFFER)
  <2> DEFINE s == Tail(b)
  <2>1. PushToBuffer(id) = Append(s, id) /\ b # << >>
    BY <1>1, <1>4, StreamAssumption DEF PushToBuffer
  <2>2. /\ s \in Seq(Nat) /\ DOMAIN s = 1..(Len(b) - 1)
        /\ \A i \in DOMAIN s : s[i] = b[i + 1] /\ i + 1 \in DOMAIN b /\ i \in Nat
    BY <1>1, <2>1
  <2> HIDE DEF s
  <2>3. \A i, j \in DOMAIN s : s[i] = s[j] => i = j
    <3>1. SUFFICES ASSUME NEW i \in DOMAIN s, NEW j \in DOMAIN s, s[i] = s[j] PROVE i = j
      OBVIOUS
    <3>2. i + 1 = j + 1 /\ i \in Nat /\ j \in Nat
      BY <1>1, <2>2, <3>1
    <3>3. QED
      BY <3>2
  <2>4. \A i \in DOMAIN s : s[i] \in S /\ s[i] # id
    BY <1>1, <2>2
  <2>5. ~(Cardinality(S) <= MAX_BUFFER)
    <3>1. IsFiniteSet(S \ {id}) /\ Cardinality(S \ {id}) = Cardinality(S) - 1
      BY <1>1, FS_RemoveElement DEF S
    <3>2. b \in Seq(S \ {id})
      BY <1>1, IsASeq
    <3>3. Len(b) <= Cardinality(S \ {id})
      BY <1>1, <3>1, <3>2, Distinct
    <3>4. Cardinality(S) \in Nat /\ MAX_BUFFER \in Nat
      BY <1>1, FS_CardinalityType, StreamAssumption
    <3>5. QED
      BY <1>1, <1>4, <3>1, <3>3, <3>4
  <2>6. id \in S
    BY DEF S
  <2>7. QED
    BY <1>2, <2>1, <2>2, <2>3, <2>4, <2>5, <2>6 DEF S
<1>5. QED
  BY <1>3, <1>4

\* What a step does to the buffer, the counts and the tabs that are told them.
LEMMA StepKinds ==
  ASSUME StreamInv, BufferInv, [Next]_vars
  PROVE  \/ \E c \in Streams : HandleFrame(c)
         \/ /\ UNCHANGED <<buffer, badge, shown>>
            /\ rows' = rows \/ \E w \in Wallets : rows' = Append(rows, w)
            /\ \/ unread' = unread /\ ports' \subseteq ports
               \/ \E t \in Tabs : unread' = badge[t]
         \/ /\ ports' = {} /\ unread' = 0 /\ buffer' = << >> /\ badge' = [t \in Tabs |-> 0]
            /\ UNCHANGED <<rows, shown>>
         \/ \E n \in 0..unread : ports # {} /\ SetUnread(n)
<1> DEFINE Quiet ==
             /\ UNCHANGED <<buffer, badge, shown>>
             /\ rows' = rows \/ \E w \in Wallets : rows' = Append(rows, w)
             /\ \/ unread' = unread /\ ports' \subseteq ports
                \/ \E t \in Tabs : unread' = badge[t]
<1>1. ASSUME NEW w \in Wallets, NewRow(w) PROVE Quiet
  BY <1>1 DEF NewRow, Record, workerVars, tabVars
<1>2. CASE Tick
  BY <1>2 DEF Tick, FanoutTick, workerVars, tabVars
<1>3. ASSUME NEW c \in Streams, RequestArrives(c) PROVE Quiet
  BY <1>3 DEF RequestArrives, RegisterStream, workerVars, tabVars
<1>4. ASSUME NEW cs, StreamsEnd(cs) PROVE Quiet
  BY <1>4 DEF StreamsEnd, tabVars
<1>5. CASE Reconnect
  BY <1>5 DEF Reconnect, hubVars, tabVars
<1>6. ASSUME NEW t \in Tabs, Disconnect(t) PROVE Quiet
  BY <1>6 DEF Disconnect, tabVars
<1>7. ASSUME NEW t \in Tabs, NEW s \in Sessions, Open(t, s) PROVE Quiet
  BY <1>7 DEF Open, Join, Start, hubVars, tabVars
<1>8. CASE BrowserCloses
  BY <1>8 DEF BrowserCloses
<1>9. unread \in Nat
  BY DEF BufferInv
<1>10. ASSUME NEW id, MarkRead(id) PROVE \E n \in 0..unread : ports # {} /\ SetUnread(n)
  BY <1>9, <1>10 DEF MarkRead
<1>11. CASE MarkAllRead
  BY <1>9, <1>11 DEF MarkAllRead
<1>12. CASE UNCHANGED vars
  BY <1>12 DEF vars, hubVars, workerVars, tabVars
<1>13. QED
  BY <1>1, <1>2, <1>3, <1>4, <1>5, <1>6, <1>7, <1>8, <1>10, <1>11, <1>12
     DEF Next, StreamFails, ServerRestarts

\* Rows are only added to the wallet's.
LEMMA RowsGrow ==
  ASSUME rows \in Seq(Wallets), rows' = rows \/ \E w \in Wallets : rows' = Append(rows, w)
  PROVE  RowsFor(Mine) \subseteq RowsFor(Mine)'
<1>1. CASE rows' = rows
  BY <1>1 DEF RowsFor, Ids
<1>2. ASSUME NEW w \in Wallets, rows' = Append(rows, w)
      PROVE  RowsFor(Mine) \subseteq RowsFor(Mine)'
  <2>1. /\ Len(rows) \in Nat /\ Len(rows') = Len(rows) + 1
        /\ \A id \in 1..Len(rows) : rows'[id] = rows[id]
    BY <1>2
  <2>2. QED
    BY <2>1 DEF RowsFor, Ids
<1>3. QED
  BY <1>1, <1>2

\* What a frame does to them.
LEMMA FrameCounts ==
  ASSUME StreamInv, BufferInv, NEW c \in Streams, HandleFrame(c)
  PROVE  \E id \in RowsFor(Mine) :
            /\ RowsFor(Mine)' = RowsFor(Mine) /\ ports' = ports
            /\ shown' = IF ports # {} THEN shown \cup {id} ELSE shown
            /\ IF id \notin ToSet(buffer)
               THEN /\ buffer' = PushToBuffer(id) /\ unread' = unread + 1
                    /\ badge' = [t \in Tabs |-> IF t \in ports THEN unread + 1 ELSE badge[t]]
               ELSE UNCHANGED <<buffer, unread, badge>>
<1>1. TypeInv /\ RegistryInv
  BY DEF StreamInv
<1>2. wire[c] \in Seq(Nat) /\ wire[c] # << >> /\ ToSet(wire[c]) \subseteq RowsFor(Mine)
  BY <1>1 DEF HandleFrame, TypeInv, RegistryInv
<1>3. Head(wire[c]) \in RowsFor(Mine)
  <2>1. wire[c][1] \in ToSet(wire[c]) /\ Head(wire[c]) = wire[c][1]
    BY <1>2, EmptySeq DEF ToSet
  <2>2. QED
    BY <1>2, <2>1
<1>4. RowsFor(Mine)' = RowsFor(Mine) /\ ports' = ports
  BY DEF HandleFrame, RowsFor, Ids
<1>5. QED
  BY <1>3, <1>4 DEF HandleFrame, Badges

\* The buffer's ids stay distinct and the wallet's.
LEMMA StepBuffer ==
  ASSUME StreamInv, BufferInv, [Next]_vars
  PROVE  BufferInv'
<1>1. rows \in Seq(Wallets) /\ unread \in Nat /\ badge \in [Tabs -> Nat]
  BY DEF StreamInv, TypeInv, BufferInv
<1>2. ASSUME NEW c \in Streams, HandleFrame(c) PROVE BufferInv'
  <2>1. PICK id \in RowsFor(Mine) :
            /\ RowsFor(Mine)' = RowsFor(Mine) /\ ports' = ports
            /\ shown' = IF ports # {} THEN shown \cup {id} ELSE shown
            /\ IF id \notin ToSet(buffer)
               THEN /\ buffer' = PushToBuffer(id) /\ unread' = unread + 1
                    /\ badge' = [t \in Tabs |-> IF t \in ports THEN unread + 1 ELSE badge[t]]
               ELSE UNCHANGED <<buffer, unread, badge>>
    BY <1>2, FrameCounts
  <2>2. shown' \subseteq RowsFor(Mine)'
    BY <2>1 DEF BufferInv
  <2>3. CASE id \notin ToSet(buffer)
    <3>1. unread' \in Nat /\ badge' \in [Tabs -> Nat]
      BY <1>1, <2>1, <2>3
    <3>2. /\ buffer' \in Seq(Nat) /\ ToSet(buffer') \subseteq RowsFor(Mine)
          /\ \A i, j \in DOMAIN buffer' : buffer'[i] = buffer'[j] => i = j
      <4>1. buffer' = PushToBuffer(id)
        BY <2>1, <2>3
      <4>2. QED
        BY <1>1, <2>3, <4>1, Pushed
    <3>3. QED
      BY <2>1, <2>2, <3>1, <3>2 DEF BufferInv
  <2>4. CASE id \in ToSet(buffer)
    BY <1>1, <2>1, <2>2, <2>4 DEF BufferInv, ToSet
  <2>5. QED
    BY <2>3, <2>4
<1>3. ASSUME UNCHANGED <<buffer, badge, shown>>, unread' \in Nat,
             rows' = rows \/ \E w \in Wallets : rows' = Append(rows, w)
      PROVE  BufferInv'
  BY <1>1, <1>3, RowsGrow DEF BufferInv, ToSet
<1>4. CASE /\ ports' = {} /\ unread' = 0 /\ buffer' = << >> /\ badge' = [t \in Tabs |-> 0]
           /\ UNCHANGED <<rows, shown>>
  <2>1. RowsFor(Mine) \subseteq RowsFor(Mine)'
    BY <1>1, <1>4, RowsGrow
  <2>2. << >> \in Seq(Nat)
    OBVIOUS
  <2>3. QED
    BY <1>4, <2>1, <2>2 DEF BufferInv, ToSet
<1>5. ASSUME NEW n \in 0..unread, SetUnread(n) PROVE BufferInv'
  <2>1. /\ unread' = n /\ UNCHANGED <<rows, shown, buffer>>
        /\ badge' = [t \in Tabs |-> IF t \in ports THEN n ELSE badge[t]]
    BY <1>5 DEF SetUnread, Badges, hubVars
  <2>2. RowsFor(Mine) \subseteq RowsFor(Mine)'
    BY <1>1, <2>1, RowsGrow
  <2>3. unread' \in Nat /\ badge' \in [Tabs -> Nat]
    BY <1>1, <2>1
  <2>4. QED
    BY <2>1, <2>2, <2>3 DEF BufferInv, ToSet
<1>6. QED
  BY <1>1, <1>2, <1>3, <1>4, <1>5, StepKinds

\* The counts stay below what was shown since the worker started.
LEMMA StepCount ==
  ASSUME StreamInv, BufferInv, CountInv, [Next]_vars
  PROVE  CountInv'
<1> DEFINE S == RowsFor(Mine)
<1>1. /\ rows \in Seq(Wallets) /\ unread \in Nat /\ badge \in [Tabs -> Nat]
      /\ shown \subseteq S /\ IsFiniteSet(S)
  BY RowFacts DEF StreamInv, TypeInv, BufferInv
<1>2. IsFiniteSet(shown) /\ IsFiniteSet(shown \cap ToSet(buffer)) /\ Counted \in Nat
  BY <1>1, FS_Subset, FS_CardinalityType DEF Counted
<1>3. ASSUME NEW c \in Streams, HandleFrame(c) PROVE CountInv'
  <2>1. PICK id \in RowsFor(Mine) :
            /\ RowsFor(Mine)' = RowsFor(Mine) /\ ports' = ports
            /\ shown' = IF ports # {} THEN shown \cup {id} ELSE shown
            /\ IF id \notin ToSet(buffer)
               THEN /\ buffer' = PushToBuffer(id) /\ unread' = unread + 1
                    /\ badge' = [t \in Tabs |-> IF t \in ports THEN unread + 1 ELSE badge[t]]
               ELSE UNCHANGED <<buffer, unread, badge>>
    BY <1>3, FrameCounts
  <2>2. SUFFICES ASSUME Cardinality(S) <= MAX_BUFFER
                 PROVE  /\ \A t \in Tabs : badge'[t] <= Counted'
                        /\ ports # {} => unread' <= Counted'
    BY <2>1 DEF CountInv
  <2>3. (\A t \in Tabs : badge[t] <= Counted) /\ (ports # {} => unread <= Counted)
    BY <2>2 DEF CountInv
  <2>4. IsFiniteSet(shown') /\ IsFiniteSet(shown' \cap ToSet(buffer'))
    <3>1. shown' \subseteq S
      BY <1>1, <2>1
    <3>2. IsFiniteSet(shown')
      BY <1>1, <3>1, FS_Subset
    <3>3. QED
      BY <3>2, FS_Subset
  <2>5. CASE id \in ToSet(buffer)
    <3>1. buffer' = buffer /\ unread' = unread /\ badge' = badge /\ shown \subseteq shown'
      BY <2>1, <2>5
    <3>2. ToSet(buffer') = ToSet(buffer)
      BY <3>1, Zenon
    <3>3. Cardinality(shown \cap ToSet(buffer)) <= Cardinality(shown' \cap ToSet(buffer'))
      <4>1. shown \cap ToSet(buffer) \subseteq shown' \cap ToSet(buffer')
        BY <3>1, <3>2
      <4>2. QED
        BY <2>4, <4>1, FS_Subset
    <3>4. Counted <= Counted' /\ Counted' \in Nat
      BY <2>4, <3>3, FS_CardinalityType DEF Counted
    <3>5. QED
      BY <1>1, <1>2, <2>3, <3>1, <3>4
  <2>6. CASE id \notin ToSet(buffer)
    <3>1. ToSet(buffer') = ToSet(buffer) \cup {id}
      <4>1. buffer' = PushToBuffer(id)
        BY <2>1, <2>6
      <4>2. ToSet(PushToBuffer(id)) = ToSet(buffer) \cup {id}
        BY <1>1, <2>2, <2>6, Pushed
      <4>3. QED
        BY <4>1, <4>2, Zenon
    <3>2. CASE ports = {}
      <4>1. shown' = shown /\ badge' = badge
        <5>1. badge \in [Tabs -> Nat] /\ badge' = [t \in Tabs |-> badge[t]]
          BY <1>1, <2>1, <2>6, <3>2
        <5>2. QED
          BY <2>1, <3>2, <5>1
      <4>2. Cardinality(shown \cap ToSet(buffer)) <= Cardinality(shown' \cap ToSet(buffer'))
        <5>1. shown \cap ToSet(buffer) \subseteq shown' \cap ToSet(buffer')
          BY <3>1, <4>1
        <5>2. QED
          BY <2>4, <5>1, FS_Subset
      <4>3. Counted <= Counted' /\ Counted' \in Nat
        BY <2>4, <4>2, FS_CardinalityType DEF Counted
      <4>4. QED
        BY <1>1, <1>2, <2>3, <3>2, <4>1, <4>3
    <3>3. CASE ports # {}
      <4>1. (shown \cap ToSet(buffer)) \cup {id} \subseteq shown' \cap ToSet(buffer')
        BY <2>1, <3>1, <3>3
      <4>2. /\ IsFiniteSet((shown \cap ToSet(buffer)) \cup {id})
            /\ Cardinality((shown \cap ToSet(buffer)) \cup {id})
                 = Cardinality(shown \cap ToSet(buffer)) + 1
        BY <1>2, <2>6, FS_AddElement
      <4>3. Cardinality((shown \cap ToSet(buffer)) \cup {id})
               <= Cardinality(shown' \cap ToSet(buffer'))
        BY <2>4, <4>1, FS_Subset
      <4>4. Counted + 1 <= Counted' /\ Counted' \in Nat
        BY <1>2, <2>4, <4>2, <4>3, FS_CardinalityType DEF Counted
      <4>5. /\ unread' = unread + 1
            /\ badge' = [t \in Tabs |-> IF t \in ports THEN unread + 1 ELSE badge[t]]
        BY <2>1, <2>6
      <4>6. unread + 1 <= Counted' /\ \A t \in Tabs : badge[t] \in Nat /\ badge[t] <= Counted'
        BY <1>1, <1>2, <2>3, <3>3, <4>4
      <4>7. QED
        BY <4>5, <4>6
    <3>4. QED
      BY <3>2, <3>3
  <2>7. QED
    BY <2>5, <2>6
<1>4. ASSUME NEW n \in 0..unread, ports # {}, SetUnread(n) PROVE CountInv'
  <2>1. /\ unread' = n /\ UNCHANGED <<rows, shown, buffer, ports>>
        /\ badge' = [t \in Tabs |-> IF t \in ports THEN n ELSE badge[t]]
    BY <1>4 DEF SetUnread, Badges, hubVars
  <2>2. S' = S /\ Counted' = Counted
    BY <2>1 DEF RowsFor, Ids, Counted, ToSet
  <2>3. SUFFICES ASSUME Cardinality(S) <= MAX_BUFFER
                 PROVE  (\A t \in Tabs : badge'[t] <= Counted) /\ unread' <= Counted
    BY <2>2 DEF CountInv
  <2>4. unread <= Counted /\ \A t \in Tabs : badge[t] <= Counted
    BY <1>4, <2>3 DEF CountInv
  <2>5. n <= Counted
    BY <1>1, <1>2, <2>4
  <2>6. QED
    BY <2>1, <2>4, <2>5
<1>5. ASSUME S \subseteq S', Cardinality(S') <= MAX_BUFFER, IsFiniteSet(S')
      PROVE  Cardinality(S) <= MAX_BUFFER
  <2>1. Cardinality(S) <= Cardinality(S') /\ Cardinality(S) \in Nat /\ Cardinality(S') \in Nat
    BY <1>1, <1>5, FS_Subset, FS_CardinalityType
  <2>2. QED
    BY <1>5, <2>1, StreamAssumption
<1>6. rows' \in Seq(Wallets) => IsFiniteSet(S')
  <2>1. rows' \in Seq(Wallets) => Len(rows') \in Nat /\ S' \subseteq 1..Len(rows')
    BY DEF RowsFor, Ids
  <2>2. rows' \in Seq(Wallets) => IsFiniteSet(1..Len(rows'))
    BY <2>1, FS_Interval
  <2>3. QED
    BY <2>1, <2>2, FS_Subset
<1>7. CASE /\ ports' = {} /\ unread' = 0 /\ buffer' = << >> /\ badge' = [t \in Tabs |-> 0]
           /\ UNCHANGED <<rows, shown>>
  <2>1. Counted' \in Nat
    <3>1. shown' \cap ToSet(buffer') \subseteq shown
      BY <1>7
    <3>2. QED
      BY <1>2, <3>1, FS_Subset, FS_CardinalityType DEF Counted
  <2>2. \A t \in Tabs : badge'[t] = 0
    BY <1>7
  <2>3. QED
    BY <1>7, <2>1, <2>2 DEF CountInv
<1>8. CASE /\ UNCHANGED <<buffer, badge, shown>>
           /\ rows' = rows \/ \E w \in Wallets : rows' = Append(rows, w)
           /\ \/ unread' = unread /\ ports' \subseteq ports
              \/ \E t \in Tabs : unread' = badge[t]
  <2>1. S \subseteq S' /\ rows' \in Seq(Wallets)
    <3>1. \A w \in Wallets : Append(rows, w) \in Seq(Wallets)
      BY <1>1
    <3>2. rows' \in Seq(Wallets)
      BY <1>1, <1>8, <3>1
    <3>3. QED
      BY <1>1, <1>8, <3>2, RowsGrow
  <2>2. Counted' = Counted
    BY <1>8 DEF Counted, ToSet
  <2>3. SUFFICES ASSUME Cardinality(S') <= MAX_BUFFER
                 PROVE  (\A t \in Tabs : badge[t] <= Counted) /\ (ports' # {} => unread' <= Counted)
    BY <1>8, <2>2 DEF CountInv
  <2>4. Cardinality(S) <= MAX_BUFFER
    BY <1>5, <1>6, <2>1, <2>3
  <2>5. (\A t \in Tabs : badge[t] <= Counted) /\ (ports # {} => unread <= Counted)
    BY <2>4 DEF CountInv
  <2>6. QED
    BY <1>8, <2>5
<1>9. QED
  BY <1>3, <1>4, <1>7, <1>8, StepKinds

\* CountedOnce (NotificationStream): as long as the worker's buffer can hold the wallet's
\* notifications, a tab's badge never counts beyond the notifications that were shown,
\* whichever of them arrive on two streams or again in a replay, as long as the tabs
\* connect for one wallet.
THEOREM BadgesCountOnce ==
  ASSUME OneWallet
  PROVE  FairSpec => []CountedOnce
<1> DEFINE Inv == StreamInv /\ BufferInv /\ CountInv
<1>1. Init => Inv
  <2>1. SUFFICES ASSUME Init PROVE Inv
    OBVIOUS
  <2>2. StreamInv
    BY <2>1, InitStream
  <2>3. /\ buffer = << >> /\ shown = {} /\ unread = 0 /\ badge = [t \in Tabs |-> 0]
        /\ ports = {}
    BY <2>1 DEF Init
  <2>4. << >> \in Seq(Nat)
    OBVIOUS
  <2>5. BufferInv
    BY <2>3, <2>4 DEF BufferInv, ToSet
  <2>6. Counted = 0
    BY <2>3, FS_EmptySet DEF Counted
  <2>7. CountInv
    BY <2>3, <2>6 DEF CountInv
  <2>8. QED
    BY <2>2, <2>5, <2>7
<1>2. Inv /\ [Next]_vars => Inv'
  BY StepStream, StepBuffer, StepCount
<1>3. Inv => CountedOnce
  <2>1. SUFFICES ASSUME Inv, session # None,
                        Cardinality(RowsFor(session.wallet)) <= MAX_BUFFER, NEW t \in Tabs
                 PROVE  badge[t] <= Cardinality(shown)
    BY DEF CountedOnce
  <2>2. session \in Sessions /\ rows \in Seq(Wallets) /\ session.wallet = Mine
    BY <2>1, MineIs DEF StreamInv, TypeInv
  <2>3. badge[t] <= Counted /\ badge[t] \in Nat
    BY <2>1, <2>2 DEF CountInv, BufferInv
  <2>4. IsFiniteSet(shown)
    BY <2>1, <2>2, RowFacts, FS_Subset DEF BufferInv
  <2>5. Counted <= Cardinality(shown) /\ Counted \in Nat /\ Cardinality(shown) \in Nat
    <3>1. shown \cap ToSet(buffer) \subseteq shown
      OBVIOUS
    <3>2. QED
      BY <2>4, <3>1, FS_Subset, FS_CardinalityType DEF Counted
  <2>6. QED
    BY <2>3, <2>5
<1>4. QED
  BY <1>1, <1>2, <1>3, PTL DEF FairSpec
=============================================================================
