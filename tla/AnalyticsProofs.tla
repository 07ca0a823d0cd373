-------------------------- MODULE AnalyticsProofs --------------------------
(***************************************************************************)
(* Proofs about Analytics, for every set of events and every clock: the    *)
(* hourly series has no hole, the totals last written are the sums of the  *)
(* snapshots below them, and a snapshot is what all stored events make of  *)
(* its day once the schedule has no event pending.                         *)
(***************************************************************************)
EXTENDS Analytics, SumTheorems, FiniteSetTheorems, WellFoundedInduction, TLAPS

\* The numbers from the least to the greatest of them.
IsInterval(S) == \E a, b \in S : S = a..b

\* What the hourly series keeps: no hour to come is written and none between two.
HourInv ==
    /\ now \in Nat
    /\ hourly # << >> => IsInterval(DOMAIN hourly) /\ DOMAIN hourly \subseteq 0..now

\* What is marked was stored, and only events of the past are.
LogInv ==
    /\ now \in Nat
    /\ log \subseteq Events /\ IsFiniteSet(log)
    /\ materialized \subseteq log
    /\ \A e \in log : Content[e].hour <= now

\* Every row is of a schedule with a stored event of that day or an earlier one.
KeysInv ==
    \A k \in DOMAIN snapshots :
        /\ k \in Affected(log) \X (0..Today)
        /\ ~Blank(k[1])
        /\ \E e \in log : Content[e].schedule = k[1] /\ Day(Content[e].hour) <= k[2]

\* A schedule whose creation is not stored locks nothing yet.
LockedInv ==
    \A k \in DOMAIN snapshots :
        /\ snapshots[k].locked \in Nat
        /\ k[1] \notin OfToken => snapshots[k].locked = 0

\* No event that waits for the worker is of the row's schedule and of its day or an
\* earlier one.
UpToDate(k) ==
    \A f \in Pending : Content[f].schedule = k[1] => ~(Day(Content[f].hour) <= k[2])

RowsInv == \A k \in DOMAIN snapshots : UpToDate(k) => snapshots[k] = Row(k[1], k[2])

\* The last day of a table and the row it has there.
LastIs(f, d) == d \in DOMAIN f /\ \A x \in DOMAIN f : x \in Nat /\ x <= d

TvlInv ==
    tvl # << >> =>
        \E d \in 0..Today : LastIs(tvl, d) /\ tvl[d] = TvlRow(snapshots, d)

GrantsInv ==
    grants # << >> =>
        \E d \in 0..Today :
            /\ LastIs(grants, d)
            /\ Pending = {} /\ Affected(log) = OfToken => grants[d] = GrantorRow(snapshots, d)

\* A schedule's creation is its earliest event: the contract takes a schedule's id
\* only then.
CreatedFirst ==
    \A e, f \in Events :
        Content[e].type = "schedule_created" /\ Content[f].schedule = Content[e].schedule
            => Content[e].hour <= Content[f].hour

-----------------------------------------------------------------------------
(* The hourly series *)

\* The member above all others is the greatest, the one below them the least.
LEMMA GreatestIs ==
  ASSUME NEW S, S \subseteq Int, NEW m \in S, \A y \in S : y <= m
  PROVE  Max(S) = m
<1> DEFINE Is(x) == x \in S /\ \A y \in S : x >= y
<1>1. Is(m)
  OBVIOUS
<1>2. Max(S) = CHOOSE x : Is(x)
  BY Zenon DEF Max
<1>3. Is(CHOOSE x : Is(x))
  BY <1>1, Zenon
<1>4. \A x : Is(x) => x = m
  OBVIOUS
<1> HIDE DEF Is
<1>5. QED
  BY <1>2, <1>3, <1>4

\* So is the least the member below all others.
LEMMA LeastIs ==
  ASSUME NEW S, S \subseteq Int, NEW m \in S, \A y \in S : m <= y
  PROVE  Min(S) = m
<1> DEFINE Is(x) == x \in S /\ \A y \in S : x <= y
<1>1. Is(m)
  OBVIOUS
<1>2. Min(S) = CHOOSE x : Is(x)
  BY Zenon DEF Min
<1>3. Is(CHOOSE x : Is(x))
  BY <1>1, Zenon
<1>4. \A x : Is(x) => x = m
  OBVIOUS
<1> HIDE DEF Is
<1>5. QED
  BY <1>2, <1>3, <1>4

\* An interval's least and greatest members are its ends.
LEMMA IntervalEnds ==
  ASSUME NEW S, NEW a \in Nat, NEW b \in Nat, a <= b, S = a..b
  PROVE  Min(S) = a /\ Max(S) = b
<1>1. /\ S \subseteq Int /\ a \in S /\ b \in S
      /\ \A y \in S : a <= y /\ y <= b
  OBVIOUS
<1>2. QED
  BY <1>1, GreatestIs, LeastIs

\* The hours written at most extend the series to the present one.
LEMMA SeriesGrows ==
  ASSUME HourInv
  PROVE  HourlySeries # << >> =>
             IsInterval(DOMAIN HourlySeries) /\ DOMAIN HourlySeries \subseteq 0..now
<1> DEFINE before == {h \in DOMAIN hourly : h < now}
           gap    == IF before = {} THEN {} ELSE FilledHours(Max(before))
<1>1. CASE open = None
  BY <1>1 DEF HourlySeries, HourInv
<1>2. CASE open # None
  <2>1. DOMAIN HourlySeries = DOMAIN hourly \cup gap \cup {now}
    BY <1>2 DEF HourlySeries
  <2>2. now \in Nat
    BY DEF HourInv
  <2>3. CASE hourly = << >>
    <3>1. DOMAIN hourly = {}
      BY <2>3
    <3>2. DOMAIN HourlySeries = now..now
      BY <2>1, <2>2, <3>1
    <3>3. QED
      BY <2>2, <3>2 DEF IsInterval
  <2>4. CASE hourly # << >>
    <3>1. PICK a, b \in DOMAIN hourly : DOMAIN hourly = a..b
      BY <2>4 DEF HourInv, IsInterval
    <3>2. a \in 0..now /\ b \in 0..now /\ a <= b
      BY <2>4, <3>1 DEF HourInv
    <3>3. CASE before = {}
      <4>1. a = now /\ b = now
        <5>1. ~(a < now) /\ ~(b < now)
          BY <3>1, <3>3
        <5>2. QED
          BY <2>2, <3>2, <5>1
      <4>2. DOMAIN HourlySeries = now..now
        BY <2>1, <2>2, <3>1, <3>3, <4>1
      <4>3. QED
        BY <2>2, <4>2 DEF IsInterval
    <3>4. CASE before # {} /\ b = now
      <4>1. a < now
        BY <3>1, <3>2, <3>4
      <4>2. before = a..(now - 1)
        BY <2>2, <3>1, <3>2, <3>4
      <4>3. Max(before) = now - 1
        <5> HIDE DEF before
        <5>1. a \in Nat /\ now - 1 \in Nat /\ a <= now - 1
          BY <2>2, <3>2, <4>1
        <5>2. QED
          BY <4>2, <5>1, IntervalEnds
      <4>4. gap = {}
        BY <2>2, <3>4, <4>3 DEF FilledHours
      <4>5. DOMAIN HourlySeries = a..now
        BY <2>1, <2>2, <3>1, <3>2, <3>4, <4>4
      <4>6. QED
        BY <2>2, <3>2, <4>5 DEF IsInterval
    <3>5. CASE before # {} /\ b < now
      <4>1. before = a..b
        BY <2>2, <3>1, <3>2, <3>5
      <4>2. Max(before) = b
        <5> HIDE DEF before
        <5>1. a \in Nat /\ b \in Nat
          BY <3>2
        <5>2. QED
          BY <3>2, <4>1, <5>1, IntervalEnds
      <4>3. gap = (b + 1)..(now - 1)
        BY <3>5, <4>2 DEF FilledHours
      <4>4. DOMAIN HourlySeries = a..now
        <5> HIDE DEF gap
        <5>1. DOMAIN HourlySeries = ((a..b) \cup ((b + 1)..(now - 1))) \cup {now}
          BY <2>1, <3>1, <4>3, Zenon
        <5>2. QED
          BY <2>2, <3>2, <3>5, <5>1
      <4>5. QED
        BY <2>2, <3>2, <4>4 DEF IsInterval
    <3>6. b = now \/ b < now
      BY <2>2, <3>2
    <3>7. QED
      BY <3>3, <3>4, <3>5, <3>6, Zenon
  <2>5. QED
    BY <2>3, <2>4, Zenon
<1>3. QED
  BY <1>1, <1>2

\* Every step keeps the hourly series whole.
LEMMA HourNext ==
  ASSUME HourInv, [Next]_vars
  PROVE  HourInv'
<1>1. CASE now' = now /\ hourly' = HourlySeries
  BY <1>1, SeriesGrows DEF HourInv
<1>2. CASE now' \in {now, now + 1} /\ hourly' = hourly
  <2>1. now' \in Nat /\ 0..now \subseteq 0..now'
    BY <1>2 DEF HourInv
  <2>2. QED
    BY <1>2, <2>1 DEF HourInv
<1>3. \/ now' = now /\ hourly' = HourlySeries
      \/ now' \in {now, now + 1} /\ hourly' = hourly
  <2>1. CASE Next
    BY <2>1 DEF Next, Tick, Materialize, MaterializeHourlyOnly, Arrive, StreamsChange, series
  <2>2. CASE UNCHANGED vars
    BY <2>2 DEF vars, series
  <2>3. QED
    BY <2>1, <2>2
<1>4. QED
  BY <1>1, <1>2, <1>3

\* The hourly series has no hole, whenever the worker runs and whatever it missed:
\* the hours since its last row are filled before the present one is written.
THEOREM SeriesHasNoHole == Spec => []HourlyComplete
<1>1. Init => HourInv
  BY DEF Init, HourInv
<1>2. HourInv /\ [Next]_vars => HourInv'
  BY HourNext
<1>3. HourInv => HourlyComplete
  <2> SUFFICES ASSUME HourInv, hourly # << >>
               PROVE  DOMAIN hourly = Min(DOMAIN hourly)..Max(DOMAIN hourly)
    BY DEF HourlyComplete
  <2>1. PICK a, b \in DOMAIN hourly : DOMAIN hourly = a..b
    BY DEF HourInv, IsInterval
  <2>2. a \in Nat /\ b \in Nat /\ a <= b
    BY <2>1 DEF HourInv
  <2>3. QED
    BY <2>1, <2>2, IntervalEnds
<1>4. QED
  BY <1>1, <1>2, <1>3, PTL DEF Spec

-----------------------------------------------------------------------------
(* Events, days and the rows they make *)

\* What every event names.
LEMMA ContentFacts ==
  ASSUME NEW e \in Events
  PROVE  /\ Content[e].schedule \in Nat /\ Content[e].hour \in Nat /\ Content[e].amount \in Nat
         /\ Content[e].type \in {"schedule_created", "claimed", "revoked"}
         /\ Content[e].type = "schedule_created" =>
               /\ Content[e].start \in Nat /\ Content[e].duration \in Nat /\ Content[e].cliff \in Nat
<1>1. Content[e] \in EventRecord
  BY AnalyticsAssumption
<1>2. QED
  BY <1>1 DEF EventRecord

\* Division of naturals yields naturals and is monotone.
LEMMA DivNat ==
  ASSUME NEW a \in Nat, NEW d \in Nat, d > 0
  PROVE  a \div d \in Nat
OBVIOUS

\* The greater of two numbers is divided no further down.
LEMMA DivMonotone ==
  ASSUME NEW a \in Nat, NEW b \in Nat, NEW d \in Nat, d > 0, a <= b
  PROVE  a \div d <= b \div d
OBVIOUS

\* Days count from zero and follow the hours.
LEMMA DayFacts ==
  /\ \A h \in Nat : Day(h) \in Nat
  /\ \A g, h \in Nat : g <= h => Day(g) <= Day(h)
<1>1. HoursPerDay \in Nat /\ HoursPerDay > 0
  BY AnalyticsAssumption
<1>2. QED
  BY <1>1, DivMonotone, DivNat DEF Day

\* An arriving event was not stored before.
LEMMA ArrivesNew ==
  ASSUME LogInv, NEW e \in Events, Arrive(e)
  PROVE  /\ e \notin log /\ e \notin materialized /\ e \in Pending'
         /\ log' = log \cup {e} /\ Pending' = Pending \cup {e}
<1>1. e \notin log /\ log' = log \cup {e} /\ materialized' = materialized
  BY DEF Arrive, Enter, Known
<1>2. QED
  BY <1>1 DEF LogInv, Pending

\* Every step keeps the events stored before and those of the past.
LEMMA LogNextKeeps ==
  ASSUME LogInv, [Next]_vars
  PROVE  LogInv' /\ now <= now' /\ now' \in Nat
<1>1. ASSUME NEW e \in Events, Arrive(e)
      PROVE  LogInv' /\ now <= now' /\ now' \in Nat
  <2>1. log' = log \cup {e} /\ now' = now /\ Content[e].hour <= now /\ materialized' = materialized
    BY <1>1, ArrivesNew DEF Arrive
  <2>2. IsFiniteSet(log')
    BY <2>1, FS_AddElement DEF LogInv
  <2>3. QED
    BY <2>1, <2>2 DEF LogInv
<1>2. CASE Tick
  <2>1. now' = now + 1 /\ log' = log /\ materialized' = materialized
    BY <1>2 DEF Tick, logVars
  <2>2. \A e \in log : Content[e].hour <= now'
    BY <2>1, ContentFacts DEF LogInv
  <2>3. QED
    BY <2>1, <2>2 DEF LogInv
<1>3. CASE Materialize
  <2>1. log' = log /\ now' = now /\ materialized' = materialized \cup Batch
    BY <1>3 DEF Materialize, logVars
  <2>2. Batch \subseteq log
    BY DEF Batch, Pending
  <2>3. QED
    BY <2>1, <2>2 DEF LogInv
<1>4. CASE log' = log /\ now' = now /\ materialized' = materialized
  BY <1>4 DEF LogInv
<1>5. ASSUME MaterializeHourlyOnly \/ UNCHANGED vars \/ \E n \in 0..MaxStreams : StreamsChange(n)
      PROVE  log' = log /\ now' = now /\ materialized' = materialized
  BY <1>5 DEF MaterializeHourlyOnly, StreamsChange, vars, logVars
<1>6. QED
  BY <1>1, <1>2, <1>3, <1>4, <1>5 DEF Next

\* The row a schedule's creations, their known curves, and the claims and
\* revocations until a day make.
RowOf(created, curves, claims, revocations, d) ==
    LET total    == Amounts(created)
        claimed  == Amounts(claims)
        unvested == Amounts(revocations)
        formula  == IF curves = {} THEN None
                    ELSE VestedAtHour(Content[CHOOSE e \in curves : TRUE], EndOfDay(d))
        known    == IF revocations # {} THEN total - unvested
                    ELSE IF formula = None THEN claimed ELSE formula
        vested   == Least(Most(known, claimed), total)
    IN  [vested |-> vested, claimed |-> claimed,
         claimable |-> Most(vested - claimed, 0), locked |-> Most(total - vested - unvested, 0)]

\* A row depends on the stored events in those four ways only.
LEMMA RowIs ==
  ASSUME NEW s, NEW d
  PROVE  Row(s, d) = RowOf(Of(s, "schedule_created"), Of(s, "schedule_created") \ bare,
                           Until(Of(s, "claimed"), d), Until(Of(s, "revoked"), d), d)
BY Zenon DEF Row, RowOf

\* A schedule's events of a type grow by the one that arrives, if it is of them.
LEMMA OfArrive ==
  ASSUME LogInv, NEW e \in Events, Arrive(e), NEW s, NEW type
  PROVE  Of(s, type)' = IF Content[e].schedule = s /\ Content[e].type = type
                        THEN Of(s, type) \cup {e} ELSE Of(s, type)
BY ArrivesNew DEF Of

\* An event of another schedule, or one that is no creation and of a later day,
\* leaves a row as it is.
LEMMA ArriveKeepsRow ==
  ASSUME LogInv, NEW e \in Events, Arrive(e), NEW s, NEW d,
         Content[e].schedule = s =>
             Content[e].type # "schedule_created" /\ ~(Day(Content[e].hour) <= d)
  PROVE  Row(s, d)' = Row(s, d)
<1>1. Of(s, "schedule_created")' = Of(s, "schedule_created")
  BY OfArrive
<1>2. bare \subseteq bare' /\ bare' \subseteq bare \cup {e}
  BY DEF Arrive
<1>3. e \notin Of(s, "schedule_created")
  BY ArrivesNew DEF Of
<1>4. (Of(s, "schedule_created") \ bare)' = Of(s, "schedule_created") \ bare
  BY <1>1, <1>2, <1>3
<1>5. ASSUME NEW type \in {"claimed", "revoked"}
      PROVE  Until(Of(s, type), d)' = Until(Of(s, type), d)
  <2>1. \/ Of(s, type)' = Of(s, type)
        \/ Of(s, type)' = Of(s, type) \cup {e} /\ ~(Day(Content[e].hour) <= d)
    BY OfArrive
  <2>2. QED
    BY <2>1 DEF Until
<1>6. Row(s, d)' = RowOf(Of(s, "schedule_created")', (Of(s, "schedule_created") \ bare)',
                         Until(Of(s, "claimed"), d)', Until(Of(s, "revoked"), d)', d)
  BY Zenon DEF Row, RowOf
<1>7. QED
  BY <1>1, <1>4, <1>5, <1>6, RowIs, Zenon

-----------------------------------------------------------------------------
(* What a materialization writes *)

\* A set of naturals that is not empty has its least member.
LEMMA LeastExists ==
  ASSUME NEW S, S \subseteq Nat, S # {}
  PROVE  Min(S) \in S /\ \A y \in S : Min(S) <= y
<1>1. PICK x \in S : \A y \in S : ~(<<y, x>> \in OpToRel(<, Nat))
  BY NatLessThanWellFounded, WFMin
<1>2. ASSUME NEW y \in S PROVE x <= y
  <2>1. <<y, x>> \in Nat \X Nat
    BY <1>1
  <2>2. y < x => <<y, x>> \in OpToRel(<, Nat)
    BY <2>1, Zenon DEF OpToRel
  <2>3. ~(y < x)
    BY <1>1, <2>2, Zenon
  <2>4. x \in Nat /\ y \in Nat
    BY <1>1
  <2>5. QED
    BY <2>3, <2>4
<1>3. Min(S) = x
  <2>1. S \subseteq Int
    OBVIOUS
  <2>2. QED
    BY <1>1, <1>2, <2>1, LeastIs
<1>4. QED
  BY <1>1, <1>2, <1>3

\* The rows written again are those of the affected schedules from the day of their
\* earliest event in the batch.
LEMMA RewrittenIs ==
  ASSUME LogInv, NEW k \in Affected(Batch) \X (0..Today)
  PROVE  k \in Rewritten(Batch) <=>
           /\ ~Blank(k[1])
           /\ \E e \in Batch : Content[e].schedule = k[1] /\ Day(Content[e].hour) <= k[2]
<1> DEFINE days == {Day(Content[e].hour) : e \in {f \in Batch : Content[f].schedule = k[1]}}
<1>1. Batch \subseteq Events
  BY DEF Batch, Pending, LogInv
<1>2. days \subseteq Nat
  BY <1>1, ContentFacts, DayFacts
<1>3. days # {}
  BY DEF Affected
<1>4. Today \in Nat
  BY DayFacts DEF Today, LogInv
<1>5. k[2] \in 0..Today
  OBVIOUS
<1>6. DaysFrom(Batch, k[1]) = Min(days)..Today
  BY DEF DaysFrom
<1>7. Min(days) <= k[2] <=> \E e \in Batch : Content[e].schedule = k[1] /\ Day(Content[e].hour) <= k[2]
  <2>1. Min(days) \in days /\ \A y \in days : Min(days) <= y
    <3> HIDE DEF days
    <3> QED BY <1>2, <1>3, LeastExists
  <2>2. Min(days) <= k[2] <=> \E y \in days : y <= k[2]
    <3> HIDE DEF days
    <3>1. k[2] \in Nat /\ Min(days) \in Nat
      <4>1. k[2] \in Nat
        BY <1>4, <1>5
      <4>2. Min(days) \in Nat
        BY <1>2, <2>1
      <4>3. QED
        BY <4>1, <4>2
    <3>2. \A y \in days : y \in Nat
      BY <1>2
    <3> QED BY <2>1, <3>1, <3>2
  <2>3. QED
    BY <2>2, Zenon
<1>8. Min(days) \in Nat
  <2> HIDE DEF days
  <2> QED BY <1>2, <1>3, LeastExists
<1>9. k[2] \in DaysFrom(Batch, k[1]) <=> Min(days) <= k[2]
  <2> HIDE DEF days
  <2> QED BY <1>4, <1>5, <1>6, <1>8
<1>10. k \in Rewritten(Batch) <=> k[2] \in DaysFrom(Batch, k[1]) /\ ~Blank(k[1])
  BY Zenon DEF Rewritten
<1>11. QED
  BY <1>7, <1>9, <1>10, Zenon

\* A materialization changes no event, and no row but those written again.
LEMMA MaterializeRows ==
  ASSUME Materialize
  PROVE  /\ log' = log /\ bare' = bare /\ now' = now
         /\ DOMAIN snapshots' = DOMAIN snapshots \cup Rewritten(Batch)
         /\ \A k \in Rewritten(Batch) : snapshots'[k] = Row(k[1], k[2])
         /\ \A k \in DOMAIN snapshots \ Rewritten(Batch) : snapshots'[k] = snapshots[k]
<1>1. snapshots' = NewSnapshots(Batch) /\ log' = log /\ bare' = bare /\ now' = now
  BY DEF Materialize, logVars
<1>2. QED
  BY <1>1 DEF NewSnapshots

\* The steps that leave the rows alone, and the one that stores an event.
LEMMA RowSteps ==
  ASSUME [Next]_vars
  PROVE  \/ Materialize
         \/ \E e \in Events : Arrive(e)
         \/ /\ snapshots' = snapshots /\ log' = log /\ bare' = bare
            /\ materialized' = materialized /\ tvl' = tvl /\ grants' = grants
BY DEF Next, Tick, MaterializeHourlyOnly, StreamsChange, vars, series, logVars

\* What arrives is stored and leaves the worker's tables alone.
LEMMA ArriveRows ==
  ASSUME NEW e \in Events, Arrive(e)
  PROVE  /\ snapshots' = snapshots /\ now' = now
         /\ materialized' = materialized /\ tvl' = tvl /\ grants' = grants
BY DEF Arrive, series

\* Days, schedules and what is known of them never shrink.
LEMMA NothingForgotten ==
  ASSUME LogInv, [Next]_vars
  PROVE  /\ log \subseteq log' /\ Today \in Nat /\ Today' \in Nat /\ Today <= Today'
         /\ Affected(log) \subseteq Affected(log)'
         /\ \A s, type : Of(s, type) \subseteq Of(s, type)'
         /\ \A s : Blank(s)' => Blank(s)
<1>1. log \subseteq log'
  <2>1. CASE Materialize
    BY <2>1, MaterializeRows
  <2>2. CASE \E e \in Events : Arrive(e)
    BY <2>2, ArrivesNew
  <2>3. QED
    BY <2>1, <2>2, RowSteps
<1>2. Today \in Nat /\ Today' \in Nat /\ Today <= Today'
  BY LogNextKeeps, DayFacts DEF Today, LogInv
<1>3. Affected(log) \subseteq Affected(log)'
  BY <1>1 DEF Affected
<1>4. \A s, type : Of(s, type) \subseteq Of(s, type)'
  BY <1>1 DEF Of
<1>5. \A s : Blank(s)' => Blank(s)
  BY <1>4 DEF Blank
<1>6. QED
  BY <1>1, <1>2, <1>3, <1>4, <1>5

\* Every step keeps the keys: a row is written only for a schedule that is not
\* blank, of a day on or after one of its events.
LEMMA KeysNext ==
  ASSUME LogInv, KeysInv, [Next]_vars
  PROVE  KeysInv'
<1> SUFFICES ASSUME NEW k \in DOMAIN snapshots'
             PROVE  /\ k \in Affected(log)' \X (0..Today')
                    /\ ~Blank(k[1])'
                    /\ \E e \in log' : Content[e].schedule = k[1] /\ Day(Content[e].hour) <= k[2]
  BY DEF KeysInv
<1>1. CASE k \in DOMAIN snapshots
  <2>1. /\ k \in Affected(log) \X (0..Today)
        /\ ~Blank(k[1])
        /\ \E e \in log : Content[e].schedule = k[1] /\ Day(Content[e].hour) <= k[2]
    BY <1>1 DEF KeysInv
  <2>2. 0..Today \subseteq 0..Today'
    BY NothingForgotten
  <2>3. ~Blank(k[1])'
    BY <2>1, NothingForgotten
  <2>4. QED
    BY <2>1, <2>2, <2>3, NothingForgotten
<1>2. CASE k \notin DOMAIN snapshots
  <2>1. Materialize
    BY <1>2, RowSteps, ArriveRows
  <2>2. k \in Rewritten(Batch) /\ log' = log /\ now' = now
    BY <1>2, <2>1, MaterializeRows
  <2>3. k \in Affected(Batch) \X (0..Today)
    BY <2>2 DEF Rewritten
  <2>4. /\ ~Blank(k[1])
        /\ \E e \in Batch : Content[e].schedule = k[1] /\ Day(Content[e].hour) <= k[2]
    BY <2>2, <2>3, RewrittenIs
  <2>5. Batch \subseteq log
    BY DEF Batch, Pending
  <2>6. Affected(Batch) \subseteq Affected(log)'
    BY <2>2, <2>5 DEF Affected
  <2>7. Today' = Today /\ (Blank(k[1])' <=> Blank(k[1]))
    BY <2>2 DEF Today, Blank, Of
  <2>8. QED
    BY <2>2, <2>3, <2>4, <2>5, <2>6, <2>7
<1>3. QED
  BY <1>1, <1>2

\* Every step keeps the rows exact: a late event stays pending until the rows from
\* its day on are written again.
LEMMA RowsNext ==
  ASSUME CreatedFirst, LogInv, KeysInv, RowsInv, [Next]_vars
  PROVE  RowsInv'
<1> SUFFICES ASSUME NEW k \in DOMAIN snapshots', UpToDate(k)'
             PROVE  snapshots'[k] = Row(k[1], k[2])'
  BY Zenon DEF RowsInv
<1>1. CASE Materialize
  <2>1. Row(k[1], k[2])' = Row(k[1], k[2])
    BY <1>1, MaterializeRows, Zenon DEF Row, Of
  <2>2. CASE k \in Rewritten(Batch)
    BY <1>1, <2>1, <2>2, MaterializeRows
  <2>3. CASE k \notin Rewritten(Batch)
    <3>1. k \in DOMAIN snapshots /\ snapshots'[k] = snapshots[k]
      BY <1>1, <2>3, MaterializeRows
    <3>2. k[1] \in Affected(log) /\ k \in Affected(log) \X (0..Today) /\ ~Blank(k[1])
      BY <3>1 DEF KeysInv
    <3>3. ASSUME NEW f \in Pending, Content[f].schedule = k[1], Day(Content[f].hour) <= k[2]
          PROVE  FALSE
      <4>1. f \in Batch
        <5>1. Pending' = Pending \ Batch
          BY <1>1, MaterializeRows DEF Materialize, Pending
        <5>2. f \notin Pending'
          BY <3>3 DEF UpToDate
        <5>3. QED
          BY <5>1, <5>2
      <4>2. k \in Affected(Batch) \X (0..Today)
        BY <3>2, <3>3, <4>1 DEF Affected
      <4>3. QED
        BY <2>3, <3>2, <3>3, <4>1, <4>2, RewrittenIs
    <3>4. UpToDate(k)
      BY <3>3 DEF UpToDate
    <3>5. QED
      BY <2>1, <3>1, <3>4 DEF RowsInv
  <2>4. QED
    BY <2>2, <2>3
<1>2. ASSUME NEW e \in Events, Arrive(e)
      PROVE  snapshots'[k] = Row(k[1], k[2])'
  <2>1. k \in DOMAIN snapshots /\ snapshots'[k] = snapshots[k]
    BY <1>2, ArriveRows
  <2>2. UpToDate(k)
    BY <1>2, ArrivesNew DEF UpToDate
  <2>3. ASSUME Content[e].schedule = k[1]
        PROVE  Content[e].type # "schedule_created" /\ ~(Day(Content[e].hour) <= k[2])
    <3>1. ~(Day(Content[e].hour) <= k[2])
      BY <1>2, <2>3, ArrivesNew DEF UpToDate
    <3>2. PICK f \in log : Content[f].schedule = k[1] /\ Day(Content[f].hour) <= k[2]
      BY <2>1 DEF KeysInv
    <3>3. k[2] \in Nat /\ f \in Events
      <4>1. k[2] \in 0..Today
        BY <2>1 DEF KeysInv
      <4>2. QED
        BY <4>1 DEF LogInv
    <3>4. ASSUME Content[e].type = "schedule_created" PROVE FALSE
      <4>1. Content[e].hour <= Content[f].hour
        BY <2>3, <3>2, <3>3, <3>4 DEF CreatedFirst
      <4>2. Content[e].hour \in Nat /\ Content[f].hour \in Nat
        BY <3>3, ContentFacts
      <4>3. /\ Day(Content[e].hour) <= Day(Content[f].hour)
            /\ Day(Content[e].hour) \in Nat /\ Day(Content[f].hour) \in Nat
        BY <4>1, <4>2, DayFacts
      <4>4. QED
        BY <3>1, <3>2, <3>3, <4>3
    <3>5. QED
      BY <3>1, <3>4
  <2>4. Row(k[1], k[2])' = Row(k[1], k[2])
    BY <1>2, <2>3, ArriveKeepsRow
  <2>5. QED
    BY <2>1, <2>2, <2>4 DEF RowsInv
<1>3. CASE snapshots' = snapshots /\ log' = log /\ bare' = bare /\ materialized' = materialized
  <2>1. Row(k[1], k[2])' = Row(k[1], k[2])
    BY <1>3, Zenon DEF Row, Of
  <2>2. UpToDate(k)
    BY <1>3 DEF UpToDate, Pending
  <2>3. QED
    BY <1>3, <2>1, <2>2 DEF RowsInv
<1>4. QED
  BY <1>1, <1>2, <1>3, RowSteps

\* Where creations come first, a snapshot of a schedule without pending events is
\* what all events stored for it make of its day, in whatever order they arrived.
THEOREM SnapshotsCorrected ==
  ASSUME CreatedFirst
  PROVE  Spec => []SnapshotsExact
<1> DEFINE I == LogInv /\ KeysInv /\ RowsInv
<1>1. Init => I
  BY FS_EmptySet DEF Init, LogInit, LogInv, KeysInv, RowsInv
<1>2. I /\ [Next]_vars => I'
  BY LogNextKeeps, KeysNext, RowsNext
<1>3. I => SnapshotsExact
  BY DEF RowsInv, SnapshotsExact, Settled, UpToDate
<1>4. QED
  BY <1>1, <1>2, <1>3, PTL DEF Spec

-----------------------------------------------------------------------------
(* Amounts and locked tokens *)

\* Amounts of stored events add up to a natural number.
LEMMA AmountsNat ==
  ASSUME LogInv, NEW es, es \subseteq log
  PROVE  Amounts(es) \in Nat
<1> DEFINE f == [e \in es |-> Content[e].amount]
<1>1. IsFiniteSet(es)
  BY FS_Subset DEF LogInv
<1>2. \A e \in es : f[e] \in Nat
  BY ContentFacts DEF LogInv
<1> HIDE DEF f
<1>3. SumFunctionOnSet(f, es) \in Nat
  BY <1>1, <1>2, SumNat
<1>4. QED
  BY <1>3, Zenon DEF Amounts, f

\* What is vested at an hour is a number.
LEMMA VestedIsInt ==
  ASSUME NEW e \in Events, Content[e].type = "schedule_created", NEW h \in Int
  PROVE  VestedAtHour(Content[e], h) \in Int
<1> DEFINE c == Content[e]
           elapsed == h - c.start
<1>1. c.amount \in Nat /\ c.start \in Nat /\ c.duration \in Nat /\ c.cliff \in Nat
  BY ContentFacts
<1> SUFFICES VestedAtHour(c, h) \in Int
  OBVIOUS
<1> HIDE DEF c
<1>2. elapsed \in Int /\ None \in Int
  BY <1>1 DEF None
<1>3. CASE h <= c.start
  BY <1>1, <1>3 DEF VestedAtHour
<1>4. CASE ~(h <= c.start) /\ elapsed >= c.duration
  BY <1>1, <1>4 DEF VestedAtHour
<1>5. CASE ~(h <= c.start) /\ ~(elapsed >= c.duration)
  <2>1. elapsed > 0 /\ elapsed < c.duration
    BY <1>1, <1>2, <1>5
  <2>2. VestedAtHour(c, h) =
           CASE c.kind = "Cliff" -> IF elapsed >= c.cliff THEN c.amount ELSE 0
             [] c.kind = "LinearWithCliff" ->
                  IF elapsed < c.cliff THEN 0
                  ELSE (c.amount * (elapsed - c.cliff)) \div (c.duration - c.cliff)
             [] c.kind = "Linear" -> (c.amount * elapsed) \div c.duration
             [] OTHER -> None
    BY <1>5, Zenon DEF VestedAtHour
  <2>3. CASE c.kind = "Cliff"
    BY <1>1, <2>2, <2>3
  <2>4. CASE c.kind = "LinearWithCliff"
    <3>1. VestedAtHour(c, h) = IF elapsed < c.cliff THEN 0
                  ELSE (c.amount * (elapsed - c.cliff)) \div (c.duration - c.cliff)
      BY <2>2, <2>4
    <3>2. CASE elapsed < c.cliff
      BY <3>1, <3>2
    <3>3. CASE ~(elapsed < c.cliff)
      <4>1. /\ c.amount * (elapsed - c.cliff) \in Nat
            /\ c.duration - c.cliff \in Nat /\ c.duration - c.cliff > 0
        BY <1>1, <1>2, <2>1, <3>3
      <4>2. (c.amount * (elapsed - c.cliff)) \div (c.duration - c.cliff) \in Nat
        BY <4>1, DivNat
      <4>3. QED
        BY <3>1, <3>3, <4>2
    <3>4. QED
      BY <3>2, <3>3
  <2>5. CASE c.kind = "Linear"
    <3>1. c.amount * elapsed \in Nat /\ c.duration > 0
      BY <1>1, <2>1
    <3>2. (c.amount * elapsed) \div c.duration \in Nat
      BY <1>1, <3>1, DivNat
    <3>3. QED
      BY <2>2, <2>5, <3>2
  <2>6. CASE c.kind \notin {"Cliff", "LinearWithCliff", "Linear"}
    BY <1>2, <2>2, <2>6
  <2>7. QED
    BY <2>3, <2>4, <2>5, <2>6
<1>6. QED
  BY <1>3, <1>4, <1>5

\* The greater and the lesser of two numbers.
LEMMA MostLeast ==
  ASSUME NEW a \in Int, NEW b \in Int
  PROVE  /\ Most(a, b) \in Int /\ Most(a, b) >= a /\ Most(a, b) >= b
         /\ Least(a, b) \in Int /\ Least(a, b) <= a /\ Least(a, b) <= b
         /\ Most(a, b) \in {a, b} /\ Least(a, b) \in {a, b}
BY DEF Most, Least

\* A row locks a natural number of tokens, and none without a creation.
LEMMA RowLocked ==
  ASSUME LogInv, NEW s, NEW d \in Nat
  PROVE  /\ Row(s, d).locked \in Nat
         /\ Of(s, "schedule_created") = {} => Row(s, d).locked = 0
<1> DEFINE created  == Of(s, "schedule_created")
           curves   == created \ bare
           revoked  == Until(Of(s, "revoked"), d)
           total    == Amounts(created)
           claimed  == Amounts(Until(Of(s, "claimed"), d))
           unvested == Amounts(revoked)
           formula  == IF curves = {} THEN None
                       ELSE VestedAtHour(Content[CHOOSE e \in curves : TRUE], EndOfDay(d))
           known    == IF revoked # {} THEN total - unvested
                       ELSE IF formula = None THEN claimed ELSE formula
           vested   == Least(Most(known, claimed), total)
<1>1. total \in Nat /\ claimed \in Nat /\ unvested \in Nat
  <2>1. /\ created \subseteq log /\ Until(Of(s, "claimed"), d) \subseteq log
        /\ revoked \subseteq log
    BY DEF Of, Until
  <2>2. QED
    BY <2>1, AmountsNat
<1>2. formula \in Int
  <2>1. CASE curves = {}
    BY <2>1 DEF None
  <2>2. CASE curves # {}
    <3> DEFINE e == CHOOSE e \in curves : TRUE
    <3>1. e \in curves
      BY <2>2
    <3>2. e \in Events /\ Content[e].type = "schedule_created"
      BY <3>1 DEF Of, LogInv
    <3>3. EndOfDay(d) \in Int
      BY AnalyticsAssumption DEF EndOfDay
    <3> HIDE DEF e
    <3>4. VestedAtHour(Content[e], EndOfDay(d)) \in Int
      BY <3>2, <3>3, VestedIsInt
    <3>5. QED
      BY <2>2, <3>4 DEF e
  <2>3. QED
    BY <2>1, <2>2
<1>3. Row(s, d).locked = Most(total - vested - unvested, 0)
  BY DEF Row
<1>4. created = {} => total = 0 /\ curves = {}
  BY SumEmpty DEF Amounts
<1> HIDE DEF created, curves, total, claimed, unvested, formula, revoked
<1>5. known \in Int /\ (curves = {} /\ total = 0 => known \in {0 - unvested, claimed, formula})
  BY <1>1, <1>2
<1> HIDE DEF known
<1>6. /\ vested \in Int /\ vested <= total
      /\ Most(known, claimed) >= claimed /\ vested \in {Most(known, claimed), total}
  BY <1>1, <1>5, MostLeast
<1> HIDE DEF vested
<1>7. total - vested - unvested \in Int
  BY <1>1, <1>6
<1>8. Row(s, d).locked \in Nat
  BY <1>3, <1>7, MostLeast
<1>9. ASSUME total = 0 PROVE Row(s, d).locked = 0
  <2>1. Most(known, claimed) \in Int
    BY <1>1, <1>5, MostLeast
  <2>2. vested >= 0
    BY <1>1, <1>6, <1>9, <2>1
  <2>3. vested = 0
    BY <1>6, <1>9, <2>2
  <2>4. total - vested - unvested <= 0
    BY <1>1, <1>9, <2>3
  <2>5. Most(total - vested - unvested, 0) = 0
    BY <1>7, <2>4, MostLeast
  <2>6. QED
    BY <1>3, <2>5
<1>10. QED
  BY <1>4, <1>8, <1>9 DEF created

-----------------------------------------------------------------------------
(* Totals *)

\* Finitely many schedules have events, and the rows are finitely many.
LEMMA FiniteTables ==
  ASSUME LogInv, KeysInv
  PROVE  /\ IsFiniteSet(Affected(log)) /\ IsFiniteSet(DOMAIN snapshots)
         /\ OfToken \subseteq Affected(log) /\ OfGrantor \subseteq Affected(log)
         /\ IsFiniteSet(OfToken) /\ IsFiniteSet(OfGrantor)
<1> DEFINE f == [e \in log |-> Content[e].schedule]
<1>1. f \in Surjection(log, Affected(log))
  BY DEF Affected, Surjection
<1>2. IsFiniteSet(Affected(log))
  <2> HIDE DEF f
  <2> QED BY <1>1, FS_Surjection DEF LogInv
<1>3. IsFiniteSet(0..Today)
  BY DayFacts, FS_Interval DEF Today, LogInv
<1>4. IsFiniteSet(Affected(log) \X (0..Today))
  BY <1>2, <1>3, FS_Product
<1>5. DOMAIN snapshots \subseteq Affected(log) \X (0..Today)
  BY DEF KeysInv
<1>6. OfToken \subseteq Affected(log) /\ OfGrantor \subseteq Affected(log)
  BY DEF OfToken, OfGrantor, Of, Affected
<1>7. QED
  BY <1>2, <1>4, <1>5, <1>6, FS_Subset

\* What one schedule adds to a total.
Part(rows, s, d, field) ==
    SumFunctionOnSet([k \in DOMAIN rows |-> rows[k][field]], Latest(rows, s, d))

\* The total of a field is the sum of the schedules' parts.
LEMMA TotalIs ==
  ASSUME NEW rows, NEW ss, NEW d, NEW field
  PROVE  Total(rows, ss, d, field) =
             SumFunctionOnSet([s \in ss |-> Part(rows, s, d, field)], ss)
<1>1. DOMAIN [s \in ss |-> Part(rows, s, d, field)] = ss
  OBVIOUS
<1>2. QED
  BY <1>1, Zenon DEF Total, Part, SumFunction

\* Totals and counts depend on the latest rows of their schedules only.
LEMMA TotalAgrees ==
  ASSUME NEW rows, NEW news, NEW ss, NEW d, NEW field, IsFiniteSet(ss),
         IsFiniteSet(DOMAIN rows),
         \A s \in ss : /\ Latest(news, s, d) = Latest(rows, s, d)
                       /\ \A k \in Latest(rows, s, d) : news[k] = rows[k]
  PROVE  /\ Total(news, ss, d, field) = Total(rows, ss, d, field)
         /\ Active(news, ss, d) = Active(rows, ss, d)
<1> DEFINE f == [k \in DOMAIN rows |-> rows[k][field]]
           g == [k \in DOMAIN news |-> news[k][field]]
           p == [s \in ss |-> Part(rows, s, d, field)]
           q == [s \in ss |-> Part(news, s, d, field)]
<1>1. ASSUME NEW s \in ss PROVE q[s] = p[s]
  <2>1. Latest(rows, s, d) \subseteq DOMAIN rows /\ Latest(news, s, d) \subseteq DOMAIN news
    BY DEF Latest
  <2>2. IsFiniteSet(Latest(rows, s, d))
    BY <2>1, FS_Subset
  <2>3. \A k \in Latest(rows, s, d) : g[k] = f[k]
    BY <1>1, <2>1
  <2>4. SumFunctionOnSet(g, Latest(rows, s, d)) = SumFunctionOnSet(f, Latest(rows, s, d))
    <3> HIDE DEF f, g
    <3> QED BY <2>2, <2>3, SumAgrees
  <2>5. Part(news, s, d, field) = SumFunctionOnSet(g, Latest(news, s, d))
    BY Zenon DEF Part
  <2>6. Part(rows, s, d, field) = SumFunctionOnSet(f, Latest(rows, s, d))
    BY Zenon DEF Part
  <2>7. Latest(news, s, d) = Latest(rows, s, d)
    BY <1>1
  <2>8. Part(news, s, d, field) = Part(rows, s, d, field)
    <3> HIDE DEF f, g
    <3> QED BY <2>4, <2>5, <2>6, <2>7, Zenon
  <2>9. QED
    BY <1>1, <2>8
<1>2. SumFunctionOnSet(q, ss) = SumFunctionOnSet(p, ss)
  <2> HIDE DEF p, q
  <2> QED BY <1>1, SumAgrees
<1>3. Total(news, ss, d, field) = Total(rows, ss, d, field)
  BY <1>2, TotalIs, Zenon
<1>4. {s \in ss : \E k \in Latest(news, s, d) : news[k].locked > 0} =
      {s \in ss : \E k \in Latest(rows, s, d) : rows[k].locked > 0}
  OBVIOUS
<1>5. QED
  BY <1>3, <1>4, Zenon DEF Active

\* Schedules that lock nothing change neither what is locked nor how many are active.
LEMMA EmptySchedules ==
  ASSUME NEW rows, NEW ss, NEW tt, NEW d, IsFiniteSet(tt), ss \subseteq tt,
         IsFiniteSet(DOMAIN rows),
         \A k \in DOMAIN rows : rows[k].locked \in Nat,
         \A k \in DOMAIN rows : k[1] \in tt \ ss => rows[k].locked = 0
  PROVE  /\ Total(rows, tt, d, "locked") = Total(rows, ss, d, "locked")
         /\ Active(rows, tt, d) = Active(rows, ss, d)
<1> DEFINE f == [k \in DOMAIN rows |-> rows[k].locked]
           p == [s \in ss |-> Part(rows, s, d, "locked")]
           q == [s \in tt |-> Part(rows, s, d, "locked")]
<1>1. \A s : Latest(rows, s, d) \subseteq DOMAIN rows /\ IsFiniteSet(Latest(rows, s, d))
  <2>1. \A s : Latest(rows, s, d) \subseteq DOMAIN rows
    BY DEF Latest
  <2>2. QED
    BY <2>1, FS_Subset
<1>2. \A s : Part(rows, s, d, "locked") = SumFunctionOnSet(f, Latest(rows, s, d))
  BY Zenon DEF Part
<1>3. \A k \in DOMAIN rows : f[k] = rows[k].locked
  OBVIOUS
<1>4. ASSUME NEW s PROVE Part(rows, s, d, "locked") \in Nat
  <2>1. \A k \in Latest(rows, s, d) : f[k] \in Nat
    BY <1>1, <1>3
  <2> HIDE DEF f
  <2>2. SumFunctionOnSet(f, Latest(rows, s, d)) \in Nat
    BY <1>1, <2>1, SumNat
  <2>3. QED
    BY <1>2, <2>2
<1>5. ASSUME NEW s \in tt \ ss PROVE Part(rows, s, d, "locked") = 0
  <2>1. \A k \in Latest(rows, s, d) : k[1] = s
    BY DEF Latest
  <2>2. \A k \in Latest(rows, s, d) : f[k] = 0
    BY <1>1, <1>3, <1>5, <2>1
  <2> HIDE DEF f
  <2>3. SumFunctionOnSet(f, Latest(rows, s, d)) = 0
    BY <1>1, <2>2, SumZero
  <2>4. QED
    BY <1>2, <2>3
<1>6. SumFunctionOnSet(q, tt) = SumFunctionOnSet(q, ss)
  <2>1. \A s \in tt : q[s] \in Int
    BY <1>4
  <2>2. \A s \in tt \ ss : q[s] = 0
    BY <1>5
  <2> HIDE DEF q
  <2>3. QED
    BY <2>1, <2>2, SumIgnoresZeros
<1>7. SumFunctionOnSet(q, ss) = SumFunctionOnSet(p, ss)
  <2>1. \A s \in ss : q[s] = p[s]
    OBVIOUS
  <2>2. IsFiniteSet(ss)
    BY FS_Subset
  <2> HIDE DEF p, q
  <2>3. QED
    BY <2>1, <2>2, SumAgrees
<1>8. Total(rows, tt, d, "locked") = Total(rows, ss, d, "locked")
  BY <1>6, <1>7, TotalIs, Zenon
<1>9. {s \in tt : \E k \in Latest(rows, s, d) : rows[k].locked > 0} =
      {s \in ss : \E k \in Latest(rows, s, d) : rows[k].locked > 0}
  <2>1. ASSUME NEW s \in tt \ ss, NEW k \in Latest(rows, s, d), rows[k].locked > 0 PROVE FALSE
    <3>1. k \in DOMAIN rows /\ k[1] = s
      BY <2>1 DEF Latest
    <3>2. rows[k].locked = 0
      BY <2>1, <3>1
    <3>3. QED
      BY <2>1, <3>2
  <2>2. QED
    BY <2>1
<1>10. QED
  BY <1>8, <1>9, Zenon DEF Active

\* Every step keeps what rows lock.
LEMMA LockedNext ==
  ASSUME LogInv, KeysInv, LockedInv, [Next]_vars
  PROVE  LockedInv'
<1> SUFFICES ASSUME NEW k \in DOMAIN snapshots'
             PROVE  /\ snapshots'[k].locked \in Nat
                    /\ k[1] \notin OfToken' => snapshots'[k].locked = 0
  BY DEF LockedInv
<1>1. OfToken \subseteq OfToken'
  BY NothingForgotten DEF OfToken
<1>2. CASE k \in DOMAIN snapshots /\ snapshots'[k] = snapshots[k]
  BY <1>1, <1>2 DEF LockedInv
<1>3. CASE Materialize /\ k \in Rewritten(Batch)
  <2>1. snapshots'[k] = Row(k[1], k[2])
    BY <1>3, MaterializeRows
  <2>2. k[1] \in Affected(Batch) /\ k[2] \in 0..Today
    BY <1>3 DEF Rewritten
  <2>3. k[2] \in Nat
    BY <2>2
  <2>4. k[1] \in Schedules
    BY <2>2 DEF Affected, Batch, Pending, LogInv, Schedules
  <2>5. k[1] \notin OfToken => Of(k[1], "schedule_created") = {}
    BY <2>4 DEF OfToken
  <2>6. QED
    BY <1>1, <2>1, <2>3, <2>5, RowLocked
<1>4. QED
  BY <1>2, <1>3, RowSteps, ArriveRows, MaterializeRows

\* When no created schedule is affected, the latest rows of the created ones stay.
LEMMA SameLatest ==
  ASSUME Materialize, NEW ss, Affected(Batch) \cap ss = {}, NEW d
  PROVE  \A s \in ss : /\ Latest(snapshots', s, d) = Latest(snapshots, s, d)
                       /\ \A k \in Latest(snapshots, s, d) : snapshots'[k] = snapshots[k]
<1>1. \A k \in Rewritten(Batch) : k[1] \notin ss
  BY DEF Rewritten
<1>2. ASSUME NEW s \in ss
      PROVE  \A k : k \in DOMAIN snapshots' /\ k[1] = s <=> k \in DOMAIN snapshots /\ k[1] = s
  BY <1>1, MaterializeRows
<1>3. ASSUME NEW s \in ss
      PROVE  Latest(snapshots', s, d) = Latest(snapshots, s, d)
  BY <1>2 DEF Latest
<1>4. ASSUME NEW s \in ss, NEW k \in Latest(snapshots, s, d)
      PROVE  snapshots'[k] = snapshots[k]
  <2>1. k \in DOMAIN snapshots /\ k[1] = s
    BY DEF Latest
  <2>2. QED
    BY <1>1, <2>1, MaterializeRows
<1>5. QED
  BY <1>3, <1>4

\* Every step keeps the token's last total: only a run that affects a created schedule
\* changes what is summed up, and that run writes the total anew.
LEMMA TvlNext ==
  ASSUME LogInv, KeysInv, LockedInv, TvlInv, [Next]_vars
  PROVE  TvlInv'
<1>1. Today \in Nat /\ Today' \in Nat /\ Today <= Today'
  BY NothingForgotten
<1>2. CASE Materialize /\ TokenAffected(Batch)
  <2>1. tvl' = Written(tvl, Today, TvlRow(snapshots', Today))
    BY <1>2 DEF Materialize
  <2>2. Today' = Today /\ OfToken' = OfToken
    BY <1>2, MaterializeRows DEF Today, OfToken, Of
  <2>3. \A x \in DOMAIN tvl : x \in Nat /\ x <= Today
    <3>1. CASE tvl = << >>
      BY <3>1
    <3>2. CASE tvl # << >>
      <4>1. PICK d \in 0..Today : LastIs(tvl, d)
        BY <3>2 DEF TvlInv
      <4>2. QED
        BY <1>1, <4>1 DEF LastIs
    <3>3. QED
      BY <3>1, <3>2
  <2>4. DOMAIN tvl' = DOMAIN tvl \cup {Today} /\ tvl'[Today] = TvlRow(snapshots', Today)
    BY <2>1 DEF Written
  <2>5. LastIs(tvl', Today)
    BY <1>1, <2>3, <2>4 DEF LastIs
  <2>6. TvlRow(snapshots, Today)' = TvlRow(snapshots', Today)
    BY <2>2, Zenon DEF TvlRow
  <2>7. Today \in 0..Today'
    BY <1>1, <2>2
  <2>8. tvl'[Today] = TvlRow(snapshots, Today)'
    BY <2>4, <2>6, Zenon
  <2>9. \E d \in 0..Today' : LastIs(tvl, d)' /\ tvl'[d] = TvlRow(snapshots, d)'
    <3>1. LastIs(tvl, Today)'
      BY <2>2, <2>5, Zenon DEF LastIs
    <3>2. QED
      BY <2>2, <2>7, <2>8, <3>1, Zenon
  <2>10. QED
    BY <2>9, Zenon DEF TvlInv
<1>3. ASSUME tvl' = tvl,
             \A d : TvlRow(snapshots, d)' = TvlRow(snapshots, d)
      PROVE  TvlInv'
  <2> SUFFICES ASSUME tvl # << >>
               PROVE  \E d \in 0..Today' : LastIs(tvl, d)' /\ tvl'[d] = TvlRow(snapshots, d)'
    BY <1>3, Zenon DEF TvlInv
  <2>1. PICK d \in 0..Today : LastIs(tvl, d) /\ tvl[d] = TvlRow(snapshots, d)
    BY Zenon DEF TvlInv
  <2>2. d \in 0..Today'
    BY <1>1
  <2>3. LastIs(tvl, d)' /\ tvl'[d] = TvlRow(snapshots, d)'
    BY <1>3, <2>1, Zenon DEF LastIs
  <2>4. QED
    BY <2>2, <2>3, Zenon
<1>4. CASE Materialize /\ ~TokenAffected(Batch)
  <2>1. tvl' = tvl
    BY <1>4 DEF Materialize
  <2>2. OfToken' = OfToken
    BY <1>4, MaterializeRows DEF OfToken, Of
  <2>3. ASSUME NEW d PROVE TvlRow(snapshots', d) = TvlRow(snapshots, d)
    <3>1. \A s \in OfToken : /\ Latest(snapshots', s, d) = Latest(snapshots, s, d)
                             /\ \A k \in Latest(snapshots, s, d) : snapshots'[k] = snapshots[k]
      BY <1>4, SameLatest DEF TokenAffected
    <3>2. /\ Total(snapshots', OfToken, d, "locked") = Total(snapshots, OfToken, d, "locked")
          /\ Active(snapshots', OfToken, d) = Active(snapshots, OfToken, d)
      BY <3>1, FiniteTables, TotalAgrees
    <3>3. QED
      BY <3>2, Zenon DEF TvlRow
  <2>4. \A d : TvlRow(snapshots, d)' = TvlRow(snapshots', d)
    BY <2>2, Zenon DEF TvlRow
  <2>5. QED
    BY <1>3, <2>1, <2>3, <2>4, Zenon
<1>5. ASSUME NEW e \in Events, Arrive(e)
      PROVE  TvlInv'
  <2>1. tvl' = tvl /\ snapshots' = snapshots
    BY <1>5, ArriveRows
  <2>2. OfToken \subseteq OfToken' /\ IsFiniteSet(OfToken')
    <3>1. OfToken' \subseteq OfToken \cup {Content[e].schedule}
      BY <1>5, ArrivesNew DEF OfToken, Of
    <3>2. IsFiniteSet(OfToken')
      BY <3>1, FiniteTables, FS_AddElement, FS_Subset
    <3>3. OfToken \subseteq OfToken'
      BY NothingForgotten DEF OfToken
    <3>4. QED
      BY <3>2, <3>3
  <2>3. ASSUME NEW d PROVE TvlRow(snapshots, d)' = TvlRow(snapshots, d)
    <3>1. \A k \in DOMAIN snapshots : snapshots[k].locked \in Nat
      BY DEF LockedInv
    <3>2. \A k \in DOMAIN snapshots : k[1] \in OfToken' \ OfToken => snapshots[k].locked = 0
      BY DEF LockedInv
    <3>3. /\ Total(snapshots, OfToken', d, "locked") = Total(snapshots, OfToken, d, "locked")
          /\ Active(snapshots, OfToken', d) = Active(snapshots, OfToken, d)
      BY <2>2, <3>1, <3>2, FiniteTables, EmptySchedules
    <3>4. TvlRow(snapshots, d)' = [locked |-> Total(snapshots', OfToken', d, "locked"),
                                   active |-> Active(snapshots', OfToken', d)]
      BY Zenon DEF TvlRow
    <3>5. QED
      BY <2>1, <3>3, <3>4, Zenon DEF TvlRow
  <2>4. QED
    BY <1>3, <2>1, <2>3, Zenon
<1>6. CASE snapshots' = snapshots /\ log' = log /\ tvl' = tvl
  <2>1. OfToken' = OfToken
    BY <1>6 DEF OfToken, Of
  <2>2. \A d : TvlRow(snapshots, d)' = TvlRow(snapshots, d)
    BY <1>6, <2>1, Zenon DEF TvlRow
  <2>3. QED
    BY <1>3, <1>6, <2>2, Zenon
<1>7. QED
  BY <1>2, <1>4, <1>5, <1>6, RowSteps

\* Every step keeps the grantor's last total: while every schedule of the log is
\* created and nothing is pending, only a run that writes it changes a row.
LEMMA GrantsNext ==
  ASSUME LogInv, KeysInv, GrantsInv, [Next]_vars
  PROVE  GrantsInv'
<1> DEFINE complete == Pending = {} /\ Affected(log) = OfToken
<1>1. Today \in Nat /\ Today' \in Nat /\ Today <= Today'
  BY NothingForgotten
<1>2. CASE Materialize /\ TokenAffected(Batch)
  <2>1. grants' = Written(grants, Today, GrantorRow(snapshots', Today))
    BY <1>2 DEF Materialize
  <2>2. Today' = Today /\ OfGrantor' = OfGrantor
    BY <1>2, MaterializeRows DEF Today, OfGrantor, Of
  <2>3. \A x \in DOMAIN grants : x \in Nat /\ x <= Today
    <3>1. CASE grants = << >>
      BY <3>1
    <3>2. CASE grants # << >>
      <4>1. PICK d \in 0..Today : LastIs(grants, d)
        BY <3>2 DEF GrantsInv
      <4>2. QED
        BY <1>1, <4>1 DEF LastIs
    <3>3. QED
      BY <3>1, <3>2
  <2>4. /\ DOMAIN grants' = DOMAIN grants \cup {Today}
        /\ grants'[Today] = GrantorRow(snapshots', Today)
    BY <2>1 DEF Written
  <2>5. LastIs(grants', Today)
    BY <1>1, <2>3, <2>4 DEF LastIs
  <2>6. GrantorRow(snapshots, Today)' = GrantorRow(snapshots', Today)
    BY <2>2, Zenon DEF GrantorRow
  <2>7. Today \in 0..Today'
    BY <1>1, <2>2
  <2>8. grants'[Today] = GrantorRow(snapshots, Today)'
    BY <2>4, <2>6, Zenon
  <2>9. LastIs(grants, Today)'
    BY <2>2, <2>5, Zenon DEF LastIs
  <2>10. QED
    BY <2>2, <2>7, <2>8, <2>9, Zenon DEF GrantsInv
<1>3. ASSUME grants' = grants,
             complete' => complete /\ \A d : GrantorRow(snapshots, d)' = GrantorRow(snapshots, d)
      PROVE  GrantsInv'
  <2> SUFFICES ASSUME grants # << >>
               PROVE  \E d \in 0..Today' :
                         /\ LastIs(grants, d)'
                         /\ complete' => grants'[d] = GrantorRow(snapshots, d)'
    BY <1>3, Zenon DEF GrantsInv
  <2>1. PICK d \in 0..Today : LastIs(grants, d) /\ (complete => grants[d] = GrantorRow(snapshots, d))
    BY Zenon DEF GrantsInv
  <2>2. d \in 0..Today'
    BY <1>1
  <2>3. LastIs(grants, d)' /\ (complete' => grants'[d] = GrantorRow(snapshots, d)')
    BY <1>3, <2>1, Zenon DEF LastIs
  <2>4. QED
    BY <2>2, <2>3, Zenon
<1>4. CASE Materialize /\ ~TokenAffected(Batch)
  <2>1. grants' = grants /\ materialized' = materialized \cup Batch
    BY <1>4 DEF Materialize
  <2>2. /\ OfGrantor' = OfGrantor /\ OfToken' = OfToken
        /\ Affected(log)' = Affected(log) /\ Pending' = Pending \ Batch
    BY <1>4, <2>1, MaterializeRows DEF OfToken, OfGrantor, Of, Affected, Pending
  <2>3. ASSUME complete' PROVE complete /\ \A d : GrantorRow(snapshots, d)' = GrantorRow(snapshots, d)
    <3>1. Batch \subseteq Pending /\ Pending \subseteq log
      BY DEF Batch, Pending
    <3>2. Affected(log) = OfToken
      BY <2>2, <2>3
    <3>3. Batch = {}
      <4>1. Affected(Batch) \subseteq Affected(log)
        BY <3>1 DEF Affected
      <4>2. Affected(Batch) = {}
        BY <1>4, <3>2, <4>1 DEF TokenAffected
      <4>3. QED
        BY <4>2 DEF Affected
    <3>4. complete
      BY <2>2, <2>3, <3>2, <3>3
    <3>5. ASSUME NEW d PROVE GrantorRow(snapshots', d) = GrantorRow(snapshots, d)
      <4>1. Affected(Batch) \cap OfGrantor = {}
        BY <3>3 DEF Affected
      <4>2. \A s \in OfGrantor : /\ Latest(snapshots', s, d) = Latest(snapshots, s, d)
                                 /\ \A k \in Latest(snapshots, s, d) : snapshots'[k] = snapshots[k]
        BY <1>4, <4>1, SameLatest
      <4>3. /\ Total(snapshots', OfGrantor, d, "claimed") = Total(snapshots, OfGrantor, d, "claimed")
            /\ Active(snapshots', OfGrantor, d) = Active(snapshots, OfGrantor, d)
        BY <4>2, FiniteTables, TotalAgrees
      <4>4. QED
        BY <4>3, Zenon DEF GrantorRow
    <3>6. \A d : GrantorRow(snapshots, d)' = GrantorRow(snapshots', d)
      BY <2>2, Zenon DEF GrantorRow
    <3>7. QED
      BY <3>4, <3>5, <3>6, Zenon
  <2>4. QED
    BY <1>3, <2>1, <2>3, Zenon
<1>5. ASSUME NEW e \in Events, Arrive(e)
      PROVE  GrantsInv'
  <2>1. grants' = grants
    BY <1>5, ArriveRows
  <2>2. ~complete'
    BY <1>5, ArrivesNew
  <2>3. QED
    BY <1>3, <2>1, <2>2, Zenon
<1>6. CASE /\ snapshots' = snapshots /\ log' = log /\ materialized' = materialized
           /\ grants' = grants
  <2>1. OfToken' = OfToken /\ OfGrantor' = OfGrantor /\ complete' = complete
    BY <1>6 DEF OfToken, OfGrantor, Of, Pending, Affected
  <2>2. \A d : GrantorRow(snapshots, d)' = GrantorRow(snapshots, d)
    BY <1>6, <2>1, Zenon DEF GrantorRow
  <2>3. QED
    BY <1>3, <1>6, <2>1, <2>2, Zenon
<1>7. QED
  BY <1>2, <1>4, <1>5, <1>6, RowSteps

\* The token's total is at all times the sum of its schedules' latest snapshots of
\* that day, though a run writes it only when it knows a schedule's creation; the
\* grantor's is once all creations and pending events are in.
THEOREM TotalsFollowSnapshots == Spec => []TotalsMatchSnapshots
<1> DEFINE I == LogInv /\ KeysInv /\ LockedInv /\ TvlInv /\ GrantsInv
<1>1. Init => I
  BY FS_EmptySet DEF Init, LogInit, LogInv, KeysInv, LockedInv, TvlInv, GrantsInv
<1>2. I /\ [Next]_vars => I'
  BY LogNextKeeps, KeysNext, LockedNext, TvlNext, GrantsNext
<1>3. I => TotalsMatchSnapshots
  <2> SUFFICES ASSUME I PROVE TotalsMatchSnapshots
    OBVIOUS
  <2>1. ASSUME NEW f, NEW d, LastIs(f, d) PROVE Max(DOMAIN f) = d
    <3>1. DOMAIN f \subseteq Int /\ d \in DOMAIN f /\ \A x \in DOMAIN f : x <= d
      BY <2>1 DEF LastIs
    <3>2. QED
      BY <3>1, GreatestIs
  <2>2. tvl # << >> => tvl[Max(DOMAIN tvl)] = TvlRow(snapshots, Max(DOMAIN tvl))
    BY <2>1, Zenon DEF TvlInv
  <2>3. (grants # << >> /\ Pending = {} /\ Affected(log) = OfToken) =>
            grants[Max(DOMAIN grants)] = GrantorRow(snapshots, Max(DOMAIN grants))
    BY <2>1, Zenon DEF GrantsInv
  <2>4. QED
    BY <2>2, <2>3, Zenon DEF TotalsMatchSnapshots
<1>4. QED
  BY <1>1, <1>2, <1>3, PTL DEF Spec
=============================================================================
