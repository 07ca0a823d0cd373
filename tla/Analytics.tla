----------------------------- MODULE Analytics -----------------------------
(***************************************************************************)
(* The analytics worker of the indexer: after every poll it folds the      *)
(* events not yet marked into daily snapshots of each schedule, daily      *)
(* totals of the token and of the grantor, and an hourly series of the     *)
(* open streams.  Composed with EventLog: events arrive in any order, late *)
(* ones for days long written, and those the replay engine stores without  *)
(* the parameters of their curve.                                          *)
(*                                                                         *)
(* There is one token and one grantor.  An hour is the clock's unit.       *)
(***************************************************************************)
EXTENDS EventLog, Integers, FiniteSets, FiniteSetsExt, Functions

CONSTANTS
    HoursPerDay,
    BatchLimit,   \* events of one materialization (5000)
    MaxHour,      \* bound: the clock
    MaxStreams    \* bound: open streams

\* Event ids are numbers in the order of the chain.
EventRecord ==
    [type : {"schedule_created"}, schedule : Nat, hour : Nat, amount : Nat,
     start : Nat, duration : Nat, cliff : Nat, kind : {"Linear", "Cliff", "LinearWithCliff", "Graded"}]
        \cup [type : {"claimed", "revoked"}, schedule : Nat, hour : Nat, amount : Nat]

ASSUME AnalyticsAssumption ==
    /\ Events \subseteq Nat /\ Content \in [Events -> EventRecord]
    /\ {HoursPerDay, BatchLimit} \subseteq Nat \ {0} /\ {MaxHour, MaxStreams} \subseteq Nat

VARIABLES
    now,            \* the hour
    bare,           \* created events stored without their curve
    materialized,   \* the events marked materialized_at
    snapshots,      \* schedule_daily_snapshots: <<schedule, day>> -> row
    tvl,            \* token_daily_tvl: day -> row
    grants,         \* grantor_daily_stats: day -> row
    open,           \* drips_streams: how many are open; None before the first
    hourly          \* stream_hourly_snapshots: hour -> open streams

series == <<snapshots, tvl, grants, hourly>>
vars == <<logVars, now, bare, materialized, series, open>>

None == -1

Schedules == {Content[e].schedule : e \in Events}
Day(h) == h \div HoursPerDay
EndOfDay(d) == (d + 1) * HoursPerDay - 1
Today == Day(now)

Init ==
    /\ LogInit
    /\ now = 0 /\ open = None
    /\ bare = {} /\ materialized = {}
    /\ snapshots = << >> /\ tvl = << >> /\ grants = << >> /\ hourly = << >>

-----------------------------------------------------------------------------
(* What arrives meanwhile *)

Tick ==
    /\ now < MaxHour
    /\ now' = now + 1
    /\ UNCHANGED <<logVars, bare, materialized, series, open>>

\* An event of the past is stored, by the poller or, bare, by the replay engine.
Arrive(e) ==
    /\ Content[e].hour <= now
    /\ announced' = announced /\ Enter(e)
    /\ bare' \in {bare, IF Content[e].type = "schedule_created" THEN bare \cup {e} ELSE bare}
    /\ UNCHANGED <<now, materialized, series, open>>

StreamsChange(n) ==
    /\ n # open
    /\ open' = n
    /\ UNCHANGED <<logVars, now, bare, materialized, series>>

-----------------------------------------------------------------------------
(* The fold over one schedule's events *)

\* Tokens vested at the hour; None for kinds without a formula of time alone.
VestedAtHour(c, h) ==
    LET elapsed == h - c.start
    IN  CASE h <= c.start                -> 0
          [] h > c.start /\ elapsed >= c.duration -> c.amount
          [] OTHER ->
               CASE c.kind = "Cliff" -> IF elapsed >= c.cliff THEN c.amount ELSE 0
                 [] c.kind = "LinearWithCliff" ->
                      IF elapsed < c.cliff THEN 0
                      ELSE (c.amount * (elapsed - c.cliff)) \div (c.duration - c.cliff)
                 [] c.kind = "Linear" -> (c.amount * elapsed) \div c.duration
                 [] OTHER -> None

Of(s, type) == {e \in log : Content[e].schedule = s /\ Content[e].type = type}

Amounts(es) == SumFunctionOnSet([e \in es |-> Content[e].amount], es)

Until(es, d) == {e \in es : Day(Content[e].hour) <= d}

Least(a, b) == IF a < b THEN a ELSE b
Most(a, b) == IF a > b THEN a ELSE b

\* foldScheduleEvents, computeScheduleSnapshotForDay
Row(s, d) ==
    LET total    == Amounts(Of(s, "schedule_created"))
        claimed  == Amounts(Until(Of(s, "claimed"), d))
        revoked  == Until(Of(s, "revoked"), d)
        unvested == Amounts(revoked)
        curves   == Of(s, "schedule_created") \ bare
        formula  == IF curves = {} THEN None
                    ELSE VestedAtHour(Content[CHOOSE e \in curves : TRUE], EndOfDay(d))
        known    == IF revoked # {} THEN total - unvested
                    ELSE IF formula = None THEN claimed ELSE formula
        vested   == Least(Most(known, claimed), total)
    IN  [vested |-> vested, claimed |-> claimed,
         claimable |-> Most(vested - claimed, 0), locked |-> Most(total - vested - unvested, 0)]

\* Nothing is known of a schedule but, at most, its revocation.
Blank(s) == Of(s, "schedule_created") = {} /\ Of(s, "claimed") = {}

-----------------------------------------------------------------------------
(* Materialization *)

Pending == log \ materialized

\* The pending events of the earliest ledgers.
Batch == {e \in Pending : Cardinality({f \in Pending : f < e}) < BatchLimit}

Affected(batch) == {Content[e].schedule : e \in batch}

\* Mutant: only the days that got an event are written again.
DaysTouched(batch, s) == {Day(Content[e].hour) : e \in {f \in batch : Content[f].schedule = s}}

\* A late event shifts every day from its own to the present one.
DaysFrom(batch, s) ==
    Min({Day(Content[e].hour) : e \in {f \in batch : Content[f].schedule = s}})..Today

\* The rows written again: later ones replace those of the same key.
Rewritten(batch) ==
    {k \in Affected(batch) \X (0..Today) : k[2] \in DaysFrom(batch, k[1]) /\ ~Blank(k[1])}

NewSnapshots(batch) ==
    [k \in DOMAIN snapshots \cup Rewritten(batch) |->
        IF k \in Rewritten(batch) THEN Row(k[1], k[2]) ELSE snapshots[k]]

\* getScheduleSnapshotOnOrBefore: the rows of the day, or the last ones before it.
Latest(rows, s, d) == {k \in DOMAIN rows : k[1] = s /\ k[2] <= d /\
                          \A j \in DOMAIN rows : j[1] = s /\ j[2] <= d => j[2] <= k[2]}

Total(rows, ss, d, field) ==
    SumFunction([s \in ss |->
        SumFunctionOnSet([k \in DOMAIN rows |-> rows[k][field]], Latest(rows, s, d))])

Active(rows, ss, d) ==
    Cardinality({s \in ss : \E k \in Latest(rows, s, d) : rows[k].locked > 0})

\* The schedules the token's totals sum up, and those the grantor's do: a claim
\* names no grantor.
OfToken == {s \in Schedules : Of(s, "schedule_created") # {}}
OfGrantor == {s \in Schedules : Of(s, "schedule_created") \cup Of(s, "revoked") # {}}

TvlRow(rows, d) ==
    [locked |-> Total(rows, OfToken, d, "locked"), active |-> Active(rows, OfToken, d)]
GrantorRow(rows, d) ==
    [distributed |-> Total(rows, OfGrantor, d, "claimed"), active |-> Active(rows, OfGrantor, d)]

\* Mutant: a revocation or a claim does not lead to the token of its schedule.
NamesTokenItself(batch) == \E e \in batch : Content[e].type = "schedule_created"

\* Some affected schedule's creation, and with it its token and grantor, is known.
TokenAffected(batch) == Affected(batch) \cap OfToken # {}

Written(f, x, row) == [k \in DOMAIN f \cup {x} |-> IF k = x THEN row ELSE f[k]]

\* Mutant: the hour after the last row is left out.
FilledFromNext(last) == (last + 2)..(now - 1)

\* The hours since the last row that no run has written.
FilledHours(last) == (last + 1)..(now - 1)

\* materializeStreamHourlySnapshots
HourlySeries ==
    LET before == {h \in DOMAIN hourly : h < now}
        gap    == IF before = {} THEN {} ELSE FilledHours(Max(before))
    IN  IF open = None THEN hourly
        ELSE [h \in DOMAIN hourly \cup gap \cup {now} |->
                 IF h = now THEN open
                 ELSE IF h \in gap THEN hourly[Max(before)] ELSE hourly[h]]

\* One transaction for the hourly series, another for the rest.
Materialize ==
    LET rows == NewSnapshots(Batch)
    IN  /\ hourly' = HourlySeries
        /\ snapshots' = rows
        /\ IF TokenAffected(Batch)
           THEN /\ tvl' = Written(tvl, Today, TvlRow(rows, Today))
                /\ grants' = Written(grants, Today, GrantorRow(rows, Today))
           ELSE UNCHANGED <<tvl, grants>>
        /\ materialized' = materialized \cup Batch
        /\ UNCHANGED <<logVars, now, bare, open>>

\* The process ends between the two transactions, or the second one fails.
MaterializeHourlyOnly ==
    /\ hourly' = HourlySeries
    /\ UNCHANGED <<logVars, now, bare, materialized, snapshots, tvl, grants, open>>

Next ==
    \/ Tick \/ Materialize \/ MaterializeHourlyOnly
    \/ \E e \in Events : Arrive(e)
    \/ \E n \in 0..MaxStreams : StreamsChange(n)

Spec == Init /\ [][Next]_vars

-----------------------------------------------------------------------------
(* Properties *)

Settled(s) == \A e \in Pending : Content[e].schedule # s

\* "replayed events that land out of ledger order ... self-correct the affected
\* day": every snapshot of a schedule without pending events is what all events
\* stored for it make of that day, in whatever order and batches they came.
SnapshotsExact ==
    \A k \in DOMAIN snapshots : Settled(k[1]) => snapshots[k] = Row(k[1], k[2])

\* The last totals written for the token are the sums of its schedules' latest
\* snapshots; once creations and pending events are in, so are the grantor's.
TotalsMatchSnapshots ==
    /\ tvl # << >> =>
          LET d == Max(DOMAIN tvl) IN tvl[d] = TvlRow(snapshots, d)
    /\ (grants # << >> /\ Pending = {} /\ Affected(log) = OfToken) =>
          LET d == Max(DOMAIN grants) IN grants[d] = GrantorRow(snapshots, d)

\* The hourly series has no hole between its first and last hour.
HourlyComplete ==
    hourly # << >> => DOMAIN hourly = Min(DOMAIN hourly)..Max(DOMAIN hourly)
=============================================================================
