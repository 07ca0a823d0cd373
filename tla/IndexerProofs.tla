--------------------------- MODULE IndexerProofs ---------------------------
(***************************************************************************)
(* Proofs about the indexer, for every chain, page size, bound and number  *)
(* of faults.  It implements the event log: no step of the poller, the     *)
(* replay engine, a retry or a crash enters an event twice or announces it *)
(* twice.  Its checkpoint passes nothing that is not stored, skipped or    *)
(* left half read.  While nothing fails, events are stored in order and    *)
(* the tables derived from them agree with them.                           *)
(***************************************************************************)
EXTENDS Indexer, SumTheorems, TLAPS

\* What the store knows of an event: announced at most once, and only if stored.
LogInv ==
    /\ stored \subseteq Events
    /\ fanouts \in [Events -> Nat]
    /\ \A e \in Events : fanouts[e] \in {0, 1} /\ (fanouts[e] = 1 => e \in stored)

\* What the two loops have in hand are events of the chain.
HandsInv ==
    /\ "page" \in DOMAIN poller /\ poller.page \subseteq Events
    /\ "page" \in DOMAIN engine /\ engine.page \subseteq Events

LInv == LogInv /\ HandsInv

LogStep == Log!LogNext \/ UNCHANGED <<stored, fanouts>>

-----------------------------------------------------------------------------
\* The first of some events are among them.
LEMMA FirstAreAmong ==
  ASSUME NEW n, NEW es, es \subseteq Events
  PROVE  FirstOf(n, es) \subseteq Events
BY DEF FirstOf

\* A page of the chain holds events only.
LEMMA PagesHoldEvents ==
  ASSUME NEW from, NEW cursor, NEW to
  PROVE  Page(from, cursor, to) \subseteq Events
<1>1. EventsFrom(from, cursor, to) \subseteq Events
  BY DEF EventsFrom, EventsUpTo
<1> QED BY <1>1, FirstAreAmong DEF Page

\* So does what the archive returns.
LEMMA ArchiveHoldsEvents ==
  ASSUME NEW from, NEW to
  PROVE  HorizonEvents(from, to) \subseteq Events
<1> DEFINE n == (Cardinality(EventsUpTo(to)) \div PageSize) * PageSize
<1>1. EventsUpTo(tip) \subseteq Events
  BY DEF EventsUpTo
<1>2. FirstOf(n, EventsUpTo(tip)) \subseteq Events
  BY <1>1, FirstAreAmong
<1> QED BY <1>1, <1>2 DEF HorizonEvents

\* Writing an event is a step of the log: its row comes before its webhooks, and
\* an event that is not known was never announced.
LEMMA ProcessIsLogStep ==
  ASSUME LogInv, NEW e \in Events, NEW w, "webhooks" \in w => "row" \in w,
         ProcessEvent(e, w)
  PROVE  LogInv' /\ LogStep
<1>1. CASE UNCHANGED storeVars
  BY <1>1 DEF LogInv, LogStep, storeVars
<1>2. CASE ~Known(e) /\ WriteEvent(e, w)
  <2>1. e \notin stored
    BY <1>2 DEF Known
  <2>2. fanouts[e] = 0
    BY <2>1 DEF LogInv
  <2>3. CASE "row" \notin w
    BY <1>2, <2>3 DEF WriteEvent, LogInv, LogStep
  <2>4. CASE "row" \in w
    <3>1. stored' = stored \cup {e}
      BY <1>2, <2>4 DEF WriteEvent
    <3>2. fanouts' \in {fanouts, [fanouts EXCEPT ![e] = 1]}
      BY <1>2, <2>2 DEF WriteEvent, LogInv
    <3>3. LogInv'
      BY <3>1, <3>2 DEF LogInv
    <3>4. ~Log!Known(e)
      BY <1>2 DEF Known, Log!Known
    <3> QED BY <3>1, <3>2, <3>3, <3>4 DEF LogStep, Log!LogNext, Log!Enter
  <2> QED BY <2>3, <2>4
<1> QED BY <1>1, <1>2 DEF ProcessEvent

\* The sets of writes that an error or a crash leaves respect that order.
LEMMA RowsComeFirst ==
  \A w \in CutOff \cup Thrown \cup Caught \cup {Done} :
      /\ "webhooks" \in w => "row" \in w
      /\ "webhooks" \in (w \ {"notices"}) => "row" \in (w \ {"notices"})
BY DEF CutOff, Thrown, Caught, Done

\* The ledger in hand leaves the page with the rest of it.
LEMMA GroupDoneKeeps ==
  ASSUME HandsInv
  PROVE  "page" \in DOMAIN GroupDone /\ GroupDone.page \subseteq Events
BY DEF HandsInv, GroupDone

-----------------------------------------------------------------------------
\* The steps that store nothing are stuttering steps of the log.
LEMMA OtherSteps ==
  ASSUME LInv,
         CloseLedger \/ Fetch \/ SavePage \/ StartupDetection \/ NextPoll
           \/ (\E q \in DOMAIN queue, horizon \in BOOLEAN : TakeRange(q, horizon))
           \/ ReplayFetch \/ ReplayPageDone \/ PeriodicDetection
           \/ FetchFails \/ ReplayFails \/ Stop \/ Exit \/ Crash
  PROVE  LInv' /\ LogStep
<1>1. ASSUME UNCHANGED storeVars, HandsInv' PROVE LInv' /\ LogStep
  BY <1>1 DEF LInv, LogInv, LogStep, storeVars
<1>2. StartEngine.page = {} /\ "page" \in DOMAIN StartEngine
      /\ StartPoller.page = {} /\ "page" \in DOMAIN StartPoller
  BY DEF StartEngine, StartPoller
<1>3. CASE CloseLedger
  BY <1>1, <1>3 DEF CloseLedger, LInv, HandsInv
<1>4. CASE Fetch
  <2> DEFINE pg == Page(StartLedger, IF poller.pc = "poll" THEN NoEvent ELSE poller.cursor, tip)
  <2>1. pg \subseteq Events
    BY PagesHoldEvents
  <2>2. UNCHANGED storeVars /\ UNCHANGED engine /\ poller'.page = pg
        /\ DOMAIN poller' = DOMAIN poller
    BY <1>4 DEF Fetch, LInv, HandsInv
  <2> HIDE DEF pg
  <2> QED BY <1>1, <2>1, <2>2 DEF LInv, HandsInv
<1>5. CASE SavePage
  <2>1. UNCHANGED <<storeVars, engine>> /\ DOMAIN poller' = DOMAIN poller
        /\ poller'.page = poller.page
    BY <1>5 DEF SavePage, LInv, HandsInv
  <2> QED BY <1>1, <2>1 DEF LInv, HandsInv
<1>6. CASE StartupDetection \/ NextPoll \/ PeriodicDetection \/ FetchFails
  <2>1. UNCHANGED <<storeVars, engine>> /\ DOMAIN poller' = DOMAIN poller
        /\ poller'.page = poller.page
    BY <1>6 DEF StartupDetection, NextPoll, PeriodicDetection, FetchFails, LInv, HandsInv
  <2> QED BY <1>1, <2>1 DEF LInv, HandsInv
<1>7. CASE \E q \in DOMAIN queue, horizon \in BOOLEAN : TakeRange(q, horizon)
  <2>1. UNCHANGED <<storeVars, poller>> /\ engine'.page = {} /\ "page" \in DOMAIN engine'
    BY <1>7, <1>2 DEF TakeRange, StartEngine
  <2> QED BY <1>1, <2>1 DEF LInv, HandsInv
<1>8. CASE ReplayFetch
  <2> DEFINE to == queue[engine.range].to
             pg == IF engine.horizon THEN HorizonEvents(engine.base, to)
                   ELSE Page(engine.base, engine.cursor, to)
  <2>1. pg \subseteq Events
    BY PagesHoldEvents, ArchiveHoldsEvents
  <2>2. UNCHANGED <<storeVars, poller>> /\ engine'.page = pg /\ DOMAIN engine' = DOMAIN engine
    BY <1>8 DEF ReplayFetch, LInv, HandsInv
  <2> HIDE DEF pg
  <2> QED BY <1>1, <2>1, <2>2 DEF LInv, HandsInv
<1>9. CASE ReplayPageDone
  <2>1. UNCHANGED <<storeVars, poller>>
    BY <1>9 DEF ReplayPageDone
  <2>2. "page" \in DOMAIN engine' /\ engine'.page \in {engine.page, {}}
    BY <1>9, <1>2 DEF ReplayPageDone, LInv, HandsInv
  <2> QED BY <1>1, <2>1, <2>2 DEF LInv, HandsInv
<1>10. CASE ReplayFails
  BY <1>1, <1>2, <1>10 DEF ReplayFails, LInv, HandsInv
<1>11. CASE Stop
  BY <1>1, <1>11 DEF Stop, LInv, HandsInv
<1>12. CASE Exit \/ Crash
  BY <1>1, <1>2, <1>12 DEF Exit, Crash, Restart, LInv, HandsInv
<1> QED BY <1>3, <1>4, <1>5, <1>6, <1>7, <1>8, <1>9, <1>10, <1>11, <1>12

\* The poller processes an event, with or without an error.
LEMMA PollerWrites ==
  ASSUME LInv, NEW e \in poller.page, NEW w \in Thrown \cup Caught \cup {Done},
         ProcessNext(e, w) \/ ProcessThrows(e, w)
  PROVE  LInv' /\ LogStep
<1>1. e \in Events /\ ProcessEvent(e, w) /\ UNCHANGED engine
  BY DEF LInv, HandsInv, ProcessNext, ProcessThrows
<1>2. LogInv' /\ LogStep
  BY <1>1, ProcessIsLogStep, RowsComeFirst DEF LInv
<1>3. "page" \in DOMAIN poller' /\ poller'.page \subseteq Events
  <2>1. CASE poller' = GroupDone
    BY <2>1, GroupDoneKeeps DEF LInv
  <2>2. CASE poller' = [poller EXCEPT !.done = @ \cup {e}]
    BY <2>2 DEF LInv, HandsInv
  <2>3. CASE poller' = [poller EXCEPT !.done = {}, !.tries = @ + 1]
    BY <2>3 DEF LInv, HandsInv
  <2> QED BY <2>1, <2>2, <2>3 DEF ProcessNext, ProcessThrows
<1> QED BY <1>1, <1>2, <1>3 DEF LInv, HandsInv

\* The replay engine processes an event, with or without an error.
LEMMA ReplayWrites ==
  ASSUME LInv, NEW e \in engine.page, NEW w \in Thrown \cup Caught \cup {Done},
         ReplayNext(e, w)
  PROVE  LInv' /\ LogStep
<1>1. e \in Events /\ ProcessEvent(e, w \ {"notices"}) /\ UNCHANGED poller
  BY DEF LInv, HandsInv, ReplayNext
<1>2. LogInv' /\ LogStep
  <2>1. "webhooks" \in (w \ {"notices"}) => "row" \in (w \ {"notices"})
    BY RowsComeFirst
  <2> QED BY <1>1, <2>1, ProcessIsLogStep DEF LInv
<1>3. "page" \in DOMAIN engine' /\ engine'.page = engine.page \ {e}
  BY DEF ReplayNext, LInv, HandsInv
<1> QED BY <1>1, <1>2, <1>3 DEF LInv, HandsInv

\* A crash keeps part of one event's writes and loses what was in hand.
LEMMA CrashWrites ==
  ASSUME LInv, NEW e \in poller.page \cup engine.page, NEW w \in CutOff,
         CrashWriting(e, w)
  PROVE  LInv' /\ LogStep
<1>1. e \in Events
  BY DEF LInv, HandsInv
<1>2. ProcessEvent(e, w) \/ ProcessEvent(e, w \ {"notices"})
  BY DEF CrashWriting
<1>3. /\ "webhooks" \in w => "row" \in w
      /\ "webhooks" \in (w \ {"notices"}) => "row" \in (w \ {"notices"})
  BY RowsComeFirst
<1>4. LogInv' /\ LogStep
  BY <1>1, <1>2, <1>3, ProcessIsLogStep DEF LInv
<1>5. HandsInv'
  BY DEF CrashWriting, Restart, StartPoller, StartEngine, HandsInv
<1> QED BY <1>4, <1>5 DEF LInv

-----------------------------------------------------------------------------
\* Every step of the indexer keeps the invariant and is a step of the log or
\* leaves it alone.
LEMMA StepIsLogStep ==
  ASSUME LInv, [Next]_vars
  PROVE  LInv' /\ LogStep
<1>1. CASE UNCHANGED vars
  BY <1>1 DEF vars, storeVars, control, LInv, LogInv, HandsInv, LogStep
<1>2. CASE CloseLedger \/ Fetch \/ SavePage \/ StartupDetection \/ NextPoll
             \/ (\E q \in DOMAIN queue, horizon \in BOOLEAN : TakeRange(q, horizon))
             \/ ReplayFetch \/ ReplayPageDone \/ PeriodicDetection
             \/ FetchFails \/ ReplayFails \/ Stop \/ Exit \/ Crash
  BY <1>2, OtherSteps
<1>3. CASE \E e \in poller.page :
              \/ ProcessNext(e, Done)
              \/ \E w \in Caught : ProcessNext(e, w)
              \/ \E w \in Thrown : ProcessThrows(e, w)
  BY <1>3, PollerWrites
<1>4. CASE \E e \in engine.page :
              ReplayNext(e, Done) \/ \E w \in Thrown \cup Caught : ReplayNext(e, w)
  BY <1>4, ReplayWrites
<1>5. CASE \E e \in poller.page \cup engine.page, w \in CutOff \ {{}} : CrashWriting(e, w)
  BY <1>5, CrashWrites
<1> QED BY <1>1, <1>2, <1>3, <1>4, <1>5 DEF Next, PollerStep, EngineStep

\* It holds initially, when nothing is stored or announced.
LEMMA InitHolds == Init => LInv /\ Log!LogInit
BY DEF Init, StoreInit, StartPoller, StartEngine, LInv, LogInv, HandsInv, Log!LogInit

\* Stored events are events of the chain, and none was ever announced twice, nor
\* without being stored, through every retry, crash and restart.
THEOREM AnnouncedOnce == Spec => []LInv
<1>1. LInv /\ [Next]_vars => LInv'
  BY StepIsLogStep
<1> QED BY <1>1, InitHolds, PTL DEF Spec

\* The indexer implements the event log: its poller and its replay engine, with
\* all their failures, do nothing to the stored events and their announcements
\* that the log does not allow (insertEvent and its callers).
THEOREM ImplementsEventLog == Spec => EventLogSpec
<1>1. LInv /\ [Next]_vars => [Log!LogNext]_(Log!logVars)
  BY StepIsLogStep DEF LogStep, Log!logVars
<1>2. Init => Log!LogInit
  BY InitHolds
<1> QED BY <1>1, <1>2, AnnouncedOnce, PTL DEF Spec, EventLogSpec, Log!LogSpec

-----------------------------------------------------------------------------
(* The order of the chain *)

\* The chain is a sequence of ledgers, each a sequence of events, and has one at
\* least.
LEMMA ChainFacts ==
  /\ Len(Chain) \in Nat /\ Len(Chain) >= 1 /\ Ledgers = 1..Len(Chain)
  /\ \A l \in Ledgers : Chain[l] \in Seq(EventData)
<1>1. Chain \in Seq(Seq(EventData)) /\ Chain # <<>>
  BY StoreAssumption
<1>2. Len(Chain) \in Nat /\ Ledgers = 1..Len(Chain)
  BY <1>1 DEF Ledgers
<1>3. Len(Chain) >= 1
  <2>1. Len(Chain) # 0
    BY <1>1
  <2> QED BY <1>2, <2>1
<1>4. \A l \in Ledgers : Chain[l] \in Seq(EventData)
  BY <1>1, <1>2
<1> QED BY <1>2, <1>3, <1>4

\* An event is its ledger and its place in it.
LEMMA EventFacts ==
  ASSUME NEW e \in Events
  PROVE  /\ e[1] \in Ledgers /\ e[1] \in Nat /\ e[1] >= 1 /\ e[2] \in Nat
         /\ e = <<e[1], e[2]>> /\ Data(e) \in EventData
<1>1. PICK l \in Ledgers : \E i \in DOMAIN Chain[l] : e = <<l, i>>
  BY DEF Events
<1>2. PICK i \in DOMAIN Chain[l] : e = <<l, i>>
  BY <1>1
<1>3. Chain[l] \in Seq(EventData) /\ l \in Nat /\ l >= 1
  BY ChainFacts
<1>4. i \in Nat /\ Chain[l][i] \in EventData
  BY <1>3
<1> QED BY <1>2, <1>3, <1>4 DEF Data

\* The events stand in one line.
LEMMA ChainOrder ==
  ASSUME NEW e \in Events, NEW f \in Events
  PROVE  /\ ~Before(e, e)
         /\ e # f => Before(e, f) \/ Before(f, e)
         /\ Before(e, f) => ~Before(f, e)
         /\ Before(e, f) => e[1] <= f[1]
         /\ e[1] < f[1] => Before(e, f)
         /\ \A g \in Events : Before(e, f) /\ Before(f, g) => Before(e, g)
<1>1. /\ e[1] \in Nat /\ e[2] \in Nat /\ e = <<e[1], e[2]>>
      /\ f[1] \in Nat /\ f[2] \in Nat /\ f = <<f[1], f[2]>>
  BY EventFacts
<1>2. \A g \in Events : g[1] \in Nat /\ g[2] \in Nat
  BY EventFacts
<1>3. e # f => e[1] # f[1] \/ e[2] # f[2]
  BY <1>1
<1> QED BY <1>1, <1>2, <1>3 DEF Before

\* There is no event before the first ledger.
LEMMA NoEventFacts == NoEvent \notin Events /\ NoEvent[1] = 0
<1>1. NoEvent[1] = 0
  BY DEF NoEvent
<1> QED BY <1>1, EventFacts

\* A ledger has finitely many events, and there are finitely many ledgers.
LEMMA EventsFinite == IsFiniteSet(Events)
<1> DEFINE of(l) == {<<l, i>> : i \in DOMAIN Chain[l]}
           all   == {of(l) : l \in Ledgers}
           f     == [l \in Ledgers |-> of(l)]
<1>1. IsFiniteSet(Ledgers)
  BY ChainFacts, FS_Interval
<1>2. f \in Surjection(Ledgers, all)
  BY DEF Surjection
<1>3. IsFiniteSet(all)
  <2> HIDE DEF f, all
  <2> QED BY <1>1, <1>2, FS_Surjection
<1>4. ASSUME NEW l \in Ledgers PROVE IsFiniteSet(of(l))
  <2> DEFINE g == [i \in DOMAIN Chain[l] |-> <<l, i>>]
  <2>1. Len(Chain[l]) \in Nat /\ DOMAIN Chain[l] = 1..Len(Chain[l])
    BY <1>4, ChainFacts
  <2>2. IsFiniteSet(DOMAIN Chain[l])
    BY <2>1, FS_Interval
  <2>3. g \in Surjection(DOMAIN Chain[l], of(l))
    BY DEF Surjection
  <2> HIDE DEF g, of
  <2> QED BY <2>2, <2>3, FS_Surjection
<1>5. \A T \in all : IsFiniteSet(T)
  BY <1>4
<1>6. Events = UNION all
  BY DEF Events
<1> HIDE DEF all
<1> QED BY <1>3, <1>5, <1>6, FS_UNION

\* Some events have a first and a last one.
LEMMA EndsExist ==
  ASSUME NEW S, S \subseteq Events, S # {}
  PROVE  /\ \E e \in S : \A f \in S \ {e} : Before(e, f)
         /\ \E e \in S : \A f \in S \ {e} : Before(f, e)
<1> DEFINE below(e) == {f \in S : Before(f, e)}
           above(e) == {f \in S : Before(e, f)}
<1>1. IsFiniteSet(S)
  BY EventsFinite, FS_Subset
<1>2. \E e \in S : \A f \in S \ {e} : Before(e, f)
  <2> DEFINE B == {below(e) : e \in S}
  <2>1. B \subseteq SUBSET S /\ B # {}
    OBVIOUS
  <2>2. PICK T \in B : \A U \in B : U \subseteq T => U = T
    <3> HIDE DEF B
    <3> QED BY <1>1, <2>1, MinimalSubset
  <2>3. PICK e \in S : T = below(e)
    OBVIOUS
  <2>4. ASSUME NEW f \in S \ {e} PROVE Before(e, f)
    <3>1. SUFFICES ASSUME Before(f, e) PROVE FALSE
      BY <2>4, ChainOrder
    <3>2. below(f) \subseteq below(e)
      BY <3>1, ChainOrder
    <3>3. below(f) = below(e)
      BY <2>2, <2>3, <3>2
    <3>4. f \in below(e) /\ f \notin below(f)
      BY <3>1, ChainOrder
    <3> QED BY <3>3, <3>4
  <2> QED BY <2>4
<1>3. \E e \in S : \A f \in S \ {e} : Before(f, e)
  <2> DEFINE B == {above(e) : e \in S}
  <2>1. B \subseteq SUBSET S /\ B # {}
    OBVIOUS
  <2>2. PICK T \in B : \A U \in B : U \subseteq T => U = T
    <3> HIDE DEF B
    <3> QED BY <1>1, <2>1, MinimalSubset
  <2>3. PICK e \in S : T = above(e)
    OBVIOUS
  <2>4. ASSUME NEW f \in S \ {e} PROVE Before(f, e)
    <3>1. SUFFICES ASSUME Before(e, f) PROVE FALSE
      BY <2>4, ChainOrder
    <3>2. above(f) \subseteq above(e)
      BY <3>1, ChainOrder
    <3>3. above(f) = above(e)
      BY <2>2, <2>3, <3>2
    <3>4. f \in above(e) /\ f \notin above(f)
      BY <3>1, ChainOrder
    <3> QED BY <3>3, <3>4
  <2> QED BY <2>4
<1> QED BY <1>2, <1>3

-----------------------------------------------------------------------------
(* Pages *)

\* How many of some events come before one of them.
Rank(E) == [e \in E |-> Cardinality({f \in E : Before(f, e)})]

\* The ranks of finitely many events number them.
LEMMA RanksNumber ==
  ASSUME NEW E, E \subseteq Events
  PROVE  /\ IsFiniteSet(E) /\ Cardinality(E) \in Nat
         /\ Rank(E) \in Injection(E, 0..(Cardinality(E) - 1))
         /\ Rank(E) \in Surjection(E, 0..(Cardinality(E) - 1))
<1> DEFINE c == Cardinality(E)
           below(e) == {f \in E : Before(f, e)}
<1>1. IsFiniteSet(E) /\ c \in Nat
  BY EventsFinite, FS_Subset, FS_CardinalityType
<1>2. ASSUME NEW e \in E PROVE Rank(E)[e] = Cardinality(below(e)) /\ Rank(E)[e] \in 0..(c - 1)
  <2>1. below(e) \subseteq E \ {e}
    BY ChainOrder
  <2>2. IsFiniteSet(E \ {e}) /\ Cardinality(E \ {e}) = c - 1
    BY <1>1, FS_RemoveElement
  <2>3. /\ IsFiniteSet(below(e)) /\ Cardinality(below(e)) \in Nat
        /\ Cardinality(below(e)) <= c - 1
    BY <2>1, <2>2, FS_Subset, FS_CardinalityType
  <2>4. Rank(E)[e] = Cardinality(below(e))
    BY DEF Rank
  <2> HIDE DEF below
  <2> QED BY <1>1, <2>3, <2>4
<1>3. ASSUME NEW e \in E, NEW f \in E, Before(f, e)
      PROVE  Rank(E)[f] < Rank(E)[e]
  <2>1. below(f) \cup {f} \subseteq below(e) /\ f \notin below(f)
    BY <1>3, ChainOrder
  <2>2. IsFiniteSet(below(e)) /\ IsFiniteSet(below(f))
    BY <1>1, FS_Subset
  <2>3. Cardinality(below(f) \cup {f}) = Cardinality(below(f)) + 1
    BY <2>1, <2>2, FS_AddElement
  <2>4. Cardinality(below(f) \cup {f}) <= Cardinality(below(e))
    BY <2>1, <2>2, FS_Subset
  <2>5. Cardinality(below(f)) \in Nat /\ Cardinality(below(e)) \in Nat
    BY <2>2, FS_CardinalityType
  <2>6. Rank(E)[e] = Cardinality(below(e)) /\ Rank(E)[f] = Cardinality(below(f))
    BY <1>2
  <2> HIDE DEF below
  <2> QED BY <2>3, <2>4, <2>5, <2>6
<1>4. \A e, f \in E : e # f => Rank(E)[e] # Rank(E)[f]
  <2>1. \A e, f \in E : e # f => Before(e, f) \/ Before(f, e)
    BY ChainOrder
  <2>2. \A e \in E : Rank(E)[e] \in 0..(c - 1)
    BY <1>2
  <2>3. \A e, f \in E : Before(f, e) => Rank(E)[f] < Rank(E)[e]
    BY <1>3
  <2> HIDE DEF c
  <2> QED BY <1>1, <2>1, <2>2, <2>3
<1>5. Rank(E) \in [E -> 0..(c - 1)]
  <2>1. DOMAIN Rank(E) = E /\ Rank(E) = [e \in E |-> Rank(E)[e]]
    BY DEF Rank
  <2> QED BY <1>2, <2>1
<1>6. Rank(E) \in Injection(E, 0..(c - 1))
  BY <1>4, <1>5 DEF Injection, IsInjective
<1>7. IsFiniteSet(0..(c - 1)) /\ Cardinality(0..(c - 1)) = c
  BY <1>1, FS_Interval
<1> HIDE DEF c
<1>8. Rank(E) \in Surjection(E, 0..(c - 1))
  BY <1>6, <1>7, FS_Injection DEF c
<1> QED BY <1>1, <1>6, <1>8 DEF c

\* The first n of some events are the ones below some place among them; when they
\* are not n, they are all.
LEMMA FirstOfFacts ==
  ASSUME NEW E, E \subseteq Events, NEW n \in Nat
  PROVE  /\ FirstOf(n, E) \subseteq E
         /\ \A e \in FirstOf(n, E), f \in E : Before(f, e) => f \in FirstOf(n, E)
         /\ Cardinality(FirstOf(n, E)) # n => FirstOf(n, E) = E
<1> DEFINE F == FirstOf(n, E)
           c == Cardinality(E)
<1>1. /\ c \in Nat /\ IsFiniteSet(E)
      /\ Rank(E) \in Injection(E, 0..(c - 1)) /\ Rank(E) \in Surjection(E, 0..(c - 1))
  BY RanksNumber
<1>2. F = {e \in E : Rank(E)[e] < n}
  BY DEF FirstOf, Rank
<1>3. F \subseteq E
  BY DEF FirstOf
<1>4. ASSUME NEW e \in F, NEW f \in E, Before(f, e) PROVE f \in F
  <2>1. {g \in E : Before(g, f)} \subseteq {g \in E : Before(g, e)}
    BY <1>3, <1>4, ChainOrder
  <2>2. IsFiniteSet({g \in E : Before(g, e)}) /\ IsFiniteSet({g \in E : Before(g, f)})
    BY <1>1, FS_Subset
  <2>3. Cardinality({g \in E : Before(g, f)}) <= Cardinality({g \in E : Before(g, e)})
    BY <2>1, <2>2, FS_Subset
  <2>4. /\ Cardinality({g \in E : Before(g, f)}) \in Nat
        /\ Cardinality({g \in E : Before(g, e)}) \in Nat
    BY <2>2, FS_CardinalityType
  <2>5. Cardinality({g \in E : Before(g, e)}) < n
    BY DEF FirstOf
  <2>6. Cardinality({g \in E : Before(g, f)}) < n
    BY <2>3, <2>4, <2>5
  <2> QED BY <2>6 DEF FirstOf
<1>5. ASSUME F # E PROVE Cardinality(F) = n
  <2>1. PICK x \in E : ~(Rank(E)[x] < n)
    BY <1>2, <1>3, <1>5
  <2>2. Rank(E)[x] \in 0..(c - 1)
    BY <1>1, <2>1 DEF Injection
  <2>3. n <= c - 1
    BY <1>1, <2>1, <2>2
  <2> DEFINE g == [e \in F |-> Rank(E)[e]]
  <2>4. \A e \in E : Rank(E)[e] \in 0..(c - 1)
    BY <1>1 DEF Injection
  <2>5. \A k \in 0..(c - 1) : \E e \in E : Rank(E)[e] = k
    BY <1>1 DEF Surjection
  <2>6. \A e, f \in E : Rank(E)[e] = Rank(E)[f] => e = f
    BY <1>1 DEF Injection, IsInjective
  <2>7. g \in [F -> 0..(n - 1)]
    BY <1>1, <1>2, <2>4
  <2>8. ASSUME NEW k \in 0..(n - 1) PROVE \E e \in F : g[e] = k
    <3>1. k \in 0..(c - 1) /\ k < n
      BY <1>1, <2>3
    <3>2. PICK e \in E : Rank(E)[e] = k
      BY <2>5, <3>1
    <3>3. e \in F
      BY <1>2, <3>1, <3>2
    <3> HIDE DEF F
    <3> QED BY <3>2, <3>3
  <2>9. g \in Surjection(F, 0..(n - 1))
    BY <2>7, <2>8 DEF Surjection
  <2>10. g \in Injection(F, 0..(n - 1))
    BY <1>3, <2>6, <2>7 DEF Injection, IsInjective
  <2>11. IsFiniteSet(F)
    BY <1>1, <1>3, FS_Subset
  <2>12. Cardinality(0..(n - 1)) = n
    BY FS_Interval
  <2> HIDE DEF F, g
  <2> QED BY <2>9, <2>10, <2>11, <2>12, FS_Surjection
<1> QED BY <1>3, <1>4, <1>5

\* Events that come after all of a full page do not change it.
LEMMA FirstOfGrows ==
  ASSUME NEW E, NEW G, E \subseteq G, G \subseteq Events, NEW n \in Nat,
         Cardinality(FirstOf(n, E)) = n, \A e \in E, f \in G \ E : Before(e, f)
  PROVE  FirstOf(n, G) = FirstOf(n, E)
<1>1. ASSUME NEW e \in E PROVE e \in FirstOf(n, G) <=> e \in FirstOf(n, E)
  <2>1. {f \in G : Before(f, e)} = {f \in E : Before(f, e)}
    BY ChainOrder
  <2>2. Cardinality({f \in G : Before(f, e)}) = Cardinality({f \in E : Before(f, e)})
    BY Zenon, <2>1
  <2> QED BY <2>2 DEF FirstOf
<1>2. ASSUME NEW e \in G \ E PROVE e \notin FirstOf(n, G)
  <2>1. FirstOf(n, E) \subseteq {f \in G : Before(f, e)}
    BY FirstOfFacts
  <2>2. IsFiniteSet({f \in G : Before(f, e)}) /\ IsFiniteSet(FirstOf(n, E))
    BY <2>1, EventsFinite, FS_Subset
  <2>3. n <= Cardinality({f \in G : Before(f, e)})
    BY <2>1, <2>2, FS_Subset
  <2>4. Cardinality({f \in G : Before(f, e)}) \in Nat
    BY <2>2, FS_CardinalityType
  <2> QED BY <2>3, <2>4 DEF FirstOf
<1>3. FirstOf(n, G) \subseteq G /\ FirstOf(n, E) \subseteq E
  BY DEF FirstOf
<1> QED BY <1>1, <1>2, <1>3

-----------------------------------------------------------------------------
(* Type correctness *)

PollerState ==
    [pc : {"startup", "poll", "work", "more", "rest"}, last : Nat, highest : Nat,
     cursor : {NoEvent} \cup Events, page : SUBSET Events, full : BOOLEAN,
     done : SUBSET Events, tries : Nat]

EngineState ==
    [pc : {"idle", "fetch", "work"}, range : Nat, horizon : BOOLEAN,
     cursor : {NoEvent} \cup Events, page : SUBSET Events, full : BOOLEAN,
     current : Nat, base : Nat]

\* The poller has nothing in hand that the chain does not have.
PollerInv ==
    /\ poller \in PollerState
    /\ poller.done \subseteq poller.page
    /\ poller.last <= tip /\ poller.highest <= tip /\ poller.cursor[1] <= tip
    /\ \A e \in poller.page : e[1] <= tip

EngineInv ==
    /\ engine \in EngineState
    /\ engine.pc # "idle" =>
          engine.range \in DOMAIN queue /\ {engine.base, engine.current} \subseteq Ledgers

ClockInv ==
    /\ tip \in Ledgers /\ checkpoint \in 0..tip
    /\ skipped \subseteq Ledgers /\ cut \subseteq Ledgers
    /\ stopping \in BOOLEAN /\ archive \in BOOLEAN /\ faults \in 0..MaxFaults

QueueInv ==
    /\ queue \in Seq(ReplayRange)
    /\ \A q \in DOMAIN queue : queue[q].from <= queue[q].to /\ queue[q].to < tip

TInv == LInv /\ PollerInv /\ EngineInv /\ ClockInv /\ QueueInv

\* The settings are natural numbers, and those that divide the work are positive.
LEMMA BoundsFacts ==
  /\ PageSize \in Nat \ {0} /\ MaxGapSize \in Nat \ {0} /\ ProgressInterval \in Nat \ {0}
  /\ LEDGER_MAX_RETRIES \in Nat /\ MaxRanges \in Nat /\ MaxFaults \in Nat
BY IndexerAssumption

\* A page lies behind the cursor, or starts at its first ledger.
LEMMA PageFacts ==
  ASSUME NEW from, NEW cursor \in {NoEvent} \cup Events, NEW to
  PROVE  /\ Page(from, cursor, to) \subseteq EventsFrom(from, cursor, to)
         /\ \A e \in EventsFrom(from, cursor, to) :
               /\ e \in Events /\ e[1] <= to
               /\ cursor = NoEvent => e[1] >= from
               /\ cursor # NoEvent => Before(cursor, e)
BY DEF Page, FirstOf, EventsFrom, EventsUpTo

\* The ledger in hand is the first of the page.
LEMMA LedgerFacts ==
  ASSUME poller.page \subseteq Events, poller.page # {}
  PROVE  /\ Ledger \in Ledgers /\ \E e \in poller.page : e[1] = Ledger
         /\ \A e \in poller.page : Ledger <= e[1]
         /\ Group \subseteq poller.page /\ \A e \in Group : e[1] = Ledger
<1> DEFINE L == {e[1] : e \in poller.page}
<1>1. PICK e \in poller.page : \A f \in poller.page \ {e} : Before(e, f)
  BY EndsExist
<1>2. \A f \in poller.page : e[1] <= f[1] /\ f[1] \in Ledgers
  BY <1>1, ChainOrder, EventFacts
<1>3. e[1] \in L /\ \A l \in L : e[1] <= l
  BY <1>2
<1>4. Ledger \in L /\ \A l \in L : Ledger <= l
  BY <1>3, Zenon DEF Ledger, Min
<1> QED BY <1>2, <1>4 DEF Group

\* So is the last ledger of a page that was replayed.
LEMMA LastLedgerFacts ==
  ASSUME NEW page, page \subseteq Events, NEW from \in Ledgers
  PROVE  LastLedger(page, from) \in Ledgers
<1> DEFINE L == {from} \cup {e[1] : e \in page}
<1>1. \A l \in L : l \in Ledgers /\ l \in Nat
  BY EventFacts, ChainFacts
<1>2. \E l \in L : \A k \in L : l >= k
  <2>1. CASE page = {}
    BY <1>1, <2>1
  <2>2. CASE page # {}
    <3>1. PICK e \in page : \A f \in page \ {e} : Before(f, e)
      BY <2>2, EndsExist
    <3>2. \A f \in page : e[1] >= f[1]
      BY <3>1, ChainOrder, EventFacts
    <3>3. CASE e[1] >= from
      <4>1. \A k \in L : e[1] >= k
        BY <3>2, <3>3
      <4> QED BY <4>1
    <3>4. CASE ~(e[1] >= from)
      <4>1. \A k \in L : from >= k
        BY <1>1, <3>2, <3>4
      <4> QED BY <4>1
    <3> QED BY <3>3, <3>4
  <2> QED BY <2>1, <2>2
<1>3. LastLedger(page, from) \in L
  BY <1>2, Zenon DEF LastLedger, Max
<1> QED BY <1>1, <1>3

\* The chunks of a gap lie within it, in order, each behind the one before.
LEMMA ChunkFacts ==
  ASSUME NEW from \in Ledgers, NEW to \in Ledgers, from <= to
  PROVE  /\ Chunks(from, to) \in Seq(ReplayRange)
         /\ \A k \in DOMAIN Chunks(from, to) :
               LET c == Chunks(from, to)[k]
               IN  /\ c.from >= from /\ c.from <= c.to /\ c.to <= to
                   /\ c.status = "pending" /\ c.completed = 0
                   /\ k = 1 => c.from = from
                   /\ k > 1 => /\ k - 1 \in DOMAIN Chunks(from, to)
                               /\ Chunks(from, to)[k - 1].to = c.from - 1
<1> DEFINE n == (to - from + MaxGapSize) \div MaxGapSize
           first(k) == from + (k - 1) * MaxGapSize
           last(k)  == IF from + k * MaxGapSize - 1 < to THEN from + k * MaxGapSize - 1 ELSE to
           c(k) == Pending(first(k), last(k))
<1>1. /\ from \in Nat /\ to \in Nat /\ from >= 1 /\ MaxGapSize \in Nat /\ MaxGapSize >= 1
      /\ Ledgers = 1..Len(Chain) /\ Len(Chain) \in Nat
  BY ChainFacts, BoundsFacts
<1>2. Chunks(from, to) = [k \in 1..n |-> c(k)]
  BY DEF Chunks
<1>3. n \in Nat /\ n * MaxGapSize <= to - from + MaxGapSize
  <2> DEFINE y == to - from + MaxGapSize
  <2>1. y \in Nat
    BY <1>1
  <2> HIDE DEF y
  <2>2. (y \div MaxGapSize) \in Nat /\ (y \div MaxGapSize) * MaxGapSize <= y
    BY <1>1, <2>1
  <2> QED BY <2>2 DEF y
<1>4. ASSUME NEW k \in 1..n
      PROVE  /\ first(k) \in Nat /\ last(k) \in Nat
             /\ first(k) >= from /\ first(k) <= last(k) /\ last(k) <= to
             /\ k = 1 => first(k) = from
             /\ k > 1 => last(k - 1) = first(k) - 1
  <2> HIDE DEF n
  <2>1. k \in Nat /\ k >= 1 /\ k <= n
    BY <1>3
  <2>2. /\ (k - 1) * MaxGapSize \in Nat /\ k * MaxGapSize = (k - 1) * MaxGapSize + MaxGapSize
        /\ k * MaxGapSize <= n * MaxGapSize /\ k * MaxGapSize \in Nat /\ n * MaxGapSize \in Nat
    BY <1>1, <1>3, <2>1
  <2>3. k = 1 => (k - 1) * MaxGapSize = 0
    BY <1>1
  <2> QED BY <1>1, <1>3, <2>1, <2>2, <2>3
<1>5. ASSUME NEW k \in 1..n
      PROVE  /\ c(k) \in ReplayRange /\ c(k).from = first(k) /\ c(k).to = last(k)
             /\ c(k).status = "pending" /\ c(k).completed = 0
  <2>1. first(k) \in Ledgers /\ last(k) \in Ledgers
    <3>1. /\ first(k) \in Nat /\ last(k) \in Nat
          /\ first(k) >= from /\ first(k) <= last(k) /\ last(k) <= to
      BY <1>4, <1>5
    <3> HIDE DEF first, last
    <3> QED BY <1>1, <3>1
  <2> HIDE DEF first, last
  <2> QED BY <2>1 DEF Pending, ReplayRange
<1> HIDE DEF n, c, first, last
<1>6. Chunks(from, to) \in Seq(ReplayRange)
  BY <1>2, <1>3, <1>5
<1>7. DOMAIN Chunks(from, to) = 1..n
  BY <1>2
<1>8. ASSUME NEW k \in 1..n, k > 1 PROVE k - 1 \in 1..n /\ c(k - 1).to = last(k - 1)
  BY <1>3, <1>5, <1>8
<1> QED BY <1>2, <1>4, <1>5, <1>6, <1>7, <1>8

\* The ledgers of events, cursors and half-read pages.
LEMMA CursorFacts ==
  ASSUME PollerInv, ClockInv
  PROVE  /\ poller.cursor[1] \in Nat
         /\ poller.cursor # NoEvent => poller.cursor \in Events /\ poller.cursor[1] \in Ledgers
         /\ HalfRead \subseteq Ledgers /\ tip \in Nat /\ checkpoint \in Nat
         /\ poller.page \subseteq Events
<1>1. poller.cursor \in {NoEvent} \cup Events /\ poller.page \subseteq Events
  BY DEF PollerInv, PollerState
<1>2. \A e \in Events : e[1] \in Nat /\ e[1] \in Ledgers
  BY EventFacts
<1>3. tip \in Nat /\ checkpoint \in Nat
  BY ChainFacts DEF ClockInv
<1> QED BY <1>1, <1>2, <1>3, NoEventFacts DEF HalfRead

\* Both loops start from states of their types.
LEMMA StartTypes ==
  StartPoller \in PollerState /\ StartEngine \in EngineState
BY DEF StartPoller, StartEngine, PollerState, EngineState

\* What the poller has in hand.
LEMMA PollerTypes ==
  ASSUME TInv, [Next]_vars
  PROVE  PollerInv'
<1>1. poller \in PollerState /\ poller.done \subseteq poller.page
  BY DEF TInv, PollerInv
<1>2. /\ poller.last \in Nat /\ poller.highest \in Nat /\ poller.tries \in Nat
      /\ poller.cursor[1] \in Nat /\ tip \in Nat /\ checkpoint \in 0..tip
      /\ \A e \in Events : e[1] \in Nat
      /\ poller.page \subseteq Events
      /\ poller.last <= tip /\ poller.highest <= tip /\ poller.cursor[1] <= tip
      /\ \A e \in poller.page : e[1] <= tip
  BY CursorFacts, EventFacts DEF TInv, PollerInv, ClockInv, PollerState
<1>3. NoEvent[1] = 0 /\ NoEvent \notin Events
  BY NoEventFacts
<1>4. CASE UNCHANGED <<poller, tip>>
  BY <1>1, <1>2, <1>4 DEF PollerInv
<1>5. CASE CloseLedger
  BY <1>1, <1>2, <1>5 DEF CloseLedger, PollerInv
<1>6. CASE Fetch
  <2> DEFINE fresh == poller.pc = "poll"
             cur == IF fresh THEN NoEvent ELSE poller.cursor
             page == Page(StartLedger, cur, tip)
  <2>1. cur \in {NoEvent} \cup Events /\ cur[1] <= tip
    BY <1>1, <1>2, <1>3 DEF PollerState
  <2>2. page \subseteq Events /\ \A e \in page : e[1] <= tip
    BY <2>1, PageFacts
  <2>3. poller' = [poller EXCEPT
               !.pc = "work", !.page = page, !.full = Full(page), !.done = {},
               !.tries = 0,
               !.last = IF fresh THEN checkpoint ELSE @,
               !.highest = IF fresh THEN checkpoint ELSE @,
               !.cursor = IF fresh THEN NoEvent ELSE @] /\ UNCHANGED tip
    BY <1>6 DEF Fetch
  <2>4. Full(page) \in BOOLEAN
    BY DEF Full
  <2> DEFINE l == IF fresh THEN checkpoint ELSE poller.last
             h == IF fresh THEN checkpoint ELSE poller.highest
             full == Full(page)
  <2>5. poller' = [poller EXCEPT !.pc = "work", !.page = page, !.full = full, !.done = {},
                                 !.tries = 0, !.last = l, !.highest = h, !.cursor = cur]
    BY <1>1, <2>3 DEF PollerState
  <2>6. l \in Nat /\ h \in Nat /\ l <= tip /\ h <= tip
    BY <1>2
  <2> HIDE DEF page, fresh, cur, l, h, full
  <2>7. /\ poller'.last = l /\ poller'.highest = h /\ poller'.cursor = cur
        /\ poller'.page = page /\ poller'.done = {}
    BY <1>1, <2>5 DEF PollerState
  <2>8. poller' \in PollerState
    BY <1>1, <2>1, <2>2, <2>4, <2>5, <2>6 DEF PollerState, full
  <2> QED BY <2>1, <2>2, <2>3, <2>6, <2>7, <2>8 DEF PollerInv
<1>7. CASE FetchFails \/ NextPoll \/ PeriodicDetection \/ StartupDetection
  <2>1. /\ UNCHANGED tip /\ poller' \in PollerState
        /\ poller'.last = poller.last /\ poller'.highest = poller.highest
        /\ poller'.page = poller.page /\ poller'.done = poller.done
        /\ poller'.cursor \in {poller.cursor, NoEvent}
    BY <1>1, <1>7 DEF FetchFails, NextPoll, PeriodicDetection, StartupDetection, PollerState
  <2> QED BY <1>1, <1>2, <1>3, <2>1 DEF PollerInv
<1>8. CASE SavePage
  <2>1. PICK c \in Events \cup {NoEvent} :
            /\ poller'.cursor = c /\ c[1] <= tip
            /\ \/ poller' = [poller EXCEPT !.pc = "more", !.cursor = c]
               \/ poller' = [poller EXCEPT !.pc = "rest", !.cursor = c]
    <3>1. CASE poller' = [poller EXCEPT !.pc = "rest", !.cursor = NoEvent]
      <4>1. poller'.cursor = NoEvent
        BY <1>1, <3>1 DEF PollerState
      <4>2. NoEvent[1] <= tip
        BY <1>2, <1>3
      <4> QED BY <3>1, <4>1, <4>2
    <3>2. CASE \E c \in Latest(Page(poller.last + 1, poller.cursor, tip)) :
                  poller' = [poller EXCEPT !.pc = "more", !.cursor = c]
      <4>1. PICK c \in Latest(Page(poller.last + 1, poller.cursor, tip)) :
                  poller' = [poller EXCEPT !.pc = "more", !.cursor = c]
        BY <3>2
      <4>2. poller.cursor \in {NoEvent} \cup Events
        BY <1>1 DEF PollerState
      <4>3. c \in Page(poller.last + 1, poller.cursor, tip)
        BY <4>1 DEF Latest
      <4>4. c \in Events /\ c[1] <= tip
        BY <4>2, <4>3, PageFacts
      <4>5. poller'.cursor = c
        BY <1>1, <4>1 DEF PollerState
      <4> QED BY <4>1, <4>4, <4>5
    <3> QED BY <1>8, <3>1, <3>2 DEF SavePage
  <2>2. UNCHANGED tip
    BY <1>8 DEF SavePage
  <2>3. /\ poller' \in PollerState /\ poller'.last = poller.last
        /\ poller'.highest = poller.highest
        /\ poller'.page = poller.page /\ poller'.done = poller.done
    BY <1>1, <2>1 DEF PollerState
  <2> QED BY <1>1, <1>2, <2>1, <2>2, <2>3 DEF PollerInv
<1>9. ASSUME UNCHANGED tip, InHand, poller' = GroupDone PROVE PollerInv'
  <2>1. Ledger \in Ledgers /\ Ledger <= tip /\ Ledger \in Nat
    BY <1>2, <1>9, LedgerFacts, ChainFacts DEF InHand
  <2>2. Highest(poller.highest, Ledger) \in Nat /\ Highest(poller.highest, Ledger) <= tip
    BY <1>2, <2>1 DEF Highest
  <2> HIDE DEF Ledger
  <2>3. /\ poller' \in PollerState /\ poller'.last = poller.last /\ poller'.done = {}
        /\ poller'.highest = Highest(poller.highest, Ledger)
        /\ poller'.page \subseteq poller.page /\ poller'.cursor = poller.cursor
    BY <1>1, <1>9, <2>2 DEF PollerState, GroupDone
  <2> QED BY <1>2, <1>9, <2>2, <2>3 DEF PollerInv
<1>10. ASSUME NEW e \in poller.page, NEW w, ProcessNext(e, w) PROVE PollerInv'
  <2>1. InHand /\ UNCHANGED tip
    BY <1>10 DEF ProcessNext
  <2>2. CASE poller' = [poller EXCEPT !.done = @ \cup {e}]
    <3> DEFINE d == poller.done \cup {e}
    <3>1. d \in SUBSET Events /\ d \subseteq poller.page
      BY <1>1, <1>2, <1>10
    <3>2. poller' = [poller EXCEPT !.done = d]
      BY <2>2
    <3> HIDE DEF d
    <3>3. /\ poller' \in PollerState /\ poller'.last = poller.last
          /\ poller'.done = d /\ poller'.highest = poller.highest
          /\ poller'.page = poller.page /\ poller'.cursor = poller.cursor
      BY <1>1, <3>1, <3>2 DEF PollerState
    <3> QED BY <1>2, <2>1, <3>1, <3>3 DEF PollerInv
  <2> QED BY <1>9, <1>10, <2>1, <2>2 DEF ProcessNext
<1>11. ASSUME NEW e \in poller.page, NEW w, ProcessThrows(e, w) PROVE PollerInv'
  <2>1. InHand /\ UNCHANGED tip
    BY <1>11 DEF ProcessThrows
  <2>2. CASE poller' = [poller EXCEPT !.done = {}, !.tries = @ + 1]
    <3> DEFINE n == poller.tries + 1
    <3>1. n \in Nat
      BY <1>2
    <3>2. poller' = [poller EXCEPT !.done = {}, !.tries = n]
      BY <2>2
    <3> HIDE DEF n
    <3>3. /\ poller' \in PollerState /\ poller'.last = poller.last
          /\ poller'.done = {} /\ poller'.highest = poller.highest
          /\ poller'.page = poller.page /\ poller'.cursor = poller.cursor
      BY <1>1, <3>1, <3>2 DEF PollerState
    <3> QED BY <1>2, <2>1, <3>3 DEF PollerInv
  <2> QED BY <1>9, <1>11, <2>1, <2>2 DEF ProcessThrows
<1>12. CASE Restart
  <2>1. /\ StartPoller.last = 0 /\ StartPoller.highest = 0 /\ StartPoller.page = {}
        /\ StartPoller.done = {} /\ StartPoller.cursor = NoEvent
    BY DEF StartPoller
  <2> QED BY <1>2, <1>3, <1>12, <2>1, StartTypes DEF Restart, PollerInv
<1>13. CASE EngineStep \/ ReplayFails \/ Stop \/ UNCHANGED vars
              \/ \E e \in engine.page, w \in Thrown \cup Caught : ReplayNext(e, w)
  BY <1>4, <1>13 DEF EngineStep, TakeRange, ReplayFetch, ReplayNext, ReplayPageDone,
                     ReplayFails, Stop, vars, control
<1> QED
  BY <1>5, <1>6, <1>7, <1>8, <1>10, <1>11, <1>12, <1>13
     DEF Next, PollerStep, Exit, Crash, CrashWriting

\* The rows of the replay queue lie behind the tip, and only grow in number.
LEMMA QueueTypes ==
  ASSUME TInv, [Next]_vars
  PROVE  QueueInv' /\ DOMAIN queue \subseteq DOMAIN queue'
<1>1. queue \in Seq(ReplayRange) /\ tip \in Ledgers /\ checkpoint \in 0..tip
  BY DEF TInv, QueueInv, ClockInv
<1>2. \A q \in DOMAIN queue : queue[q].from <= queue[q].to /\ queue[q].to < tip
  BY DEF TInv, QueueInv
<1>3. CASE UNCHANGED <<queue, tip>>
  BY <1>1, <1>2, <1>3 DEF QueueInv
<1>4. CASE CloseLedger
  <2>1. \A q \in DOMAIN queue : queue[q] \in ReplayRange
    BY <1>1
  <2>2. \A q \in DOMAIN queue : queue[q].to \in Ledgers
    BY <2>1 DEF ReplayRange
  <2> QED BY <1>1, <1>2, <1>4, <2>2, ChainFacts DEF CloseLedger, QueueInv
<1>5. ASSUME NEW min \in Nat \ {0}, DetectGaps(min), UNCHANGED tip
      PROVE  QueueInv' /\ DOMAIN queue \subseteq DOMAIN queue'
  <2>1. CASE Gap(min) = <<>>
    BY <1>1, <1>3, <1>5, <2>1 DEF DetectGaps
  <2>2. CASE Gap(min) # <<>>
    <3> DEFINE g == Chunks(checkpoint + 1, GapEnd)
    <3>1. GapEnd - checkpoint >= min /\ Gap(min) = g
      BY <2>2 DEF Gap
    <3>2. GapEnd \in Ledgers /\ checkpoint + 1 \in Ledgers /\ checkpoint + 1 <= GapEnd
          /\ GapEnd < tip
      BY <1>1, <1>5, <3>1, ChainFacts DEF GapEnd
    <3>3. /\ g \in Seq(ReplayRange)
          /\ \A k \in DOMAIN g : g[k].from <= g[k].to /\ g[k].to <= GapEnd
      BY <3>2, ChunkFacts
    <3> HIDE DEF g
    <3>4. \A k \in DOMAIN g : g[k] \in ReplayRange
      BY <3>3
    <3>5. \A k \in DOMAIN g : g[k].to \in Ledgers
      BY <3>4 DEF ReplayRange
    <3>6. \A k \in DOMAIN g : g[k].to < tip
      BY <1>1, <3>2, <3>3, <3>5, ChainFacts
    <3>7. queue' = queue \o g \/ queue' = queue
      BY <1>5, <3>1 DEF DetectGaps
    <3>8. /\ queue \o g \in Seq(ReplayRange) /\ DOMAIN queue \subseteq DOMAIN (queue \o g)
          /\ \A q \in DOMAIN (queue \o g) :
                \/ q \in DOMAIN queue /\ (queue \o g)[q] = queue[q]
                \/ q - Len(queue) \in DOMAIN g /\ (queue \o g)[q] = g[q - Len(queue)]
      BY <1>1, <3>3
    <3> QED BY <1>1, <1>2, <1>5, <3>3, <3>6, <3>7, <3>8 DEF QueueInv
  <2> QED BY <2>1, <2>2
<1>6. CASE StartupDetection \/ PeriodicDetection
  BY <1>1, <1>3, <1>5, <1>6 DEF StartupDetection, PeriodicDetection
<1>7. ASSUME NEW r \in DOMAIN queue, NEW row \in ReplayRange,
             row.from = queue[r].from, row.to = queue[r].to,
             queue' = [queue EXCEPT ![r] = row], UNCHANGED tip
      PROVE  QueueInv' /\ DOMAIN queue \subseteq DOMAIN queue'
  <2>1. queue' \in Seq(ReplayRange)
    BY <1>1, <1>7
  <2>2. \A q \in DOMAIN queue : queue'[q].from = queue[q].from /\ queue'[q].to = queue[q].to
    BY <1>1, <1>7
  <2>3. DOMAIN queue' = DOMAIN queue
    BY <1>1, <1>7
  <2> QED BY <1>2, <1>7, <2>1, <2>2, <2>3 DEF QueueInv
<1>8. \A r \in DOMAIN queue : queue[r] \in ReplayRange
  BY <1>1
<1>9. ASSUME NEW q \in DOMAIN queue, NEW horizon, TakeRange(q, horizon)
      PROVE  QueueInv' /\ DOMAIN queue \subseteq DOMAIN queue'
  <2> DEFINE row == [queue[q] EXCEPT !.status = "in_progress"]
  <2>1. row \in ReplayRange /\ row.from = queue[q].from /\ row.to = queue[q].to
    BY <1>8 DEF ReplayRange
  <2>2. queue' = [queue EXCEPT ![q] = row] /\ UNCHANGED tip
    BY <1>9 DEF TakeRange
  <2> HIDE DEF row
  <2> QED BY <1>7, <2>1, <2>2
<1>10. ASSUME engine.pc # "idle"
       PROVE  /\ engine.range \in DOMAIN queue /\ engine.base \in Ledgers
              /\ engine.current \in Ledgers /\ engine.page \subseteq Events
              /\ engine.cursor \in {NoEvent} \cup Events
  BY <1>10 DEF TInv, EngineInv, EngineState
<1>11. CASE ReplayFetch
  <2> DEFINE r == queue[engine.range]
             page == IF engine.horizon THEN HorizonEvents(engine.base, r.to)
                     ELSE Page(engine.base, engine.cursor, r.to)
             seen == LastLedger(page, engine.base)
             row == [r EXCEPT !.completed = seen]
  <2>1. engine.pc = "fetch"
    BY <1>11 DEF ReplayFetch
  <2>2. page \subseteq Events
    BY PagesHoldEvents, ArchiveHoldsEvents
  <2>3. seen \in Ledgers /\ r \in ReplayRange
    BY <1>8, <1>10, <2>1, <2>2, LastLedgerFacts
  <2>4. UNCHANGED tip /\ (queue' = [queue EXCEPT ![engine.range] = row] \/ queue' = queue)
    BY <1>11 DEF ReplayFetch
  <2>5. row \in ReplayRange /\ row.from = r.from /\ row.to = r.to
    <3> HIDE DEF r, seen
    <3> QED BY <2>3 DEF ReplayRange
  <2> HIDE DEF row, page, seen
  <2> QED BY <1>3, <1>7, <1>10, <2>1, <2>4, <2>5
<1>12. CASE ReplayFails
  <2> DEFINE r == queue[engine.range]
             n == r.retries + 1
             row == [r EXCEPT !.status = "failed", !.retries = n]
  <2>1. engine.pc = "fetch" /\ UNCHANGED tip
    BY <1>12 DEF ReplayFails
  <2>2. r \in ReplayRange
    BY <1>8, <1>10, <2>1
  <2>3. row \in ReplayRange /\ row.from = r.from /\ row.to = r.to
    <3>1. n \in Nat
      BY <2>2 DEF ReplayRange
    <3> HIDE DEF r, n
    <3> QED BY <2>2, <3>1 DEF ReplayRange
  <2>4. queue' = [queue EXCEPT ![engine.range] = row]
    BY <1>1, <1>10, <1>12, <2>1 DEF ReplayFails
  <2> HIDE DEF row
  <2> QED BY <1>7, <1>10, <2>1, <2>3, <2>4
<1>13. CASE ReplayPageDone
  <2> DEFINE r == queue[engine.range]
             saves == ~engine.horizon /\ engine.current - engine.base >= ProgressInterval
             more  == engine.full /\ ~stopping
             n == IF saves THEN engine.current ELSE r.completed
             s == IF more THEN r.status ELSE "completed"
             row == [r EXCEPT !.completed = n, !.status = s]
  <2>1. engine.pc = "work" /\ UNCHANGED tip
    BY <1>13 DEF ReplayPageDone
  <2>2. r \in ReplayRange
    BY <1>8, <1>10, <2>1
  <2>3. n \in {0} \cup Ledgers /\ s \in {"pending", "in_progress", "completed", "failed"}
    <3> HIDE DEF r
    <3> QED BY <1>10, <2>1, <2>2 DEF ReplayRange, r
  <2>4. row \in ReplayRange /\ row.from = r.from /\ row.to = r.to
    <3> HIDE DEF r, n, s
    <3> QED BY <2>2, <2>3 DEF ReplayRange
  <2>5. queue' = [queue EXCEPT ![engine.range] = row]
    BY <1>1, <1>10, <1>13, <2>1 DEF ReplayPageDone
  <2> HIDE DEF row
  <2> QED BY <1>7, <1>10, <2>1, <2>4, <2>5
<1>14. CASE Fetch \/ SavePage \/ NextPoll \/ FetchFails \/ Stop \/ Restart \/ UNCHANGED vars
  BY <1>3, <1>14 DEF Fetch, SavePage, NextPoll, FetchFails, Stop, Restart, vars, control
<1>15. CASE \E e, w : ProcessNext(e, w) \/ ProcessThrows(e, w) \/ ReplayNext(e, w)
  BY <1>3, <1>15 DEF ProcessNext, ProcessThrows, ReplayNext
<1> QED
  BY <1>4, <1>6, <1>9, <1>11, <1>12, <1>13, <1>14, <1>15
     DEF Next, PollerStep, EngineStep, Exit, Crash, CrashWriting

\* What the replay engine has in hand.
LEMMA EngineTypes ==
  ASSUME TInv, [Next]_vars
  PROVE  EngineInv'
<1>1. engine \in EngineState /\ DOMAIN queue \subseteq DOMAIN queue'
  BY QueueTypes DEF TInv, EngineInv
<1>2. ASSUME engine.pc # "idle"
      PROVE  /\ engine.range \in DOMAIN queue /\ engine.base \in Ledgers
             /\ engine.current \in Ledgers
  BY <1>2 DEF TInv, EngineInv
<1>3. \A l \in Ledgers : l \in Nat
  BY ChainFacts
<1>4. CASE UNCHANGED engine
  BY <1>1, <1>2, <1>4 DEF EngineInv
<1>5. CASE engine' = StartEngine
  BY <1>5, StartTypes DEF EngineInv, StartEngine
<1>6. ASSUME NEW q \in DOMAIN queue, NEW horizon \in BOOLEAN, TakeRange(q, horizon)
      PROVE  EngineInv'
  <2> DEFINE from == IF queue[q].completed = 0 THEN queue[q].from ELSE queue[q].completed
  <2>1. queue[q] \in ReplayRange /\ q \in Nat
    BY DEF TInv, QueueInv
  <2>2. from \in Ledgers
    BY <2>1 DEF ReplayRange
  <2>3. engine' = [StartEngine EXCEPT !.pc = "fetch", !.range = q, !.horizon = horizon,
                                      !.current = from, !.base = from]
    BY <1>6 DEF TakeRange
  <2> HIDE DEF from
  <2>4. engine' \in EngineState /\ engine'.range = q /\ engine'.base = from
        /\ engine'.current = from
    BY <1>3, <2>1, <2>2, <2>3, StartTypes DEF EngineState
  <2> QED BY <1>1, <2>2, <2>4 DEF EngineInv
<1>7. CASE ReplayFetch
  <2> DEFINE to == queue[engine.range].to
             page == IF engine.horizon THEN HorizonEvents(engine.base, to)
                     ELSE Page(engine.base, engine.cursor, to)
             full == ~engine.horizon /\ Full(page)
  <2>1. page \subseteq Events /\ full \in BOOLEAN
    BY PagesHoldEvents, ArchiveHoldsEvents DEF Full
  <2>2. engine' = [engine EXCEPT !.pc = "work", !.page = page, !.full = full]
        /\ engine.pc = "fetch"
    BY <1>7 DEF ReplayFetch
  <2> HIDE DEF page, full
  <2>3. engine' \in EngineState /\ engine'.range = engine.range
        /\ engine'.base = engine.base /\ engine'.current = engine.current
    BY <1>1, <2>1, <2>2 DEF EngineState
  <2> QED BY <1>1, <1>2, <2>2, <2>3 DEF EngineInv
<1>8. ASSUME NEW e \in engine.page, NEW w, ReplayNext(e, w) PROVE EngineInv'
  <2> DEFINE page == engine.page \ {e}
             current == Highest(engine.current, e[1])
  <2>1. e \in Events /\ page \in SUBSET Events
    BY <1>1 DEF EngineState
  <2>2. engine.pc = "work"
    BY <1>8 DEF ReplayNext
  <2>3. current \in Ledgers
    BY <1>2, <2>1, <2>2, EventFacts DEF Highest
  <2>4. engine' = [engine EXCEPT !.page = page, !.current = current, !.cursor = e]
    BY <1>8 DEF ReplayNext
  <2> HIDE DEF page, current
  <2>5. engine' \in EngineState /\ engine'.range = engine.range
        /\ engine'.base = engine.base /\ engine'.current = current
    BY <1>1, <1>3, <2>1, <2>3, <2>4 DEF EngineState
  <2> QED BY <1>1, <1>2, <2>2, <2>3, <2>5 DEF EngineInv
<1>9. CASE ReplayPageDone
  <2> DEFINE saves == ~engine.horizon /\ engine.current - engine.base >= ProgressInterval
             base == IF saves THEN engine.current ELSE engine.base
  <2>1. engine.pc = "work"
    BY <1>9 DEF ReplayPageDone
  <2>2. base \in Ledgers
    BY <1>2, <2>1
  <2>3. engine' = [engine EXCEPT !.pc = "fetch", !.base = base] \/ engine' = StartEngine
    BY <1>9 DEF ReplayPageDone
  <2> HIDE DEF base
  <2>4. CASE engine' = [engine EXCEPT !.pc = "fetch", !.base = base]
    <3>1. engine' \in EngineState /\ engine'.range = engine.range
          /\ engine'.base = base /\ engine'.current = engine.current
      BY <1>1, <1>3, <2>2, <2>4 DEF EngineState
    <3> QED BY <1>1, <1>2, <2>1, <2>2, <3>1 DEF EngineInv
  <2> QED BY <1>5, <2>3, <2>4
<1>10. CASE \/ CloseLedger \/ Fetch \/ SavePage \/ StartupDetection \/ NextPoll
            \/ PeriodicDetection \/ FetchFails \/ Stop \/ UNCHANGED vars
            \/ \E e, w : ProcessNext(e, w) \/ ProcessThrows(e, w)
  BY <1>4, <1>10 DEF CloseLedger, Fetch, SavePage, StartupDetection, NextPoll,
     PeriodicDetection, FetchFails, Stop, vars, control, ProcessNext, ProcessThrows
<1>11. CASE ReplayFails \/ Restart
  BY <1>5, <1>11 DEF ReplayFails, Restart
<1> QED
  BY <1>6, <1>7, <1>8, <1>9, <1>10, <1>11
     DEF Next, PollerStep, EngineStep, Exit, Crash, CrashWriting

\* The chain, the checkpoint, what was given up and how much has failed.
LEMMA ClockTypes ==
  ASSUME TInv, [Next]_vars
  PROVE  ClockInv'
<1>1. ClockInv /\ tip \in Nat /\ HalfRead \subseteq Ledgers
      /\ poller.highest \in Nat /\ poller.highest <= tip
  BY CursorFacts DEF TInv, PollerInv, PollerState
<1>2. ASSUME Fault PROVE faults' \in 0..MaxFaults
  BY <1>1, <1>2, BoundsFacts DEF Fault, ClockInv
<1>3. CASE CloseLedger
  <2>1. tip < Len(Chain) /\ tip' = tip + 1 /\ UNCHANGED <<checkpoint, stopping, historyVars>>
    BY <1>3 DEF CloseLedger
  <2> QED BY <1>1, <2>1, ChainFacts DEF ClockInv, historyVars
<1>4. CASE SavePage
  <2>1. /\ UNCHANGED <<tip, stopping, historyVars>>
        /\ checkpoint' \in {checkpoint, poller.highest}
    BY <1>4 DEF SavePage
  <2> QED BY <1>1, <2>1, ChainFacts DEF ClockInv, historyVars
<1>5. CASE FetchFails
  BY <1>1, <1>2, <1>5 DEF FetchFails, ClockInv
<1>6. ASSUME Restart, Fault \/ UNCHANGED faults PROVE ClockInv'
  <2>1. /\ UNCHANGED <<tip, checkpoint, skipped, archive>> /\ stopping' = FALSE
        /\ cut' = cut \cup HalfRead
    BY <1>6 DEF Restart
  <2>2. faults' \in 0..MaxFaults
    BY <1>1, <1>2, <1>6 DEF ClockInv
  <2> QED BY <1>1, <2>1, <2>2 DEF ClockInv
<1>7. ASSUME UNCHANGED <<tip, checkpoint, stopping, skipped, cut, archive>>,
             Fault \/ UNCHANGED faults
      PROVE  ClockInv'
  BY <1>1, <1>2, <1>7 DEF ClockInv
<1>8. CASE \/ Fetch \/ StartupDetection \/ NextPoll \/ PeriodicDetection \/ ReplayFetch
           \/ ReplayPageDone \/ ReplayFails \/ UNCHANGED vars
           \/ \E e, w : ProcessNext(e, w) \/ ReplayNext(e, w)
  BY <1>7, <1>8 DEF Fetch, StartupDetection, NextPoll, PeriodicDetection, ReplayFetch,
     ReplayPageDone, ReplayFails, vars, control, historyVars, ProcessNext, ReplayNext
<1>9. CASE Stop
  BY <1>1, <1>2, <1>9 DEF Stop, ClockInv
<1>10. CASE \E q \in DOMAIN queue, horizon \in BOOLEAN : TakeRange(q, horizon)
  BY <1>1, <1>10 DEF TakeRange, ClockInv
<1>11. ASSUME NEW e, NEW w, ProcessThrows(e, w) PROVE ClockInv'
  <2>1. UNCHANGED <<tip, checkpoint, stopping, cut, archive>>
        /\ skipped' \in {skipped, skipped \cup {Ledger}}
    BY <1>11 DEF ProcessThrows
  <2>2. faults' \in 0..MaxFaults
    BY <1>2, <1>11 DEF ProcessThrows
  <2>3. Ledger \in Ledgers
    BY <1>11, CursorFacts, LedgerFacts DEF ProcessThrows, InHand, TInv
  <2> QED BY <1>1, <2>1, <2>2, <2>3 DEF ClockInv
<1>12. CASE Exit \/ Crash \/ \E e, w : CrashWriting(e, w)
  BY <1>6, <1>12 DEF Exit, Crash, CrashWriting
<1> QED
  BY <1>3, <1>4, <1>5, <1>8, <1>9, <1>10, <1>11, <1>12 DEF Next, PollerStep, EngineStep

\* The types hold initially.
LEMMA InitTypes == Init => TInv
<1> SUFFICES ASSUME Init PROVE TInv
  OBVIOUS
<1>1. LInv
  BY InitHolds
<1>2. poller = StartPoller /\ engine = StartEngine /\ queue = <<>> /\ tip = 1
  BY DEF Init
<1>3. 1 \in Ledgers
  BY ChainFacts
<1>4. PollerInv
  BY <1>2, StartTypes, NoEventFacts DEF PollerInv, StartPoller
<1>5. EngineInv /\ QueueInv
  BY <1>2, StartTypes DEF EngineInv, StartEngine, QueueInv
<1>6. ClockInv
  <2>1. /\ checkpoint = 0 /\ stopping = FALSE /\ archive = FALSE /\ skipped = {} /\ cut = {}
        /\ faults = 0
    BY DEF Init
  <2>2. stopping \in BOOLEAN /\ archive \in BOOLEAN
    BY <2>1
  <2>3. tip \in Ledgers /\ 0 \in 0..tip /\ 0 \in 0..MaxFaults
    BY <1>2, <1>3, BoundsFacts
  <2> QED BY <2>1, <2>2, <2>3 DEF ClockInv
<1> QED BY <1>1, <1>4, <1>5, <1>6 DEF TInv

\* Every step keeps the types.
LEMMA NextTypes == TInv /\ [Next]_vars => TInv'
BY StepIsLogStep, PollerTypes, EngineTypes, ClockTypes, QueueTypes DEF TInv

\* The poller and the replay engine hold only events and ledgers the chain has closed,
\* the checkpoint never runs ahead of the chain, and every range of the replay queue
\* lies behind its tip, through every failure and restart.
THEOREM IndexerTypes == Spec => []IndexerTypeOK
<1>1. TInv => IndexerTypeOK
  BY DEF TInv, LInv, LogInv, HandsInv, PollerInv, QueueInv, ClockInv, IndexerTypeOK
<1>2. Spec => []TInv
  BY InitTypes, NextTypes, PTL DEF Spec
<1> QED BY <1>1, <1>2, PTL

-----------------------------------------------------------------------------
(* What the checkpoint covers *)

\* Stored, or lost with its ledger.
Settled(e) == Known(e) \/ e[1] \in skipped \cup cut

\* The events a poll has passed, those from there on, and the page as it was fetched.
Behind(e) ==
    IF poller.cursor = NoEvent THEN e[1] <= poller.last ELSE ~Before(poller.cursor, e)
Window  == EventsFrom(poller.last + 1, poller.cursor, tip)
Fetched == Page(poller.last + 1, poller.cursor, tip)

AtRest ==
    /\ poller.cursor = NoEvent /\ poller.page = {} /\ poller.done = {}
    /\ \A e \in Events : e[1] <= checkpoint => Settled(e)

OnTheWay ==
    /\ \A e \in Events : Behind(e) => Settled(e)
    /\ poller.cursor # NoEvent => poller.last < poller.cursor[1]
    /\ checkpoint = IF poller.cursor = NoEvent THEN poller.last ELSE poller.cursor[1]

BetweenPages ==
    /\ poller.cursor # NoEvent /\ poller.page = {} /\ poller.done = {}
    /\ poller.highest = poller.cursor[1]

\* A full page is still what the chain would return, and what has left it is settled.
WithFullPage ==
    /\ Cardinality(Fetched) = PageSize /\ poller.page \subseteq Fetched
    /\ \A e \in Fetched \ poller.page : Settled(e) /\ e[1] <= poller.highest
    /\ poller.highest = checkpoint \/ \E e \in Fetched : poller.highest = e[1]

\* The last page had every event there was.
WithLastPage ==
    \A e \in Window :
        (e[1] <= poller.highest \/ \E f \in poller.page : e[1] <= f[1])
            => e \in poller.page \/ Settled(e)

AtWork ==
    /\ poller.page \subseteq Window /\ checkpoint <= poller.highest
    /\ \A e \in poller.done : Known(e)
    /\ poller.full => WithFullPage
    /\ ~poller.full => WithLastPage

CoverInv ==
    /\ poller.pc \in {"startup", "poll", "rest"} => AtRest
    /\ poller.pc \in {"more", "work"} => OnTheWay
    /\ poller.pc = "more" => BetweenPages
    /\ poller.pc = "work" => AtWork

CInv == TInv /\ CoverInv

\* Wherever the poller stands, the coverage it keeps is the one the checkpoint
\* promises.
LEMMA CoverImplies == CInv => CheckpointCovers
<1> SUFFICES ASSUME CInv, NEW e \in Events, e[1] <= checkpoint
             PROVE  \/ Known(e) \/ e[1] \in skipped \cup cut
                    \/ e[1] \in HalfRead /\ Before(poller.cursor, e)
  BY DEF CheckpointCovers
<1>1. poller.pc \in {"startup", "poll", "rest"} \/ poller.pc \in {"more", "work"}
  BY DEF CInv, TInv, PollerInv, PollerState
<1>2. CASE poller.pc \in {"startup", "poll", "rest"}
  BY <1>2 DEF CInv, CoverInv, AtRest, Settled
<1>3. CASE poller.pc \in {"more", "work"}
  <2>1. OnTheWay
    BY <1>3 DEF CInv, CoverInv
  <2>2. CASE poller.cursor = NoEvent
    BY <2>1, <2>2 DEF OnTheWay, Behind, Settled
  <2>3. CASE poller.cursor # NoEvent
    <3>1. e[1] <= poller.cursor[1] /\ HalfRead = {poller.cursor[1]}
      BY <2>1, <2>3 DEF OnTheWay, HalfRead
    <3>2. CASE ~Before(poller.cursor, e)
      BY <2>1, <2>3, <3>2 DEF OnTheWay, Behind, Settled
    <3>3. CASE Before(poller.cursor, e)
      <4>1. poller.cursor \in Events
        BY <2>3, CursorFacts DEF CInv, TInv
      <4>2. poller.cursor[1] <= e[1] /\ poller.cursor[1] \in Nat /\ e[1] \in Nat
        BY <3>3, <4>1, ChainOrder, EventFacts
      <4> QED BY <3>1, <3>3, <4>2
    <3> QED BY <3>2, <3>3
  <2> QED BY <2>2, <2>3
<1> QED BY <1>1, <1>2, <1>3

\* What is known stays known.
LEMMA KnownStays ==
  ASSUME stored \subseteq stored', NEW e, Known(e)
  PROVE  Known(e)'
BY DEF Known

\* So does an event that is settled: stored, skipped or cut off.
LEMMA SettledStays ==
  ASSUME stored \subseteq stored', skipped \subseteq skipped', cut \subseteq cut',
         NEW e, Settled(e)
  PROVE  Settled(e)'
BY KnownStays DEF Settled

\* Processing an event only adds it; with its row it is known from then on.
LEMMA ProcessAdds ==
  ASSUME NEW e \in Events, NEW w, ProcessEvent(e, w)
  PROVE  /\ stored \subseteq stored' /\ stored' \subseteq stored \cup {e}
         /\ "row" \in w => Known(e)'
<1>1. CASE Known(e) /\ UNCHANGED storeVars
  BY <1>1 DEF storeVars, Known
<1>2. CASE ~Known(e) /\ WriteEvent(e, w)
  BY <1>2 DEF WriteEvent, Known
<1> QED BY <1>1, <1>2 DEF ProcessEvent

\* Nothing stored or given up is forgotten.
LEMMA Accumulates ==
  ASSUME TInv, [Next]_vars
  PROVE  stored \subseteq stored' /\ skipped \subseteq skipped' /\ cut \subseteq cut'
<1>1. /\ \A e \in poller.page \cup engine.page : e \in Events
  BY DEF TInv, LInv, HandsInv
<1>2. CASE \/ CloseLedger \/ Fetch \/ SavePage \/ StartupDetection \/ NextPoll
           \/ PeriodicDetection \/ FetchFails \/ ReplayFetch \/ ReplayPageDone
           \/ ReplayFails \/ Stop \/ UNCHANGED vars
  BY <1>2 DEF CloseLedger, Fetch, SavePage, StartupDetection, NextPoll, PeriodicDetection,
     FetchFails, ReplayFetch, ReplayPageDone, ReplayFails, Stop, vars, storeVars, historyVars
<1>3. CASE \E q \in DOMAIN queue, horizon \in BOOLEAN : TakeRange(q, horizon)
  BY <1>3 DEF TakeRange, storeVars
<1>4. ASSUME NEW e \in poller.page \cup engine.page, NEW w,
             ProcessNext(e, w) \/ ProcessThrows(e, w) \/ ReplayNext(e, w)
      PROVE  stored \subseteq stored' /\ skipped \subseteq skipped' /\ cut \subseteq cut'
  BY <1>1, <1>4, ProcessAdds DEF ProcessNext, ProcessThrows, ReplayNext
<1>5. ASSUME Restart PROVE skipped \subseteq skipped' /\ cut \subseteq cut'
  BY <1>5 DEF Restart
<1>6. CASE Exit \/ Crash
  BY <1>5, <1>6 DEF Exit, Crash, storeVars
<1>7. ASSUME NEW e \in poller.page \cup engine.page, NEW w, CrashWriting(e, w)
      PROVE  stored \subseteq stored' /\ skipped \subseteq skipped' /\ cut \subseteq cut'
  BY <1>1, <1>5, <1>7, ProcessAdds DEF CrashWriting
<1> QED BY <1>2, <1>3, <1>4, <1>6, <1>7 DEF Next, PollerStep, EngineStep

\* What the replay engine and the other steps around the poller add does not disturb it.
LEMMA CoverGrows ==
  ASSUME CInv, UNCHANGED <<poller, tip, checkpoint>>,
         stored \subseteq stored', skipped \subseteq skipped', cut \subseteq cut'
  PROVE  CoverInv'
<1>1. \A e \in Events : (Known(e) => Known(e)') /\ (Settled(e) => Settled(e)')
  BY KnownStays, SettledStays
<1>2. Window' = Window /\ Fetched' = Fetched /\ Window \subseteq Events /\ Fetched \subseteq Events
  BY PagesHoldEvents DEF Window, Fetched, EventsFrom, EventsUpTo
<1>3. \A e \in Events : Behind(e)' = Behind(e)
  BY DEF Behind
<1>4. AtRest => AtRest'
  BY <1>1 DEF AtRest
<1>5. OnTheWay => OnTheWay'
  BY <1>1, <1>3 DEF OnTheWay
<1>6. BetweenPages => BetweenPages'
  BY DEF BetweenPages
<1>7. AtWork => AtWork'
  <2>1. WithFullPage => WithFullPage'
    BY <1>1, <1>2 DEF WithFullPage
  <2>2. WithLastPage => WithLastPage'
    BY <1>1, <1>2 DEF WithLastPage
  <2>3. poller.done \subseteq Events
    BY DEF CInv, TInv, PollerInv, PollerState
  <2> QED BY <1>1, <1>2, <2>1, <2>2, <2>3 DEF AtWork
<1> QED BY <1>4, <1>5, <1>6, <1>7 DEF CInv, CoverInv

\* The poller's bounds, as the proofs below use them.
LEMMA PollerFacts ==
  ASSUME TInv
  PROVE  /\ poller \in PollerState /\ poller.done \subseteq poller.page
         /\ poller.last \in Nat /\ poller.highest \in Nat
         /\ poller.cursor \in {NoEvent} \cup Events /\ poller.cursor[1] \in Nat
         /\ tip \in Nat /\ checkpoint \in Nat /\ checkpoint <= tip
         /\ poller.last <= tip /\ poller.highest <= tip /\ poller.cursor[1] <= tip
         /\ \A e \in Events : e[1] \in Nat
         /\ poller.page \subseteq Events /\ \A e \in poller.page : e[1] <= tip
         /\ poller.pc \in {"startup", "poll", "work", "more", "rest"} /\ poller.full \in BOOLEAN
<1>1. PollerInv /\ ClockInv
  BY DEF TInv
<1>2. \A e \in Events : e[1] \in Nat
  BY EventFacts
<1> QED BY <1>1, <1>2, CursorFacts DEF PollerInv, PollerState, ClockInv

\* A ledger the chain closes lies beyond whatever the poller has in hand.
LEMMA CoverCloses ==
  ASSUME CInv, CloseLedger
  PROVE  CoverInv'
<1>1. /\ tip' = tip + 1 /\ UNCHANGED <<poller, checkpoint, stored, skipped, cut>>
      /\ poller.cursor \in {NoEvent} \cup Events /\ tip \in Nat
  BY PollerFacts DEF CloseLedger, storeVars, historyVars, CInv
<1>2. \A e \in Events : Known(e)' = Known(e) /\ Settled(e)' = Settled(e) /\ Behind(e)' = Behind(e)
  BY <1>1 DEF Known, Settled, Behind
<1>3. /\ Window \subseteq Window' /\ Window' \subseteq Events
      /\ \A e \in Window' \ Window : e[1] > tip
      /\ \A e \in Window : e[1] <= tip
  BY <1>1, EventFacts DEF Window, EventsFrom, EventsUpTo
<1>4. ASSUME Cardinality(Fetched) = PageSize PROVE Fetched' = Fetched
  <2>1. \A e \in Window, f \in Window' \ Window : Before(e, f)
    BY <1>1, <1>3, EventFacts, ChainOrder
  <2>2. Fetched = FirstOf(PageSize, Window) /\ Fetched' = FirstOf(PageSize, Window')
    BY DEF Fetched, Window, Page
  <2> HIDE DEF Fetched, Window
  <2> QED BY <1>3, <1>4, <2>1, <2>2, BoundsFacts, FirstOfGrows
<1>5. AtRest => AtRest'
  BY <1>1, <1>2 DEF AtRest
<1>6. OnTheWay => OnTheWay'
  BY <1>1, <1>2 DEF OnTheWay
<1>7. BetweenPages => BetweenPages'
  BY <1>1 DEF BetweenPages
<1>8. AtWork => AtWork'
  <2>1. WithFullPage => WithFullPage'
    <3>1. Fetched \subseteq Events
      BY PagesHoldEvents DEF Fetched
    <3> QED BY <1>1, <1>2, <1>4, <3>1 DEF WithFullPage
  <2>2. WithLastPage => WithLastPage'
    <3>1. /\ poller.highest <= tip /\ poller.highest \in Nat /\ poller.page \subseteq Events
          /\ \A f \in poller.page : f[1] <= tip
          /\ \A e \in Events : e[1] \in Nat
      BY PollerFacts DEF CInv
    <3>2. SUFFICES ASSUME WithLastPage, NEW e \in Window',
                          e[1] <= poller.highest \/ \E f \in poller.page : e[1] <= f[1]
                   PROVE  e \in poller.page \/ Settled(e)'
      BY <1>1 DEF WithLastPage
    <3>3. e \in Events /\ e[1] <= tip
      BY <1>1, <1>3, <3>1, <3>2
    <3>4. e \in Window
      BY <1>1, <1>3, <3>1, <3>3
    <3> QED BY <1>2, <3>2, <3>3, <3>4 DEF WithLastPage
  <2>3. poller.done \subseteq Events
    BY DEF CInv, TInv, PollerInv, PollerState
  <2> QED BY <1>1, <1>2, <1>3, <2>1, <2>2, <2>3 DEF AtWork
<1> QED BY <1>1, <1>5, <1>6, <1>7, <1>8 DEF CInv, CoverInv

\* A new page, the first or the one behind the cursor.
LEMMA CoverFetches ==
  ASSUME CInv, Fetch
  PROVE  CoverInv'
<1> DEFINE fresh == poller.pc = "poll"
           cur   == IF fresh THEN NoEvent ELSE poller.cursor
           l     == IF fresh THEN checkpoint ELSE poller.last
           h     == IF fresh THEN checkpoint ELSE poller.highest
           page  == Page(StartLedger, cur, tip)
           full  == Full(page)
<1>1. poller.pc \in {"poll", "more"} /\ poller \in PollerState
  BY PollerFacts DEF Fetch, CInv
<1>2. poller' = [poller EXCEPT !.pc = "work", !.page = page, !.full = full, !.done = {},
                               !.tries = 0, !.last = l, !.highest = h, !.cursor = cur]
  BY <1>1 DEF Fetch, PollerState
<1>3. /\ UNCHANGED <<stored, tip, checkpoint, skipped, cut>>
  BY DEF Fetch, storeVars, historyVars
<1>4. /\ checkpoint \in Nat /\ tip \in Nat /\ \A e \in Events : e[1] \in Nat
      /\ poller.cursor \in {NoEvent} \cup Events /\ poller.cursor[1] \in Nat
      /\ poller.last \in Nat /\ poller.highest \in Nat
  BY PollerFacts DEF CInv
<1>5. \A e \in Events : (Known(e) <=> Known(e)') /\ (Settled(e) <=> Settled(e)')
  BY <1>3 DEF Known, Settled
<1>6. /\ cur \in {NoEvent} \cup Events /\ l \in Nat /\ h \in Nat
      /\ checkpoint = (IF cur = NoEvent THEN l ELSE cur[1]) /\ h = checkpoint
      /\ cur # NoEvent => l < cur[1]
      /\ \A e \in Events : (IF cur = NoEvent THEN e[1] <= l ELSE ~Before(cur, e)) => Settled(e)
  <2>1. CASE fresh
    BY <1>4, <2>1 DEF CInv, CoverInv, AtRest
  <2>2. CASE ~fresh
    <3>1. OnTheWay /\ BetweenPages
      BY <1>1, <2>2 DEF CInv, CoverInv
    <3> QED BY <1>4, <2>2, <3>1 DEF OnTheWay, BetweenPages, Behind
  <2> QED BY <2>1, <2>2
<1>7. page = Page(l + 1, cur, tip)
  <2>1. CASE cur = NoEvent
    BY <1>6, <2>1 DEF StartLedger
  <2>2. CASE cur # NoEvent
    BY <2>2 DEF Page, EventsFrom
  <2> QED BY <2>1, <2>2
<1> HIDE DEF fresh, cur, l, h, page, full
<1>8. /\ poller'.pc = "work" /\ poller'.last = l /\ poller'.highest = h /\ poller'.cursor = cur
      /\ poller'.page = page /\ poller'.done = {} /\ poller'.full = full
  BY <1>1, <1>2 DEF PollerState
<1>9. Window' = EventsFrom(l + 1, cur, tip) /\ Fetched' = page
  BY <1>3, <1>7, <1>8 DEF Window, Fetched
<1>10. page = FirstOf(PageSize, EventsFrom(l + 1, cur, tip))
  BY <1>7 DEF Page
<1>11. Window' \subseteq Events
  BY <1>9 DEF EventsFrom, EventsUpTo
<1>12. OnTheWay'
  <2>1. \A e \in Events : Behind(e)' => Settled(e)'
    BY <1>5, <1>6, <1>8 DEF Behind
  <2> QED BY <1>3, <1>6, <1>8, <2>1 DEF OnTheWay
<1>13. AtWork'
  <2>1. page \subseteq Window'
    BY <1>9, <1>10, <1>11, FirstOfFacts, BoundsFacts
  <2>2. full => WithFullPage'
    <3>1. full => Cardinality(page) = PageSize
      BY DEF full, Full
    <3> QED BY <1>3, <1>6, <1>8, <1>9, <3>1 DEF WithFullPage
  <2>3. ~full => WithLastPage'
    <3>1. ~full => page = Window'
      BY <1>9, <1>10, <1>11, FirstOfFacts, BoundsFacts DEF full, Full
    <3> QED BY <1>8, <3>1 DEF WithLastPage
  <2> QED BY <1>3, <1>4, <1>6, <1>8, <2>1, <2>2, <2>3 DEF AtWork
<1> QED BY <1>8, <1>12, <1>13 DEF CoverInv

\* The steps that leave the poller at rest.
LEMMA CoverRests ==
  ASSUME CInv, StartupDetection \/ NextPoll \/ PeriodicDetection
  PROVE  CoverInv'
<1>1. /\ poller.pc \in {"startup", "rest"} /\ poller' = [poller EXCEPT !.pc = "poll"]
      /\ UNCHANGED <<stored, checkpoint, skipped, cut>>
  BY DEF StartupDetection, NextPoll, PeriodicDetection, storeVars, historyVars
<1>2. poller'.pc = "poll" /\ poller'.cursor = poller.cursor /\ poller'.page = poller.page
      /\ poller'.done = poller.done
  BY <1>1, PollerFacts DEF PollerState, CInv
<1>3. AtRest
  BY <1>1 DEF CInv, CoverInv
<1>4. \A e \in Events : Settled(e) <=> Settled(e)'
  BY <1>1 DEF Known, Settled
<1>5. AtRest'
  BY <1>1, <1>2, <1>3, <1>4 DEF AtRest
<1> QED BY <1>2, <1>5 DEF CoverInv

\* When the poll is cut off between two pages, the ledger it was in is half read.
LEMMA CutOffSettles ==
  ASSUME CInv, stored \subseteq stored', skipped \subseteq skipped', cut' = cut \cup HalfRead,
         UNCHANGED checkpoint
  PROVE  \A e \in Events : e[1] <= checkpoint' => Settled(e)'
<1> SUFFICES ASSUME NEW e \in Events, e[1] <= checkpoint PROVE Settled(e)'
  OBVIOUS
<1>1. Known(e) \/ e[1] \in skipped \cup cut \/ e[1] \in HalfRead
  BY CoverImplies DEF CheckpointCovers
<1>2. Known(e) => Known(e)'
  BY KnownStays
<1> QED BY <1>1, <1>2 DEF Settled

\* A page that fails, or a crash, gives up what the poller had half read of a
\* ledger.
LEMMA CoverCuts ==
  ASSUME CInv, FetchFails \/ Restart,
         stored \subseteq stored', skipped \subseteq skipped'
  PROVE  CoverInv'
<1>1. CASE FetchFails
  <2>1. /\ poller.pc \in {"poll", "more"} /\ UNCHANGED checkpoint
        /\ poller' = [poller EXCEPT !.pc = "rest", !.cursor = NoEvent]
        /\ cut' = IF poller.pc = "more" THEN cut \cup HalfRead ELSE cut
    BY <1>1 DEF FetchFails
  <2>2. /\ poller'.pc = "rest" /\ poller'.cursor = NoEvent /\ poller'.page = poller.page
        /\ poller'.done = poller.done
    BY <2>1, PollerFacts DEF PollerState, CInv
  <2>3. poller.page = {} /\ poller.done = {} /\ (poller.pc = "poll" => HalfRead = {})
    BY <2>1 DEF CInv, CoverInv, AtRest, BetweenPages, HalfRead
  <2>4. cut' = cut \cup HalfRead
    BY <2>1, <2>3
  <2>5. AtRest'
    BY <2>1, <2>2, <2>3, <2>4, CutOffSettles DEF AtRest
  <2> QED BY <2>2, <2>5 DEF CoverInv
<1>2. CASE Restart
  <2>1. /\ poller'.pc = "startup" /\ poller'.cursor = NoEvent /\ poller'.page = {}
        /\ poller'.done = {} /\ UNCHANGED checkpoint /\ cut' = cut \cup HalfRead
    BY <1>2 DEF Restart, StartPoller
  <2>2. AtRest'
    BY <2>1, CutOffSettles DEF AtRest
  <2> QED BY <2>1, <2>2 DEF CoverInv
<1> QED BY <1>1, <1>2

\* One more event of the ledger in hand, or its next try.
LEMMA CoverTries ==
  ASSUME CInv, poller.pc = "work", poller'.pc = "work",
         UNCHANGED <<tip, checkpoint>>, stored \subseteq stored', skipped \subseteq skipped',
         cut \subseteq cut',
         poller'.last = poller.last, poller'.highest = poller.highest,
         poller'.cursor = poller.cursor, poller'.page = poller.page,
         poller'.full = poller.full,
         \A e \in poller'.done : e \in Events /\ Known(e)'
  PROVE  CoverInv'
<1>1. \A e \in Events : (Known(e) => Known(e)') /\ (Settled(e) => Settled(e)')
  BY KnownStays, SettledStays
<1>2. Window' = Window /\ Fetched' = Fetched /\ Window \subseteq Events /\ Fetched \subseteq Events
  BY PagesHoldEvents DEF Window, Fetched, EventsFrom, EventsUpTo
<1>3. \A e \in Events : Behind(e)' = Behind(e)
  BY DEF Behind
<1>4. OnTheWay /\ AtWork
  BY DEF CInv, CoverInv
<1>5. OnTheWay'
  BY <1>1, <1>3, <1>4 DEF OnTheWay
<1>6. poller.full => WithFullPage'
  BY <1>1, <1>2, <1>4 DEF AtWork, WithFullPage
<1>7. ~poller.full => WithLastPage'
  BY <1>1, <1>2, <1>4 DEF AtWork, WithLastPage
<1>8. AtWork'
  BY <1>2, <1>4, <1>6, <1>7 DEF AtWork
<1> QED BY <1>5, <1>8 DEF CoverInv

\* The ledger in hand is done with: every event of it on the page is settled.
LEMMA CoverMovesOn ==
  ASSUME CInv, InHand, poller' = GroupDone,
         UNCHANGED <<tip, checkpoint>>, stored \subseteq stored', skipped \subseteq skipped',
         cut \subseteq cut', \A e \in Group : Settled(e)'
  PROVE  CoverInv'
<1> DEFINE h == Highest(poller.highest, Ledger)
<1>1. \A e \in Events : (Known(e) => Known(e)') /\ (Settled(e) => Settled(e)')
  BY KnownStays, SettledStays
<1>2. poller.pc = "work" /\ poller.page # {}
  BY DEF InHand
<1>3. /\ poller \in PollerState /\ poller.highest \in Nat /\ poller.page \subseteq Events
      /\ checkpoint \in Nat /\ \A e \in Events : e[1] \in Nat
  BY PollerFacts DEF CInv
<1>4. /\ \E e \in poller.page : e[1] = Ledger
      /\ \A e \in poller.page : Ledger <= e[1]
      /\ Group \subseteq poller.page /\ \A e \in Group : e[1] = Ledger
      /\ Ledger \in Nat
  BY <1>2, <1>3, LedgerFacts, ChainFacts
<1>5. h \in Nat /\ poller.highest <= h /\ Ledger <= h /\ h \in {poller.highest, Ledger}
  BY <1>3, <1>4 DEF Highest
<1> DEFINE g == Group
<1> HIDE DEF h, g
<1>6. /\ poller'.pc = "work" /\ poller'.last = poller.last /\ poller'.highest = h
      /\ poller'.cursor = poller.cursor /\ poller'.page = poller.page \ g
      /\ poller'.full = poller.full /\ poller'.done = {}
  BY <1>2, <1>3 DEF GroupDone, PollerState, h, g
<1>7. Window' = Window /\ Fetched' = Fetched /\ Window \subseteq Events /\ Fetched \subseteq Events
  BY <1>6, PagesHoldEvents DEF Window, Fetched, EventsFrom, EventsUpTo
<1>8. \A e \in Events : Behind(e)' = Behind(e)
  BY <1>6 DEF Behind
<1>9. OnTheWay /\ AtWork
  BY <1>2 DEF CInv, CoverInv
<1>10. OnTheWay'
  BY <1>1, <1>6, <1>8, <1>9 DEF OnTheWay
<1>11. poller.full => WithFullPage'
  <2>1. SUFFICES ASSUME WithFullPage PROVE WithFullPage'
    BY <1>9 DEF AtWork
  <2>2. ASSUME NEW e \in Fetched, e \notin poller.page \ g
        PROVE  Settled(e)' /\ e[1] <= h
    <3>1. CASE e \in g
      BY <1>4, <1>5, <3>1 DEF g
    <3>2. CASE e \notin poller.page
      BY <1>1, <1>3, <1>5, <1>7, <2>1, <2>2, <3>2 DEF WithFullPage
    <3> QED BY <2>2, <3>1, <3>2
  <2>3. h = checkpoint \/ \E e \in Fetched : h = e[1]
    BY <1>4, <1>5, <2>1 DEF WithFullPage
  <2> QED BY <1>6, <1>7, <2>1, <2>2, <2>3 DEF WithFullPage
<1>12. ~poller.full => WithLastPage'
  <2>1. SUFFICES ASSUME WithLastPage, NEW e \in Window,
                        e[1] <= h \/ \E f \in poller.page \ g : e[1] <= f[1]
                 PROVE  e \in poller.page \ g \/ Settled(e)'
    BY <1>6, <1>7, <1>9 DEF AtWork, WithLastPage
  <2>2. e[1] <= poller.highest \/ \E f \in poller.page : e[1] <= f[1]
    BY <1>4, <1>5, <2>1
  <2>3. e \in poller.page \/ Settled(e)
    BY <2>1, <2>2 DEF WithLastPage
  <2>4. e \in g => Settled(e)'
    BY DEF g
  <2> QED BY <1>1, <1>7, <2>3, <2>4
<1>13. AtWork'
  BY <1>3, <1>5, <1>6, <1>7, <1>9, <1>11, <1>12 DEF AtWork
<1> QED BY <1>6, <1>10, <1>13 DEF CoverInv

\* The window of a poll is what lies between the last page and the tip.
LEMMA WindowFacts ==
  ASSUME TInv
  PROVE  \A e \in Events : e \in Window <=> e[1] <= tip /\ ~Behind(e)
<1>1. poller.last \in Nat /\ \A e \in Events : e[1] \in Nat
  BY PollerFacts
<1> QED BY <1>1 DEF Window, EventsFrom, EventsUpTo, Behind

\* After its last event the page is behind the poller, and the checkpoint follows.
LEMMA CoverSaves ==
  ASSUME CInv, SavePage
  PROVE  CoverInv'
<1>1. /\ poller.pc = "work" /\ poller.page = {}
      /\ checkpoint' = IF poller.highest > poller.last THEN poller.highest ELSE checkpoint
      /\ UNCHANGED <<stored, tip, skipped, cut>>
  BY DEF SavePage, storeVars, historyVars
<1>2. OnTheWay /\ AtWork
  BY <1>1 DEF CInv, CoverInv
<1>3. /\ poller \in PollerState /\ poller.done = {} /\ poller.highest \in Nat
      /\ poller.last \in Nat /\ tip \in Nat /\ poller.highest <= tip /\ checkpoint \in Nat
      /\ poller.cursor \in {NoEvent} \cup Events
      /\ \A e \in Events : e[1] \in Nat
  BY <1>1, PollerFacts DEF CInv
<1>4. \A e \in Events : Settled(e) <=> Settled(e)'
  BY <1>1 DEF Known, Settled
<1>5. \A e \in Events : e \in Window <=> e[1] <= tip /\ ~Behind(e)
  BY WindowFacts DEF CInv
<1>6. ASSUME poller.full,
             NEW c \in Latest(Fetched), poller' = [poller EXCEPT !.pc = "more", !.cursor = c]
      PROVE  CoverInv'
  <2>1. /\ c \in Fetched /\ \A f \in Fetched \ {c} : Before(f, c)
        /\ Fetched \subseteq Window /\ Window \subseteq Events
        /\ \A e \in Fetched, f \in Window : Before(f, e) => f \in Fetched
    <3>1. Window \subseteq Events /\ Fetched = FirstOf(PageSize, Window)
      BY DEF Window, Fetched, Page, EventsFrom, EventsUpTo
    <3>2. c \in Fetched /\ \A f \in Fetched \ {c} : Before(f, c)
      BY <1>6 DEF Latest
    <3> HIDE DEF Window, Fetched
    <3> QED BY <3>1, <3>2, FirstOfFacts, BoundsFacts
  <2>2. WithFullPage
    BY <1>2, <1>6 DEF AtWork
  <2>3. \A e \in Fetched : Settled(e) /\ e[1] <= poller.highest
    BY <1>1, <2>2 DEF WithFullPage
  <2>4. c \in Events /\ c[1] \in Nat /\ ~Behind(c)
    BY <1>3, <1>5, <2>1
  <2>5. \A f \in Fetched : f[1] <= c[1]
    BY <1>3, <2>1, <2>4, ChainOrder
  <2>6. c[1] > poller.last /\ checkpoint <= c[1]
    <3>1. CASE poller.cursor = NoEvent
      BY <1>2, <1>3, <2>4, <3>1 DEF OnTheWay, Behind
    <3>2. CASE poller.cursor # NoEvent
      <4>1. Before(poller.cursor, c) /\ poller.cursor \in Events
        BY <1>3, <2>4, <3>2 DEF Behind
      <4>2. poller.cursor[1] <= c[1] /\ poller.cursor[1] \in Nat
        BY <1>3, <2>4, <4>1, ChainOrder
      <4> QED BY <1>2, <1>3, <2>4, <3>2, <4>2 DEF OnTheWay
    <3> QED BY <3>1, <3>2
  <2>7. poller.highest = c[1]
    <3>1. poller.highest = checkpoint \/ \E e \in Fetched : poller.highest = e[1]
      BY <2>2 DEF WithFullPage
    <3>2. c[1] <= poller.highest /\ poller.highest <= c[1]
      BY <2>1, <2>3, <2>5, <2>6, <3>1
    <3> QED BY <1>3, <2>4, <3>2
  <2>8. checkpoint' = c[1]
    BY <1>1, <1>3, <2>4, <2>6, <2>7
  <2>9. /\ poller'.pc = "more" /\ poller'.cursor = c /\ poller'.page = {} /\ poller'.done = {}
        /\ poller'.highest = poller.highest /\ poller'.last = poller.last
    BY <1>1, <1>3, <1>6 DEF PollerState
  <2>10. c # NoEvent
    BY <2>4, NoEventFacts
  <2>11. ASSUME NEW e \in Events, ~Before(c, e) PROVE Settled(e)
    <3>1. CASE Behind(e)
      BY <1>2, <3>1 DEF OnTheWay
    <3>2. CASE ~Behind(e)
      <4>1. e = c \/ Before(e, c)
        BY <2>4, <2>11, ChainOrder
      <4>2. e[1] <= c[1]
        BY <1>3, <2>4, <4>1, ChainOrder
      <4>3. e \in Window
        BY <1>3, <1>5, <2>4, <2>7, <3>2, <4>2
      <4>4. e \in Fetched
        BY <2>1, <4>1, <4>3
      <4> QED BY <2>3, <4>4
    <3> QED BY <3>1, <3>2
  <2>12. OnTheWay'
    <3>1. \A e \in Events : Behind(e)' => Settled(e)'
      BY <1>4, <2>9, <2>10, <2>11 DEF Behind
    <3> QED BY <1>3, <2>4, <2>6, <2>8, <2>9, <2>10, <3>1 DEF OnTheWay
  <2>13. BetweenPages'
    BY <2>7, <2>9, <2>10 DEF BetweenPages
  <2> QED BY <2>9, <2>12, <2>13 DEF CoverInv
<1>7. ASSUME ~poller.full, poller' = [poller EXCEPT !.pc = "rest", !.cursor = NoEvent]
      PROVE  CoverInv'
  <2>1. WithLastPage /\ checkpoint <= poller.highest
    BY <1>2, <1>7 DEF AtWork
  <2>2. checkpoint' <= poller.highest /\ checkpoint' \in Nat
    BY <1>1, <1>3, <2>1
  <2>3. ASSUME NEW e \in Events, e[1] <= checkpoint' PROVE Settled(e)
    <3>1. e[1] <= poller.highest /\ e[1] <= tip
      BY <1>3, <2>2, <2>3
    <3>2. CASE Behind(e)
      BY <1>2, <3>2 DEF OnTheWay
    <3>3. CASE ~Behind(e)
      BY <1>1, <1>5, <2>1, <3>1, <3>3 DEF WithLastPage
    <3> QED BY <3>2, <3>3
  <2>4. /\ poller'.pc = "rest" /\ poller'.cursor = NoEvent /\ poller'.page = {}
        /\ poller'.done = {}
    BY <1>1, <1>3, <1>7 DEF PollerState
  <2>5. AtRest'
    BY <1>4, <2>3, <2>4 DEF AtRest
  <2> QED BY <2>4, <2>5 DEF CoverInv
<1>8. Page(poller.last + 1, poller.cursor, tip) = Fetched
  BY DEF Fetched
<1> HIDE DEF CInv, CoverInv
<1> QED BY <1>6, <1>7, <1>8 DEF SavePage

\* An event is processed, or fails and is tried again or given up.
LEMMA CoverProcesses ==
  ASSUME CInv, NEW e \in poller.page, NEW w,
         (ProcessNext(e, w) /\ "row" \in w) \/ ProcessThrows(e, w),
         stored \subseteq stored', skipped \subseteq skipped', cut \subseteq cut'
  PROVE  CoverInv'
<1>1. /\ InHand /\ ProcessEvent(e, w) /\ e \in Earliest(Group \ poller.done)
      /\ UNCHANGED <<tip, checkpoint>>
  BY DEF ProcessNext, ProcessThrows
<1>2. /\ poller \in PollerState /\ poller.pc = "work" /\ poller.page \subseteq Events
      /\ poller.done \subseteq Events /\ e \in Events
  BY <1>1, PollerFacts DEF CInv, InHand
<1>3. \A f \in poller.done : Known(f)
  BY <1>2 DEF CInv, CoverInv, AtWork
<1>4. \A f \in Events : Known(f) => Known(f)'
  BY KnownStays
<1>5. CASE ProcessNext(e, w) /\ "row" \in w
  <2>1. Known(e)'
    BY <1>1, <1>2, <1>5, ProcessAdds
  <2>2. CASE Group = poller.done \cup {e}
    <3>1. poller' = GroupDone
      BY <1>5, <2>2 DEF ProcessNext
    <3>2. \A f \in Group : Settled(f)'
      BY <1>2, <1>3, <1>4, <2>1, <2>2 DEF Settled
    <3> QED BY <1>1, <3>1, <3>2, CoverMovesOn
  <2>3. CASE Group # poller.done \cup {e}
    <3> DEFINE d == poller.done \cup {e}
    <3>1. poller' = [poller EXCEPT !.done = d]
      BY <1>5, <2>3 DEF ProcessNext
    <3>2. \A f \in d : f \in Events /\ Known(f)'
      BY <1>2, <1>3, <1>4, <2>1
    <3> HIDE DEF d
    <3>3. /\ poller'.pc = "work" /\ poller'.last = poller.last
          /\ poller'.highest = poller.highest /\ poller'.cursor = poller.cursor
          /\ poller'.page = poller.page /\ poller'.full = poller.full /\ poller'.done = d
      BY <1>2, <3>1 DEF PollerState
    <3> QED BY <1>1, <1>2, <3>2, <3>3, CoverTries
  <2> QED BY <2>2, <2>3
<1>6. CASE ProcessThrows(e, w)
  <2>1. CASE poller' = [poller EXCEPT !.done = {}, !.tries = @ + 1]
    <3>1. /\ poller'.pc = "work" /\ poller'.last = poller.last
          /\ poller'.highest = poller.highest /\ poller'.cursor = poller.cursor
          /\ poller'.page = poller.page /\ poller'.full = poller.full /\ poller'.done = {}
      BY <1>2, <2>1 DEF PollerState
    <3> QED BY <1>1, <1>2, <3>1, CoverTries
  <2>2. CASE poller' = GroupDone /\ skipped' = skipped \cup {Ledger}
    <3>1. \A f \in Group : Settled(f)'
      BY <1>1, <1>2, <2>2, LedgerFacts DEF Settled, InHand
    <3> QED BY <1>1, <2>2, <3>1, CoverMovesOn
  <2> QED BY <1>6, <2>1, <2>2 DEF ProcessThrows
<1> QED BY <1>5, <1>6

\* Coverage holds initially, when the checkpoint is zero.
LEMMA InitCover == Init => CInv
<1> SUFFICES ASSUME Init PROVE CInv
  OBVIOUS
<1>1. TInv
  BY InitTypes
<1>2. /\ poller.pc = "startup" /\ poller.cursor = NoEvent /\ poller.page = {}
      /\ poller.done = {} /\ checkpoint = 0
  BY DEF Init, StartPoller
<1>3. AtRest
  BY <1>2, EventFacts DEF AtRest
<1> QED BY <1>1, <1>2, <1>3 DEF CInv, CoverInv

\* Every step keeps the coverage.
LEMMA NextCover == CInv /\ [Next]_vars => CInv'
<1> SUFFICES ASSUME CInv, [Next]_vars PROVE CInv'
  OBVIOUS
<1>1. TInv'
  BY NextTypes DEF CInv
<1>2. stored \subseteq stored' /\ skipped \subseteq skipped' /\ cut \subseteq cut'
  BY Accumulates DEF CInv
<1>3. \A w \in Caught \cup {Done} : "row" \in w
  BY DEF Caught, Done
<1>4. CASE UNCHANGED <<poller, tip, checkpoint>>
  BY <1>1, <1>2, <1>4, CoverGrows DEF CInv
<1>5. CASE CloseLedger
  BY <1>1, <1>5, CoverCloses DEF CInv
<1>6. CASE Fetch
  BY <1>1, <1>6, CoverFetches DEF CInv
<1>7. CASE SavePage
  BY <1>1, <1>7, CoverSaves DEF CInv
<1>8. CASE StartupDetection \/ NextPoll \/ PeriodicDetection
  BY <1>1, <1>8, CoverRests DEF CInv
<1>9. CASE FetchFails \/ Restart
  BY <1>1, <1>2, <1>9, CoverCuts DEF CInv
<1>10. CASE \E e \in poller.page :
               \/ ProcessNext(e, Done)
               \/ \E w \in Caught : ProcessNext(e, w)
               \/ \E w \in Thrown : ProcessThrows(e, w)
  BY <1>1, <1>2, <1>3, <1>10, CoverProcesses DEF CInv
<1>11. CASE EngineStep \/ ReplayFails \/ Stop \/ UNCHANGED vars
              \/ \E e \in engine.page, w \in Thrown \cup Caught : ReplayNext(e, w)
  BY <1>4, <1>11 DEF EngineStep, TakeRange, ReplayFetch, ReplayNext, ReplayPageDone,
                     ReplayFails, Stop, vars, control
<1> QED
  BY <1>5, <1>6, <1>7, <1>8, <1>9, <1>10, <1>11
     DEF Next, PollerStep, Exit, Crash, CrashWriting

\* Coverage holds in every reachable state.
LEMMA CoverInvariant == Spec => []CInv
BY InitCover, NextCover, PTL DEF Spec

\* Whatever fails, in whatever order, the checkpoint passes no event that is not
\* stored, except in a ledger that was skipped after its last retry, or in one the
\* poll was reading, or had stopped reading, between two of its pages.
THEOREM CheckpointCoversAll == Spec => []CheckpointCovers
BY CoverInvariant, CoverImplies, PTL

-----------------------------------------------------------------------------
(* The order in which events are stored, while nothing fails *)

InOrder == \A e \in stored : \A f \in Events : Before(f, e) => Known(f)

Unfinished(p) == queue[p].status \in {"pending", "in_progress"}

\* The ranges are worked off one at a time, and what lies before a range is stored or
\* part of a range before it.
QueueOrder ==
    \A q \in DOMAIN queue :
        /\ queue[q].status = "pending" => queue[q].completed = 0
        /\ queue[q].status = "in_progress" => engine.pc # "idle" /\ engine.range = q
        /\ \A e \in Events :
              e[1] < queue[q].from =>
                  \/ Known(e)
                  \/ \E p \in DOMAIN queue : p < q /\ Unfinished(p) /\ e[1] <= queue[p].to

\* The events the replay of a range has passed.
EngineBehind(e) ==
    IF engine.cursor = NoEvent THEN e[1] < engine.base ELSE ~Before(engine.cursor, e)

EngineOnTheWay ==
    /\ ~engine.horizon /\ queue[engine.range].status = "in_progress"
    /\ \A e \in Events : EngineBehind(e) => Known(e)

EngineAtWork ==
    /\ \A e \in engine.page : \A f \in Events : Before(f, e) => f \in engine.page \/ Known(f)
    /\ engine.full => engine.page # {} \/ engine.cursor # NoEvent
    /\ ~engine.full =>
          \A f \in Events : f[1] <= queue[engine.range].to => f \in engine.page \/ Known(f)

EngineOrder ==
    /\ engine.pc # "idle" => EngineOnTheWay
    /\ engine.pc = "work" => EngineAtWork

CalmInv == skipped = {} /\ cut = {} /\ ~stopping /\ InOrder /\ QueueOrder /\ EngineOrder

OInv == CInv /\ (Calm => CalmInv)

\* The steps that are taken while nothing fails.
LEMMA CalmSteps ==
  ASSUME OInv, [Next]_vars, Calm'
  PROVE  /\ Calm /\ CalmInv
         /\ \/ CloseLedger \/ Fetch \/ SavePage \/ NextPoll \/ UNCHANGED vars
            \/ StartupDetection \/ PeriodicDetection
            \/ \E e \in poller.page : ProcessNext(e, Done)
            \/ \E q \in DOMAIN queue : TakeRange(q, FALSE)
            \/ ReplayFetch \/ ReplayPageDone
            \/ \E e \in engine.page : ReplayNext(e, Done)
<1>1. faults \in Nat /\ archive \in BOOLEAN
  BY BoundsFacts DEF OInv, CInv, TInv, ClockInv
<1>2. ~Fault
  BY <1>1 DEF Fault, Calm
<1>3. Calm \/ (faults = 0 /\ archive)
  <2>1. faults' = faults \/ Fault
    BY DEF Next, PollerStep, EngineStep, CloseLedger, Fetch, ProcessNext, SavePage,
       StartupDetection, NextPoll, TakeRange, ReplayFetch, ReplayNext, ReplayPageDone,
       PeriodicDetection, FetchFails, ReplayFails, ProcessThrows, Stop, Exit, Crash,
       CrashWriting, vars, historyVars
  <2> QED BY <1>1, <1>2, <2>1 DEF Calm
<1>4. ~archive
  <2>1. archive' = archive \/ \E h \in BOOLEAN : archive' = (archive \/ h)
    BY DEF Next, PollerStep, EngineStep, CloseLedger, Fetch, ProcessNext, SavePage,
       StartupDetection, NextPoll, TakeRange, ReplayFetch, ReplayNext, ReplayPageDone,
       PeriodicDetection, FetchFails, ReplayFails, ProcessThrows, Stop, Exit, Crash,
       CrashWriting, Restart, vars, historyVars
  <2> QED BY <1>1, <2>1 DEF Calm
<1>5. Calm /\ CalmInv /\ ~stopping
  BY <1>3, <1>4 DEF OInv, CalmInv, Calm
<1>6. ASSUME NEW q \in DOMAIN queue, NEW horizon \in BOOLEAN, TakeRange(q, horizon)
      PROVE  horizon = FALSE
  <2>1. archive' = (archive \/ horizon)
    BY <1>6 DEF TakeRange
  <2> QED BY <2>1 DEF Calm
<1>7. ~(Stop \/ Exit \/ Crash \/ FetchFails \/ ReplayFails)
  BY <1>2, <1>5 DEF Stop, Exit, Crash, FetchFails, ReplayFails
<1>8. /\ \A e, w : ~ProcessThrows(e, w) /\ ~CrashWriting(e, w)
      /\ \A e, w : ProcessNext(e, w) \/ ReplayNext(e, w) => w = Done
  BY <1>2 DEF ProcessThrows, CrashWriting, ProcessNext, ReplayNext
<1>9. \A q \in DOMAIN queue, horizon \in BOOLEAN :
          TakeRange(q, horizon) => TakeRange(q, FALSE)
  BY <1>6
<1> QED
  BY <1>5, <1>7, <1>8, <1>9 DEF Next, PollerStep, EngineStep

\* What the poller is about to store comes right behind what is stored.
LEMMA PollerInOrder ==
  ASSUME CInv, skipped = {}, cut = {}, InHand, NEW e \in Earliest(Group \ poller.done),
         NEW f \in Events, Before(f, e)
  PROVE  Known(f)
<1>1. \A g \in Events : Settled(g) => Known(g)
  BY DEF Settled
<1>2. OnTheWay /\ AtWork
  BY DEF InHand, CInv, CoverInv
<1>3. /\ poller.page \subseteq Events /\ tip \in Nat /\ \A g \in Events : g[1] \in Nat
      /\ \A g \in poller.page : g[1] <= tip
      /\ poller.full \in BOOLEAN
  BY PollerFacts DEF CInv
<1>4. /\ \A g \in poller.page : Ledger <= g[1]
      /\ \A g \in Group : g[1] = Ledger
      /\ Group \subseteq poller.page /\ Ledger \in Nat
  BY <1>3, LedgerFacts, ChainFacts DEF InHand
<1>5. e \in Group /\ e \in poller.page /\ e \in Events /\ f[1] <= e[1] /\ f[1] <= tip
  <2>1. e \in Group /\ e \in poller.page /\ e \in Events
    BY <1>3, <1>4 DEF Earliest
  <2>2. f[1] <= e[1]
    BY <2>1, ChainOrder
  <2> QED BY <1>3, <2>1, <2>2
<1>6. CASE Behind(f)
  BY <1>1, <1>2, <1>6 DEF OnTheWay
<1>7. CASE ~Behind(f)
  <2>1. f \in Window
    BY <1>5, <1>7, WindowFacts DEF CInv
  <2>2. f \in poller.page \/ Settled(f)
    <3>1. CASE poller.full
      <4>1. WithFullPage
        BY <1>2, <3>1 DEF AtWork
      <4>2. e \in Fetched
        BY <1>5, <4>1 DEF WithFullPage
      <4>3. Window \subseteq Events /\ Fetched = FirstOf(PageSize, Window)
        BY DEF Window, Fetched, Page, EventsFrom, EventsUpTo
      <4>4. f \in Fetched
        BY <2>1, <4>2, <4>3, FirstOfFacts, BoundsFacts
      <4> QED BY <4>1, <4>4 DEF WithFullPage
    <3>2. CASE ~poller.full
      BY <1>2, <1>5, <2>1, <3>2 DEF AtWork, WithLastPage
    <3> QED BY <3>1, <3>2
  <2>3. CASE f \in poller.page
    <3>1. f \in Group
      BY <1>3, <1>4, <1>5, <2>3 DEF Group
    <3>2. CASE f \in poller.done
      BY <1>2, <3>2 DEF AtWork
    <3>3. CASE f \notin poller.done
      <4>1. f # e
        BY <1>5, ChainOrder
      <4>2. Before(e, f)
        BY <3>1, <3>3, <4>1 DEF Earliest
      <4> QED BY <1>5, <4>2, ChainOrder
    <3> QED BY <3>2, <3>3
  <2> QED BY <1>1, <2>2, <2>3
<1> QED BY <1>6, <1>7

\* So does what the replay engine is about to store.
LEMMA EngineInOrder ==
  ASSUME TInv, EngineAtWork, NEW e \in Earliest(engine.page), NEW f \in Events, Before(f, e)
  PROVE  Known(f)
<1>1. e \in engine.page /\ e \in Events
  BY DEF TInv, EngineInv, EngineState, Earliest
<1>2. f # e /\ ~Before(e, f)
  BY <1>1, ChainOrder
<1>3. f \notin engine.page
  BY <1>2 DEF Earliest
<1> QED BY <1>1, <1>3 DEF EngineAtWork

\* An event all of whose predecessors are known may be stored.
LEMMA InOrderKept ==
  ASSUME InOrder, NEW e \in Events, \A f \in Events : Before(f, e) => Known(f),
         stored \subseteq stored', stored' \subseteq stored \cup {e}
  PROVE  InOrder'
<1>1. \A f \in Events : Known(f) => Known(f)'
  BY KnownStays
<1> QED BY <1>1 DEF InOrder

\* What is stored beside the replay engine does not disturb it.
LEMMA OrderGrows ==
  ASSUME CalmInv, InOrder', UNCHANGED <<queue, engine, skipped, cut, stopping>>,
         stored \subseteq stored'
  PROVE  CalmInv'
<1>1. \A f \in Events : Known(f) => Known(f)'
  BY KnownStays
<1>2. QueueOrder'
  BY <1>1 DEF CalmInv, QueueOrder, Unfinished
<1>3. \A e \in Events : EngineBehind(e)' = EngineBehind(e)
  BY DEF EngineBehind
<1>4. EngineOnTheWay => EngineOnTheWay'
  BY <1>1, <1>3 DEF EngineOnTheWay
<1>5. EngineAtWork => EngineAtWork'
  BY <1>1 DEF EngineAtWork
<1> QED BY <1>2, <1>4, <1>5 DEF CalmInv, EngineOrder

\* A gap is queued when everything up to the checkpoint is stored.
LEMMA GapInOrder ==
  ASSUME OInv, Calm, CalmInv, AtRest, NEW min \in Nat \ {0}, DetectGaps(min),
         UNCHANGED <<engine, skipped, cut, stopping, stored>>
  PROVE  CalmInv'
<1>1. \A f \in Events : Known(f) = Known(f)'
  BY DEF Known
<1>2. InOrder'
  BY <1>1 DEF CalmInv, InOrder
<1>3. CASE queue' = queue
  BY <1>2, <1>3, OrderGrows
<1>4. CASE queue' # queue
  <2> DEFINE g == Chunks(checkpoint + 1, GapEnd)
             n == Len(queue)
  <2>1. Gap(min) # <<>> /\ queue \in Seq(ReplayRange)
    BY <1>4 DEF DetectGaps, OInv, CInv, TInv, QueueInv
  <2>2. GapEnd - checkpoint >= min /\ Gap(min) = g /\ queue' = queue \o g
    BY <1>4, <2>1 DEF Gap, DetectGaps
  <2>3. GapEnd \in Ledgers /\ checkpoint + 1 \in Ledgers /\ checkpoint + 1 <= GapEnd
        /\ checkpoint \in Nat
    <3>1. tip \in Ledgers /\ checkpoint \in 0..tip
      BY DEF OInv, CInv, TInv, ClockInv
    <3> QED BY <2>2, <3>1, ChainFacts DEF GapEnd
  <2>4. /\ g \in Seq(ReplayRange)
        /\ \A k \in DOMAIN g :
              /\ g[k].status = "pending" /\ g[k].completed = 0
              /\ k = 1 => g[k].from = checkpoint + 1
              /\ k > 1 => k - 1 \in DOMAIN g /\ g[k - 1].to = g[k].from - 1
    BY <2>3, ChunkFacts
  <2> HIDE DEF g
  <2>5. /\ n \in Nat /\ DOMAIN queue = 1..n /\ DOMAIN g = 1..Len(g) /\ Len(g) \in Nat
        /\ DOMAIN queue' = 1..(n + Len(g))
        /\ \A q \in DOMAIN queue : q \in DOMAIN queue' /\ queue'[q] = queue[q]
        /\ \A k \in DOMAIN g : n + k \in DOMAIN queue' /\ queue'[n + k] = g[k]
    BY <2>1, <2>2, <2>4
  <2>6. QueueOrder'
    <3>1. SUFFICES ASSUME NEW q \in DOMAIN queue'
                   PROVE  /\ queue'[q].status = "pending" => queue'[q].completed = 0
                          /\ queue'[q].status = "in_progress" =>
                                engine.pc # "idle" /\ engine.range = q
                          /\ \A e \in Events :
                               e[1] < queue'[q].from =>
                                 \/ Known(e)
                                 \/ \E p \in DOMAIN queue' :
                                       p < q /\ Unfinished(p)' /\ e[1] <= queue'[p].to
      BY <1>1 DEF QueueOrder
    <3>2. CASE q \in DOMAIN queue
      <4>1. \A p \in DOMAIN queue : Unfinished(p)' = Unfinished(p)
        BY <2>5 DEF Unfinished
      <4> QED BY <2>5, <3>2, <4>1 DEF CalmInv, QueueOrder
    <3>3. CASE q \notin DOMAIN queue
      <4> DEFINE k == q - n
      <4>1. k \in DOMAIN g /\ q = n + k /\ k \in Nat /\ k >= 1
        BY <2>5, <3>3
      <4>2. queue'[q] = g[k]
        BY <2>5, <4>1
      <4>3. ASSUME NEW e \in Events, e[1] < queue'[q].from, ~Known(e)
            PROVE  \E p \in DOMAIN queue' :
                      p < q /\ Unfinished(p)' /\ e[1] <= queue'[p].to
        <5>1. e[1] \in Nat /\ e[1] > checkpoint
          <6>1. Settled(e) => Known(e)
            BY DEF Settled, CalmInv
          <6> QED BY <2>3, <4>3, <6>1, EventFacts DEF AtRest
        <5>2. k > 1
          BY <2>3, <2>4, <4>1, <4>2, <4>3, <5>1
        <5>3. k - 1 \in DOMAIN g /\ g[k - 1].to = g[k].from - 1
          BY <2>4, <4>1, <5>2
        <5>4. n + (k - 1) \in DOMAIN queue' /\ queue'[n + (k - 1)] = g[k - 1]
          BY <2>5, <5>3
        <5>5. Unfinished(n + (k - 1))'
          BY <2>4, <5>3, <5>4 DEF Unfinished
        <5>6. g[k].from \in Nat
          <6>1. g[k] \in ReplayRange
            BY <2>4, <4>1
          <6> QED BY <6>1, ChainFacts DEF ReplayRange
        <5>7. e[1] <= queue'[n + (k - 1)].to /\ n + (k - 1) < q
          BY SMTT(30), <2>5, <4>1, <4>2, <4>3, <5>1, <5>3, <5>4, <5>6
        <5> QED BY <5>4, <5>5, <5>7
      <4>4. queue'[q].status = "pending" /\ queue'[q].completed = 0
        BY <2>4, <4>1, <4>2
      <4> QED BY <4>3, <4>4
    <3> QED BY <3>2, <3>3
  <2>7. EngineOrder'
    <3>1. CASE engine.pc = "idle"
      BY <3>1 DEF EngineOrder
    <3>2. CASE engine.pc # "idle"
      <4>1. queue'[engine.range] = queue[engine.range]
        BY <2>5, <3>2 DEF OInv, CInv, TInv, EngineInv
      <4>2. \A e \in Events : EngineBehind(e)' = EngineBehind(e)
        BY DEF EngineBehind
      <4>3. EngineOnTheWay => EngineOnTheWay'
        BY <1>1, <4>1, <4>2 DEF EngineOnTheWay
      <4>4. EngineAtWork => EngineAtWork'
        BY <1>1, <4>1 DEF EngineAtWork
      <4> QED BY <4>3, <4>4 DEF CalmInv, EngineOrder
    <3> QED BY <3>1, <3>2
  <2> QED BY <1>2, <2>6, <2>7 DEF CalmInv
<1> QED BY <1>3, <1>4

\* A range is taken when every range before it is done.
LEMMA TakenInOrder ==
  ASSUME OInv, Calm, CalmInv, NEW q \in DOMAIN queue, TakeRange(q, FALSE)
  PROVE  CalmInv'
<1> DEFINE from == IF queue[q].completed = 0 THEN queue[q].from ELSE queue[q].completed
<1>1. /\ engine.pc = "idle" /\ queue[q].status = "pending"
      /\ \A p \in DOMAIN queue : queue[p].status = "pending" => q <= p
      /\ queue' = [queue EXCEPT ![q].status = "in_progress"]
      /\ engine' = [StartEngine EXCEPT !.pc = "fetch", !.range = q, !.horizon = FALSE,
                                       !.current = from, !.base = from]
      /\ UNCHANGED <<stored, stopping, skipped, cut>>
  BY DEF TakeRange, Queued, storeVars
<1>2. \A f \in Events : Known(f) = Known(f)'
  BY <1>1 DEF Known
<1>3. queue \in Seq(ReplayRange) /\ QueueOrder
  BY DEF OInv, CInv, TInv, QueueInv, CalmInv
<1>4. from = queue[q].from
  BY <1>1, <1>3 DEF QueueOrder
<1>5. DOMAIN queue \subseteq Nat /\ q \in Nat
  BY <1>3
<1> HIDE DEF from
<1>6. /\ engine'.pc = "fetch" /\ engine'.range = q /\ engine'.horizon = FALSE
      /\ engine'.base = from /\ engine'.cursor = NoEvent
  BY <1>1 DEF StartEngine
<1>7. queue[q] \in ReplayRange
  BY <1>3
<1>8. /\ DOMAIN queue' = DOMAIN queue
      /\ \A p \in DOMAIN queue : p # q => queue'[p] = queue[p]
      /\ queue'[q] = [queue[q] EXCEPT !.status = "in_progress"]
  BY <1>1, <1>3
<1>9. /\ queue'[q].status = "in_progress" /\ queue'[q].from = queue[q].from
      /\ queue'[q].to = queue[q].to
  BY <1>7, <1>8 DEF ReplayRange
<1>10. \A p \in DOMAIN queue :
           /\ queue'[p].from = queue[p].from /\ queue'[p].to = queue[p].to
           /\ Unfinished(p)' = Unfinished(p)
  BY <1>1, <1>8, <1>9 DEF Unfinished
<1>11. QueueOrder'
  <2>1. SUFFICES ASSUME NEW r \in DOMAIN queue
                 PROVE  /\ queue'[r].status = "pending" => queue'[r].completed = 0
                        /\ queue'[r].status = "in_progress" => r = q
                        /\ \A e \in Events :
                             e[1] < queue[r].from =>
                               \/ Known(e)
                               \/ \E p \in DOMAIN queue :
                                     p < r /\ Unfinished(p) /\ e[1] <= queue[p].to
    BY <1>2, <1>6, <1>8, <1>10 DEF QueueOrder
  <2>2. CASE r = q
    BY <1>3, <1>9, <2>2 DEF QueueOrder
  <2>3. CASE r # q
    <3>1. queue'[r] = queue[r]
      BY <1>8, <2>3
    <3> QED BY <1>1, <1>3, <3>1 DEF QueueOrder
  <2> QED BY <2>2, <2>3
<1>12. ASSUME NEW e \in Events, e[1] < from PROVE Known(e)
  <2>1. ASSUME NEW p \in DOMAIN queue, p < q, Unfinished(p) PROVE FALSE
    <3>1. queue[p].status # "pending"
      BY <1>1, <1>5, <2>1
    <3>2. queue[p].status # "in_progress"
      BY <1>1, <1>3 DEF QueueOrder
    <3> QED BY <2>1, <3>1, <3>2 DEF Unfinished
  <2> QED BY <1>3, <1>4, <1>12, <2>1 DEF QueueOrder
<1>13. EngineOrder'
  <2>1. \A e \in Events : EngineBehind(e)' => e[1] < from
    BY <1>6 DEF EngineBehind
  <2>2. EngineOnTheWay'
    BY <1>2, <1>6, <1>9, <1>12, <2>1 DEF EngineOnTheWay
  <2> QED BY <1>6, <2>2 DEF EngineOrder
<1>14. InOrder'
  BY <1>1, <1>2 DEF CalmInv, InOrder
<1> QED BY <1>1, <1>11, <1>13, <1>14 DEF CalmInv

\* A page of a range goes on where the one before it ended.
LEMMA FetchedInOrder ==
  ASSUME OInv, Calm, CalmInv, ReplayFetch
  PROVE  CalmInv'
<1> DEFINE to   == queue[engine.range].to
           page == Page(engine.base, engine.cursor, to)
           all  == EventsFrom(engine.base, engine.cursor, to)
           full == Full(page)
<1>1. engine.pc = "fetch" /\ engine \in EngineState
  BY DEF ReplayFetch, OInv, CInv, TInv, EngineInv
<1>2. EngineOnTheWay /\ ~engine.horizon
  BY <1>1 DEF CalmInv, EngineOrder, EngineOnTheWay
<1>3. /\ engine' = [engine EXCEPT !.pc = "work", !.page = page, !.full = full]
      /\ UNCHANGED <<queue, stored, stopping, skipped, cut>>
  <2> DEFINE pg == IF engine.horizon THEN HorizonEvents(engine.base, to) ELSE page
             fl == ~engine.horizon /\ Full(pg)
  <2>1. /\ engine' = [engine EXCEPT !.pc = "work", !.page = pg, !.full = fl]
        /\ UNCHANGED <<stored, stopping, skipped, cut>>
    BY DEF ReplayFetch, storeVars, historyVars
  <2>2. pg = page
    BY <1>2
  <2>3. fl = full
    <3>1. Full(pg) = full /\ full \in BOOLEAN
      BY <2>2, Zenon DEF Full
    <3> HIDE DEF pg, full
    <3> QED BY <1>2, <3>1
  <2>4. queue' = queue
    BY <1>2 DEF ReplayFetch
  <2> HIDE DEF pg, fl, page, full
  <2> QED BY <2>1, <2>2, <2>3, <2>4
<1>4. \A f \in Events : Known(f) = Known(f)'
  BY <1>3 DEF Known
<1>5. /\ engine.base \in Nat /\ \A e \in Events : e[1] \in Nat
      /\ engine.cursor \in {NoEvent} \cup Events /\ to \in Nat
  <2>1. queue[engine.range] \in ReplayRange
    BY <1>1 DEF OInv, CInv, TInv, EngineInv, QueueInv
  <2> QED BY <1>1, <2>1, EventFacts, ChainFacts DEF EngineState, ReplayRange
<1>6. \A f \in Events : f \in all <=> f[1] <= to /\ ~EngineBehind(f)
  BY <1>5 DEF EventsFrom, EventsUpTo, EngineBehind
<1>7. all \subseteq Events /\ page = FirstOf(PageSize, all)
  BY DEF Page, EventsFrom, EventsUpTo
<1>8. /\ full => Cardinality(page) = PageSize
      /\ ~full => Cardinality(page) # PageSize
  BY DEF Full
<1> HIDE DEF page, all, full, to
<1>9. /\ engine'.pc = "work" /\ engine'.page = page /\ engine'.full = full
      /\ engine'.range = engine.range /\ engine'.base = engine.base
      /\ engine'.cursor = engine.cursor /\ engine'.horizon = engine.horizon
  BY <1>1, <1>3 DEF EngineState
<1>10. /\ page \subseteq all
       /\ \A e \in page, f \in all : Before(f, e) => f \in page
       /\ Cardinality(page) # PageSize => page = all
  BY <1>7, FirstOfFacts, BoundsFacts
<1>11. \A f \in Events : EngineBehind(f)' = EngineBehind(f)
  BY <1>9 DEF EngineBehind
<1>12. EngineOnTheWay'
  BY <1>2, <1>3, <1>4, <1>9, <1>11 DEF EngineOnTheWay
<1>13. ASSUME NEW e \in page, NEW f \in Events, Before(f, e) PROVE f \in page \/ Known(f)
  <2>1. CASE EngineBehind(f)
    BY <1>2, <2>1 DEF EngineOnTheWay
  <2>2. CASE ~EngineBehind(f)
    <3>1. e \in Events /\ e[1] <= to
      BY <1>6, <1>7, <1>10
    <3>2. f[1] <= e[1]
      BY <1>13, <3>1, ChainOrder
    <3>3. f \in all
      BY <1>5, <1>6, <2>2, <3>1, <3>2
    <3> QED BY <1>10, <1>13, <3>3
  <2> QED BY <2>1, <2>2
<1>14. full => page # {}
  BY <1>8, BoundsFacts, FS_EmptySet
<1>15. ASSUME ~full, NEW f \in Events, f[1] <= to PROVE f \in page \/ Known(f)
  <2>1. CASE EngineBehind(f)
    BY <1>2, <2>1 DEF EngineOnTheWay
  <2>2. CASE ~EngineBehind(f)
    BY <1>6, <1>8, <1>10, <1>15, <2>2
  <2> QED BY <2>1, <2>2
<1>16. EngineAtWork'
  BY <1>3, <1>4, <1>9, <1>13, <1>14, <1>15 DEF EngineAtWork, to
<1>17. QueueOrder'
  BY <1>1, <1>3, <1>4, <1>9 DEF CalmInv, QueueOrder, Unfinished
<1>18. InOrder'
  BY <1>3, <1>4 DEF CalmInv, InOrder
<1> QED BY <1>3, <1>9, <1>12, <1>16, <1>17, <1>18 DEF CalmInv, EngineOrder

\* An event is replayed behind all that come before it.
LEMMA ReplayedInOrder ==
  ASSUME OInv, Calm, CalmInv, NEW e \in engine.page, ReplayNext(e, Done)
  PROVE  CalmInv'
<1> DEFINE page == engine.page \ {e}
           current == Highest(engine.current, e[1])
<1>1. /\ engine.pc = "work" /\ engine \in EngineState /\ e \in Events
      /\ e \in Earliest(engine.page)
  BY DEF ReplayNext, OInv, CInv, TInv, EngineInv, EngineState
<1>2. EngineOnTheWay /\ EngineAtWork
  BY <1>1 DEF CalmInv, EngineOrder
<1>3. /\ ProcessEvent(e, Done \ {"notices"})
      /\ engine' = [engine EXCEPT !.page = page, !.current = current, !.cursor = e]
      /\ UNCHANGED <<queue, stopping, skipped, cut>>
  BY DEF ReplayNext
<1>4. /\ stored \subseteq stored' /\ stored' \subseteq stored \cup {e} /\ Known(e)'
  <2>1. "row" \in Done \ {"notices"}
    BY DEF Done
  <2> QED BY <1>1, <1>3, <2>1, ProcessAdds
<1>5. \A f \in Events : Known(f) => Known(f)'
  BY <1>4, KnownStays
<1>6. \A f \in Events : Before(f, e) => Known(f)
  BY <1>1, <1>2, EngineInOrder DEF OInv, CInv
<1> HIDE DEF page, current
<1>7. /\ engine'.pc = "work" /\ engine'.page = page /\ engine'.full = engine.full
      /\ engine'.range = engine.range /\ engine'.cursor = e
      /\ engine'.horizon = engine.horizon
  BY <1>1, <1>3 DEF EngineState
<1>8. e # NoEvent
  BY <1>1, NoEventFacts
<1>9. ASSUME NEW f \in Events, EngineBehind(f)' PROVE Known(f)'
  <2>1. ~Before(e, f)
    BY <1>7, <1>8, <1>9 DEF EngineBehind
  <2>2. f = e \/ Before(f, e)
    BY <1>1, <2>1, ChainOrder
  <2> QED BY <1>4, <1>5, <1>6, <2>2
<1>10. EngineOnTheWay'
  BY <1>2, <1>3, <1>7, <1>9 DEF EngineOnTheWay
<1>11. EngineAtWork'
  <2>1. \A f \in Events : f \in engine.page \/ Known(f) => f \in page \/ Known(f)'
    BY <1>4, <1>5 DEF page
  <2>2. page \subseteq engine.page
    BY DEF page
  <2> QED BY <1>2, <1>3, <1>7, <1>8, <2>1, <2>2 DEF EngineAtWork
<1>12. QueueOrder'
  BY <1>1, <1>3, <1>5, <1>7 DEF CalmInv, QueueOrder, Unfinished
<1>13. InOrder'
  BY <1>1, <1>4, <1>6, InOrderKept DEF CalmInv
<1> QED BY <1>3, <1>7, <1>10, <1>11, <1>12, <1>13 DEF CalmInv, EngineOrder

\* When a page is done, the next one follows it, or the range is stored as a whole.
LEMMA FinishedInOrder ==
  ASSUME OInv, Calm, CalmInv, ReplayPageDone
  PROVE  CalmInv'
<1> DEFINE r == engine.range
           saves == ~engine.horizon /\ engine.current - engine.base >= ProgressInterval
           base == IF saves THEN engine.current ELSE engine.base
           n == IF saves THEN engine.current ELSE queue[r].completed
           s == IF engine.full THEN queue[r].status ELSE "completed"
           row == [queue[r] EXCEPT !.completed = n, !.status = s]
<1>1. /\ engine.pc = "work" /\ engine \in EngineState /\ queue \in Seq(ReplayRange)
      /\ r \in DOMAIN queue
  BY DEF ReplayPageDone, OInv, CInv, TInv, EngineInv, QueueInv
<1>2. EngineOnTheWay /\ EngineAtWork /\ ~stopping /\ QueueOrder
  BY <1>1 DEF CalmInv, EngineOrder
<1>3. engine.page = {} /\ engine.full \in BOOLEAN
  BY <1>1, <1>2 DEF ReplayPageDone, EngineState
<1>4. /\ engine' = (IF engine.full THEN [engine EXCEPT !.pc = "fetch", !.base = base]
                    ELSE StartEngine)
      /\ queue' = [queue EXCEPT ![r] = row]
      /\ UNCHANGED <<stored, stopping, skipped, cut>>
  BY <1>1, <1>2 DEF ReplayPageDone, storeVars, historyVars
<1>5. \A f \in Events : Known(f) = Known(f)'
  BY <1>4 DEF Known
<1>6. queue[r] \in ReplayRange /\ queue[r].status = "in_progress"
  BY <1>1, <1>2 DEF EngineOnTheWay
<1>7. row.from = queue[r].from /\ row.to = queue[r].to /\ row.status = s
  <2> HIDE DEF n, s, r
  <2> QED BY <1>6 DEF ReplayRange
<1> HIDE DEF row, n, base
<1>8. /\ DOMAIN queue' = DOMAIN queue /\ queue'[r] = row
      /\ \A p \in DOMAIN queue : p # r => queue'[p] = queue[p]
  BY <1>1, <1>4
<1>9. \A p \in DOMAIN queue : queue'[p].from = queue[p].from /\ queue'[p].to = queue[p].to
  BY <1>7, <1>8
<1>10. CASE engine.full
  <2>1. /\ engine'.pc = "fetch" /\ engine'.range = r /\ engine'.cursor = engine.cursor
        /\ engine'.horizon = engine.horizon /\ engine.cursor # NoEvent
    BY <1>1, <1>2, <1>3, <1>4, <1>10 DEF EngineState, EngineAtWork
  <2>2. queue'[r].status = "in_progress"
    BY <1>6, <1>7, <1>8, <1>10
  <2>3. \A p \in DOMAIN queue : queue'[p].status = queue[p].status
    BY <1>6, <1>8, <2>2
  <2>4. \A p \in DOMAIN queue : Unfinished(p)' = Unfinished(p)
    BY <2>3 DEF Unfinished
  <2>5. QueueOrder'
    <3>1. SUFFICES ASSUME NEW q \in DOMAIN queue
                   PROVE  /\ queue[q].status = "pending" => queue'[q].completed = 0
                          /\ queue[q].status = "in_progress" => r = q
                          /\ \A e \in Events :
                               e[1] < queue[q].from =>
                                 \/ Known(e)
                                 \/ \E p \in DOMAIN queue :
                                       p < q /\ Unfinished(p) /\ e[1] <= queue[p].to
      BY <1>5, <1>8, <1>9, <2>1, <2>3, <2>4 DEF QueueOrder
    <3>2. queue[q].status = "pending" => queue'[q] = queue[q]
      BY <1>6, <1>8
    <3> QED BY <1>2, <3>2 DEF QueueOrder
  <2>6. \A f \in Events : EngineBehind(f)' = EngineBehind(f)
    BY <2>1 DEF EngineBehind
  <2>7. EngineOnTheWay'
    BY <1>2, <1>5, <2>1, <2>2, <2>6 DEF EngineOnTheWay
  <2>8. InOrder'
    BY <1>4, <1>5 DEF CalmInv, InOrder
  <2> QED BY <1>4, <2>1, <2>5, <2>7, <2>8 DEF CalmInv, EngineOrder
<1>11. CASE ~engine.full
  <2>1. engine'.pc = "idle"
    BY <1>4, <1>11 DEF StartEngine
  <2>2. \A f \in Events : f[1] <= queue[r].to => Known(f)
    BY <1>2, <1>3, <1>11 DEF EngineAtWork
  <2>3. queue'[r].status = "completed"
    BY <1>7, <1>8, <1>11
  <2>4. ASSUME NEW q \in DOMAIN queue
        PROVE  /\ queue'[q].status = "pending" => queue'[q].completed = 0
               /\ queue'[q].status # "in_progress"
               /\ \A e \in Events :
                     e[1] < queue'[q].from =>
                        \/ Known(e)
                        \/ \E p \in DOMAIN queue' :
                              p < q /\ Unfinished(p)' /\ e[1] <= queue'[p].to
    <3>1. /\ queue'[q].status = "pending" => queue'[q].completed = 0
          /\ queue'[q].status # "in_progress"
      <4>1. CASE q = r
        BY <2>3, <4>1
      <4>2. CASE q # r
        <5>1. queue'[q] = queue[q] /\ (queue[q].status = "in_progress" => r = q)
          BY <1>2, <1>8, <4>2 DEF QueueOrder
        <5>2. queue[q].status = "pending" => queue[q].completed = 0
          BY <1>2 DEF QueueOrder
        <5> QED BY <4>2, <5>1, <5>2
      <4> QED BY <4>1, <4>2
    <3>2. ASSUME NEW e \in Events, e[1] < queue'[q].from, ~Known(e)
          PROVE  \E p \in DOMAIN queue' :
                    p < q /\ Unfinished(p)' /\ e[1] <= queue'[p].to
      <4>1. e[1] < queue[q].from
        BY <1>9, <3>2
      <4>2. PICK p \in DOMAIN queue : p < q /\ Unfinished(p) /\ e[1] <= queue[p].to
        BY <1>2, <3>2, <4>1 DEF QueueOrder
      <4>3. p # r
        BY <2>2, <3>2, <4>2
      <4>4. queue'[p] = queue[p]
        BY <1>8, <4>3
      <4> QED BY <1>8, <4>2, <4>4 DEF Unfinished
    <3> QED BY <3>1, <3>2
  <2>5. QueueOrder'
    BY <1>5, <1>8, <2>4 DEF QueueOrder
  <2>6. InOrder'
    BY <1>4, <1>5 DEF CalmInv, InOrder
  <2> QED BY <1>4, <2>1, <2>5, <2>6 DEF CalmInv, EngineOrder
<1> QED BY <1>3, <1>10, <1>11

\* The order holds initially.
LEMMA InitOrder == Init => OInv
<1> SUFFICES ASSUME Init PROVE OInv
  OBVIOUS
<1>1. CInv
  BY InitCover
<1>2. /\ skipped = {} /\ cut = {} /\ stopping = FALSE /\ stored = {} /\ queue = <<>>
      /\ engine.pc = "idle"
  BY DEF Init, StoreInit, StartEngine
<1>3. InOrder /\ QueueOrder /\ EngineOrder
  BY <1>2 DEF InOrder, QueueOrder, EngineOrder
<1> QED BY <1>1, <1>2, <1>3 DEF OInv, CalmInv

\* Every step keeps the order, as long as nothing has failed.
LEMMA NextOrder == OInv /\ [Next]_vars => OInv'
<1> SUFFICES ASSUME OInv, [Next]_vars PROVE OInv'
  OBVIOUS
<1>1. CInv'
  BY NextCover DEF OInv
<1>2. SUFFICES ASSUME Calm' PROVE CalmInv'
  BY <1>1 DEF OInv
<1>3. Calm /\ CalmInv
  BY <1>2, CalmSteps
<1>4. ASSUME UNCHANGED <<queue, engine, skipped, cut, stopping, stored>> PROVE CalmInv'
  <2>1. InOrder'
    BY <1>3, <1>4 DEF CalmInv, InOrder, Known
  <2> QED BY <1>3, <1>4, <2>1, OrderGrows
<1>5. CASE CloseLedger \/ Fetch \/ SavePage \/ NextPoll \/ UNCHANGED vars
  BY <1>4, <1>5 DEF CloseLedger, Fetch, SavePage, NextPoll, vars, storeVars, control,
                    historyVars
<1>6. CASE StartupDetection \/ PeriodicDetection
  <2>1. AtRest /\ UNCHANGED <<engine, skipped, cut, stopping, stored>>
    BY <1>6 DEF StartupDetection, PeriodicDetection, storeVars, historyVars,
                OInv, CInv, CoverInv
  <2>2. UNCHANGED queue \/ DetectGaps(1) \/ DetectGaps(2)
    BY <1>6 DEF StartupDetection, PeriodicDetection
  <2> QED BY <1>3, <1>4, <2>1, <2>2, GapInOrder
<1>7. ASSUME NEW e \in poller.page, ProcessNext(e, Done) PROVE CalmInv'
  <2>1. /\ InHand /\ e \in Earliest(Group \ poller.done) /\ ProcessEvent(e, Done)
        /\ UNCHANGED <<queue, engine, skipped, cut, stopping>>
    BY <1>7 DEF ProcessNext
  <2>2. e \in Events
    BY DEF OInv, CInv, TInv, LInv, HandsInv
  <2>3. \A f \in Events : Before(f, e) => Known(f)
    BY <1>3, <2>1, PollerInOrder DEF OInv, CalmInv
  <2>4. stored \subseteq stored' /\ stored' \subseteq stored \cup {e}
    BY <2>1, <2>2, ProcessAdds
  <2>5. InOrder'
    BY <1>3, <2>2, <2>3, <2>4, InOrderKept DEF CalmInv
  <2> QED BY <1>3, <2>1, <2>4, <2>5, OrderGrows
<1> QED
  BY <1>2, <1>3, <1>5, <1>6, <1>7, CalmSteps, TakenInOrder, FetchedInOrder,
     ReplayedInOrder, FinishedInOrder

\* The order holds in every reachable state.
LEMMA OrderInvariant == Spec => []OInv
BY InitOrder, NextOrder, PTL DEF Spec

\* While nothing fails, the poller and the replay engine, beside each other, store the
\* events of every chain in its order: a range is queued and worked off so that neither
\* overtakes the other.
THEOREM StoresInOrder == Spec => []StoredInOrder
<1>1. OInv => StoredInOrder
  BY DEF OInv, CalmInv, InOrder, StoredInOrder
<1> QED BY <1>1, OrderInvariant, PTL

-----------------------------------------------------------------------------
(* The derived tables *)

SameHistory(p, q) ==
    /\ Data(p.event).by = Data(q.event).by /\ Data(p.event).to = Data(q.event).to
    /\ Data(p.event).hash = Data(q.event).hash

\* Of each history with a squeeze, one genuine squeeze is stored, and only one.
SqueezeInv ==
    /\ \A q \in squeezes : q.duplicate \in BOOLEAN
    /\ \A q \in squeezes : \E p \in squeezes : ~p.duplicate /\ SameHistory(p, q)
    /\ \A p, q \in squeezes : ~p.duplicate /\ ~q.duplicate /\ SameHistory(p, q) => p = q

\* The rows of the history are those of stored configurations.
HistoryInv ==
    \A h \in history :
        /\ h.event \in stored /\ h.by = Data(h.event).by /\ h.to \in Accounts
        /\ h.new = Data(h.event).rates[h.to]

TablesExact ==
    /\ totals \in [Accounts -> Nat] /\ rates \in [Accounts -> [Accounts -> Nat]]
    /\ HistoryInv /\ TotalsExact /\ RatesCurrent /\ HistoryChained

TablesInv == OInv /\ SqueezeInv /\ (Calm => TablesExact)

\* The tables change with an event that is processed, or not at all.
LEMMA TableSteps ==
  ASSUME TInv, [Next]_vars
  PROVE  UNCHANGED <<stored, tables>> \/ \E e \in Events : \E w : ProcessEvent(e, w)
<1>1. \A e \in poller.page \cup engine.page : e \in Events
  BY DEF TInv, LInv, HandsInv
<1>2. CASE \/ CloseLedger \/ Fetch \/ SavePage \/ StartupDetection \/ NextPoll
           \/ PeriodicDetection \/ FetchFails \/ ReplayFetch \/ ReplayPageDone
           \/ ReplayFails \/ Stop \/ UNCHANGED vars \/ Exit \/ Crash
           \/ \E q \in DOMAIN queue, horizon \in BOOLEAN : TakeRange(q, horizon)
  BY <1>2 DEF CloseLedger, Fetch, SavePage, StartupDetection, NextPoll, PeriodicDetection,
     FetchFails, ReplayFetch, ReplayPageDone, ReplayFails, Stop, vars, storeVars, Exit, Crash,
     TakeRange
<1>3. ASSUME NEW e \in poller.page \cup engine.page, NEW w,
             ProcessNext(e, w) \/ ProcessThrows(e, w) \/ ReplayNext(e, w) \/ CrashWriting(e, w)
      PROVE  \E f \in Events : \E v : ProcessEvent(f, v)
  BY <1>1, <1>3 DEF ProcessNext, ProcessThrows, ReplayNext, CrashWriting
<1> QED BY <1>2, <1>3 DEF Next, PollerStep, EngineStep

\* A squeeze is written as a duplicate exactly when a genuine one of its history
\* is there.
LEMMA SqueezeKept ==
  ASSUME SqueezeInv, UNCHANGED tables \/ \E e \in Events : \E w : ProcessEvent(e, w)
  PROVE  SqueezeInv'
<1>1. CASE UNCHANGED squeezes
  BY <1>1 DEF SqueezeInv, SameHistory
<1>2. ASSUME NEW e \in Events,
             squeezes' = squeezes \cup {[event |-> e, duplicate |-> SqueezedBefore(e)]}
      PROVE  SqueezeInv'
  <2> DEFINE d == SqueezedBefore(e)
             x == [event |-> e, duplicate |-> d]
  <2>1. d \in BOOLEAN
    BY DEF SqueezedBefore
  <2>2. d <=> \E q \in squeezes : ~q.duplicate /\ SameHistory(q, x)
    BY DEF SqueezedBefore, SameHistory
  <2>3. x.duplicate = d /\ squeezes' = squeezes \cup {x}
    BY <1>2
  <2>4. SameHistory(x, x) /\ \A p, q : SameHistory(p, q) => SameHistory(q, p)
    BY DEF SameHistory
  <2> HIDE DEF x, d
  <2>5. \A q \in squeezes \cup {x} :
            \E p \in squeezes \cup {x} : ~p.duplicate /\ SameHistory(p, q)
    BY <2>1, <2>2, <2>3, <2>4 DEF SqueezeInv
  <2>6. \A p, q \in squeezes \cup {x} :
            ~p.duplicate /\ ~q.duplicate /\ SameHistory(p, q) => p = q
    BY <2>1, <2>2, <2>3, <2>4 DEF SqueezeInv
  <2>7. \A q \in squeezes \cup {x} : q.duplicate \in BOOLEAN
    BY <2>1, <2>3 DEF SqueezeInv
  <2> QED BY <2>3, <2>5, <2>6, <2>7, Zenon DEF SqueezeInv, SameHistory
<1>3. ASSUME NEW e \in Events, NEW w, ProcessEvent(e, w) PROVE SqueezeInv'
  <2>1. CASE UNCHANGED tables
    BY <1>1, <2>1 DEF tables
  <2>2. CASE ApplyEventProjection(e)
    BY <1>1, <1>2, <2>2 DEF ApplyEventProjection, ApplyStreamState, tables
  <2> QED BY <1>3, <2>1, <2>2 DEF ProcessEvent, WriteEvent, storeVars, tables
<1> QED BY <1>1, <1>3 DEF tables

\* So one squeeze of each history, and no more, is genuine.
LEMMA OneIsGenuine == SqueezeInv => OneGenuineSqueeze
<1> SUFFICES ASSUME SqueezeInv, NEW q \in squeezes
             PROVE  Cardinality({p \in squeezes :
                                   /\ ~p.duplicate
                                   /\ Data(p.event).by = Data(q.event).by
                                   /\ Data(p.event).to = Data(q.event).to
                                   /\ Data(p.event).hash = Data(q.event).hash}) = 1
  BY DEF OneGenuineSqueeze
<1> DEFINE G == {p \in squeezes : /\ ~p.duplicate
                                  /\ Data(p.event).by = Data(q.event).by
                                  /\ Data(p.event).to = Data(q.event).to
                                  /\ Data(p.event).hash = Data(q.event).hash}
<1>1. PICK p \in squeezes : ~p.duplicate /\ SameHistory(p, q)
  BY DEF SqueezeInv
<1>2. \A r \in G : r = p
  BY <1>1 DEF SqueezeInv, SameHistory
<1>3. p \in G
  BY <1>1 DEF SameHistory
<1>4. G = {p}
  BY <1>2, <1>3
<1> QED BY <1>4, FS_Singleton

\* The fields an event of a type has.
LEMMA DataFacts ==
  ASSUME NEW e \in Events
  PROVE  /\ Type(e) = "collected" => Data(e).to \in Accounts /\ Data(e).amount \in Nat
         /\ Type(e) = "stream_set" =>
               Data(e).by \in Accounts /\ Data(e).rates \in [Accounts -> Nat]
<1>1. Data(e) \in EventData
  BY EventFacts
<1> QED BY <1>1 DEF EventData, Type

\* While nothing fails, an event is written as a whole, behind all that are stored.
WrittenInPlace(e) ==
    /\ ~Known(e) /\ \A f \in stored : Before(f, e)
    /\ stored' = stored \cup {e} /\ ApplyEventProjection(e)

\* While nothing fails, a step changes the tables only by writing the next event
\* of the chain.
LEMMA CalmStores ==
  ASSUME OInv, [Next]_vars, Calm'
  PROVE  UNCHANGED <<stored, tables>> \/ \E e \in Events : WrittenInPlace(e)
<1>1. Calm /\ CalmInv /\ CInv /\ TInv
  BY CalmSteps DEF OInv, CInv
<1>2. ASSUME NEW e \in Events, \A f \in Events : Before(f, e) => Known(f),
             NEW w \in {Done, Done \ {"notices"}}, ProcessEvent(e, w)
      PROVE  UNCHANGED <<stored, tables>> \/ WrittenInPlace(e)
  <2>1. CASE UNCHANGED storeVars
    BY <2>1 DEF storeVars, tables
  <2>2. CASE ~Known(e) /\ WriteEvent(e, w)
    <3>1. "row" \in w /\ "tables" \in w
      BY DEF Done
    <3>2. stored' = stored \cup {e} /\ ApplyEventProjection(e)
      BY <2>2, <3>1 DEF WriteEvent
    <3>3. \A f \in stored : Before(f, e)
      <4>1. SUFFICES ASSUME NEW f \in stored, ~Before(f, e) PROVE FALSE
        OBVIOUS
      <4>2. f \in Events /\ f # e
        BY <2>2 DEF Known, OInv, CInv, TInv, LInv, LogInv
      <4>3. Before(e, f)
        BY <4>1, <4>2, ChainOrder
      <4> QED BY <1>1, <2>2, <4>3 DEF CalmInv, InOrder
    <3> QED BY <2>2, <3>2, <3>3 DEF WrittenInPlace
  <2> QED BY <1>2, <2>1, <2>2 DEF ProcessEvent
<1>3. ASSUME NEW e \in poller.page, ProcessNext(e, Done)
      PROVE  UNCHANGED <<stored, tables>> \/ \E f \in Events : WrittenInPlace(f)
  <2>1. /\ InHand /\ e \in Earliest(Group \ poller.done) /\ ProcessEvent(e, Done)
        /\ e \in Events
    BY <1>1, <1>3 DEF ProcessNext, TInv, LInv, HandsInv
  <2>2. \A f \in Events : Before(f, e) => Known(f)
    BY <1>1, <2>1, PollerInOrder DEF CalmInv
  <2> QED BY <1>2, <2>1, <2>2
<1>4. ASSUME NEW e \in engine.page, ReplayNext(e, Done)
      PROVE  UNCHANGED <<stored, tables>> \/ \E f \in Events : WrittenInPlace(f)
  <2>1. /\ e \in Earliest(engine.page) /\ ProcessEvent(e, Done \ {"notices"})
        /\ e \in Events /\ engine.pc = "work"
    BY <1>1, <1>4 DEF ReplayNext, TInv, LInv, HandsInv
  <2>2. \A f \in Events : Before(f, e) => Known(f)
    BY <1>1, <2>1, EngineInOrder DEF CalmInv, EngineOrder
  <2> QED BY <1>2, <2>1, <2>2
<1>5. CASE \/ CloseLedger \/ Fetch \/ SavePage \/ NextPoll \/ UNCHANGED vars
           \/ StartupDetection \/ PeriodicDetection \/ ReplayFetch \/ ReplayPageDone
           \/ \E q \in DOMAIN queue : TakeRange(q, FALSE)
  BY <1>5 DEF CloseLedger, Fetch, SavePage, NextPoll, vars, storeVars, StartupDetection,
     PeriodicDetection, ReplayFetch, ReplayPageDone, TakeRange
<1> QED BY <1>3, <1>4, <1>5, CalmSteps

\* The sum of what an account collected takes up a new event.
LEMMA TotalsKept ==
  ASSUME TInv, TablesExact, NEW e \in Events, WrittenInPlace(e)
  PROVE  TotalsExact' /\ totals' \in [Accounts -> Nat]
<1> DEFINE of(st, a) == {f \in st : Type(f) = "collected" /\ Data(f).to = a}
           amounts(st, a) == [f \in of(st, a) |-> Data(f).amount]
<1>1. /\ stored \subseteq Events /\ e \notin stored /\ stored' = stored \cup {e}
      /\ totals \in [Accounts -> Nat]
  BY DEF TInv, LInv, LogInv, WrittenInPlace, Known, TablesExact
<1>2. ASSUME NEW st, st \subseteq Events, NEW a
      PROVE  /\ IsFiniteSet(of(st, a))
             /\ SumFunction(amounts(st, a)) = SumFunctionOnSet(amounts(st, a), of(st, a))
             /\ \A f \in of(st, a) : amounts(st, a)[f] = Data(f).amount /\ Data(f).amount \in Nat
  <2>1. of(st, a) \subseteq Events
    BY <1>2
  <2>2. IsFiniteSet(of(st, a))
    BY <2>1, EventsFinite, FS_Subset
  <2>3. DOMAIN amounts(st, a) = of(st, a)
    OBVIOUS
  <2>4. \A f \in of(st, a) : amounts(st, a)[f] = Data(f).amount /\ Data(f).amount \in Nat
    BY <2>1, DataFacts
  <2> HIDE DEF amounts, of
  <2>5. SumFunction(amounts(st, a)) = SumFunctionOnSet(amounts(st, a), of(st, a))
    BY <2>3, Zenon DEF SumFunction
  <2> QED BY <2>2, <2>4, <2>5
<1>3. \A a \in Accounts : totals[a] = SumFunction(amounts(stored, a))
  BY DEF TablesExact, TotalsExact
<1>4. ASSUME NEW a \in Accounts
      PROVE  totals'[a] = SumFunction(amounts(stored', a)) /\ totals'[a] \in Nat
  <2>1. CASE e \in of(stored', a)
    <3>1. Type(e) = "collected" /\ Data(e).to = a /\ Data(e).amount \in Nat
      BY <2>1, DataFacts
    <3>2. totals' = [totals EXCEPT ![a] = @ + Data(e).amount]
      BY <3>1 DEF WrittenInPlace, ApplyEventProjection
    <3>3. of(stored', a) = of(stored, a) \cup {e} /\ e \notin of(stored, a)
      BY <1>1, <2>1
    <3> DEFINE S == of(stored, a)
               T == of(stored', a)
               f == amounts(stored, a)
               g == amounts(stored', a)
    <3>4. /\ IsFiniteSet(S) /\ SumFunction(f) = SumFunctionOnSet(f, S)
          /\ \A x \in S : f[x] = Data(x).amount /\ f[x] \in Nat
      BY <1>1, <1>2
    <3>5. /\ IsFiniteSet(T) /\ SumFunction(g) = SumFunctionOnSet(g, T)
          /\ \A x \in T : g[x] = Data(x).amount /\ g[x] \in Nat
      <4>1. stored' \subseteq Events
        BY <1>1
      <4> QED BY <1>2, <4>1
    <3>6. T = S \cup {e} /\ e \notin S
      BY <3>3
    <3>7. totals[a] = SumFunctionOnSet(f, S)
      BY <1>3, <3>4
    <3> HIDE DEF S, T, f, g, of, amounts
    <3>8. \A x \in S \cup {e} : g[x] \in Int
      BY <3>5, <3>6
    <3>9. SumFunctionOnSet(g, T) = SumFunctionOnSet(g, S) + g[e]
      <4>1. SumFunctionOnSet(g, S \cup {e}) = SumFunctionOnSet(g, S) + g[e]
        BY <3>4, <3>6, <3>8, SumAdd
      <4> QED BY <3>6, <4>1
    <3>10. SumFunctionOnSet(g, S) = SumFunctionOnSet(f, S)
      BY <3>4, <3>5, <3>6, SumAgrees
    <3>11. g[e] = Data(e).amount
      BY <3>5, <3>6
    <3>12. totals'[a] = totals[a] + Data(e).amount
      BY <1>1, <3>2
    <3>13. totals'[a] = SumFunctionOnSet(g, T)
      BY <3>7, <3>9, <3>10, <3>11, <3>12
    <3>14. totals'[a] \in Nat
      BY <1>1, <3>1, <3>12
    <3> QED BY <3>5, <3>13, <3>14 DEF g
  <2>2. CASE e \notin of(stored', a)
    <3>1. of(stored', a) = of(stored, a)
      BY <1>1, <2>2
    <3>2. amounts(stored', a) = amounts(stored, a)
      BY <3>1
    <3>3. totals'[a] = totals[a]
      <4>1. ~(Type(e) = "collected" /\ Data(e).to = a)
        BY <1>1, <2>2
      <4>2. CASE Type(e) = "collected"
        <5>1. totals' = [totals EXCEPT ![Data(e).to] = @ + Data(e).amount]
          BY <4>2 DEF WrittenInPlace, ApplyEventProjection
        <5> QED BY <1>1, <4>1, <4>2, <5>1
      <4>3. CASE Type(e) # "collected"
        BY <4>3 DEF WrittenInPlace, ApplyEventProjection, ApplyStreamState, tables
      <4> QED BY <4>2, <4>3
    <3>4. SumFunction(amounts(stored', a)) = SumFunction(amounts(stored, a))
      BY Zenon, <3>2
    <3> HIDE DEF amounts
    <3> QED BY <1>1, <1>3, <3>3, <3>4
  <2> QED BY <2>1, <2>2
<1>5. DOMAIN totals' = Accounts /\ totals' = [a \in Accounts |-> totals'[a]]
  <2>1. totals' = totals \/ totals' = [totals EXCEPT ![Data(e).to] = @ + Data(e).amount]
    BY DEF WrittenInPlace, ApplyEventProjection, ApplyStreamState, tables
  <2> QED BY <1>1, <2>1
<1>6. totals' \in [Accounts -> Nat]
  BY <1>4, <1>5
<1>7. TotalsExact'
  BY <1>4 DEF TotalsExact
<1> QED BY <1>6, <1>7

\* The new configuration is the last one of its sender.
LEMMA RatesKept ==
  ASSUME TInv, TablesExact, NEW e \in Events, WrittenInPlace(e)
  PROVE  RatesCurrent' /\ rates' \in [Accounts -> [Accounts -> Nat]]
<1>1. /\ stored \subseteq Events /\ stored' = stored \cup {e} /\ \A f \in stored : Before(f, e)
      /\ rates \in [Accounts -> [Accounts -> Nat]] /\ RatesCurrent /\ ~Before(e, e)
  BY ChainOrder DEF TInv, LInv, LogInv, WrittenInPlace, TablesExact
<1>2. CASE Type(e) # "stream_set"
  <2>1. rates' = rates
    BY <1>2 DEF WrittenInPlace, ApplyEventProjection, tables
  <2> QED BY <1>1, <1>2, <2>1 DEF RatesCurrent
<1>3. CASE Type(e) = "stream_set"
  <2> DEFINE s == Data(e).by
             new == [r \in Accounts |-> IF r \in Affected(e) THEN Data(e).rates[r] ELSE rates[s][r]]
  <2>1. s \in Accounts /\ Data(e).rates \in [Accounts -> Nat]
    BY <1>3, DataFacts
  <2>2. rates' = [rates EXCEPT ![s] = new]
    BY <1>3 DEF WrittenInPlace, ApplyEventProjection, ApplyStreamState
  <2>3. rates[s] \in [Accounts -> Nat]
    BY <1>1, <2>1
  <2>4. \A r \in Accounts : new[r] = Data(e).rates[r]
    BY <2>1, <2>3 DEF Affected
  <2>5. new = Data(e).rates
    BY <2>1, <2>4
  <2> HIDE DEF new, s
  <2>6. rates'[s] = Data(e).rates /\ \A a \in Accounts : a # s => rates'[a] = rates[a]
    BY <1>1, <2>1, <2>2, <2>5
  <2>7. rates' \in [Accounts -> [Accounts -> Nat]]
    BY <1>1, <2>1, <2>2, <2>5
  <2>8. ASSUME NEW f \in stored', Type(f) = "stream_set",
               ~\E g \in stored' : Type(g) = "stream_set" /\ Data(g).by = Data(f).by /\ Before(f, g)
        PROVE  rates'[Data(f).by] = Data(f).rates
    <3>1. CASE f = e
      BY <2>6, <3>1 DEF s
    <3>2. CASE f # e
      <4>1. f \in stored /\ f \in Events /\ Before(f, e)
        BY <1>1, <2>8, <3>2
      <4>2. Data(f).by # s
        BY <1>1, <1>3, <2>8, <4>1 DEF s
      <4>3. rates[Data(f).by] = Data(f).rates
        BY <1>1, <2>8, <4>1 DEF RatesCurrent
      <4>4. Data(f).by \in Accounts
        BY <2>8, <4>1, DataFacts
      <4> QED BY <2>6, <4>2, <4>3, <4>4
    <3> QED BY <3>1, <3>2
  <2> QED BY <2>7, <2>8 DEF RatesCurrent
<1> QED BY <1>2, <1>3

\* A row that is added starts from the rate the row before it set.
LEMMA PreviousIsLast ==
  ASSUME TInv, HistoryInv, NEW e \in Events, \A f \in stored : Before(f, e),
         NEW r, NEW g \in history, g.by = Data(e).by, g.to = r,
         ~\E k \in history : k.by = g.by /\ k.to = r /\ Before(g.event, k.event)
  PROVE  PreviousRate(e, r) = g.new
<1> DEFINE earlier == {h \in history : h.by = Data(e).by /\ h.to = r /\ Before(h.event, e)}
           last(c) == \A h \in earlier : ~Before(c.event, h.event)
           c == CHOOSE h \in earlier : last(h)
<1>1. \A h \in history : h.event \in stored /\ h.event \in Events
  BY DEF HistoryInv, TInv, LInv, LogInv
<1>2. g \in earlier /\ last(g)
  BY <1>1
<1>3. c \in earlier /\ last(c)
  <2> HIDE DEF earlier, last
  <2> QED BY <1>2, Zenon
<1>4. PreviousRate(e, r) = c.new
  <2>1. earlier # {}
    BY <1>2
  <2> QED BY <2>1, Zenon DEF PreviousRate
<1> HIDE DEF c
<1>5. c.event = g.event
  <2>1. ~Before(c.event, g.event) /\ ~Before(g.event, c.event)
    BY <1>2, <1>3
  <2>2. c.event \in Events /\ g.event \in Events
    BY <1>1, <1>3
  <2> QED BY <2>1, <2>2, ChainOrder
<1>6. c.new = Data(c.event).rates[c.to] /\ g.new = Data(g.event).rates[g.to] /\ c.to = r
  BY <1>3 DEF HistoryInv
<1> QED BY <1>4, <1>5, <1>6

\* The event that is written ends the row of its stream that was open and opens
\* its own.
LEMMA HistoryKept ==
  ASSUME TInv, TablesExact, NEW e \in Events, WrittenInPlace(e)
  PROVE  HistoryInv' /\ HistoryChained'
<1>1. /\ stored \subseteq Events /\ stored' = stored \cup {e} /\ \A f \in stored : Before(f, e)
      /\ HistoryInv /\ HistoryChained
  BY DEF TInv, LInv, LogInv, WrittenInPlace, TablesExact
<1>2. CASE Type(e) # "stream_set"
  <2>1. history' = history
    BY <1>2 DEF WrittenInPlace, ApplyEventProjection, tables
  <2>2. HistoryInv'
    BY <1>1, <2>1 DEF HistoryInv
  <2>3. HistoryChained'
    BY <1>1, <2>1 DEF HistoryChained
  <2> QED BY <2>2, <2>3
<1>3. CASE Type(e) = "stream_set"
  <2> DEFINE N == {h \in {StreamRow(e, r) : r \in Affected(e)} : h.old # h.new}
  <2>1. history' = history \cup N
    BY <1>3 DEF WrittenInPlace, ApplyEventProjection, ApplyStreamState
  <2>2. ASSUME NEW h \in N
        PROVE  /\ h.event = e /\ h.by = Data(e).by /\ h.to \in Accounts
               /\ h.old = PreviousRate(e, h.to) /\ h.new = Data(e).rates[h.to]
    <3>1. PICK r \in Affected(e) : h = StreamRow(e, r)
      OBVIOUS
    <3>2. /\ h.event = e /\ h.by = Data(e).by /\ h.to = r
          /\ h.old = PreviousRate(e, r) /\ h.new = Data(e).rates[r]
      BY <3>1 DEF StreamRow
    <3>3. r \in Accounts
      BY DEF Affected
    <3> QED BY <3>2, <3>3
  <2> HIDE DEF N
  <2>3. \A h \in history : h.event \in stored /\ h.event \in Events
    BY <1>1 DEF HistoryInv
  <2>4. HistoryInv'
    BY <1>1, <2>1, <2>2 DEF HistoryInv
  <2>5. ASSUME NEW g \in history', NEW h \in history', g.by = h.by, g.to = h.to,
               Before(g.event, h.event),
               ~\E k \in history' : /\ k.by = g.by /\ k.to = g.to
                                    /\ Before(g.event, k.event) /\ Before(k.event, h.event)
        PROVE  h.old = g.new
    <3>1. g \in history
      <4>1. SUFFICES ASSUME g \in N PROVE FALSE
        BY <2>1, <2>5
      <4>2. g.event = e
        BY <2>2, <4>1
      <4>3. h.event = e \/ (h.event \in stored /\ h.event \in Events)
        BY <2>1, <2>2, <2>3, <2>5
      <4> QED BY <1>1, <2>5, <4>2, <4>3, ChainOrder
    <3>2. CASE h \in history
      BY <1>1, <2>1, <2>5, <3>1, <3>2 DEF HistoryChained
    <3>3. CASE h \in N
      <4>1. /\ h.event = e /\ h.by = Data(e).by /\ h.old = PreviousRate(e, h.to)
        BY <2>2, <3>3
      <4>2. ~\E k \in history : k.by = g.by /\ k.to = h.to /\ Before(g.event, k.event)
        BY <1>1, <2>1, <2>3, <2>5, <4>1
      <4>3. PreviousRate(e, h.to) = g.new
        BY <1>1, <2>5, <3>1, <4>1, <4>2, PreviousIsLast
      <4> QED BY <4>1, <4>3
    <3> QED BY <2>1, <2>5, <3>2, <3>3
  <2>6. HistoryChained'
    BY <2>5 DEF HistoryChained
  <2> QED BY <2>4, <2>6
<1> QED BY <1>2, <1>3

\* The tables agree initially, when they are empty.
LEMMA InitTables == Init => TablesInv
<1> SUFFICES ASSUME Init PROVE TablesInv
  OBVIOUS
<1>1. OInv
  BY InitOrder
<1>2. /\ stored = {} /\ totals = [a \in Accounts |-> 0] /\ history = {} /\ squeezes = {}
      /\ rates = [s \in Accounts |-> [r \in Accounts |-> 0]]
  BY DEF Init, StoreInit
<1>3. SqueezeInv
  BY <1>2 DEF SqueezeInv
<1>4. HistoryInv /\ RatesCurrent /\ HistoryChained
  BY <1>2 DEF HistoryInv, RatesCurrent, HistoryChained
<1>5. TotalsExact
  <2>1. SUFFICES ASSUME NEW a \in Accounts
                 PROVE  totals[a] = SumFunction([f \in {g \in stored :
                                        Type(g) = "collected" /\ Data(g).to = a}
                                        |-> Data(f).amount])
    BY DEF TotalsExact
  <2> DEFINE S == {g \in stored : Type(g) = "collected" /\ Data(g).to = a}
             f == [x \in S |-> Data(x).amount]
  <2>2. S = {} /\ DOMAIN f = S
    BY <1>2
  <2> HIDE DEF S, f
  <2>3. SumFunction(f) = SumFunctionOnSet(f, {})
    BY <2>2, Zenon DEF SumFunction
  <2>4. SumFunction(f) = 0
    BY <2>3, SumEmpty
  <2> QED BY <1>2, <2>4 DEF f, S
<1>6. totals \in [Accounts -> Nat] /\ rates \in [Accounts -> [Accounts -> Nat]]
  BY <1>2
<1> QED BY <1>1, <1>3, <1>4, <1>5, <1>6 DEF TablesInv, TablesExact

\* Every step keeps the tables in agreement.
LEMMA NextTables == TablesInv /\ [Next]_vars => TablesInv'
<1> SUFFICES ASSUME TablesInv, [Next]_vars PROVE TablesInv'
  OBVIOUS
<1>1. OInv' /\ OInv /\ TInv
  BY NextOrder DEF TablesInv, OInv, CInv
<1>2. SqueezeInv'
  <2>1. UNCHANGED tables \/ \E e \in Events : \E w : ProcessEvent(e, w)
    BY <1>1, TableSteps
  <2> QED BY <2>1, SqueezeKept DEF TablesInv
<1>3. ASSUME Calm' PROVE TablesExact'
  <2>1. Calm /\ TablesExact
    BY <1>1, <1>3, CalmSteps DEF TablesInv
  <2>2. CASE UNCHANGED <<stored, tables>>
    BY <2>1, <2>2 DEF TablesExact, tables, HistoryInv, TotalsExact, RatesCurrent, HistoryChained
  <2>3. ASSUME NEW e \in Events, WrittenInPlace(e) PROVE TablesExact'
    BY <1>1, <2>1, <2>3, TotalsKept, RatesKept, HistoryKept DEF TablesExact
  <2> QED BY <1>1, <1>3, <2>2, <2>3, CalmStores
<1> QED BY <1>1, <1>2, <1>3 DEF TablesInv

\* Of the squeezes of one history one is genuine, whatever fails; and while nothing
\* fails, the totals collected, the open streams and the history of their rates are what
\* the stored events make of them.
THEOREM TablesAgreeWithEvents == Spec => []TablesAgree
<1>1. TablesInv => TablesAgree
  BY OneIsGenuine DEF TablesInv, TablesExact, TablesAgree
<1> QED BY <1>1, InitTables, NextTables, PTL DEF Spec
=============================================================================
