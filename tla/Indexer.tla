------------------------------ MODULE Indexer ------------------------------
(***************************************************************************)
(* The indexer process: the poller follows the chain page by page from a   *)
(* checkpoint, the gap detector queues the ledgers beyond it, and the      *)
(* replay engine works the queue off beside the poller, from RPC or from   *)
(* the Horizon archive.  Both write to one EventStore.  Requests fail, a   *)
(* write fails, the process crashes or is told to stop, and restarts.      *)
(*                                                                         *)
(* One process runs both loops on one thread: the events of a ledger are   *)
(* processed by the poller without interruption, and everywhere else the   *)
(* two interleave.                                                         *)
(***************************************************************************)
EXTENDS EventStore

CONSTANTS
    PageSize,            \* events of an RPC page (200)
    LEDGER_MAX_RETRIES,  \* retries of a ledger after its first failure (5)
    MaxGapSize,          \* ledgers of one replay range (10000)
    MaxRetries,          \* failures after which a range is given up (8)
    ProgressInterval,    \* ledgers between two saves of a range's progress (100)
    MaxRanges,           \* bound: ranges ever queued
    MaxFaults            \* bound: failures, stops and crashes

ASSUME IndexerAssumption ==
    /\ {PageSize, MaxGapSize, ProgressInterval} \subseteq Nat \ {0}
    /\ {LEDGER_MAX_RETRIES, MaxRetries, MaxRanges, MaxFaults} \subseteq Nat

VARIABLES
    tip,          \* the last ledger the chain closed
    checkpoint,   \* checkpoint.last_ledger
    queue,        \* replay_queue, in the order of its rows
    poller,       \* what poll() has in hand
    engine,       \* what the replay engine has in hand
    stopping,     \* the shutdown handler ran: shouldStop, isShuttingDown
    skipped,      \* the ledgers logged as PERMANENT and skipped
    cut,          \* history: ledgers whose poll ended between two of its pages
    archive,      \* history: a range was fetched from Horizon
    faults        \* history: failures, stops and crashes so far

control == <<tip, checkpoint, queue, poller, engine, stopping>>
historyVars == <<skipped, cut, archive, faults>>
vars == <<storeVars, control, historyVars>>

NoEvent == <<0, 0>>

ReplayRange == [from : Ledgers, to : Ledgers, completed : {0} \cup Ledgers, retries : Nat,
                status : {"pending", "in_progress", "completed", "failed"}]

\* cursor: the last event of the page before; page: the events of this one still to
\* be processed; done: those of the ledger in hand this try has processed; tries: the
\* failures of this ledger.
StartPoller == [pc |-> "startup", last |-> 0, highest |-> 0, cursor |-> NoEvent,
                page |-> {}, full |-> FALSE, done |-> {}, tries |-> 0]
StartEngine == [pc |-> "idle", range |-> 0, horizon |-> FALSE, cursor |-> NoEvent,
                page |-> {}, full |-> FALSE, current |-> 0, base |-> 0]

Init ==
    /\ StoreInit
    /\ tip = 1 /\ checkpoint = 0 /\ queue = <<>>
    /\ poller = StartPoller /\ engine = StartEngine
    /\ stopping = FALSE /\ archive = FALSE
    /\ skipped = {} /\ cut = {} /\ faults = 0

Fault == faults < MaxFaults /\ faults' = faults + 1

\* The chain closes a ledger.
CloseLedger ==
    /\ tip < Len(Chain)
    /\ tip' = tip + 1
    /\ UNCHANGED <<storeVars, checkpoint, queue, poller, engine, stopping, historyVars>>

-----------------------------------------------------------------------------
(* getEvents *)

EventsUpTo(to) == {e \in Events : e[1] <= to}

\* Those that follow the cursor or, without one, start at ledger `from'.
EventsFrom(from, cursor, to) ==
    {e \in EventsUpTo(to) : IF cursor = NoEvent THEN e[1] >= from ELSE Before(cursor, e)}

\* The first n in the order of the chain.
FirstOf(n, events) == {e \in events : Cardinality({f \in events : Before(f, e)}) < n}

Page(from, cursor, to) == FirstOf(PageSize, EventsFrom(from, cursor, to))

\* The first and the last of a page, as sets.
Earliest(page) == {e \in page : \A f \in page \ {e} : Before(e, f)}
Latest(page)   == {e \in page : \A f \in page \ {e} : Before(f, e)}

-----------------------------------------------------------------------------
(* The poller *)

\* Mutant: a poll starts behind a ledger that may have grown.
StartSkippingOne == checkpoint + 2

\* START_LEDGER is the first one.
StartLedger == checkpoint + 1

\* Mutant: no page is ever full.
NeverFull(page) == Cardinality(page) > PageSize

\* There may be another page.
Full(page) == Cardinality(page) = PageSize

\* The first page of a poll, or the one behind the cursor.
Fetch ==
    /\ poller.pc \in {"poll", "more"} /\ (poller.pc = "poll" => ~stopping)
    /\ LET fresh == poller.pc = "poll"
           page  == Page(StartLedger, IF fresh THEN NoEvent ELSE poller.cursor, tip)
       IN  poller' = [poller EXCEPT
               !.pc = "work", !.page = page, !.full = Full(page), !.done = {},
               !.tries = 0,
               !.last = IF fresh THEN checkpoint ELSE @,
               !.highest = IF fresh THEN checkpoint ELSE @,
               !.cursor = IF fresh THEN NoEvent ELSE @]
    /\ UNCHANGED <<storeVars, tip, checkpoint, queue, engine, stopping, historyVars>>

\* The ledger a poll leaves half read, if it ends now.
HalfRead == IF poller.cursor = NoEvent THEN {} ELSE {poller.cursor[1]}

\* The request failed: poll() logs it and returns.
FetchFails ==
    /\ poller.pc \in {"poll", "more"} /\ (poller.pc = "poll" => ~stopping)
    /\ Fault
    /\ cut' = IF poller.pc = "more" THEN cut \cup HalfRead ELSE cut
    /\ poller' = [poller EXCEPT !.pc = "rest", !.cursor = NoEvent]
    /\ UNCHANGED <<storeVars, tip, checkpoint, queue, engine, stopping, skipped, archive>>

InHand == poller.pc = "work" /\ poller.page # {}

\* The ledger in hand, and the page's events of it.
Ledger == Min({e[1] : e \in poller.page})
Group  == {e \in poller.page : e[1] = Ledger}

Highest(a, b) == IF a > b THEN a ELSE b

\* The ledger in hand is done with, processed or given up.
GroupDone ==
    [poller EXCEPT !.page = @ \ Group, !.done = {}, !.tries = 0,
                   !.highest = Highest(@, Ledger)]

ProcessNext(e, w) ==
    /\ InHand /\ e \in Earliest(Group \ poller.done)
    /\ ProcessEvent(e, w)
    /\ w # Done => Fault
    /\ w = Done => UNCHANGED faults
    /\ poller' = IF Group = poller.done \cup {e} THEN GroupDone
                 ELSE [poller EXCEPT !.done = @ \cup {e}]
    /\ UNCHANGED <<tip, checkpoint, queue, engine, stopping, skipped, cut, archive>>

\* processLedgerWithRetry: the ledger is tried again from its first event; after
\* the last retry it is skipped.
ProcessThrows(e, w) ==
    /\ InHand /\ e \in Earliest(Group \ poller.done)
    /\ ProcessEvent(e, w)
    /\ Fault
    /\ IF poller.tries < LEDGER_MAX_RETRIES
       THEN /\ poller' = [poller EXCEPT !.done = {}, !.tries = @ + 1]
            /\ UNCHANGED skipped
       ELSE /\ poller' = GroupDone
            /\ skipped' = skipped \cup {Ledger}
    /\ UNCHANGED <<tip, checkpoint, queue, engine, stopping, cut, archive>>

\* The page is processed: the checkpoint moves to the highest ledger seen.
SavePage ==
    /\ poller.pc = "work" /\ poller.page = {}
    /\ checkpoint' = IF poller.highest > poller.last THEN poller.highest ELSE checkpoint
    /\ \/ /\ poller.full
          /\ \E c \in Latest(Page(poller.last + 1, poller.cursor, tip)) :
                poller' = [poller EXCEPT !.pc = "more", !.cursor = c]
       \/ /\ ~poller.full
          /\ poller' = [poller EXCEPT !.pc = "rest", !.cursor = NoEvent]
    /\ UNCHANGED <<storeVars, tip, queue, engine, stopping, historyVars>>

-----------------------------------------------------------------------------
(* Gap detection *)

Pending(from, to) ==
    [from |-> from, to |-> to, completed |-> 0, retries |-> 0, status |-> "pending"]

\* splitGapIntoChunks
Chunks(from, to) ==
    [k \in 1..((to - from + MaxGapSize) \div MaxGapSize) |->
        Pending(from + (k - 1) * MaxGapSize,
                IF from + k * MaxGapSize - 1 < to THEN from + k * MaxGapSize - 1 ELSE to)]

\* Mutant: the ledger the chain has yet to close is part of the gap.
GapEndOpen == tip + 1

\* The current ledger is left to the poller.
GapEnd == tip - 1

\* The ledgers beyond the checkpoint, when they are at least minGapSize.
Gap(minGapSize) ==
    IF GapEnd - checkpoint >= minGapSize THEN Chunks(checkpoint + 1, GapEnd) ELSE <<>>

\* Beyond the bound nothing is queued.
DetectGaps(minGapSize) ==
    queue' = IF Len(queue \o Gap(minGapSize)) <= MaxRanges
             THEN queue \o Gap(minGapSize) ELSE queue

\* runStartupDetection before the first poll, runPeriodicDetection after some;
\* Horizon may not answer, which is logged.
StartupDetection ==
    /\ poller.pc = "startup"
    /\ \/ DetectGaps(1) /\ UNCHANGED faults
       \/ Fault /\ UNCHANGED queue
    /\ poller' = [poller EXCEPT !.pc = "poll"]
    /\ UNCHANGED <<storeVars, tip, checkpoint, engine, stopping, skipped, cut, archive>>

PeriodicDetection ==
    /\ poller.pc = "rest"
    /\ DetectGaps(2)
    /\ poller' = [poller EXCEPT !.pc = "poll"]
    /\ UNCHANGED <<storeVars, tip, checkpoint, engine, stopping, historyVars>>

\* The interval passes; no detection was due, or it failed.
NextPoll ==
    /\ poller.pc = "rest"
    /\ poller' = [poller EXCEPT !.pc = "poll"]
    /\ UNCHANGED <<storeVars, tip, checkpoint, queue, engine, stopping, historyVars>>

-----------------------------------------------------------------------------
(* The replay engine *)

\* The engine cannot run in the middle of the poller's synchronous ledger loop.
EngineTurn == poller.done = {} /\ poller.pc # "startup"

Queued(status) == {q \in DOMAIN queue : queue[q].status = status}

\* getNextPendingReplay, markReplayInProgress and the choice of the source.
TakeRange(q, horizon) ==
    /\ EngineTurn /\ engine.pc = "idle" /\ ~stopping
    /\ q \in Queued("pending") /\ \A p \in Queued("pending") : q <= p
    /\ queue' = [queue EXCEPT ![q].status = "in_progress"]
    /\ LET from == IF queue[q].completed = 0 THEN queue[q].from ELSE queue[q].completed
       IN  engine' = [StartEngine EXCEPT !.pc = "fetch", !.range = q, !.horizon = horizon,
                                         !.current = from, !.base = from]
    /\ archive' = (archive \/ horizon)
    /\ UNCHANGED <<storeVars, tip, checkpoint, poller, stopping, skipped, cut, faults>>

\* fetchEventsInLedgerRange reads the archive from its beginning, a page at a time,
\* and returns without the page in which it sees a ledger beyond the range.
HorizonEvents(from, to) ==
    LET inside == Cardinality(EventsUpTo(to))
        kept   == IF EventsUpTo(tip) \subseteq EventsUpTo(to) THEN EventsUpTo(tip)
                  ELSE FirstOf((inside \div PageSize) * PageSize, EventsUpTo(tip))
    IN  {e \in kept : e[1] \in from..to}

LastLedger(page, from) == Max({from} \cup {e[1] : e \in page})

ReplayFetch ==
    /\ EngineTurn /\ engine.pc = "fetch"
    /\ LET r    == queue[engine.range]
           page == IF engine.horizon THEN HorizonEvents(engine.base, r.to)
                   ELSE Page(engine.base, engine.cursor, r.to)
           seen == LastLedger(page, engine.base)
       IN  /\ engine' = [engine EXCEPT !.pc = "work", !.page = page,
                             !.full = ~engine.horizon /\ Full(page)]
           \* Horizon's progress is saved while it is fetched.
           /\ queue' = IF engine.horizon /\ seen - engine.base >= ProgressInterval
                       THEN [queue EXCEPT ![engine.range].completed = seen] ELSE queue
    /\ UNCHANGED <<storeVars, tip, checkpoint, poller, stopping, historyVars>>

\* Whatever the number of its retries, a range that fails is marked failed.
ReplayFails ==
    /\ EngineTurn /\ engine.pc = "fetch"
    /\ Fault
    /\ queue' = [queue EXCEPT ![engine.range].status = "failed",
                              ![engine.range].retries = @ + 1]
    /\ engine' = StartEngine
    /\ UNCHANGED <<storeVars, tip, checkpoint, poller, stopping, skipped, cut, archive>>

\* Errors of an event are logged and the next one is processed; no notifications.
ReplayNext(e, w) ==
    /\ EngineTurn /\ engine.pc = "work" /\ e \in Earliest(engine.page)
    /\ ~(engine.horizon /\ stopping)
    /\ ProcessEvent(e, w \ {"notices"})
    /\ w # Done => Fault
    /\ w = Done => UNCHANGED faults
    /\ engine' = [engine EXCEPT !.page = @ \ {e}, !.current = Highest(@, e[1]),
                                !.cursor = e]
    /\ UNCHANGED <<tip, checkpoint, queue, poller, stopping, skipped, cut, archive>>

\* The page is done, or a stop cuts an archive's events off.
ReplayPageDone ==
    /\ EngineTurn /\ engine.pc = "work"
    /\ engine.page = {} \/ (engine.horizon /\ stopping)
    /\ LET saves == ~engine.horizon /\ engine.current - engine.base >= ProgressInterval
           more  == engine.full /\ ~stopping
       IN  /\ engine' = IF more THEN [engine EXCEPT !.pc = "fetch",
                                          !.base = IF saves THEN engine.current ELSE @]
                        ELSE StartEngine
           /\ queue' = [queue EXCEPT
                 ![engine.range].completed = IF saves THEN engine.current ELSE @,
                 ![engine.range].status = IF more THEN @ ELSE "completed"]
    /\ UNCHANGED <<storeVars, tip, checkpoint, poller, stopping, historyVars>>

-----------------------------------------------------------------------------
(* Stopping, crashing, restarting *)

\* SIGTERM: no new range or page is begun.
Stop ==
    /\ ~stopping /\ poller.done = {}
    /\ Fault
    /\ stopping' = TRUE
    /\ UNCHANGED <<storeVars, tip, checkpoint, queue, poller, engine, skipped, cut, archive>>

\* The process ends and is started again, its memory lost.
Restart ==
    /\ poller' = StartPoller /\ engine' = StartEngine /\ stopping' = FALSE
    /\ cut' = cut \cup HalfRead
    /\ UNCHANGED <<tip, checkpoint, queue, skipped, archive>>

Exit == stopping /\ poller.done = {} /\ Restart /\ UNCHANGED <<storeVars, faults>>

Crash == Restart /\ Fault /\ UNCHANGED storeVars

\* A crash among the writes of an event.
CrashWriting(e, w) ==
    /\ Restart /\ Fault
    /\ \/ /\ InHand /\ e \in Earliest(Group \ poller.done)
          /\ ProcessEvent(e, w)
       \/ /\ EngineTurn /\ engine.pc = "work" /\ e \in Earliest(engine.page)
          /\ ProcessEvent(e, w \ {"notices"})

PollerStep ==
    \/ Fetch \/ (\E e \in poller.page : ProcessNext(e, Done)) \/ SavePage
    \/ StartupDetection \/ NextPoll

EngineStep ==
    \/ \E q \in DOMAIN queue, horizon \in BOOLEAN : TakeRange(q, horizon)
    \/ ReplayFetch \/ (\E e \in engine.page : ReplayNext(e, Done)) \/ ReplayPageDone

Next ==
    \/ CloseLedger \/ PollerStep \/ EngineStep \/ PeriodicDetection
    \/ FetchFails \/ ReplayFails
    \/ \E e \in poller.page :
          \/ \E w \in Caught : ProcessNext(e, w)
          \/ \E w \in Thrown : ProcessThrows(e, w)
    \/ \E e \in engine.page, w \in Thrown \cup Caught : ReplayNext(e, w)
    \/ Stop \/ Exit \/ Crash
    \/ \E e \in poller.page \cup engine.page, w \in CutOff \ {{}} : CrashWriting(e, w)

Spec == Init /\ [][Next]_vars

\* Both loops keep running, and a process told to stop ends.
FairSpec == Spec /\ WF_vars(PollerStep) /\ WF_vars(EngineStep) /\ WF_vars(Exit)

-----------------------------------------------------------------------------
(* Properties *)

IndexerTypeOK ==
    /\ stored \subseteq Events /\ fanouts \in [Events -> Nat]
    /\ poller.done \subseteq poller.page /\ poller.page \subseteq Events
    /\ engine.page \subseteq Events
    /\ tip \in Ledgers /\ checkpoint \in 0..tip
    /\ queue \in Seq(ReplayRange)
    /\ \A q \in DOMAIN queue : queue[q].from <= queue[q].to /\ queue[q].to < tip
    /\ skipped \subseteq Ledgers /\ cut \subseteq Ledgers
    /\ stopping \in BOOLEAN /\ archive \in BOOLEAN /\ faults \in 0..MaxFaults

\* Poller and replay engine together, through retries, crashes and restarts, enter
\* an event at most once and announce it at most once.
Log == INSTANCE EventLog WITH log <- stored, announced <- fanouts
EventLogSpec == Log!LogSpec

\* An event behind the checkpoint is stored, unless its ledger was skipped after
\* its last retry or the poll that read its ledger ended between two pages.
CheckpointCovers ==
    \A e \in Events :
        e[1] <= checkpoint =>
            \/ Known(e) \/ e[1] \in skipped \cup cut
            \/ e[1] \in HalfRead /\ Before(poller.cursor, e)

Calm == faults = 0 /\ ~archive

\* While nothing fails, the two loops store the events in the order of the
\* chain: neither overtakes the other.
StoredInOrder ==
    Calm => \A e \in stored : \A f \in Events : Before(f, e) => Known(f)

\* Then the derived tables are what the events in that order make of them; and
\* whatever fails, a squeeze of a history is counted as genuine once.
TablesAgree ==
    /\ OneGenuineSqueeze
    /\ Calm => TotalsExact /\ RatesCurrent /\ HistoryChained

\* An event on the chain is eventually stored, unless its ledger is lost to the
\* poller as CheckpointCovers says.
EventuallyIndexed ==
    \A e \in Events :
        (e[1] <= tip) ~> (Known(e) \/ e[1] \in skipped \cup cut)

\* "Mark failed first so it's re-queued as pending on next iteration": a range that
\* failed with retries left is taken up again.
FailedRangeRetried ==
    \A q \in 1..MaxRanges :
        (q \in Queued("failed") /\ queue[q].retries < MaxRetries)
            ~> (q \notin Queued("failed"))
=============================================================================
