-------------------------- MODULE NotificationStream --------------------------
(* The browser half of the in-app notifications, on top of the hub: the shared
   worker that holds the stream for every tab (workers/sse.worker.ts) and the
   provider of each tab (lib/notifications-context.tsx), which keeps the last
   id it was given in localStorage and hands it back when it connects.
   Messages between a tab and the worker are handled at once; the time a
   reconnect waits is arbitrary, so the backoff is not kept. *)
EXTENDS NotificationHub, SequencesExt

CONSTANTS
    Tabs,
    Sessions,    \* what a tab connects with: [wallet, token]
    MAX_BUFFER,
    MaxOpens,    \* bound on the CONNECT messages
    MaxFaults    \* bound on refused requests, broken streams and restarts

ASSUME StreamAssumption ==
    /\ \A s \in Sessions : s.wallet \in Wallets
    /\ MAX_BUFFER \in Nat \ {0}
    /\ MaxOpens \in Nat /\ MaxFaults \in Nat

VARIABLES
    stream,       \* per connection: "idle", "fetching" or "open", and its request
    ports,        \* the tabs whose port the worker holds
    session,      \* wallet, token and URL of the last CONNECT
    lastEventId,
    unread,
    buffer,       \* ids of the most recent notifications, oldest first
    controller,   \* the connection the worker can abort
    timer,        \* a reconnect is scheduled
    badge,        \* per tab: the unread count it shows
    stored,       \* the id in localStorage
    shown,        \* history: ids some tab was given
    opens, faults

workerVars == <<ports, session, lastEventId, unread, buffer, controller, timer>>
tabVars == <<badge, stored, shown>>
vars == <<hubVars, stream, workerVars, tabVars, opens, faults>>

Idle    == [phase |-> "idle", session |-> None, since |-> None]
Opened  == [phase |-> "open", session |-> None, since |-> None]
Request(s, since) == [phase |-> "fetching", session |-> s, since |-> since]
Live == {c \in Streams : stream[c].phase # "idle"}

Init ==
    /\ HubInit
    /\ stream = [c \in Streams |-> Idle]
    /\ ports = {} /\ session = None /\ lastEventId = None /\ unread = 0
    /\ buffer = <<>> /\ controller = None /\ timer = FALSE
    /\ badge = [t \in Tabs |-> 0] /\ stored = None /\ shown = {}
    /\ opens = 0 /\ faults = 0

-------------------------------------------------------------------------------
(* Connections. *)

(* The connection the next connectStream takes.  There must be enough Streams for
   one to be free: TLC stops at a CHOOSE that finds none. *)
Unused == CHOOSE c \in Streams : stream[c] = Idle

RequestArrives(c) ==
    /\ stream[c].phase = "fetching"
    /\ RegisterStream(c, stream[c].session.wallet, stream[c].since)
    /\ stream' = [stream EXCEPT ![c] = Opened]
    /\ UNCHANGED <<workerVars, tabVars, opens, faults>>

(* The end of connectStream for the connections in cs, whichever of them the
   worker's controller belongs to. *)
StreamsEnd(cs) ==
    /\ Hangup(cs)
    /\ stream' = [c \in Streams |-> IF c \in cs THEN Idle ELSE stream[c]]
    /\ controller' = IF cs = {} THEN controller ELSE None
    /\ timer' = (timer \/ (cs # {} /\ ports # {}))
    /\ faults < MaxFaults
    /\ faults' = faults + 1
    /\ UNCHANGED <<rows, passedOver, ports, session, lastEventId, unread, buffer,
                   tabVars, opens>>

(* A request is refused, or a stream breaks. *)
StreamFails(c) == c \in Live /\ StreamsEnd({c}) /\ UNCHANGED lastSeenId

(* The server process restarts: the registry and the fan-out's cursor were in
   memory. *)
ServerRestarts == StreamsEnd(Live) /\ lastSeenId' = None

(* setTimeout of scheduleReconnect. *)
Reconnect ==
    /\ timer
    /\ stream[Unused] = Idle
    /\ timer' = FALSE
    /\ controller' = Unused
    /\ stream' = [stream EXCEPT ![Unused] = Request(session, lastEventId)]
    /\ UNCHANGED <<hubVars, ports, session, lastEventId, unread, buffer, tabVars,
                   opens, faults>>

-------------------------------------------------------------------------------
(* Frames. *)

\* Mutant: evicts when the buffer is full, not when it overflows.
PushToBufferEarly(id) ==
    IF Len(buffer) + 1 < MAX_BUFFER THEN Append(buffer, id)
    ELSE Append(IF buffer = <<>> THEN <<>> ELSE Tail(buffer), id)

PushToBuffer(id) ==
    IF Len(buffer) < MAX_BUFFER THEN Append(buffer, id) ELSE Append(Tail(buffer), id)

Badges(n) == [t \in Tabs |-> IF t \in ports THEN n ELSE badge[t]]

(* A frame seen before is not counted again, but it is passed on again.  A stream
   the worker could not abort is read even while no tab is there to be told. *)
HandleFrame(c) ==
    /\ stream[c].phase = "open" /\ wire[c] # <<>>
    /\ LET id == Head(wire[c])
           fresh == id \notin ToSet(buffer)
       IN /\ lastEventId' = id
          /\ buffer' = IF fresh THEN PushToBuffer(id) ELSE buffer
          /\ unread' = IF fresh THEN unread + 1 ELSE unread
          /\ badge' = IF fresh THEN Badges(unread + 1) ELSE badge
          /\ stored' = IF ports # {} THEN id ELSE stored
          /\ shown' = IF ports # {} THEN shown \cup {id} ELSE shown
          /\ passedOver' = IF ports = {} THEN passedOver \cup {id}
                                       ELSE passedOver \ {id}
    /\ wire' = [wire EXCEPT ![c] = Tail(@)]
    /\ UNCHANGED <<rows, lastSeenId, registry, stream, ports, session, controller,
                   timer, opens, faults>>

-------------------------------------------------------------------------------
(* Tabs. *)

(* CONNECT with what the worker already has, while it knows its stream. *)
Join(t, s) ==
    /\ session = s /\ controller # None
    /\ UNCHANGED <<hubVars, stream, controller, timer>>

(* CONNECT that opens a stream.  closeStream aborts the stream the worker knows;
   the aborted connectStream then runs to its end, after the new one has
   started: it forgets the new controller and schedules a reconnect. *)
Start(t, s) ==
    /\ session # s \/ controller = None
    /\ \E c \in {Unused} :
        /\ stream[c] = Idle
        /\ Hangup({controller})
        /\ stream' = [d \in Streams |->
               CASE d = controller -> Idle
                 [] d = c -> Request(s, stored)
                 [] OTHER -> stream[d]]
        /\ controller' = IF controller = None THEN c ELSE None
        /\ timer' = (controller # None)
    /\ UNCHANGED <<rows, lastSeenId, passedOver>>

Open(t, s) ==
    /\ t \notin ports
    /\ opens < MaxOpens /\ opens' = opens + 1
    /\ Join(t, s) \/ Start(t, s)
    /\ ports' = ports \cup {t}
    /\ session' = s
    /\ lastEventId' = stored
    /\ unread' = badge[t]
    /\ UNCHANGED <<buffer, tabVars, faults>>

(* DISCONNECT; the last one closes the stream the worker knows. *)
Disconnect(t) ==
    /\ t \in ports
    /\ ports' = ports \ {t}
    /\ IF ports' = {}
       THEN /\ Hangup({controller})
            /\ stream' = [c \in Streams |-> IF c = controller THEN Idle ELSE stream[c]]
            /\ controller' = None
            /\ timer' = FALSE
       ELSE UNCHANGED <<registry, wire, stream, controller, timer>>
    /\ UNCHANGED <<rows, lastSeenId, passedOver, session, lastEventId, unread, buffer,
                   tabVars, opens, faults>>

(* The browser is closed and the worker with it; localStorage stays. *)
BrowserCloses ==
    /\ session # None
    /\ Hangup(Streams)
    /\ stream' = [c \in Streams |-> Idle]
    /\ ports' = {} /\ session' = None /\ lastEventId' = None /\ unread' = 0
    /\ buffer' = <<>> /\ controller' = None /\ timer' = FALSE
    /\ badge' = [t \in Tabs |-> 0]
    /\ UNCHANGED <<rows, lastSeenId, passedOver, stored, shown, opens, faults>>

SetUnread(n) ==
    /\ unread' = n
    /\ badge' = Badges(n)
    /\ UNCHANGED <<hubVars, stream, ports, session, lastEventId, buffer, controller, timer,
                   stored, shown, opens, faults>>

MarkRead(id) ==
    /\ ports # {} /\ id \in shown
    /\ SetUnread(IF id \in ToSet(buffer) /\ unread > 0 THEN unread - 1 ELSE unread)

MarkAllRead == ports # {} /\ SetUnread(0)

-------------------------------------------------------------------------------
NewRow(w) == Record(w) /\ UNCHANGED <<stream, workerVars, tabVars, opens, faults>>
Tick == FanoutTick /\ UNCHANGED <<stream, workerVars, tabVars, opens, faults>>

Next ==
    \/ \E w \in Wallets : NewRow(w)
    \/ Tick
    \/ \E c \in Streams : RequestArrives(c) \/ StreamFails(c) \/ HandleFrame(c)
    \/ ServerRestarts
    \/ Reconnect
    \/ \E t \in Tabs : Disconnect(t) \/ \E s \in Sessions : Open(t, s)
    \/ BrowserCloses
    \/ \E id \in Ids : MarkRead(id)
    \/ MarkAllRead

(* The fan-out's interval and the reconnect timer fire, requests are answered
   and what was sent is read. *)
Fairness ==
    /\ WF_vars(Tick)
    /\ WF_vars(Reconnect)
    /\ \A c \in Streams : WF_vars(RequestArrives(c)) /\ WF_vars(HandleFrame(c))

FairSpec == Init /\ [][Next]_vars /\ Fairness

-------------------------------------------------------------------------------
(* Properties. *)

(* NothingPassedBy: once the worker or localStorage has moved to an id, every
   earlier notification of the wallet has reached a tab, whatever streams broke,
   overlapped or were taken over, except those the protocol itself gives up. *)
NothingPassedBy ==
    session # None =>
        \A id \in RowsFor(session.wallet) :
            \/ id \in shown \cup passedOver
            \/ /\ stored = None \/ id > stored
               /\ ports = {} \/ lastEventId = None \/ id > lastEventId

(* CountedOnce: as long as the buffer can hold the wallet's notifications, one
   that arrives on two streams, or again in a replay, raises no badge twice. *)
CountedOnce ==
    session # None /\ Cardinality(RowsFor(session.wallet)) <= MAX_BUFFER =>
        \A t \in Tabs : badge[t] <= Cardinality(shown)

(* EventuallyShown: a notification of the wallet the tabs are connected for
   reaches one of them, unless it is given up or the tabs leave. *)
EventuallyShown ==
    \A id \in 1..MaxRows :
        (ports # {} /\ id \in RowsFor(session.wallet))
            ~> (id \in shown \cup passedOver \/ ports = {})
===============================================================================
