--------------------------- MODULE NotificationHub ---------------------------
(* The server half of the in-app notifications: the rows the poller writes for
   a wallet (indexer/src/app-notifications.ts) and the hub that streams them
   (indexer/src/sse.ts).  Poller and server are two processes, so the hub reads
   the table on a timer: it remembers the last id it has sent, in memory only,
   and replays the table to a stream that opens with a Last-Event-ID.
   A row is the wallet it is for; its id is its position, as AUTOINCREMENT
   numbers rows that one writer at a time commits.  What the frames say, the
   heartbeats and the balance stream, which has no cursor, are left out. *)
EXTENDS Naturals, Sequences, FiniteSets

CONSTANTS
    Wallets,
    Streams,              \* connections, used again once they are closed
    MAX_BUFFERED_EVENTS,  \* rows one tick of the fan-out reads
    MaxRows,              \* bound on the rows written
    None

ASSUME HubAssumption ==
    /\ MAX_BUFFERED_EVENTS \in Nat \ {0}
    /\ MaxRows \in Nat
    /\ None \notin Nat /\ None \notin Streams

VARIABLES
    rows,        \* the notifications table
    lastSeenId,  \* the fan-out's cursor; None until its first tick
    registry,    \* the open connections of each wallet
    wire,        \* ids written to a connection and not yet read
    passedOver   \* history: ids given up and not shown since

hubVars == <<rows, lastSeenId, registry, wire, passedOver>>

Ids == 1..Len(rows)
RowsFor(w) == {id \in Ids : rows[id] = w}

HubInit ==
    /\ rows = <<>>
    /\ lastSeenId = None
    /\ registry = [w \in Wallets |-> {}]
    /\ wire = [c \in Streams |-> <<>>]
    /\ passedOver = {}

(* The poller's process writes a row.  A fan-out that has not ticked yet will
   start after it, so the streams already open never get it. *)
Record(w) ==
    /\ Len(rows) < MaxRows
    /\ rows' = Append(rows, w)
    /\ passedOver' =
        IF lastSeenId = None /\ registry[w] # {}
        THEN passedOver \cup {Len(rows) + 1}
        ELSE passedOver
    /\ UNCHANGED <<lastSeenId, registry, wire>>

(* ORDER BY id ASC: the k-th is the one with k - 1 below it. *)
Ascending(ids) ==
    [k \in 1..Cardinality(ids) |->
        CHOOSE id \in ids : Cardinality({x \in ids : x < id}) = k - 1]

\* Mutant: the replay starts one id too late.
MissedAfterNext(w, since) ==
    IF since = None THEN <<>> ELSE Ascending({id \in RowsFor(w) : id > since + 1})

(* The ids above `since` that a new stream of w is sent first. *)
Missed(w, since) ==
    IF since = None THEN <<>> ELSE Ascending({id \in RowsFor(w) : id > since})

(* A stream that opens without a cursor starts with the next row. *)
RegisterStream(c, w, since) ==
    /\ wire' = [wire EXCEPT ![c] = Missed(w, since)]
    /\ registry' = [registry EXCEPT ![w] = @ \cup {c}]
    /\ passedOver' =
        IF since = None THEN passedOver \cup RowsFor(w) ELSE passedOver
    /\ UNCHANGED <<rows, lastSeenId>>

\* Mutant: every tick takes the first one's cursor.
FirstUnseenAnew == Len(rows)

FirstUnseen == IF lastSeenId = None THEN Len(rows) ELSE lastSeenId

LastOfBatch ==
    IF Len(rows) - FirstUnseen > MAX_BUFFERED_EVENTS
    THEN FirstUnseen + MAX_BUFFERED_EVENTS
    ELSE Len(rows)

(* The ids of a tick, each of which goes to the open streams of its wallet. *)
Batch == (FirstUnseen + 1)..LastOfBatch

FanoutTick ==
    /\ wire' = [c \in Streams |->
           wire[c] \o Ascending({id \in Batch : c \in registry[rows[id]]})]
    /\ lastSeenId' = LastOfBatch
    /\ UNCHANGED <<rows, registry, passedOver>>

(* The connections in cs close; their frames that were not read are lost. *)
Hangup(cs) ==
    /\ registry' = [w \in Wallets |-> registry[w] \ cs]
    /\ wire' = [c \in Streams |-> IF c \in cs THEN <<>> ELSE wire[c]]
==============================================================================
