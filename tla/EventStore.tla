----------------------------- MODULE EventStore -----------------------------
(***************************************************************************)
(* The indexer's database: the events recorded, the tables derived from    *)
(* them as they arrive, and the webhooks and notifications they cause.     *)
(*                                                                         *)
(* insertEvent stores the row in one statement and derives the tables in   *)
(* later ones; its caller then fills the beneficiary index and queues      *)
(* webhooks and notifications.  SQLite commits each by itself, so an error *)
(* or a crash keeps some of them.                                          *)
(*                                                                         *)
(* There is one token, and a stream_set event carries the sender's whole   *)
(* configuration, as the contract emits it.                                *)
(***************************************************************************)
EXTENDS Integers, Sequences, FiniteSets, FiniteSetsExt, Functions

CONSTANTS
    Chain,      \* Chain[l]: the events of ledger l, in order
    Accounts    \* senders, receivers, grantors and beneficiaries

EventData ==
    [type : {"schedule_created"}, by : Accounts, to : Accounts, schedule : Nat]
        \cup [type : {"claimed", "collected"}, to : Accounts, amount : Nat]
        \cup [type : {"revoked"}, by : Accounts]
        \cup [type : {"stream_set"}, by : Accounts, rates : [Accounts -> Nat]]
        \cup [type : {"squeezed"}, by : Accounts, to : Accounts, hash : Nat]

ASSUME StoreAssumption == Chain \in Seq(Seq(EventData)) /\ Chain # <<>>

Ledgers == DOMAIN Chain

\* An event's id: its ledger and its place in it.
Events == UNION {{<<l, i>> : i \in DOMAIN Chain[l]} : l \in Ledgers}

Data(e) == Chain[e[1]][e[2]]

Type(e) == Data(e).type

Before(e, f) == e[1] < f[1] \/ (e[1] = f[1] /\ e[2] < f[2])

VARIABLES
    stored,     \* schedule_events
    totals,     \* collected_totals: account -> total collected
    rates,      \* drips_streams: rates[s][r], 0 where there is no open stream
    history,    \* stream_history
    squeezes,   \* squeeze_events
    owned,      \* beneficiary_schedules
    fanouts,    \* how often each event was handed to fanOutEvent
    notices     \* app_notifications, one per wallet and event

tables == <<totals, rates, history, squeezes>>
storeVars == <<stored, tables, owned, fanouts, notices>>

StoreInit ==
    /\ stored = {}
    /\ totals = [a \in Accounts |-> 0]
    /\ rates = [s \in Accounts |-> [r \in Accounts |-> 0]]
    /\ history = {}
    /\ squeezes = {}
    /\ owned = {}
    /\ fanouts = [e \in Events |-> 0]
    /\ notices = {}

-----------------------------------------------------------------------------
(* Writing an event *)

\* The columns of the deduplication index.
Content == [e \in Events |-> <<e[1], Data(e)>>]

\* Mutant: a row is always new.
NeverKnown(e) == FALSE

\* The primary key or the deduplication index refuses the row.
Known(e) == \E f \in stored : Content[f] = Content[e]

\* The last rate the history has before event e; the table's where it has none.
PreviousRate(e, r) ==
    LET earlier == {h \in history : h.by = Data(e).by /\ h.to = r /\ Before(h.event, e)}
    IN  IF earlier = {} THEN rates[Data(e).by][r]
        ELSE (CHOOSE h \in earlier : \A g \in earlier : ~Before(h.event, g.event)).new

\* Mutant: receivers the new configuration leaves out keep their streams.
ConfiguredOnly(e) == {r \in Accounts : Data(e).rates[r] > 0}

\* The receivers of the new configuration and those whose streams it closes.
Affected(e) == {r \in Accounts : Data(e).rates[r] > 0 \/ rates[Data(e).by][r] > 0}

StreamRow(e, r) ==
    [event |-> e, by |-> Data(e).by, to |-> r,
     old |-> PreviousRate(e, r), new |-> Data(e).rates[r]]

ApplyStreamState(e) ==
    /\ history' = history \cup
          {h \in {StreamRow(e, r) : r \in Affected(e)} : h.old # h.new}
    /\ rates' = [rates EXCEPT ![Data(e).by] =
          [r \in Accounts |-> IF r \in Affected(e) THEN Data(e).rates[r] ELSE @[r]]]
    /\ UNCHANGED <<totals, squeezes>>

\* A genuine squeeze of the same history is stored.
SqueezedBefore(e) ==
    \E q \in squeezes :
        /\ ~q.duplicate
        /\ Data(q.event).by = Data(e).by /\ Data(q.event).to = Data(e).to
        /\ Data(q.event).hash = Data(e).hash

ApplyEventProjection(e) ==
    \/ /\ Type(e) = "stream_set"
       /\ ApplyStreamState(e)
    \/ /\ Type(e) = "collected"
       /\ totals' = [totals EXCEPT ![Data(e).to] = @ + Data(e).amount]
       /\ UNCHANGED <<rates, history, squeezes>>
    \/ /\ Type(e) = "squeezed"
       /\ squeezes' = squeezes \cup {[event |-> e, duplicate |-> SqueezedBefore(e)]}
       /\ UNCHANGED <<totals, rates, history>>
    \/ /\ Type(e) \notin {"stream_set", "collected", "squeezed"}
       /\ UNCHANGED tables

\* The wallets with a stake in the event, of the types that notify.
Wallets(e) ==
    CASE Type(e) = "schedule_created" -> {Data(e).by, Data(e).to}
      [] Type(e) = "claimed"          -> {Data(e).to}
      [] Type(e) = "revoked"          -> {Data(e).by}
      [] OTHER                        -> {}

\* What of a new event's writes take effect: the row, the derived tables, the
\* index, the webhooks and the notifications, in this order.
Done == {"row", "tables", "index", "webhooks", "notices"}

\* Where an error or a crash may cut the writes off.
CutOff == {{}, {"row"}, {"row", "tables"}, {"row", "tables", "index"},
           {"row", "tables", "index", "webhooks"}, Done}

\* The errors that reach the caller come from the first three; those of the
\* last two are caught, and the others take effect.
Thrown == {{}, {"row"}, {"row", "tables"}}
Caught == {Done \ x : x \in SUBSET {"webhooks", "notices"}}

\* A new event, of whose writes those in w take effect.
WriteEvent(e, w) ==
    /\ stored' = IF "row" \in w THEN stored \cup {e} ELSE stored
    /\ IF "tables" \in w THEN ApplyEventProjection(e) ELSE UNCHANGED tables
    /\ owned' = IF "index" \in w /\ Type(e) = "schedule_created"
                THEN owned \cup {<<Data(e).to, Data(e).schedule>>} ELSE owned
    /\ fanouts' = IF "webhooks" \in w THEN [fanouts EXCEPT ![e] = @ + 1] ELSE fanouts
    /\ notices' = IF "notices" \in w THEN notices \cup (Wallets(e) \X {e}) ELSE notices

\* An event as the poller or the replay engine hands it in.
ProcessEvent(e, w) ==
    \/ ~Known(e) /\ WriteEvent(e, w)
    \/ Known(e) /\ UNCHANGED storeVars

-----------------------------------------------------------------------------
(* What the tables mean, when nothing failed *)

\* A total is the sum of the amounts collected.
TotalsExact ==
    \A a \in Accounts :
        totals[a] = SumFunction([e \in {f \in stored : Type(f) = "collected" /\ Data(f).to = a}
                                    |-> Data(e).amount])

\* The open streams of a sender are its last configuration.
RatesCurrent ==
    \A e \in stored :
        (/\ Type(e) = "stream_set"
         /\ ~\E f \in stored : Type(f) = "stream_set" /\ Data(f).by = Data(e).by /\ Before(e, f))
        => rates[Data(e).by] = Data(e).rates

\* The history of a stream is a chain: each change starts from the rate the one
\* before it set.
HistoryChained ==
    \A g, h \in history :
        (/\ g.by = h.by /\ g.to = h.to /\ Before(g.event, h.event)
         /\ ~\E k \in history : /\ k.by = g.by /\ k.to = g.to
                                /\ Before(g.event, k.event) /\ Before(k.event, h.event))
        => h.old = g.new

\* Of the squeezes of one history, one is genuine.
OneGenuineSqueeze ==
    \A q \in squeezes :
        Cardinality({p \in squeezes : /\ ~p.duplicate
                                      /\ Data(p.event).by = Data(q.event).by
                                      /\ Data(p.event).to = Data(q.event).to
                                      /\ Data(p.event).hash = Data(q.event).hash}) = 1
=============================================================================
