-------------------------- MODULE WebhookDelivery --------------------------
(***************************************************************************)
(* Webhook registration and delivery of the indexer: the queue of          *)
(* deliveries in the database, the worker that leases them, sends them and *)
(* records the answers, and the handlers of the HTTP API that register     *)
(* endpoints and put failed deliveries back.  Worker and API are two       *)
(* processes on one database; the worker's may crash and is restarted.     *)
(*                                                                         *)
(* Time is kept relative to each row: the seconds until it is due and the  *)
(* seconds since it was leased, so the clock itself needs no bound.  Every *)
(* registration subscribes to every event.                                 *)
(***************************************************************************)
EXTENDS Integers, FiniteSets

CONSTANTS
    Registrations,     \* ids createRegistration draws, each at most once
    Events,            \* events the poller indexes
    MAX_ATTEMPTS,      \* attempts before a delivery is dead-lettered
    CONCURRENCY,       \* requests of the worker under way at once
    REQUEST_TIMEOUT,   \* seconds until a request is aborted
    LEASE,             \* seconds an in_flight row may go unfinished
    MaxHandshakes,     \* bound: handshakes under way at once
    MaxCrashes         \* bound: crashes of the worker's process

ASSUME LimitAssumption ==
    /\ MAX_ATTEMPTS \in Nat \ {0} /\ CONCURRENCY \in Nat \ {0}
    /\ MaxHandshakes \in Nat /\ MaxCrashes \in Nat

\* By default 10 and 120 seconds.
ASSUME TimingAssumption ==
    REQUEST_TIMEOUT \in Nat /\ LEASE \in Nat /\ REQUEST_TIMEOUT < LEASE

Deliveries == Registrations \X Events

VARIABLES
    registrations,   \* webhook_registrations: the rows in storage
    created,         \* ids drawn so far
    handshakes,      \* verifyRegistration calls that await an answer
    deliveries,      \* webhook_deliveries: the rows in storage
    fannedOut,       \* events insertEvent reported as new
    tasks,           \* attemptDelivery calls that await an answer
    crashes,         \* crashes so far
    requests,        \* history: requests made since a delivery was queued
    accepted         \* history: deliveries for which the worker got a 2xx

regVars  == <<registrations, created, handshakes>>
history  == <<requests, accepted>>
webVars  == <<regVars, deliveries, fannedOut, tasks, crashes, history>>

Registration == [verified : BOOLEAN, disabled : BOOLEAN]

Terminal == {"delivered", "failed", "dead_lettered"}

\* `wait' counts down to next_attempt_at, `lease' up from claimed_at.
WebhookDelivery ==
    [status : {"pending", "in_flight"} \cup Terminal,
     attempt_count : 0..MAX_ATTEMPTS, wait : Nat, lease : 0..LEASE]

\* `attempt_count' is the row's when the task claimed it.
Task ==
    [delivery : Deliveries, attempt_count : 0..(MAX_ATTEMPTS - 1), age : 0..REQUEST_TIMEOUT]

DeliveryTypeOK ==
    /\ registrations \in [DOMAIN registrations -> Registration]
    /\ DOMAIN registrations \subseteq created /\ created \subseteq Registrations
    /\ handshakes \in [Registrations -> 0..MaxHandshakes]
    /\ DOMAIN deliveries \subseteq (DOMAIN registrations) \X fannedOut
    /\ deliveries \in [DOMAIN deliveries -> WebhookDelivery]
    /\ fannedOut \subseteq Events
    /\ tasks \subseteq Task
    /\ crashes \in 0..MaxCrashes
    /\ requests \in [Deliveries -> Nat]
    /\ accepted \subseteq Deliveries

WebInit ==
    /\ registrations = [r \in {} |-> {}]
    /\ created = {}
    /\ handshakes = [r \in Registrations |-> 0]
    /\ deliveries = [d \in {} |-> {}]
    /\ fannedOut = {}
    /\ tasks = {}
    /\ crashes = 0
    /\ requests = [d \in Deliveries |-> 0]
    /\ accepted = {}

-----------------------------------------------------------------------------
(* The HTTP API *)

CreateRegistration(r) ==
    /\ r \notin created
    /\ created' = created \cup {r}
    /\ registrations' = [q \in (DOMAIN registrations) \cup {r} |->
          IF q = r THEN [verified |-> FALSE, disabled |-> FALSE] ELSE registrations[q]]
    /\ UNCHANGED <<handshakes, deliveries, fannedOut, tasks, crashes, history>>

\* The registration is checked, then the challenge is sent.
StartHandshake(r) ==
    /\ r \in DOMAIN registrations
    /\ ~registrations[r].verified
    /\ handshakes[r] < MaxHandshakes
    /\ handshakes' = [handshakes EXCEPT ![r] = @ + 1]
    /\ UNCHANGED <<registrations, created, deliveries, fannedOut, tasks, crashes, history>>

\* The endpoint echoed the signature; the row may be gone by now.
PassHandshake(r) ==
    /\ handshakes[r] > 0
    /\ handshakes' = [handshakes EXCEPT ![r] = @ - 1]
    /\ registrations' = [q \in DOMAIN registrations |->
          IF q = r THEN [registrations[q] EXCEPT !.verified = TRUE] ELSE registrations[q]]
    /\ UNCHANGED <<created, deliveries, fannedOut, tasks, crashes, history>>

\* Any other answer, or none, deletes the registration and its deliveries,
\* whatever happened to it while the answer was awaited.
FailHandshake(r) ==
    /\ handshakes[r] > 0
    /\ handshakes' = [handshakes EXCEPT ![r] = @ - 1]
    /\ registrations' = [q \in (DOMAIN registrations) \ {r} |-> registrations[q]]
    /\ deliveries' = [d \in {c \in DOMAIN deliveries : c[1] # r} |-> deliveries[d]]
    /\ UNCHANGED <<created, fannedOut, tasks, crashes, history>>

DisableRegistration(r) ==
    /\ r \in DOMAIN registrations
    /\ ~registrations[r].disabled
    /\ registrations' = [registrations EXCEPT ![r].disabled = TRUE]
    /\ UNCHANGED <<created, handshakes, deliveries, fannedOut, tasks, crashes, history>>

\* Mutant: whatever is not under way can be put back.
RequeueableIdle(row) == row.status # "in_flight"

Requeueable(row) == row.status \in {"dead_lettered", "failed"}

\* Mutant: the attempts made so far still count.
RequeuedKeepingAttempts(row) == [row EXCEPT !.status = "pending", !.wait = 0, !.lease = 0]

\* Due at once, with a fresh budget of attempts.
Requeued(row) ==
    [row EXCEPT !.status = "pending", !.attempt_count = 0, !.wait = 0, !.lease = 0]

RequeueDelivery(d) ==
    /\ Requeueable(deliveries[d])
    /\ deliveries' = [deliveries EXCEPT ![d] = Requeued(@)]
    /\ requests' = [requests EXCEPT ![d] = 0]
    /\ UNCHANGED <<regVars, fannedOut, tasks, crashes, accepted>>

-----------------------------------------------------------------------------
(* The poller's process *)

Deliverable(r) ==
    r \in DOMAIN registrations /\ registrations[r].verified /\ ~registrations[r].disabled

\* A row, due at once, for each verified endpoint.
FanOutEvent(e) ==
    LET queued == {<<r, e>> : r \in {q \in DOMAIN registrations : Deliverable(q)}}
    IN  /\ e \notin fannedOut
        /\ fannedOut' = fannedOut \cup {e}
        /\ deliveries' = [d \in (DOMAIN deliveries) \cup queued |->
              IF d \in DOMAIN deliveries THEN deliveries[d]
              ELSE [status |-> "pending", attempt_count |-> 0, wait |-> 0, lease |-> 0]]
        /\ UNCHANGED <<regVars, tasks, crashes, history>>

\* Mutant: a lease is stale as soon as a second has passed.
StaleAtOnce(row) == row.status = "in_flight" /\ row.lease >= 1

Stale(row) == row.status = "in_flight" /\ row.lease >= LEASE

\* Mutant: the lease is renewed instead of given up.
ReclaimedInFlight(row) == [row EXCEPT !.wait = 0, !.lease = 0]

Reclaimed(row) == [row EXCEPT !.status = "pending", !.wait = 0, !.lease = 0]

\* The loop returns all stale rows to the queue.
ReclaimStaleDeliveries ==
    /\ \E d \in DOMAIN deliveries : Stale(deliveries[d])
    /\ deliveries' = [d \in DOMAIN deliveries |->
          IF Stale(deliveries[d]) THEN Reclaimed(deliveries[d]) ELSE deliveries[d]]
    /\ UNCHANGED <<regVars, fannedOut, tasks, crashes, history>>

\* The row of d after an outcome was recorded: each outcome is written only to a
\* row that is still in_flight.
Recorded(d, status, attempts, wait) ==
    [c \in DOMAIN deliveries |->
        IF c = d /\ deliveries[c].status = "in_flight"
        THEN [deliveries[c] EXCEPT !.status = status, !.attempt_count = @ + attempts,
                                   !.wait = wait, !.lease = 0]
        ELSE deliveries[c]]

\* A due row is leased and its request made, or it fails at once: its registration
\* is unusable, or the stored secret cannot be decrypted.
DispatchDue(d) ==
    /\ Cardinality(tasks) < CONCURRENCY
    /\ d \in DOMAIN deliveries
    /\ deliveries[d].status = "pending"
    /\ deliveries[d].wait = 0
    /\ \/ /\ Deliverable(d[1])
          /\ deliveries' = [deliveries EXCEPT ![d].status = "in_flight", ![d].lease = 0]
          /\ tasks' = tasks \cup
                {[delivery |-> d, attempt_count |-> deliveries[d].attempt_count, age |-> 0]}
          /\ requests' = [requests EXCEPT ![d] = @ + 1]
       \/ /\ deliveries' = [deliveries EXCEPT ![d].status = "failed"]
          /\ UNCHANGED <<tasks, requests>>
    /\ UNCHANGED <<regVars, fannedOut, crashes, accepted>>

\* A 2xx answer.
Delivered(t) ==
    /\ deliveries' = Recorded(t.delivery, "delivered", 1, 0)
    /\ accepted' = accepted \cup {t.delivery}

\* 410 Gone; not counted as an attempt.
Gone(t) ==
    /\ deliveries' = Recorded(t.delivery, "failed", 0, 0)
    /\ UNCHANGED accepted

\* Mutant: one attempt too many.
OneTooMany(t) == t.attempt_count >= MAX_ATTEMPTS

\* The attempt just made was the last.
Exhausted(t) == t.attempt_count + 1 >= MAX_ATTEMPTS

\* backoffDelaySeconds
Backoff(attempts) == 2 ^ (attempts - 1)

ASSUME BackoffAssumption == \A n \in 1..MAX_ATTEMPTS : Backoff(n) \in Nat

\* Any other answer, a network error or the abort.
RecordFailure(t) ==
    /\ deliveries' =
          IF Exhausted(t) THEN Recorded(t.delivery, "dead_lettered", 1, 0)
          ELSE Recorded(t.delivery, "pending", 1, Backoff(t.attempt_count + 1))
    /\ UNCHANGED accepted

FinishTask(t) ==
    /\ Delivered(t) \/ Gone(t) \/ RecordFailure(t)
    /\ tasks' = tasks \ {t}
    /\ UNCHANGED <<regVars, fannedOut, crashes, requests>>

\* The process is restarted; its requests are lost, their rows stay in_flight.
Crash ==
    /\ crashes < MaxCrashes
    /\ crashes' = crashes + 1
    /\ tasks' = {}
    /\ UNCHANGED <<regVars, deliveries, fannedOut, history>>

\* A second passes; no request outlives its timeout.
Tick ==
    /\ \A t \in tasks : t.age < REQUEST_TIMEOUT
    /\ tasks' = {[t EXCEPT !.age = @ + 1] : t \in tasks}
    /\ deliveries' = [d \in DOMAIN deliveries |->
          [deliveries[d] EXCEPT
              !.wait  = IF @ > 0 THEN @ - 1 ELSE 0,
              !.lease = IF deliveries[d].status = "in_flight" /\ @ < LEASE THEN @ + 1 ELSE @]]
    /\ UNCHANGED <<regVars, fannedOut, crashes, history>>

-----------------------------------------------------------------------------
ApiStep ==
    \/ \E r \in Registrations :
          \/ CreateRegistration(r) \/ DisableRegistration(r)
          \/ StartHandshake(r) \/ PassHandshake(r) \/ FailHandshake(r)
    \/ \E d \in DOMAIN deliveries : RequeueDelivery(d)

WorkerStep ==
    \/ \E e \in Events : FanOutEvent(e)
    \/ ReclaimStaleDeliveries
    \/ \E d \in Deliveries : DispatchDue(d)
    \/ \E t \in tasks : FinishTask(t)
    \/ Crash

WebNext == ApiStep \/ WorkerStep \/ Tick

WebSpec == WebInit /\ [][WebNext]_webVars

\* Time passes, the loop keeps reclaiming, each request ends, and a due row, which
\* only rows due before it can overtake, gets a free slot in the end.
WebFairness ==
    /\ WF_webVars(Tick)
    /\ WF_webVars(ReclaimStaleDeliveries)
    /\ \A d \in Deliveries :
          /\ SF_webVars(DispatchDue(d))
          /\ WF_webVars(\E t \in tasks : t.delivery = d /\ FinishTask(t))

FairWebSpec == WebSpec /\ WebFairness

-----------------------------------------------------------------------------
(* Properties *)

\* A delivery is never sent twice at the same time: leases, retries, crashes and
\* requeues leave at most one request under way for it, and a request under way
\* has its row in flight, unless the row was deleted.
OneSender ==
    \A t \in tasks :
        /\ \A u \in tasks : u.delivery = t.delivery => u = t
        /\ t.delivery \in DOMAIN deliveries =>
              /\ deliveries[t.delivery].status = "in_flight"
              /\ deliveries[t.delivery].attempt_count = t.attempt_count

\* An endpoint gets a delivery at most MAX_ATTEMPTS times until somebody puts it
\* back, and once more for each crash, whose requests are not counted as attempts.
RequestsBounded == \A d \in Deliveries : requests[d] <= MAX_ATTEMPTS + crashes

\* A delivery the worker has seen accepted is never sent again, not even when
\* deliveries are put back by hand.
AcceptedIsNotResent ==
    [][\A d \in accepted : requests'[d] <= requests[d]]_webVars

\* "No delivery is ever stuck": each one queued ends as delivered, failed or
\* dead-lettered, or goes with its registration, although the worker may crash.
EventuallySettled ==
    \A d \in Deliveries :
        d \in DOMAIN deliveries ~>
            (d \in DOMAIN deliveries => deliveries[d].status \in Terminal)
=============================================================================
