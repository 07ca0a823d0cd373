--------------------------- MODULE WebhookProofs ---------------------------
(***************************************************************************)
(* Proofs about WebhookDelivery: the type invariant, OneSender,            *)
(* RequestsBounded and AcceptedIsNotResent for every value of the          *)
(* constants.                                                              *)
(***************************************************************************)
EXTENDS WebhookDelivery, TLAPS

(* The inductive invariant *)

\* A request for d is under way.
UnderWay(d) == \E t \in tasks : t.delivery = d

\* Each request belongs to an event that was fanned out and is as old as the lease
\* of its row.
TasksHoldLeases ==
    \A t \in tasks :
        /\ t.delivery[2] \in fannedOut
        /\ t.delivery \in DOMAIN deliveries => deliveries[t.delivery].lease = t.age

\* A row that may be sent has attempts left, and the requests made for it are the
\* attempts counted, those lost in crashes and the one under way.
RequestsCounted ==
    \A d \in DOMAIN deliveries :
        deliveries[d].status \notin Terminal =>
            /\ deliveries[d].attempt_count < MAX_ATTEMPTS
            /\ requests[d] <= deliveries[d].attempt_count + crashes + 1
            /\ ~UnderWay(d) => requests[d] <= deliveries[d].attempt_count + crashes

\* Nothing was requested for an event that was not fanned out.
NoneBeforeFanOut ==
    \A d \in Deliveries : d[2] \notin fannedOut => requests[d] = 0

\* What was accepted is not under way and its row, if there is one, is settled.
AcceptedSettled ==
    \A d \in accepted :
        /\ d[2] \in fannedOut
        /\ ~UnderWay(d)
        /\ d \in DOMAIN deliveries => deliveries[d].status = "delivered"

WInv ==
    /\ DeliveryTypeOK
    /\ OneSender
    /\ TasksHoldLeases
    /\ RequestsCounted
    /\ RequestsBounded
    /\ NoneBeforeFanOut
    /\ AcceptedSettled

\* The invariant holds of an empty database.
LEMMA InitWInv == WebInit => WInv
BY LimitAssumption, TimingAssumption
   DEF WebInit, WInv, DeliveryTypeOK, OneSender, TasksHoldLeases, RequestsCounted,
       RequestsBounded, NoneBeforeFanOut, AcceptedSettled

-----------------------------------------------------------------------------
(* Rows *)

\* The fields of a row and of a request.
LEMMA RowFields ==
  ASSUME WInv
  PROVE  /\ \A d \in DOMAIN deliveries :
               /\ d \in Deliveries /\ d[1] \in DOMAIN registrations /\ d[2] \in fannedOut
               /\ deliveries[d] \in WebhookDelivery
               /\ deliveries[d].attempt_count \in 0..MAX_ATTEMPTS
               /\ deliveries[d].wait \in Nat /\ deliveries[d].lease \in 0..LEASE
         /\ \A t \in tasks :
               /\ t \in Task /\ t.delivery \in Deliveries
               /\ t.attempt_count \in 0..(MAX_ATTEMPTS - 1) /\ t.age \in 0..REQUEST_TIMEOUT
         /\ crashes \in Nat
         /\ requests \in [Deliveries -> Nat]
<1> USE DEF WInv
<1>1. /\ DOMAIN deliveries \subseteq (DOMAIN registrations) \X fannedOut
      /\ DOMAIN registrations \subseteq Registrations /\ fannedOut \subseteq Events
  BY DEF DeliveryTypeOK
<1>2. ASSUME NEW d \in DOMAIN deliveries
      PROVE  d \in Deliveries /\ d[1] \in DOMAIN registrations /\ d[2] \in fannedOut
  BY <1>1 DEF Deliveries
<1>3. ASSUME NEW d \in DOMAIN deliveries
      PROVE  /\ deliveries[d] \in WebhookDelivery
             /\ deliveries[d].attempt_count \in 0..MAX_ATTEMPTS
             /\ deliveries[d].wait \in Nat /\ deliveries[d].lease \in 0..LEASE
  <2>1. deliveries[d] \in WebhookDelivery
    BY DEF DeliveryTypeOK
  <2>2. QED
    BY <2>1 DEF WebhookDelivery
<1>4. ASSUME NEW t \in tasks
      PROVE  /\ t \in Task /\ t.delivery \in Deliveries
             /\ t.attempt_count \in 0..(MAX_ATTEMPTS - 1) /\ t.age \in 0..REQUEST_TIMEOUT
  <2>1. t \in Task
    BY DEF DeliveryTypeOK
  <2>2. QED
    BY <2>1 DEF Task
<1>5. crashes \in Nat /\ requests \in [Deliveries -> Nat]
  BY LimitAssumption DEF DeliveryTypeOK
<1>6. QED
  BY <1>2, <1>3, <1>4, <1>5

\* A row is again a row after any of its fields was set.
LEMMA RowUpdate ==
  ASSUME NEW row \in WebhookDelivery,
         NEW st \in {"pending", "in_flight"} \cup Terminal,
         NEW n \in 0..MAX_ATTEMPTS, NEW w \in Nat, NEW l \in 0..LEASE
  PROVE  /\ [row EXCEPT !.status = st, !.attempt_count = n, !.wait = w, !.lease = l]
                \in WebhookDelivery
         /\ [row EXCEPT !.status = st, !.wait = w, !.lease = l] \in WebhookDelivery
         /\ [row EXCEPT !.wait = w, !.lease = l] \in WebhookDelivery
         /\ [row EXCEPT !.status = st, !.lease = l] \in WebhookDelivery
         /\ [row EXCEPT !.status = st] \in WebhookDelivery
BY DEF WebhookDelivery

-----------------------------------------------------------------------------
(* The HTTP API *)

\* The API's handlers for registrations leave the worker alone.
LEMMA CreateRegistrationStep ==
  ASSUME WInv, NEW r \in Registrations, CreateRegistration(r)
  PROVE  WInv'
<1> USE DEF WInv, CreateRegistration, history
<1>1. DeliveryTypeOK'
  BY DEF DeliveryTypeOK, Registration
<1>2. QED
  BY <1>1 DEF OneSender, TasksHoldLeases, RequestsCounted, RequestsBounded,
              NoneBeforeFanOut, AcceptedSettled, UnderWay

\* A handshake that begins touches no delivery.
LEMMA StartHandshakeStep ==
  ASSUME WInv, NEW r \in Registrations, StartHandshake(r)
  PROVE  WInv'
<1> USE DEF WInv, StartHandshake, history
<1>1. DeliveryTypeOK'
  BY LimitAssumption DEF DeliveryTypeOK
<1>2. QED
  BY <1>1 DEF OneSender, TasksHoldLeases, RequestsCounted, RequestsBounded,
              NoneBeforeFanOut, AcceptedSettled, UnderWay

\* One that passes enables the registration and touches no delivery.
LEMMA PassHandshakeStep ==
  ASSUME WInv, NEW r \in Registrations, PassHandshake(r)
  PROVE  WInv'
<1> USE DEF WInv, PassHandshake, history
<1>1. DeliveryTypeOK'
  <2>1. ASSUME NEW q \in DOMAIN registrations
        PROVE  registrations'[q] \in Registration
    <3>1. registrations[q] \in Registration
      BY DEF DeliveryTypeOK
    <3>2. QED
      BY <3>1 DEF Registration
  <2>2. registrations' \in [DOMAIN registrations' -> Registration]
    BY <2>1
  <2>3. handshakes' \in [Registrations -> 0..MaxHandshakes]
    BY LimitAssumption DEF DeliveryTypeOK
  <2>4. QED
    BY <2>2, <2>3 DEF DeliveryTypeOK
<1>2. QED
  BY <1>1 DEF OneSender, TasksHoldLeases, RequestsCounted, RequestsBounded,
              NoneBeforeFanOut, AcceptedSettled, UnderWay

\* One that fails deletes the registration with its deliveries, and nobody else's.
LEMMA FailHandshakeStep ==
  ASSUME WInv, NEW r \in Registrations, FailHandshake(r)
  PROVE  WInv'
<1> USE DEF WInv, FailHandshake, history
<1>1. DeliveryTypeOK'
  <2>1. /\ registrations' \in [DOMAIN registrations' -> Registration]
        /\ DOMAIN registrations' = (DOMAIN registrations) \ {r}
    BY DEF DeliveryTypeOK
  <2>2. /\ DOMAIN deliveries' = {d \in DOMAIN deliveries : d[1] # r}
        /\ \A d \in DOMAIN deliveries' : deliveries'[d] = deliveries[d]
    OBVIOUS
  <2>3. DOMAIN deliveries' \subseteq (DOMAIN registrations') \X fannedOut
    <3>1. ASSUME NEW d \in DOMAIN deliveries'
          PROVE  d \in (DOMAIN registrations') \X fannedOut
      <4>1. d \in (DOMAIN registrations) \X fannedOut /\ d[1] # r
        BY <2>2 DEF DeliveryTypeOK
      <4>2. QED
        BY <2>1, <4>1
    <3>2. QED
      BY <3>1
  <2>4. deliveries' \in [DOMAIN deliveries' -> WebhookDelivery]
    BY <2>2 DEF DeliveryTypeOK
  <2>5. handshakes' \in [Registrations -> 0..MaxHandshakes]
    BY LimitAssumption DEF DeliveryTypeOK
  <2>6. QED
    BY <2>1, <2>3, <2>4, <2>5 DEF DeliveryTypeOK
<1>2. QED
  BY <1>1 DEF OneSender, TasksHoldLeases, RequestsCounted, RequestsBounded,
              NoneBeforeFanOut, AcceptedSettled, UnderWay

\* Disabling a registration touches no delivery.
LEMMA DisableRegistrationStep ==
  ASSUME WInv, NEW r \in Registrations, DisableRegistration(r)
  PROVE  WInv'
<1> USE DEF WInv, DisableRegistration, history
<1>1. DeliveryTypeOK'
  BY DEF DeliveryTypeOK, Registration
<1>2. QED
  BY <1>1 DEF OneSender, TasksHoldLeases, RequestsCounted, RequestsBounded,
              NoneBeforeFanOut, AcceptedSettled, UnderWay
-----------------------------------------------------------------------------
(* The worker *)

\* A row that somebody puts back has no request under way and starts afresh.
LEMMA RequeueStep ==
  ASSUME WInv, NEW d \in DOMAIN deliveries, RequeueDelivery(d)
  PROVE  WInv'
<1> USE DEF WInv, RequeueDelivery, regVars
<1>1. /\ d \in Deliveries /\ deliveries[d] \in WebhookDelivery
      /\ crashes \in Nat /\ requests \in [Deliveries -> Nat]
  BY RowFields
<1>2. Requeued(deliveries[d]) \in WebhookDelivery
  <2>1. 0 \in 0..MAX_ATTEMPTS /\ 0 \in 0..LEASE /\ 0 \in Nat
    BY LimitAssumption, TimingAssumption
  <2>2. QED
    BY <1>1, <2>1, RowUpdate DEF Requeued
<1>3. /\ Requeued(deliveries[d]).status = "pending"
      /\ Requeued(deliveries[d]).attempt_count = 0
  BY <1>1 DEF Requeued, WebhookDelivery
<1>4. ~UnderWay(d) /\ d \notin accepted
  BY DEF Requeueable, OneSender, AcceptedSettled, UnderWay
<1>5. /\ DOMAIN deliveries' = DOMAIN deliveries
      /\ deliveries'[d] = Requeued(deliveries[d])
      /\ \A c \in DOMAIN deliveries : c # d => deliveries'[c] = deliveries[c]
      /\ requests'[d] = 0
      /\ \A c \in Deliveries : c # d => requests'[c] = requests[c]
  BY <1>1
<1>6. DeliveryTypeOK'
  BY <1>1, <1>2, <1>5 DEF DeliveryTypeOK
<1>7. OneSender' /\ TasksHoldLeases'
  BY <1>4, <1>5 DEF OneSender, TasksHoldLeases, UnderWay
<1>8. RequestsCounted'
  BY <1>1, <1>3, <1>5, LimitAssumption, RowFields DEF RequestsCounted, UnderWay
<1>9. RequestsBounded' /\ NoneBeforeFanOut'
  BY <1>1, <1>5, LimitAssumption DEF RequestsBounded, NoneBeforeFanOut
<1>10. AcceptedSettled'
  BY <1>4, <1>5 DEF AcceptedSettled, UnderWay
<1>11. QED
  BY <1>6, <1>7, <1>8, <1>9, <1>10

\* A row that is new belongs to an event nothing was requested for.
LEMMA FanOutStep ==
  ASSUME WInv, NEW e \in Events, FanOutEvent(e)
  PROVE  WInv'
<1> DEFINE queued == {<<r, e>> : r \in {q \in DOMAIN registrations : Deliverable(q)}}
           fresh  == [status |-> "pending", attempt_count |-> 0, wait |-> 0, lease |-> 0]
<1> USE DEF WInv, FanOutEvent, regVars, history
<1>1. /\ queued \subseteq (DOMAIN registrations) \X {e}
      /\ DOMAIN registrations \subseteq Registrations
  BY DEF DeliveryTypeOK
<1>2. fresh \in WebhookDelivery
  BY LimitAssumption, TimingAssumption DEF WebhookDelivery
<1>3. /\ DOMAIN deliveries' = (DOMAIN deliveries) \cup queued
      /\ \A d \in DOMAIN deliveries : deliveries'[d] = deliveries[d]
      /\ \A d \in queued : d \notin DOMAIN deliveries => deliveries'[d] = fresh
  OBVIOUS
<1> HIDE DEF queued
<1>4. ASSUME NEW d \in queued
      PROVE  /\ d \in Deliveries /\ d[2] = e /\ d[2] \notin fannedOut
             /\ d \in (DOMAIN registrations) \X (fannedOut \cup {e})
             /\ d \notin DOMAIN deliveries /\ ~UnderWay(d) /\ d \notin accepted
             /\ requests[d] = 0
  <2>1. /\ d \in (DOMAIN registrations) \X (fannedOut \cup {e})
        /\ d \in Deliveries /\ d[2] = e /\ d[2] \notin fannedOut
    BY <1>1 DEF Deliveries
  <2>2. d \notin DOMAIN deliveries
    BY <2>1, RowFields
  <2>3. ~UnderWay(d) /\ d \notin accepted /\ requests[d] = 0
    BY <2>1 DEF UnderWay, TasksHoldLeases, AcceptedSettled, NoneBeforeFanOut
  <2>4. QED
    BY <2>1, <2>2, <2>3
<1>5. DeliveryTypeOK'
  <2>1. DOMAIN deliveries' \subseteq (DOMAIN registrations) \X (fannedOut \cup {e})
    BY <1>3, <1>4 DEF DeliveryTypeOK
  <2>2. deliveries' \in [DOMAIN deliveries' -> WebhookDelivery]
    BY <1>2, <1>3, <1>4 DEF DeliveryTypeOK
  <2>3. QED
    BY <2>1, <2>2 DEF DeliveryTypeOK
<1>6. OneSender' /\ TasksHoldLeases'
  BY <1>3, <1>4 DEF OneSender, TasksHoldLeases, UnderWay
<1>7. RequestsCounted'
  <2>1. ASSUME NEW d \in queued
        PROVE  deliveries'[d].attempt_count = 0 /\ requests'[d] = 0
    BY <1>3, <1>4
  <2>2. QED
    <3>1. ASSUME NEW d \in DOMAIN deliveries', deliveries'[d].status \notin Terminal
          PROVE  /\ deliveries'[d].attempt_count < MAX_ATTEMPTS
                 /\ requests'[d] <= deliveries'[d].attempt_count + crashes' + 1
                 /\ ~UnderWay(d) => requests'[d] <= deliveries'[d].attempt_count + crashes'
      <4>1. CASE d \in DOMAIN deliveries
        BY <1>3, <3>1, <4>1 DEF RequestsCounted
      <4>2. CASE d \in queued
        <5>1. crashes' \in Nat
          BY RowFields
        <5>2. deliveries'[d].attempt_count = 0 /\ requests'[d] = 0
          BY <2>1, <4>2
        <5>3. QED
          BY <5>1, <5>2, LimitAssumption
      <4>3. QED
        BY <1>3, <3>1, <4>1, <4>2
    <3>2. QED
      BY <3>1 DEF RequestsCounted, UnderWay
<1>8. RequestsBounded' /\ NoneBeforeFanOut'
  BY DEF RequestsBounded, NoneBeforeFanOut
<1>9. AcceptedSettled'
  BY <1>3, <1>4 DEF AcceptedSettled, UnderWay
<1>10. QED
  BY <1>5, <1>6, <1>7, <1>8, <1>9

\* A lease cannot run out while its request is under way.
LEMMA ReclaimStep ==
  ASSUME WInv, ReclaimStaleDeliveries
  PROVE  WInv'
<1> USE DEF WInv, ReclaimStaleDeliveries, regVars, history
<1>1. ASSUME NEW d \in DOMAIN deliveries, Stale(deliveries[d])
      PROVE  /\ Reclaimed(deliveries[d]) \in WebhookDelivery
             /\ Reclaimed(deliveries[d]).status = "pending"
             /\ Reclaimed(deliveries[d]).attempt_count = deliveries[d].attempt_count
             /\ ~UnderWay(d) /\ d \notin accepted
  <2>1. deliveries[d] \in WebhookDelivery
    BY RowFields
  <2>2. Reclaimed(deliveries[d]) \in WebhookDelivery
    <3>1. 0 \in 0..LEASE /\ 0 \in Nat /\ 0 \in 0..MAX_ATTEMPTS
      BY TimingAssumption, LimitAssumption
    <3>2. "pending" \in {"pending", "in_flight"} \cup Terminal
      OBVIOUS
    <3>3. [deliveries[d] EXCEPT !.status = "pending", !.wait = 0, !.lease = 0]
              \in WebhookDelivery
      BY <2>1, <3>1, <3>2, RowUpdate
    <3>4. QED
      BY <3>3 DEF Reclaimed
  <2>3. /\ Reclaimed(deliveries[d]).status = "pending"
        /\ Reclaimed(deliveries[d]).attempt_count = deliveries[d].attempt_count
    BY <2>1 DEF Reclaimed, WebhookDelivery
  <2>4. ASSUME NEW t \in tasks, t.delivery = d PROVE FALSE
    <3>1. t.age \in 0..REQUEST_TIMEOUT /\ deliveries[d].lease = t.age
      BY <2>4, RowFields DEF TasksHoldLeases
    <3>2. QED
      BY <1>1, <3>1, TimingAssumption DEF Stale
  <2>5. d \notin accepted
    BY <1>1 DEF Stale, AcceptedSettled
  <2>6. QED
    BY <2>2, <2>3, <2>4, <2>5 DEF UnderWay
<1>2. /\ DOMAIN deliveries' = DOMAIN deliveries
      /\ \A d \in DOMAIN deliveries :
            deliveries'[d] = IF Stale(deliveries[d]) THEN Reclaimed(deliveries[d])
                             ELSE deliveries[d]
  OBVIOUS
<1>3. DeliveryTypeOK'
  BY <1>1, <1>2 DEF DeliveryTypeOK
<1>4. OneSender' /\ TasksHoldLeases'
  BY <1>1, <1>2 DEF OneSender, TasksHoldLeases, UnderWay
<1>5. RequestsCounted'
  BY <1>1, <1>2 DEF RequestsCounted, UnderWay, Stale, Terminal
<1>6. RequestsBounded' /\ NoneBeforeFanOut'
  BY DEF RequestsBounded, NoneBeforeFanOut
<1>7. AcceptedSettled'
  BY <1>1, <1>2 DEF AcceptedSettled, UnderWay
<1>8. QED
  BY <1>3, <1>4, <1>5, <1>6, <1>7
\* A delivery that is leased has attempts left and no other request under way.
LEMMA DispatchStep ==
  ASSUME WInv, NEW d \in Deliveries, DispatchDue(d)
  PROVE  WInv'
<1> DEFINE new  == [delivery |-> d, attempt_count |-> deliveries[d].attempt_count, age |-> 0]
           sent == /\ deliveries' = [deliveries EXCEPT ![d].status = "in_flight", ![d].lease = 0]
                   /\ tasks' = tasks \cup {new}
                   /\ requests' = [requests EXCEPT ![d] = @ + 1]
           dead == /\ deliveries' = [deliveries EXCEPT ![d].status = "failed"]
                   /\ UNCHANGED <<tasks, requests>>
<1> USE DEF WInv, regVars
<1>1. /\ d \in DOMAIN deliveries /\ deliveries[d].status = "pending"
      /\ sent \/ dead
      /\ UNCHANGED <<registrations, created, handshakes, fannedOut, crashes, accepted>>
  BY DEF DispatchDue
<1>2. /\ deliveries[d] \in WebhookDelivery /\ d[2] \in fannedOut
      /\ deliveries[d].attempt_count \in 0..MAX_ATTEMPTS
      /\ crashes \in Nat /\ requests \in [Deliveries -> Nat]
      /\ deliveries \in [DOMAIN deliveries -> WebhookDelivery]
  BY <1>1, RowFields DEF DeliveryTypeOK
<1>3. /\ ~UnderWay(d) /\ d \notin accepted
      /\ deliveries[d].attempt_count < MAX_ATTEMPTS
      /\ requests[d] <= deliveries[d].attempt_count + crashes
  BY <1>1 DEF OneSender, AcceptedSettled, RequestsCounted, UnderWay, Terminal
<1>4. CASE sent
  <2>1. /\ DOMAIN deliveries' = DOMAIN deliveries
        /\ \A c \in DOMAIN deliveries : c # d => deliveries'[c] = deliveries[c]
        /\ deliveries'[d] = [deliveries[d] EXCEPT !.status = "in_flight", !.lease = 0]
        /\ tasks' = tasks \cup {new}
    BY <1>1, <1>2, <1>4
  <2>2. /\ deliveries'[d].status = "in_flight" /\ deliveries'[d].lease = 0
        /\ deliveries'[d].attempt_count = deliveries[d].attempt_count
    BY <1>2, <2>1 DEF WebhookDelivery
  <2>3. deliveries'[d] \in WebhookDelivery
    <3>1. 0 \in 0..LEASE /\ "in_flight" \in {"pending", "in_flight"} \cup Terminal
      BY TimingAssumption
    <3>2. 0 \in Nat /\ 0 \in 0..MAX_ATTEMPTS
      BY LimitAssumption
    <3>3. [deliveries[d] EXCEPT !.status = "in_flight", !.lease = 0] \in WebhookDelivery
      BY <1>2, <3>1, <3>2, RowUpdate
    <3>4. QED
      BY <2>1, <3>3
  <2>4. requests'[d] = requests[d] + 1 /\ \A c \in Deliveries : c # d => requests'[c] = requests[c]
    BY <1>2, <1>4
  <2>5. new \in Task
    BY <1>2, <1>3, LimitAssumption, TimingAssumption DEF Task
  <2>6. DeliveryTypeOK'
    <3>1. deliveries' \in [DOMAIN deliveries' -> WebhookDelivery]
      BY <1>2, <1>4, <2>1, <2>3
    <3>2. requests' \in [Deliveries -> Nat]
      BY <1>2, <1>4
    <3>3. tasks' \subseteq Task
      BY <2>1, <2>5 DEF DeliveryTypeOK
    <3>4. QED
      BY <1>1, <2>1, <3>1, <3>2, <3>3 DEF DeliveryTypeOK
  <2>7. OneSender' /\ TasksHoldLeases'
    <3>1. ASSUME NEW t \in tasks PROVE t.delivery # d
      BY <1>3 DEF UnderWay
    <3>2. new.delivery = d /\ new.attempt_count = deliveries[d].attempt_count /\ new.age = 0
      OBVIOUS
    <3> HIDE DEF new, WInv
    <3>3. ASSUME NEW t \in tasks'
          PROVE  /\ \A u \in tasks' : u.delivery = t.delivery => u = t
                 /\ t.delivery[2] \in fannedOut
                 /\ t.delivery \in DOMAIN deliveries' =>
                       /\ deliveries'[t.delivery].status = "in_flight"
                       /\ deliveries'[t.delivery].attempt_count = t.attempt_count
                       /\ deliveries'[t.delivery].lease = t.age
      <4>1. CASE t = new
        BY <1>2, <2>1, <2>2, <3>1, <3>2, <4>1
      <4>2. CASE t \in tasks
        <5>1. t.delivery # d
          BY <3>1, <4>2
        <5>2. \A u \in tasks : u.delivery = t.delivery => u = t
          BY <4>2 DEF WInv, OneSender
        <5>3. /\ t.delivery[2] \in fannedOut
              /\ t.delivery \in DOMAIN deliveries =>
                    /\ deliveries[t.delivery].status = "in_flight"
                    /\ deliveries[t.delivery].attempt_count = t.attempt_count
                    /\ deliveries[t.delivery].lease = t.age
          BY <4>2 DEF WInv, OneSender, TasksHoldLeases
        <5>4. QED
          BY <2>1, <3>2, <5>1, <5>2, <5>3
      <4>3. QED
        BY <2>1, <4>1, <4>2
    <3>4. QED
      BY <1>1, <3>3 DEF OneSender, TasksHoldLeases
  <2>8. RequestsCounted'
    <3>1. UnderWay(d)'
      <4>1. new \in tasks' /\ new.delivery = d
        BY <2>1
      <4>2. QED
        BY <4>1, Zenon DEF UnderWay
    <3>2. ASSUME NEW c \in DOMAIN deliveries PROVE UnderWay(c) => UnderWay(c)'
      <4>1. \A t \in tasks : t \in tasks'
        BY <2>1, Zenon
      <4>2. QED
        BY <4>1, Zenon DEF UnderWay
    <3>3. ASSUME NEW c \in DOMAIN deliveries, c # d PROVE requests'[c] = requests[c]
      <4>1. c \in Deliveries
        BY RowFields
      <4>2. QED
        BY <2>4, <3>3, <4>1
    <3>4. /\ deliveries'[d].attempt_count < MAX_ATTEMPTS
          /\ requests'[d] <= deliveries'[d].attempt_count + crashes + 1
      BY <1>2, <1>3, <2>2, <2>4
    <3>5. QED
      BY <1>1, <2>1, <3>1, <3>2, <3>3, <3>4 DEF RequestsCounted
  <2>9. RequestsBounded' /\ NoneBeforeFanOut'
    BY <1>1, <1>2, <1>3, <2>4, LimitAssumption DEF RequestsBounded, NoneBeforeFanOut
  <2>10. AcceptedSettled'
    BY <1>1, <1>3, <2>1 DEF AcceptedSettled, UnderWay
  <2>11. QED
    BY <2>6, <2>7, <2>8, <2>9, <2>10
<1>5. CASE dead
  <2>1. /\ DOMAIN deliveries' = DOMAIN deliveries
        /\ \A c \in DOMAIN deliveries : c # d => deliveries'[c] = deliveries[c]
        /\ deliveries'[d] = [deliveries[d] EXCEPT !.status = "failed"]
        /\ tasks' = tasks /\ requests' = requests
    BY <1>1, <1>2, <1>5
  <2>2. deliveries'[d].status = "failed" /\ deliveries'[d] \in WebhookDelivery
    <3>1. [deliveries[d] EXCEPT !.status = "failed"].status = "failed"
      BY <1>2 DEF WebhookDelivery
    <3>2. "failed" \in {"pending", "in_flight"} \cup Terminal
      BY DEF Terminal
    <3>3. [deliveries[d] EXCEPT !.status = "failed"] \in WebhookDelivery
      BY <1>2, <3>2 DEF WebhookDelivery
    <3>4. QED
      BY <2>1, <3>1, <3>3
  <2>3. DeliveryTypeOK'
    BY <1>1, <1>2, <2>1, <2>2 DEF DeliveryTypeOK
  <2>4. OneSender' /\ TasksHoldLeases'
    BY <1>1, <1>3, <2>1 DEF OneSender, TasksHoldLeases, UnderWay
  <2>5. RequestsCounted'
    BY <1>1, <2>1, <2>2 DEF RequestsCounted, UnderWay, Terminal
  <2>6. RequestsBounded' /\ NoneBeforeFanOut' /\ AcceptedSettled'
    BY <1>1, <1>3, <2>1
       DEF RequestsBounded, NoneBeforeFanOut, AcceptedSettled, UnderWay
  <2>7. QED
    BY <2>3, <2>4, <2>5, <2>6
<1>6. QED
  BY <1>1, <1>4, <1>5
\* An outcome is recorded in the row its request was made for and nowhere else.
LEMMA RecordedRow ==
  ASSUME WInv, NEW t \in tasks, NEW st \in {"pending"} \cup Terminal,
         NEW n \in {0, 1}, NEW w \in Nat,
         deliveries' = Recorded(t.delivery, st, n, w)
  PROVE  /\ DOMAIN deliveries' = DOMAIN deliveries
         /\ \A c \in DOMAIN deliveries : c # t.delivery => deliveries'[c] = deliveries[c]
         /\ t.delivery \in DOMAIN deliveries =>
               /\ deliveries'[t.delivery] \in WebhookDelivery
               /\ deliveries'[t.delivery].status = st
               /\ deliveries'[t.delivery].attempt_count = t.attempt_count + n
<1> DEFINE d == t.delivery
<1>1. /\ DOMAIN deliveries' = DOMAIN deliveries
      /\ \A c \in DOMAIN deliveries : c # d => deliveries'[c] = deliveries[c]
  BY DEF Recorded
<1>2. ASSUME d \in DOMAIN deliveries
      PROVE  /\ deliveries'[d] \in WebhookDelivery
             /\ deliveries'[d].status = st
             /\ deliveries'[d].attempt_count = t.attempt_count + n
  <2>1. /\ deliveries[d].status = "in_flight"
        /\ deliveries[d].attempt_count = t.attempt_count
    BY <1>2 DEF WInv, OneSender
  <2>2. deliveries[d] \in WebhookDelivery /\ t.attempt_count \in 0..(MAX_ATTEMPTS - 1)
    BY <1>2, RowFields
  <2>3. deliveries'[d] = [deliveries[d] EXCEPT !.status = st, !.attempt_count = @ + n,
                                               !.wait = w, !.lease = 0]
    BY <1>2, <2>1 DEF Recorded
  <2>4. deliveries'[d] = [deliveries[d] EXCEPT !.status = st,
                                               !.attempt_count = t.attempt_count + n,
                                               !.wait = w, !.lease = 0]
    BY <2>1, <2>3
  <2>5. /\ t.attempt_count + n \in 0..MAX_ATTEMPTS /\ 0 \in 0..LEASE
        /\ st \in {"pending", "in_flight"} \cup Terminal
    BY <2>2, LimitAssumption, TimingAssumption
  <2>6. [deliveries[d] EXCEPT !.status = st, !.attempt_count = t.attempt_count + n,
                              !.wait = w, !.lease = 0] \in WebhookDelivery
    BY <2>2, <2>5, RowUpdate
  <2>7. /\ deliveries'[d].status = st
        /\ deliveries'[d].attempt_count = t.attempt_count + n
    BY <2>2, <2>4 DEF WebhookDelivery
  <2>8. QED
    BY <2>4, <2>6, <2>7
<1>3. QED
  BY <1>1, <1>2

\* Recording an outcome and ending the task keeps the invariant, if a row that goes
\* back to the queue has attempts left and only a delivered one counts as accepted.
LEMMA OutcomeStep ==
  ASSUME WInv, NEW t \in tasks, NEW st \in {"pending"} \cup Terminal,
         NEW n \in {0, 1}, NEW w \in Nat,
         deliveries' = Recorded(t.delivery, st, n, w),
         st = "pending" => n = 1 /\ t.attempt_count + 1 < MAX_ATTEMPTS,
         \/ accepted' = accepted
         \/ accepted' = accepted \cup {t.delivery} /\ st = "delivered",
         tasks' = tasks \ {t},
         UNCHANGED <<regVars, fannedOut, crashes, requests>>
  PROVE  WInv'
<1> DEFINE d == t.delivery
<1>1. /\ DOMAIN deliveries' = DOMAIN deliveries
      /\ \A c \in DOMAIN deliveries : c # d => deliveries'[c] = deliveries[c]
      /\ d \in DOMAIN deliveries =>
            /\ deliveries'[d] \in WebhookDelivery
            /\ deliveries'[d].status = st
            /\ deliveries'[d].attempt_count = t.attempt_count + n
  BY RecordedRow
<1>2. /\ t.attempt_count \in 0..(MAX_ATTEMPTS - 1) /\ d \in Deliveries
      /\ d[2] \in fannedOut /\ crashes \in Nat /\ requests \in [Deliveries -> Nat]
  BY RowFields DEF WInv, TasksHoldLeases
<1>3. /\ UnderWay(d) /\ d \notin accepted
      /\ d \in DOMAIN deliveries =>
            /\ deliveries[d].status = "in_flight"
            /\ deliveries[d].attempt_count = t.attempt_count
  BY DEF WInv, OneSender, AcceptedSettled, UnderWay
<1>4. \A u \in tasks' : u \in tasks /\ u.delivery # d
  BY DEF WInv, OneSender
<1>5. UNCHANGED <<registrations, created, handshakes, fannedOut, crashes, requests>>
  BY DEF regVars
<1> HIDE DEF d
<1>6. DeliveryTypeOK'
  <2>1. deliveries' \in [DOMAIN deliveries' -> WebhookDelivery]
    <3>1. ASSUME NEW c \in DOMAIN deliveries PROVE deliveries'[c] \in WebhookDelivery
      <4>1. CASE c = d
        BY <1>1, <4>1
      <4>2. CASE c # d
        BY <1>1, <4>2, RowFields
      <4>3. QED
        BY <4>1, <4>2
    <3>2. deliveries' = [c \in DOMAIN deliveries' |-> deliveries'[c]]
      BY DEF Recorded
    <3>3. QED
      BY <1>1, <3>1, <3>2
  <2>2. accepted' \subseteq Deliveries
    BY <1>2 DEF WInv, DeliveryTypeOK, d
  <2>3. tasks' \subseteq Task
    BY DEF WInv, DeliveryTypeOK
  <2>4. QED
    BY <1>1, <1>5, <2>1, <2>2, <2>3 DEF WInv, DeliveryTypeOK
<1>7. OneSender' /\ TasksHoldLeases'
  BY <1>1, <1>4, <1>5 DEF WInv, OneSender, TasksHoldLeases
<1>8. RequestsCounted'
  <2>1. ASSUME NEW c \in DOMAIN deliveries, c # d
        PROVE  UnderWay(c) => UnderWay(c)'
    <3>1. ASSUME NEW u \in tasks, u.delivery = c PROVE u \in tasks'
      BY <2>1, <3>1 DEF d
    <3>2. QED
      BY <3>1 DEF UnderWay
  <2>2. ASSUME d \in DOMAIN deliveries, st = "pending"
        PROVE  /\ deliveries'[d].attempt_count < MAX_ATTEMPTS
               /\ requests[d] <= deliveries'[d].attempt_count + crashes
    <3>1. requests[d] <= deliveries[d].attempt_count + crashes + 1
      BY <1>3, <2>2 DEF WInv, RequestsCounted, Terminal
    <3>2. deliveries'[d].attempt_count = t.attempt_count + 1
      BY <1>1, <2>2
    <3>3. QED
      BY <1>2, <1>3, <2>2, <3>1, <3>2
  <2>3. ASSUME NEW c \in DOMAIN deliveries', deliveries'[c].status \notin Terminal
        PROVE  /\ deliveries'[c].attempt_count < MAX_ATTEMPTS
               /\ requests'[c] <= deliveries'[c].attempt_count + crashes' + 1
               /\ ~UnderWay(c)' =>
                      requests'[c] <= deliveries'[c].attempt_count + crashes'
    <3>1. CASE c = d
      <4>1. st = "pending" /\ d \in DOMAIN deliveries
        BY <1>1, <2>3, <3>1
      <4>2. requests[d] \in Nat /\ t.attempt_count + n \in Nat
        BY <1>2
      <4>3. deliveries'[d].attempt_count \in Nat
        BY <1>1, <4>1, <4>2
      <4>4. QED
        BY <1>2, <1>5, <2>2, <3>1, <4>1, <4>2, <4>3
    <3>2. CASE c # d
      BY <1>1, <1>5, <2>1, <2>3, <3>2 DEF WInv, RequestsCounted
    <3>3. QED
      BY <3>1, <3>2
  <2>4. QED
    BY <2>3 DEF RequestsCounted
<1>9. RequestsBounded' /\ NoneBeforeFanOut'
  BY <1>5 DEF WInv, RequestsBounded, NoneBeforeFanOut
<1>10. AcceptedSettled'
  <2>1. ~UnderWay(d)'
    BY <1>4 DEF UnderWay
  <2>2. ASSUME NEW c \in accepted
        PROVE  /\ c # d /\ c[2] \in fannedOut /\ ~UnderWay(c)'
               /\ c \in DOMAIN deliveries => deliveries[c].status = "delivered"
    BY <1>3 DEF WInv, AcceptedSettled, UnderWay
  <2>3. QED
    BY <1>1, <1>2, <1>5, <2>1, <2>2 DEF AcceptedSettled, d
<1>11. QED
  BY <1>6, <1>7, <1>8, <1>9, <1>10 DEF WInv

\* The end of a task settles its delivery, or leaves it for a later attempt.
LEMMA FinishTaskStep ==
  ASSUME WInv, NEW t \in tasks, FinishTask(t)
  PROVE  WInv'
<1>1. t.attempt_count \in 0..(MAX_ATTEMPTS - 1)
  BY RowFields
<1>2. tasks' = tasks \ {t} /\ UNCHANGED <<regVars, fannedOut, crashes, requests>>
  BY DEF FinishTask
<1>3. CASE Delivered(t)
  BY <1>2, <1>3, OutcomeStep DEF Delivered, Terminal
<1>4. CASE Gone(t)
  BY <1>2, <1>4, OutcomeStep DEF Gone, Terminal
<1>5. CASE RecordFailure(t) /\ Exhausted(t)
  BY <1>2, <1>5, OutcomeStep DEF RecordFailure, Terminal
<1>6. CASE RecordFailure(t) /\ ~Exhausted(t)
  <2>1. t.attempt_count + 1 < MAX_ATTEMPTS
    BY <1>1, <1>6, LimitAssumption DEF Exhausted
  <2>2. Backoff(t.attempt_count + 1) \in Nat
    BY <1>1, <2>1, LimitAssumption, BackoffAssumption
  <2>3. /\ deliveries' = Recorded(t.delivery, "pending", 1, Backoff(t.attempt_count + 1))
        /\ accepted' = accepted
    BY <1>6 DEF RecordFailure
  <2>4. QED
    BY <1>2, <2>1, <2>2, <2>3, OutcomeStep
<1>7. QED
  BY <1>3, <1>4, <1>5, <1>6 DEF FinishTask

\* The requests lost in a crash are those the crash accounts for.
LEMMA CrashStep ==
  ASSUME WInv, Crash
  PROVE  WInv'
<1> USE DEF WInv, Crash, regVars, history
<1>1. crashes' = crashes + 1 /\ crashes \in Nat /\ tasks' = {}
  BY RowFields
<1>2. DeliveryTypeOK'
  BY LimitAssumption DEF DeliveryTypeOK
<1>3. OneSender' /\ TasksHoldLeases' /\ NoneBeforeFanOut' /\ AcceptedSettled'
  BY DEF OneSender, TasksHoldLeases, NoneBeforeFanOut, AcceptedSettled, UnderWay
<1>4. ASSUME NEW d \in DOMAIN deliveries, deliveries[d].status \notin Terminal
      PROVE  /\ deliveries[d].attempt_count < MAX_ATTEMPTS
             /\ requests[d] <= deliveries[d].attempt_count + crashes'
             /\ requests[d] <= deliveries[d].attempt_count + crashes' + 1
  <2>1. /\ deliveries[d].attempt_count < MAX_ATTEMPTS
        /\ requests[d] <= deliveries[d].attempt_count + crashes + 1
    BY <1>4 DEF RequestsCounted
  <2>2. requests[d] \in Nat /\ deliveries[d].attempt_count \in Nat
    BY RowFields, LimitAssumption
  <2>3. QED
    BY <1>1, <2>1, <2>2
<1>5. RequestsCounted'
  BY <1>4 DEF RequestsCounted
<1>6. RequestsBounded'
  BY <1>1, RowFields, LimitAssumption DEF RequestsBounded
<1>7. QED
  BY <1>2, <1>3, <1>5, <1>6
\* Requests and their leases age together.
LEMMA SecondStep ==
  ASSUME WInv, Tick
  PROVE  WInv'
<1> DEFINE older(t) == [t EXCEPT !.age = @ + 1]
           aged(d)  == [deliveries[d] EXCEPT
              !.wait  = IF @ > 0 THEN @ - 1 ELSE 0,
              !.lease = IF deliveries[d].status = "in_flight" /\ @ < LEASE THEN @ + 1 ELSE @]
<1>1. /\ UNCHANGED <<registrations, created, handshakes, fannedOut, crashes, requests, accepted>>
      /\ tasks' = {older(t) : t \in tasks}
      /\ DOMAIN deliveries' = DOMAIN deliveries
      /\ \A d \in DOMAIN deliveries : deliveries'[d] = aged(d)
      /\ \A t \in tasks : t.age < REQUEST_TIMEOUT
  BY DEF Tick, regVars, history
<1>2. ASSUME NEW d \in DOMAIN deliveries
      PROVE  /\ aged(d) \in WebhookDelivery
             /\ aged(d).status = deliveries[d].status
             /\ aged(d).attempt_count = deliveries[d].attempt_count
             /\ deliveries[d].status = "in_flight" /\ deliveries[d].lease < LEASE
                    => aged(d).lease = deliveries[d].lease + 1
  <2>1. /\ deliveries[d] \in WebhookDelivery
        /\ deliveries[d].wait \in Nat /\ deliveries[d].lease \in 0..LEASE
    BY RowFields
  <2> DEFINE w == IF deliveries[d].wait > 0 THEN deliveries[d].wait - 1 ELSE 0
             l == IF deliveries[d].status = "in_flight" /\ deliveries[d].lease < LEASE
                  THEN deliveries[d].lease + 1 ELSE deliveries[d].lease
  <2>2. w \in Nat /\ l \in 0..LEASE
    BY <2>1, TimingAssumption
  <2>3. aged(d) = [deliveries[d] EXCEPT !.wait = w, !.lease = l]
    OBVIOUS
  <2> HIDE DEF w, aged
  <2>4. /\ aged(d).status = deliveries[d].status
        /\ aged(d).attempt_count = deliveries[d].attempt_count
        /\ aged(d).lease = l
    BY <2>1, <2>3 DEF WebhookDelivery
  <2>5. [deliveries[d] EXCEPT !.wait = w, !.lease = l] \in WebhookDelivery
    BY <2>1, <2>2 DEF WebhookDelivery
  <2>6. QED
    BY <2>3, <2>4, <2>5
<1>3. ASSUME NEW t \in tasks
      PROVE  /\ older(t) \in Task /\ older(t).delivery = t.delivery
             /\ older(t).attempt_count = t.attempt_count /\ older(t).age = t.age + 1
  <2>1. t \in Task /\ t.age \in 0..REQUEST_TIMEOUT
    BY RowFields
  <2>2. t.age + 1 \in 0..REQUEST_TIMEOUT
    <3>1. t.age < REQUEST_TIMEOUT
      BY <1>1
    <3> DEFINE a == t.age
    <3>2. a \in 0..REQUEST_TIMEOUT /\ a < REQUEST_TIMEOUT
      BY <2>1, <3>1
    <3> HIDE DEF a
    <3>3. a + 1 \in 0..REQUEST_TIMEOUT
      BY <3>2, TimingAssumption
    <3>4. QED
      BY <3>3 DEF a
  <2>3. QED
    BY <2>1, <2>2 DEF Task
<1>4. ASSUME NEW d PROVE UnderWay(d)' <=> UnderWay(d)
  <2>1. ASSUME UnderWay(d) PROVE UnderWay(d)'
    <3>1. PICK t \in tasks : t.delivery = d
      BY <2>1 DEF UnderWay
    <3>2. older(t) \in tasks' /\ older(t).delivery = d
      BY <1>1, <1>3, <3>1
    <3>3. QED
      BY <3>2, Zenon DEF UnderWay
  <2>2. ASSUME UnderWay(d)' PROVE UnderWay(d)
    <3>1. PICK u \in tasks' : u.delivery = d
      BY <2>2 DEF UnderWay
    <3>2. PICK t \in tasks : u = older(t)
      BY <1>1, <3>1
    <3>3. QED
      BY <1>3, <3>1, <3>2 DEF UnderWay
  <2>3. QED
    BY <2>1, <2>2
<1> HIDE DEF older, aged
<1>5. DeliveryTypeOK'
  <2>1. deliveries' \in [DOMAIN deliveries' -> WebhookDelivery]
    <3>1. deliveries' = [d \in DOMAIN deliveries' |-> deliveries'[d]]
      BY DEF Tick
    <3>2. QED
      BY <1>1, <1>2, <3>1
  <2>2. tasks' \subseteq Task
    BY <1>1, <1>3
  <2>3. QED
    BY <1>1, <2>1, <2>2 DEF WInv, DeliveryTypeOK
<1>6. OneSender' /\ TasksHoldLeases'
  <2>1. ASSUME NEW t \in tasks
        PROVE  /\ t.delivery[2] \in fannedOut
               /\ \A u \in tasks : u.delivery = t.delivery => u = t
               /\ t.delivery \in DOMAIN deliveries =>
                    /\ deliveries[t.delivery].status = "in_flight"
                    /\ deliveries[t.delivery].attempt_count = t.attempt_count
                    /\ deliveries[t.delivery].lease = t.age
                    /\ deliveries[t.delivery].lease < LEASE
    <3>1. t.age \in Nat /\ t.age < REQUEST_TIMEOUT
      BY <1>1, RowFields
    <3>2. QED
      BY <3>1, TimingAssumption DEF WInv, OneSender, TasksHoldLeases
  <2>2. QED
    BY <1>1, <1>2, <1>3, <2>1 DEF OneSender, TasksHoldLeases
<1>7. RequestsCounted'
  BY <1>1, <1>2, <1>4 DEF WInv, RequestsCounted
<1>8. RequestsBounded' /\ NoneBeforeFanOut'
  BY <1>1 DEF WInv, RequestsBounded, NoneBeforeFanOut
<1>9. AcceptedSettled'
  BY <1>1, <1>2, <1>4 DEF WInv, AcceptedSettled
<1>10. QED
  BY <1>5, <1>6, <1>7, <1>8, <1>9 DEF WInv

\* A step that changes nothing keeps the invariant.
LEMMA StutterWInv == WInv /\ UNCHANGED webVars => WInv'
BY DEF WInv, webVars, regVars, history, DeliveryTypeOK, OneSender, TasksHoldLeases,
       RequestsCounted, RequestsBounded, NoneBeforeFanOut, AcceptedSettled, UnderWay

\* Every step of the specification keeps the invariant.
LEMMA NextWInv == WInv /\ [WebNext]_webVars => WInv'
<1> SUFFICES ASSUME WInv, [WebNext]_webVars PROVE WInv'
  OBVIOUS
<1>1. CASE ApiStep
  BY <1>1, CreateRegistrationStep, DisableRegistrationStep, StartHandshakeStep,
     PassHandshakeStep, FailHandshakeStep, RequeueStep DEF ApiStep
<1>2. CASE WorkerStep
  BY <1>2, FanOutStep, ReclaimStep, DispatchStep, FinishTaskStep, CrashStep DEF WorkerStep
<1>3. CASE Tick
  BY <1>3, SecondStep
<1>4. CASE UNCHANGED webVars
  BY <1>4, StutterWInv
<1>5. QED
  BY <1>1, <1>2, <1>3, <1>4 DEF WebNext

-----------------------------------------------------------------------------
(* The theorems *)

\* The inductive invariant holds in every behaviour.
THEOREM DeliveryInvariant == WebSpec => []WInv
<1>1. QED
  BY InitWInv, NextWInv, PTL DEF WebSpec

\* Types: rows belong to stored registrations and fanned-out events, and no row and
\* no request ever counts more attempts than allowed.
THEOREM DeliveryTypeCorrect == WebSpec => []DeliveryTypeOK
<1>1. WInv => DeliveryTypeOK
  BY DEF WInv
<1>2. QED
  BY <1>1, DeliveryInvariant, PTL

\* However leases, retries, crashes and requeues interleave, a delivery has at most
\* one request under way, if requests end before leases do.
THEOREM OneSenderAtATime == WebSpec => []OneSender
<1>1. WInv => OneSender
  BY DEF WInv
<1>2. QED
  BY <1>1, DeliveryInvariant, PTL

\* A delivery is requested at most MAX_ATTEMPTS times, and once more per crash.
THEOREM RequestsAreBounded == WebSpec => []RequestsBounded
<1>1. WInv => RequestsBounded
  BY DEF WInv
<1>2. QED
  BY <1>1, DeliveryInvariant, PTL

\* What the worker has seen accepted is never requested again.
THEOREM AcceptedIsFinal == WebSpec => AcceptedIsNotResent
<1> DEFINE NotResent == \A d \in accepted : requests'[d] <= requests[d]
<1>1. WInv /\ [WebNext]_webVars => [NotResent]_webVars
  <2> SUFFICES ASSUME WInv, WebNext, NEW d \in accepted
               PROVE  requests'[d] <= requests[d]
    OBVIOUS
  <2>1. requests \in [Deliveries -> Nat] /\ d \in Deliveries
    BY RowFields DEF WInv, DeliveryTypeOK
  <2>2. d \in DOMAIN deliveries => deliveries[d].status = "delivered"
    BY DEF WInv, AcceptedSettled
  <2>3. ASSUME NEW c \in DOMAIN deliveries, RequeueDelivery(c)
        PROVE  requests'[d] <= requests[d]
    BY <2>1, <2>3 DEF RequeueDelivery
  <2>4. ASSUME NEW c \in Deliveries, DispatchDue(c)
        PROVE  requests'[d] <= requests[d]
    <3>1. c # d
      BY <2>2, <2>4 DEF DispatchDue
    <3>2. QED
      BY <2>1, <2>4, <3>1 DEF DispatchDue
  <2>5. requests' = requests => requests'[d] <= requests[d]
    BY <2>1
  <2>6. CASE ApiStep
    BY <2>3, <2>5, <2>6
       DEF ApiStep, CreateRegistration, DisableRegistration, StartHandshake,
           PassHandshake, FailHandshake, history
  <2>7. CASE WorkerStep
    BY <2>4, <2>5, <2>7
       DEF WorkerStep, FanOutEvent, ReclaimStaleDeliveries, FinishTask, Crash, history
  <2>8. CASE Tick
    BY <2>5, <2>8 DEF Tick, history
  <2>9. QED
    BY <2>6, <2>7, <2>8 DEF WebNext
<1>2. QED
  BY <1>1, DeliveryInvariant, PTL DEF WebSpec, AcceptedIsNotResent
=============================================================================
