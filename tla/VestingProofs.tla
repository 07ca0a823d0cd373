--------------------------- MODULE VestingProofs ---------------------------
(***************************************************************************)
(* Proofs about Vesting: the vesting curves stay between zero and the      *)
(* grant and never run backwards as the clock advances, and from that the  *)
(* type invariant, ClaimedWithinVested, PayoutsWithinGrant and             *)
(* GrantorIndexExact for every value of the constants.                     *)
(***************************************************************************)
EXTENDS Vesting, SumTheorems, WellFoundedInduction, SequenceTheorems, TLAPS

(* Arithmetic *)

\* saturating_sub stays between zero and its first argument.
LEMMA SaturatingSubBounds ==
  ASSUME NEW a \in Nat, NEW b \in Nat
  PROVE  SaturatingSub(a, b) \in 0..a
BY DEF SaturatingSub

\* A product divided by at least one of its factors is at most the other.
LEMMA DivBounds ==
  ASSUME NEW t \in Nat, NEW e \in Nat, NEW d \in Nat, e <= d, d > 0
  PROVE  (t * e) \div d \in 0..t
<1>1. t * e <= t * d
  OBVIOUS
<1>2. (t * e) \div d <= t
  BY <1>1
<1>3. (t * e) \div d >= 0
  OBVIOUS
<1>4. QED
  BY <1>2, <1>3

\* Division by the same number is monotone.
LEMMA DivMonotone ==
  ASSUME NEW a \in Nat, NEW b \in Nat, NEW d \in Nat, d > 0, a <= b
  PROVE  a \div d <= b \div d
OBVIOUS

\* A product grows with its factor.
LEMMA TimesMonotone ==
  ASSUME NEW t \in Nat, NEW a \in Nat, NEW b \in Nat, a <= b
  PROVE  /\ t * a \in Nat /\ t * b \in Nat
         /\ t * a <= t * b
OBVIOUS

\* A checked multiplication that saturates to its first factor stays within it.
LEMMA MulDivBounds ==
  ASSUME NEW t \in Nat, NEW e \in Nat, NEW d \in Nat, e <= d, d > 0
  PROVE  MulDivOr(t, e, d, t) \in 0..t
BY DivBounds, I128Assumption DEF MulDivOr

\* It is monotone in its second factor: once it overflows it stays at the total.
LEMMA MulDivMonotone ==
  ASSUME NEW t \in Nat, NEW e \in Nat, NEW f \in Nat, NEW d \in Nat,
         e <= f, f <= d, d > 0
  PROVE  MulDivOr(t, e, d, t) <= MulDivOr(t, f, d, t)
<1>1. t * e \in Nat /\ t * f \in Nat /\ t * e <= t * f
  BY TimesMonotone
<1>2. CASE t * f > I128_MAX
  <2>1. MulDivOr(t, f, d, t) = t
    BY <1>2 DEF MulDivOr
  <2>2. MulDivOr(t, e, d, t) \in 0..t
    BY MulDivBounds
  <2>3. QED
    BY <2>1, <2>2
<1>3. CASE ~(t * f > I128_MAX)
  <2>1. ~(t * e > I128_MAX)
    BY <1>1, <1>3, I128Assumption
  <2>2. (t * e) \div d <= (t * f) \div d
    BY <1>1, DivMonotone
  <2>3. QED
    BY <1>3, <2>1, <2>2 DEF MulDivOr
<1>4. QED
  BY <1>2, <1>3

\* A non-empty set of bounded naturals has a maximum, and it is in the set.
LEMMA MaxExists ==
  ASSUME NEW n \in Nat, NEW S \in SUBSET (0..n), S # {}
  PROVE  Max(S) \in S /\ \A y \in S : Max(S) >= y
<1> DEFINE T == {n - y : y \in S}
<1>1. T \subseteq Nat
  <2>1. \A y \in S : n - y \in Nat
    OBVIOUS
  <2>2. QED
    BY <2>1
<1>2. T # {}
  OBVIOUS
<1> HIDE DEF T
<1>3. PICK x \in T : \A y \in T : ~(<<y, x>> \in OpToRel(<, Nat))
  BY <1>1, <1>2, NatLessThanWellFounded, WFMin
<1>4. ASSUME NEW y \in T PROVE y >= x
  <2>1. <<y, x>> \in Nat \X Nat
    BY <1>1, <1>3
  <2>2. y < x => <<y, x>> \in OpToRel(<, Nat)
    BY <2>1, Zenon DEF OpToRel
  <2>3. ~(y < x)
    BY <1>3, <2>2, Zenon
  <2>4. QED
    BY <1>1, <2>3
<1>5. PICK m \in S : x = n - m
  BY <1>3 DEF T
<1>6. ASSUME NEW y \in S PROVE m >= y
  <2>1. n - y >= n - m
    BY <1>4, <1>5 DEF T
  <2>2. QED
    BY <2>1
<1>7. QED
  BY <1>6 DEF Max

\* The domain and the elements of a sequence.
LEMMA SeqFacts ==
  ASSUME NEW S, NEW q \in Seq(S)
  PROVE  /\ Len(q) \in Nat /\ DOMAIN q = 1..Len(q)
         /\ \A i \in DOMAIN q : q[i] \in S
BY LenProperties, ElementOfSeq

-----------------------------------------------------------------------------
(* The curves *)

\* The milestone list of a stored graded schedule is one its creation accepted.
PlanAccepted(s) ==
    s.kind = "Graded" =>
        \E o \in GradedOffers : ValidPlan(o.milestones) /\ s.milestones = o.milestones

\* The milestones reached by some time unlock no more than a valid list adds up
\* to, and those reached later no less.
LEMMA BpsBounds ==
  ASSUME NEW s \in Schedule, PlanAccepted(s), s.kind = "Graded"
  PROVE  /\ \A e \in 0..MaxTime : VestedBps(s.milestones, e) \in 0..FULL_BPS
         /\ \A e, f \in 0..MaxTime :
               e <= f => VestedBps(s.milestones, e) <= VestedBps(s.milestones, f)
<1> DEFINE plan == s.milestones
           bps  == Bps(plan)
<1>1. plan \in Seq(Milestone) /\ ValidPlan(plan)
  BY DEF PlanAccepted, Schedule
<1>2. DOMAIN plan = 1..Len(plan) /\ Len(plan) \in Nat /\ \A i \in DOMAIN plan : plan[i] \in Milestone
  BY <1>1, SeqFacts
<1>3. IsFiniteSet(DOMAIN plan)
  BY <1>2, FS_Interval
<1>4. \A i \in DOMAIN plan : bps[i] \in Nat
  BY <1>2 DEF Bps, Milestone
<1>5. SumFunctionOnSet(bps, DOMAIN plan) = FULL_BPS
  BY <1>1 DEF ValidPlan, TotalBps
<1> HIDE DEF bps
<1>6. \A e : Reached(plan, e) \in SUBSET DOMAIN plan /\ IsFiniteSet(Reached(plan, e))
  BY <1>3, FS_Subset DEF Reached
<1>7. ASSUME NEW e \in 0..MaxTime
      PROVE  VestedBps(plan, e) \in 0..FULL_BPS
  <2>1. SumFunctionOnSet(bps, Reached(plan, e)) <= FULL_BPS
    BY <1>3, <1>4, <1>5, <1>6, SumOfPart
  <2>2. SumFunctionOnSet(bps, Reached(plan, e)) \in Nat
    BY <1>4, <1>6, SumNat
  <2> QED
    BY <2>1, <2>2, BpsAssumption DEF VestedBps, bps
<1>8. ASSUME NEW e \in 0..MaxTime, NEW f \in 0..MaxTime, e <= f
      PROVE  VestedBps(plan, e) <= VestedBps(plan, f)
  <2>1. Reached(plan, e) \in SUBSET Reached(plan, f)
    BY <1>2, <1>8, BoundsAssumption DEF Reached, Milestone
  <2>2. SumFunctionOnSet(bps, Reached(plan, e)) <= SumFunctionOnSet(bps, Reached(plan, f))
    BY <1>4, <1>6, <2>1, SumOfPart
  <2> QED
    BY <2>2 DEF VestedBps, bps
<1> QED
  BY <1>7, <1>8

\* Every curve stays between nothing and the whole grant.
LEMMA CurveBounds ==
  ASSUME NEW s \in Schedule, PlanAccepted(s), NEW e \in 0..MaxTime
  PROVE  Curve(s, e) \in 0..s.total_amount
<1> /\ s.total_amount \in Nat /\ s.duration_seconds \in Nat
    /\ s.cliff_seconds \in Nat /\ e \in Nat /\ s.kind \in VestingKinds
  BY BoundsAssumption DEF Schedule
<1>1. CASE s.kind = "Cliff"
  BY <1>1 DEF Curve, CliffCurve
<1>2. CASE s.kind = "Linear"
  <2>1. ASSUME ~(e >= s.duration_seconds)
        PROVE  MulDivOr(s.total_amount, e, s.duration_seconds, s.total_amount)
                  \in 0..s.total_amount
    <3>1. e <= s.duration_seconds /\ s.duration_seconds > 0
      BY <2>1, BpsAssumption
    <3>2. QED
      BY <3>1, MulDivBounds
  <2>2. LinearCurve(s.total_amount, s.duration_seconds, e) \in 0..s.total_amount
    BY <2>1 DEF LinearCurve
  <2>3. QED
    BY <1>2, <2>2 DEF Curve
<1>3. CASE s.kind = "LinearWithCliff"
  <2> DEFINE d == s.duration_seconds - s.cliff_seconds
             f == e - s.cliff_seconds
  <2>1. ~(e < s.cliff_seconds) /\ ~(e >= s.duration_seconds) =>
            MulDivOr(s.total_amount, f, d, s.total_amount) \in 0..s.total_amount
    <3>1. SUFFICES ASSUME ~(e < s.cliff_seconds), ~(e >= s.duration_seconds)
                   PROVE  MulDivOr(s.total_amount, f, d, s.total_amount)
                             \in 0..s.total_amount
      OBVIOUS
    <3>2. d \in Nat /\ f \in Nat /\ f <= d /\ d > 0
      BY <3>1
    <3> HIDE DEF d, f
    <3>3. QED
      BY <3>2, MulDivBounds
  <2>2. LinearWithCliffCurve(s.total_amount, s.cliff_seconds, s.duration_seconds, e)
           \in 0..s.total_amount
    BY <2>1 DEF LinearWithCliffCurve
  <2>3. QED
    BY <1>3, <2>2 DEF Curve
<1>4. CASE s.kind = "Graded"
  <2> DEFINE u == VestedBps(s.milestones, e)
  <2>1. u \in 0..FULL_BPS
    BY <1>4, BpsBounds
  <2>2. MulDivOr(s.total_amount, u, FULL_BPS, s.total_amount) \in 0..s.total_amount
    <3> HIDE DEF u
    <3>1. u \in Nat /\ u <= FULL_BPS /\ FULL_BPS \in Nat /\ FULL_BPS > 0
      BY <2>1, BpsAssumption
    <3>2. QED
      BY <3>1, MulDivBounds
  <2>3. GradedCurve(s.total_amount, s.milestones, e) \in 0..s.total_amount
    BY <2>2 DEF GradedCurve, Least
  <2>4. QED
    BY <1>4, <2>3 DEF Curve
<1>5. QED
  BY <1>1, <1>2, <1>3, <1>4 DEF VestingKinds

\* Every curve is monotone in the elapsed time.
LEMMA CurveMonotone ==
  ASSUME NEW s \in Schedule, PlanAccepted(s),
         NEW e \in 0..MaxTime, NEW f \in 0..MaxTime, e <= f
  PROVE  Curve(s, e) <= Curve(s, f)
<1> /\ s.total_amount \in Nat /\ s.duration_seconds \in Nat
    /\ s.cliff_seconds \in Nat /\ e \in Nat /\ f \in Nat /\ s.kind \in VestingKinds
  BY BoundsAssumption DEF Schedule
<1>0. Curve(s, e) \in 0..s.total_amount /\ Curve(s, f) \in 0..s.total_amount
  BY CurveBounds
<1>1. CASE s.kind = "Cliff"
  BY <1>1 DEF Curve, CliffCurve
<1>2. CASE s.kind = "Linear"
  <2>1. CASE f >= s.duration_seconds
    BY <1>0, <1>2, <2>1 DEF Curve, LinearCurve
  <2>2. CASE ~(f >= s.duration_seconds)
    <3>1. MulDivOr(s.total_amount, e, s.duration_seconds, s.total_amount)
            <= MulDivOr(s.total_amount, f, s.duration_seconds, s.total_amount)
      BY <2>2, MulDivMonotone
    <3>2. QED
      BY <1>2, <2>2, <3>1 DEF Curve, LinearCurve
  <2>3. QED
    BY <2>1, <2>2
<1>3. CASE s.kind = "LinearWithCliff"
  <2>1. CASE f >= s.duration_seconds /\ f >= s.cliff_seconds
    BY <1>0, <1>3, <2>1 DEF Curve, LinearWithCliffCurve
  <2>2. CASE e < s.cliff_seconds
    BY <1>0, <1>3, <2>2 DEF Curve, LinearWithCliffCurve
  <2>3. CASE ~(f >= s.duration_seconds) /\ ~(e < s.cliff_seconds)
    <3> DEFINE d  == s.duration_seconds - s.cliff_seconds
               ee == e - s.cliff_seconds
               ff == f - s.cliff_seconds
    <3>1. d \in Nat /\ ee \in Nat /\ ff \in Nat /\ ee <= ff /\ ff <= d /\ d > 0
      BY <2>3
    <3>2. MulDivOr(s.total_amount, ee, d, s.total_amount)
            <= MulDivOr(s.total_amount, ff, d, s.total_amount)
      <4> HIDE DEF d, ee, ff
      <4>1. QED
        BY <3>1, MulDivMonotone
    <3>3. QED
      BY <1>3, <2>3, <3>2 DEF Curve, LinearWithCliffCurve
  <2>4. QED
    BY <2>1, <2>2, <2>3
<1>4. CASE s.kind = "Graded"
  <2> DEFINE u == VestedBps(s.milestones, e)
             v == VestedBps(s.milestones, f)
  <2>1. u \in 0..FULL_BPS /\ v \in 0..FULL_BPS /\ u <= v
    BY <1>4, BpsBounds
  <2>2. /\ MulDivOr(s.total_amount, u, FULL_BPS, s.total_amount) \in 0..s.total_amount
        /\ MulDivOr(s.total_amount, v, FULL_BPS, s.total_amount) \in 0..s.total_amount
        /\ MulDivOr(s.total_amount, u, FULL_BPS, s.total_amount)
              <= MulDivOr(s.total_amount, v, FULL_BPS, s.total_amount)
    <3> HIDE DEF u, v
    <3>1. /\ u \in Nat /\ v \in Nat /\ u <= v /\ u <= FULL_BPS /\ v <= FULL_BPS
          /\ FULL_BPS \in Nat /\ FULL_BPS > 0
      BY <2>1, BpsAssumption
    <3>2. QED
      BY <3>1, MulDivBounds, MulDivMonotone
  <2>3. QED
    BY <1>4, <2>2 DEF Curve, GradedCurve, Least
<1>5. QED
  BY <1>1, <1>2, <1>3, <1>4 DEF VestingKinds

\* Elapsed time is never negative and never ahead of the clock.
LEMMA ElapsedBounds ==
  ASSUME NEW s \in Schedule, NEW t \in 1..MaxTime, t >= s.start_time
  PROVE  Elapsed(s, t) \in 0..MaxTime
<1>1. /\ t \in Nat /\ t <= MaxTime /\ MaxTime \in Nat /\ s.start_time \in Nat
      /\ s.paused_duration \in Nat /\ s.paused_at \in Nat
  BY BoundsAssumption DEF Schedule
<1>2. CASE s.paused /\ s.paused_at > 0
  BY <1>1, <1>2 DEF Elapsed, SaturatingSub
<1>3. CASE ~(s.paused /\ s.paused_at > 0)
  BY <1>1, <1>3 DEF Elapsed, SaturatingSub
<1>4. QED
  BY <1>2, <1>3

\* A ledger that closes adds to the elapsed time or, during a pause, nothing.
LEMMA ElapsedMonotone ==
  ASSUME NEW s \in Schedule, NEW t \in 1..MaxTime, NEW u \in 1..MaxTime,
         t <= u, t >= s.start_time, s.paused_at <= t
  PROVE  Elapsed(s, t) <= Elapsed(s, u)
<1>1. /\ t \in Nat /\ u \in Nat /\ s.start_time \in Nat
      /\ s.paused_duration \in Nat /\ s.paused_at \in Nat
  BY BoundsAssumption DEF Schedule
<1>2. CASE s.paused /\ s.paused_at > 0
  BY <1>1, <1>2 DEF Elapsed, SaturatingSub
<1>3. CASE ~(s.paused /\ s.paused_at > 0)
  BY <1>1, <1>3 DEF Elapsed, SaturatingSub
<1>4. QED
  BY <1>2, <1>3

\* What has vested is never negative and never more than the grant.
LEMMA VestedBounds ==
  ASSUME NEW s \in Schedule, PlanAccepted(s), NEW t \in 1..MaxTime,
         s.vested_at_revoke <= s.total_amount
  PROVE  VestedAt(s, t) \in 0..s.total_amount
<1>1. s.total_amount \in Nat /\ s.vested_at_revoke \in Nat /\ s.start_time \in Nat
  BY DEF Schedule
<1>2. t >= s.start_time => Curve(s, Elapsed(s, t)) \in 0..s.total_amount
  BY ElapsedBounds, CurveBounds
<1>3. t \in Nat
  BY BoundsAssumption
<1>4. QED
  BY <1>1, <1>2, <1>3 DEF VestedAt

\* Time alone never lowers what has vested.
LEMMA VestedMonotone ==
  ASSUME NEW s \in Schedule, PlanAccepted(s), NEW t \in 1..MaxTime,
         NEW u \in 1..MaxTime, t <= u, s.paused_at <= t
  PROVE  VestedAt(s, t) <= VestedAt(s, u)
<1>1. /\ s.vested_at_revoke \in Nat /\ s.start_time \in Nat /\ s.total_amount \in Nat
      /\ t \in Nat /\ u \in Nat
  BY BoundsAssumption DEF Schedule
<1>2. CASE s.revoked
  BY <1>1, <1>2 DEF VestedAt
<1>3. CASE ~s.revoked /\ t < s.start_time
  <2>1. u >= s.start_time => Curve(s, Elapsed(s, u)) \in 0..s.total_amount
    BY ElapsedBounds, CurveBounds
  <2>2. QED
    BY <1>1, <1>3, <2>1 DEF VestedAt
<1>4. CASE ~s.revoked /\ t >= s.start_time
  <2>1. Elapsed(s, t) \in 0..MaxTime /\ Elapsed(s, u) \in 0..MaxTime
    BY <1>1, <1>4, ElapsedBounds
  <2>2. Elapsed(s, t) <= Elapsed(s, u)
    BY <1>4, ElapsedMonotone
  <2>3. Curve(s, Elapsed(s, t)) <= Curve(s, Elapsed(s, u))
    BY <2>1, <2>2, CurveMonotone
  <2>4. QED
    BY <1>1, <1>4, <2>3 DEF VestedAt
<1>5. QED
  BY <1>1, <1>2, <1>3, <1>4

-----------------------------------------------------------------------------
(* The inductive invariant *)

\* What holds between a stored schedule s, its books b and the clock t; `ext' says
\* whether its duration was extended.
ScheduleInv(s, b, t, ext) ==
    /\ s.claimed_amount <= s.total_amount
    /\ s.vested_at_revoke <= s.total_amount
    /\ s.paused_at <= t
    /\ s.paused => s.paused_at > 0
    /\ s.revoked => s.revocable
    /\ PlanAccepted(s)
    /\ b.funded = s.total_amount
    /\ b.toBeneficiary = s.claimed_amount
    /\ b.toGrantor = IF s.revoked THEN s.total_amount - s.vested_at_revoke ELSE 0
    /\ ~ext => s.claimed_amount <= VestedAt(s, t)

IInv ==
    /\ TypeOK
    /\ GrantorIndexExact
    /\ \A id \in Stored : ScheduleInv(schedules[id], books[id], now, id \in extended)
    /\ \A id \in Ids \ Stored :
          books[id].toBeneficiary + books[id].toGrantor = books[id].funded
    /\ \A id \in Ids : id > count => books[id] = NoMoney

\* The invariant holds of an empty contract.
LEMMA InitIInv == Init => IInv
<1> SUFFICES ASSUME Init PROVE IInv
  OBVIOUS
<1>1. Stored = {}
  BY DEF Init, Stored
<1>2. TypeOK
  <2>1. schedules \in [Stored -> Schedule]
    BY <1>1 DEF Init
  <2>2. milestones \in [Ids -> Seq(PerformanceMilestone)]
    BY DEF Init
  <2>3. books \in [Ids -> Ledger]
    BY DEF Init, Ledger, NoMoney
  <2>4. now \in 1..MaxTime /\ count \in 0..MaxSchedules /\ Stored \subseteq 1..count
    BY <1>1, BoundsAssumption DEF Init
  <2>5. /\ byGrantor \in [Accounts -> SUBSET Ids]
        /\ byBeneficiary \in [Accounts -> SUBSET Ids]
        /\ oracleSet \in BOOLEAN
        /\ escrow \in [Tokens -> Nat]
        /\ extended \subseteq Ids
    BY DEF Init
  <2>6. QED
    BY <2>1, <2>2, <2>3, <2>4, <2>5 DEF TypeOK
<1>3. QED
  BY <1>1, <1>2 DEF Init, IInv, GrantorIndexExact, NoMoney

\* A call on the stored schedule id that changes no other schedule, keeps the
\* grantor of this one and leaves it with ScheduleInv keeps the invariant.
LEMMA OneScheduleStep ==
  ASSUME IInv, TypeOK', NEW id \in Stored,
         now' = now, count' = count, Stored' = Stored, byGrantor' = byGrantor,
         schedules'[id].grantor = schedules[id].grantor,
         \A i \in Stored \ {id} : schedules'[i] = schedules[i],
         \A i \in Ids \ {id} : books'[i] = books[i],
         extended' \subseteq extended \cup {id}, extended \subseteq extended',
         ScheduleInv(schedules'[id], books'[id], now, id \in extended')
  PROVE  IInv'
<1>1. GrantorIndexExact'
  BY DEF IInv, GrantorIndexExact
<1>2. ASSUME NEW i \in Stored
      PROVE  ScheduleInv(schedules'[i], books'[i], now', i \in extended')
  <2>1. CASE i = id
    BY <2>1
  <2>2. CASE i # id
    <3>1. i \in Ids
      BY BoundsAssumption DEF IInv, TypeOK, Ids
    <3>2. schedules'[i] = schedules[i] /\ books'[i] = books[i]
          /\ (i \in extended' <=> i \in extended)
      BY <2>2, <3>1
    <3>3. ScheduleInv(schedules[i], books[i], now, i \in extended)
      BY DEF IInv
    <3>4. QED
      BY <3>2, <3>3 DEF ScheduleInv
  <2>3. QED
    BY <2>1, <2>2
<1>3. \A i \in Ids \ Stored' :
          books'[i].toBeneficiary + books'[i].toGrantor = books'[i].funded
  BY DEF IInv
<1>4. \A i \in Ids : i > count' => books'[i] = NoMoney
  <2>1. id <= count /\ id \in Nat /\ count \in Nat
    BY DEF IInv, TypeOK
  <2>2. QED
    BY <2>1 DEF IInv, Ids
<1>5. QED
  BY <1>1, <1>2, <1>3, <1>4 DEF IInv

\* The largest attested percentage is a natural number.
LEMMA PercentageType ==
  ASSUME IInv, NEW id \in Ids
  PROVE  MaxUnlockPercentage(milestones[id]) \in Nat
<1> DEFINE m == milestones[id]
           P == {0} \cup {m[i].unlock_percentage :
                            i \in {j \in DOMAIN m : m[j].attested}}
<1>1. m \in Seq(PerformanceMilestone)
  BY DEF IInv, TypeOK
<1>2. \A i \in DOMAIN m : m[i].unlock_percentage \in 0..100
  <2> HIDE DEF m
  <2>1. \A i \in DOMAIN m : m[i] \in PerformanceMilestone
    BY <1>1, SeqFacts
  <2>2. QED
    BY <2>1 DEF PerformanceMilestone
<1>3. P \in SUBSET (0..100) /\ P # {}
  BY <1>2
<1>4. Max(P) \in 0..100
  <2> HIDE DEF P
  <2>1. 100 \in Nat
    OBVIOUS
  <2>2. QED
    BY <1>3, <2>1, MaxExists
<1>5. MaxUnlockPercentage(m) = Max(P)
  BY Zenon DEF MaxUnlockPercentage
<1> HIDE DEF P
<1>6. QED
  BY <1>4, <1>5

\* What an attested percentage allows is a natural number.
LEMMA AllowanceType ==
  ASSUME IInv, NEW id \in Stored
  PROVE  MilestoneAllowance(schedules[id], milestones[id]) \in Nat
<1>1. id \in Ids /\ schedules[id] \in Schedule
  BY BoundsAssumption DEF IInv, TypeOK, Ids
<1>2. MaxUnlockPercentage(milestones[id]) \in Nat
  BY <1>1, PercentageType
<1>3. schedules[id].total_amount \in Nat /\ schedules[id].claimed_amount \in Nat
  BY <1>1 DEF Schedule
<1>4. ASSUME NEW q \in Nat, NEW a \in Nat, NEW c \in Nat
      PROVE  Greatest(MulDivOr(a, q, 100, 0) - c, 0) \in Nat
  BY DEF Greatest, MulDivOr
<1>5. QED
  BY <1>2, <1>3, <1>4 DEF MilestoneAllowance

\* A cap never raises an amount due.
LEMMA WithinBounds ==
  ASSUME IInv, NEW id \in Stored, NEW due \in Nat
  PROVE  WithinMilestones(id, due) \in 0..due
BY AllowanceType DEF WithinMilestones, Least

-----------------------------------------------------------------------------
(* One lemma per call *)

\* A stored schedule is well-typed and satisfies ScheduleInv.
LEMMA StoredFacts ==
  ASSUME IInv, NEW id \in Stored
  PROVE  /\ id \in Ids
         /\ schedules[id] \in Schedule
         /\ ScheduleInv(schedules[id], books[id], now, id \in extended)
         /\ VestedAt(schedules[id], now) \in 0..schedules[id].total_amount
         /\ now \in Nat /\ now > 0 /\ now \in 1..MaxTime
<1>1. id \in Ids
  BY BoundsAssumption DEF IInv, TypeOK, Ids
<1>2. schedules[id] \in Schedule
  BY DEF IInv, TypeOK
<1>3. ScheduleInv(schedules[id], books[id], now, id \in extended)
  BY DEF IInv
<1>4. now \in Nat /\ now > 0 /\ now \in 1..MaxTime
  BY BoundsAssumption DEF IInv, TypeOK
<1>5. VestedAt(schedules[id], now) \in 0..schedules[id].total_amount
  BY <1>2, <1>3, <1>4, VestedBounds DEF ScheduleInv
<1>6. QED
  BY <1>1, <1>2, <1>3, <1>4, <1>5

\* Replacing the record of one stored schedule by another record keeps the type.
LEMMA UpdateType ==
  ASSUME IInv, NEW id \in Stored, NEW r \in Schedule,
         schedules' = [schedules EXCEPT ![id] = r]
  PROVE  /\ schedules' \in [Stored' -> Schedule]
         /\ Stored' = Stored
         /\ schedules'[id] = r
         /\ \A i \in Stored \ {id} : schedules'[i] = schedules[i]
<1>1. schedules \in [Stored -> Schedule]
  BY DEF IInv, TypeOK
<1>2. Stored' = Stored
  BY <1>1 DEF Stored
<1>3. QED
  BY <1>1, <1>2

\* The fields a curve reads.
SameCurve(r, s) ==
    /\ r.kind = s.kind /\ r.total_amount = s.total_amount
    /\ r.duration_seconds = s.duration_seconds /\ r.cliff_seconds = s.cliff_seconds
    /\ r.milestones = s.milestones

\* Two schedules with the same curve, start and elapsed time have vested the same.
LEMMA SameVested ==
  ASSUME NEW r, NEW s, NEW t, SameCurve(r, s), r.start_time = s.start_time,
         r.revoked = s.revoked, r.vested_at_revoke = s.vested_at_revoke,
         Elapsed(r, t) = Elapsed(s, t)
  PROVE  VestedAt(r, t) = VestedAt(s, t)
<1>1. Curve(r, Elapsed(r, t)) = Curve(s, Elapsed(s, t))
  BY DEF SameCurve, Curve
<1>2. QED
  BY <1>1 DEF VestedAt

\* A pause starts with nothing to take off the elapsed time.
LEMMA PauseStep ==
  ASSUME IInv, NEW id \in Ids, PauseSchedule(id)
  PROVE  IInv'
<1> DEFINE s == schedules[id]
           r == [s EXCEPT !.paused = TRUE, !.paused_at = now]
<1>1. id \in Stored
  BY DEF PauseSchedule
<1>2. /\ s \in Schedule /\ now \in Nat /\ now > 0
      /\ ScheduleInv(s, books[id], now, id \in extended)
  BY <1>1, StoredFacts
<1>3. r \in Schedule
  BY <1>2 DEF Schedule
<1>4. schedules' = [schedules EXCEPT ![id] = r]
  BY <1>1 DEF PauseSchedule, IInv, TypeOK
<1>5. /\ schedules' \in [Stored' -> Schedule] /\ Stored' = Stored
      /\ schedules'[id] = r /\ \A i \in Stored \ {id} : schedules'[i] = schedules[i]
  BY <1>1, <1>3, <1>4, UpdateType
<1>6. TypeOK'
  BY <1>5 DEF PauseSchedule, indices, IInv, TypeOK
<1>7. VestedAt(r, now) = VestedAt(s, now)
  <2>1. /\ ~s.paused /\ r.paused /\ r.paused_at = now
        /\ r.start_time = s.start_time /\ r.paused_duration = s.paused_duration
    BY <1>2 DEF PauseSchedule, Schedule
  <2>2. s.paused_duration \in Nat /\ s.start_time \in Nat
    BY <1>2 DEF Schedule
  <2>3. Elapsed(r, now) = Elapsed(s, now)
    <3> HIDE DEF r, s
    <3>1. QED
      BY <1>2, <2>1, <2>2 DEF Elapsed, SaturatingSub
  <2>4. /\ SameCurve(r, s) /\ r.revoked = s.revoked
        /\ r.vested_at_revoke = s.vested_at_revoke
    BY <1>2 DEF SameCurve, Schedule
  <2> HIDE DEF r, s
  <2>5. QED
    BY <2>1, <2>3, <2>4, SameVested
<1>8. ScheduleInv(r, books[id], now, id \in extended)
  BY <1>2, <1>7 DEF ScheduleInv, PlanAccepted, Schedule
<1>9. /\ now' = now /\ count' = count /\ byGrantor' = byGrantor /\ books' = books /\ extended' = extended
  BY DEF PauseSchedule, indices
<1>10. schedules'[id].grantor = schedules[id].grantor
  BY <1>2, <1>5 DEF Schedule
<1> HIDE DEF r, s
<1>11. QED
  BY <1>1, <1>5, <1>6, <1>8, <1>9, <1>10, OneScheduleStep

\* The pause that ends moves from paused_at into paused_duration.
LEMMA ResumeStep ==
  ASSUME IInv, NEW id \in Ids, ResumeSchedule(id)
  PROVE  IInv'
<1> DEFINE s == schedules[id]
           r == [s EXCEPT !.paused_duration = PausedTotal(s),
                          !.paused = FALSE, !.paused_at = 0]
<1>1. id \in Stored
  BY DEF ResumeSchedule
<1>2. /\ s \in Schedule /\ now \in Nat
      /\ ScheduleInv(s, books[id], now, id \in extended)
  BY <1>1, StoredFacts
<1>3. /\ s.paused /\ s.paused_at \in Nat /\ s.paused_duration \in Nat
      /\ s.start_time \in Nat /\ s.paused_at > 0 /\ s.paused_at <= now
  BY <1>2 DEF ResumeSchedule, Schedule, ScheduleInv
<1>4. PausedTotal(s) = s.paused_duration + (now - s.paused_at)
  <2> HIDE DEF s
  <2>1. QED
    BY <1>2, <1>3 DEF PausedTotal, SaturatingSub
<1>5. r \in Schedule
  <2>1. PausedTotal(s) \in Nat
    BY <1>2, <1>3, <1>4
  <2>2. QED
    BY <1>2, <2>1 DEF Schedule
<1>6. schedules' = [schedules EXCEPT ![id] = r]
  BY <1>1 DEF ResumeSchedule, IInv, TypeOK
<1>7. /\ schedules' \in [Stored' -> Schedule] /\ Stored' = Stored
      /\ schedules'[id] = r /\ \A i \in Stored \ {id} : schedules'[i] = schedules[i]
  BY <1>1, <1>5, <1>6, UpdateType
<1>8. TypeOK'
  BY <1>7 DEF ResumeSchedule, indices, IInv, TypeOK
<1>9. VestedAt(r, now) = VestedAt(s, now)
  <2>1. /\ ~r.paused /\ r.start_time = s.start_time
        /\ r.paused_duration = s.paused_duration + (now - s.paused_at)
    BY <1>2, <1>4 DEF Schedule
  <2>2. Elapsed(r, now) = Elapsed(s, now)
    <3> HIDE DEF r, s
    <3>1. QED
      BY <1>2, <1>3, <2>1 DEF Elapsed, SaturatingSub
  <2>3. /\ SameCurve(r, s) /\ r.revoked = s.revoked
        /\ r.vested_at_revoke = s.vested_at_revoke
    BY <1>2 DEF SameCurve, Schedule
  <2> HIDE DEF r, s
  <2>4. QED
    BY <2>1, <2>2, <2>3, SameVested
<1>10. ScheduleInv(r, books[id], now, id \in extended)
  BY <1>2, <1>9 DEF ScheduleInv, PlanAccepted, Schedule
<1>11. /\ now' = now /\ count' = count /\ byGrantor' = byGrantor /\ books' = books /\ extended' = extended
  BY DEF ResumeSchedule, indices
<1>12. schedules'[id].grantor = schedules[id].grantor
  BY <1>2, <1>7 DEF Schedule
<1> HIDE DEF r, s
<1>13. QED
  BY <1>1, <1>7, <1>8, <1>10, <1>11, <1>12, OneScheduleStep

\* Naming the oracle touches no schedule.
LEMMA OracleStep ==
  ASSUME IInv, InitializePerformanceOracle
  PROVE  IInv'
<1>1. TypeOK'
  BY DEF InitializePerformanceOracle, indices, IInv, TypeOK, Stored
<1>2. QED
  BY <1>1 DEF InitializePerformanceOracle, indices, IInv, GrantorIndexExact, Stored

\* Requiring milestones sets a flag vesting does not read.
LEMMA EnableStep ==
  ASSUME IInv, NEW id \in Ids, NEW l \in MilestoneLists,
         EnablePerformanceMilestones(id, l)
  PROVE  IInv'
<1> DEFINE s == schedules[id]
           r == [s EXCEPT !.requires_milestones = TRUE]
<1>1. id \in Stored
  BY DEF EnablePerformanceMilestones
<1>2. s \in Schedule /\ ScheduleInv(s, books[id], now, id \in extended)
  BY <1>1, StoredFacts
<1>3. r \in Schedule
  BY <1>2 DEF Schedule
<1>4. schedules' = [schedules EXCEPT ![id] = r]
  BY <1>1 DEF EnablePerformanceMilestones, IInv, TypeOK
<1>5. /\ schedules' \in [Stored' -> Schedule] /\ Stored' = Stored
      /\ schedules'[id] = r /\ \A i \in Stored \ {id} : schedules'[i] = schedules[i]
  BY <1>1, <1>3, <1>4, UpdateType
<1>6. milestones' \in [Ids -> Seq(PerformanceMilestone)]
  <2>1. l \in Seq(0..100)
    BY MilestoneListAssumption
  <2>2. Len(l) \in Nat /\ \A i \in 1..Len(l) : l[i] \in 0..100
    BY <2>1, SeqFacts
  <2>3. [i \in 1..Len(l) |-> [unlock_percentage |-> l[i], attested |-> FALSE]]
           \in Seq(PerformanceMilestone)
    BY <2>2 DEF PerformanceMilestone
  <2>4. milestones \in [Ids -> Seq(PerformanceMilestone)]
    BY DEF IInv, TypeOK
  <2>5. QED
    BY <2>3, <2>4 DEF EnablePerformanceMilestones
<1>7. TypeOK'
  BY <1>5, <1>6 DEF EnablePerformanceMilestones, indices, IInv, TypeOK
<1>8. VestedAt(r, now) = VestedAt(s, now)
  <2>1. /\ SameCurve(r, s) /\ r.revoked = s.revoked
        /\ r.vested_at_revoke = s.vested_at_revoke /\ r.start_time = s.start_time
        /\ r.paused = s.paused /\ r.paused_at = s.paused_at
        /\ r.paused_duration = s.paused_duration
    BY <1>2 DEF SameCurve, Schedule
  <2> HIDE DEF r, s
  <2>2. Elapsed(r, now) = Elapsed(s, now)
    BY <2>1 DEF Elapsed
  <2>3. QED
    BY <2>1, <2>2, SameVested
<1>9. ScheduleInv(r, books[id], now, id \in extended)
  BY <1>2, <1>8 DEF ScheduleInv, PlanAccepted, Schedule
<1>10. /\ now' = now /\ count' = count /\ byGrantor' = byGrantor /\ books' = books /\ extended' = extended
  BY DEF EnablePerformanceMilestones, indices
<1>11. schedules'[id].grantor = schedules[id].grantor
  BY <1>2, <1>5 DEF Schedule
<1> HIDE DEF r, s
<1>12. QED
  BY <1>1, <1>5, <1>7, <1>9, <1>10, <1>11, OneScheduleStep

\* An attestation touches no schedule record.
LEMMA AttestStep ==
  ASSUME IInv, NEW id \in Ids, NEW i \in DOMAIN milestones[id], AttestMilestone(id, i)
  PROVE  IInv'
<1>1. milestones' \in [Ids -> Seq(PerformanceMilestone)]
  <2>1. milestones[id] \in Seq(PerformanceMilestone)
    BY DEF IInv, TypeOK
  <2>2. [milestones[id] EXCEPT ![i].attested = TRUE] \in Seq(PerformanceMilestone)
    <3>1. [milestones[id][i] EXCEPT !.attested = TRUE] \in PerformanceMilestone
      <4>1. milestones[id][i] \in PerformanceMilestone
        BY <2>1, SeqFacts
      <4>2. QED
        BY <4>1 DEF PerformanceMilestone
    <3>2. QED
      BY <2>1, <3>1
  <2>3. QED
    BY <2>2 DEF AttestMilestone, IInv, TypeOK
<1>2. TypeOK'
  BY <1>1 DEF AttestMilestone, indices, IInv, TypeOK, Stored
<1>3. QED
  BY <1>2 DEF AttestMilestone, indices, IInv, GrantorIndexExact, Stored

\* A payout moves tokens out of the balance and enters them in the books.
LEMMA PayOutFacts ==
  ASSUME IInv, NEW id \in Stored, NEW released \in Nat, NEW refund \in Nat,
         PayOut(id, released, refund)
  PROVE  /\ escrow' \in [Tokens -> Nat]
         /\ books' \in [Ids -> Ledger]
         /\ books'[id].funded = books[id].funded
         /\ books'[id].toBeneficiary = books[id].toBeneficiary + released
         /\ books'[id].toGrantor = books[id].toGrantor + refund
         /\ \A i \in Ids \ {id} : books'[i] = books[i]
<1>1. id \in Ids /\ schedules[id] \in Schedule
  BY StoredFacts
<1>2. schedules[id].token \in Tokens
  BY <1>1 DEF Schedule
<1>3. escrow' \in [Tokens -> Nat]
  BY <1>2 DEF PayOut, IInv, TypeOK
<1>4. books \in [Ids -> Ledger] /\ books[id] \in Ledger
  BY <1>1 DEF IInv, TypeOK
<1>5. books' = [books EXCEPT ![id] = [books[id] EXCEPT
                   !.toBeneficiary = books[id].toBeneficiary + released,
                   !.toGrantor = books[id].toGrantor + refund]]
  BY <1>1, <1>4 DEF PayOut, Ledger
<1>6. [books[id] EXCEPT !.toBeneficiary = books[id].toBeneficiary + released,
                        !.toGrantor = books[id].toGrantor + refund] \in Ledger
  <2>1. /\ books[id].toBeneficiary + released \in Nat
        /\ books[id].toGrantor + refund \in Nat
    BY <1>4 DEF Ledger
  <2>2. QED
    BY <1>4, <2>1 DEF Ledger
<1>7. books' \in [Ids -> Ledger] /\ \A i \in Ids \ {id} : books'[i] = books[i]
  BY <1>1, <1>4, <1>5, <1>6
<1>8. books'[id] = [books[id] EXCEPT !.toBeneficiary = books[id].toBeneficiary + released,
                                     !.toGrantor = books[id].toGrantor + refund]
  BY <1>1, <1>4, <1>5
<1>9. QED
  BY <1>3, <1>4, <1>7, <1>8 DEF Ledger

\* Paying some of what has vested, and entering it in the record, keeps the invariant.
LEMMA PayStep ==
  ASSUME IInv, NEW id \in Stored, NEW c \in Nat, c > 0,
         c <= ClaimableAt(schedules[id], now),
         schedules' = [schedules EXCEPT ![id].claimed_amount = @ + c],
         PayOut(id, c, 0),
         UNCHANGED <<now, count, indices, oracleSet, milestones, extended>>
  PROVE  IInv'
<1> DEFINE s == schedules[id]
           r == [s EXCEPT !.claimed_amount = s.claimed_amount + c]
<1>2. /\ s \in Schedule /\ now \in Nat
      /\ ScheduleInv(s, books[id], now, id \in extended)
      /\ VestedAt(s, now) \in 0..s.total_amount
  BY StoredFacts
<1>3. s.total_amount \in Nat /\ s.claimed_amount \in Nat
  BY <1>2 DEF Schedule
<1>4. s.claimed_amount + c <= VestedAt(s, now)
  BY <1>2, <1>3 DEF ClaimableAt, SaturatingSub
<1>5. r \in Schedule
  <2>1. s.claimed_amount + c \in Nat
    BY <1>3
  <2>2. QED
    BY <1>2, <2>1 DEF Schedule
<1>6. schedules' = [schedules EXCEPT ![id] = r]
  BY DEF IInv, TypeOK
<1>7. /\ schedules' \in [Stored' -> Schedule] /\ Stored' = Stored
      /\ schedules'[id] = r /\ \A i \in Stored \ {id} : schedules'[i] = schedules[i]
  BY <1>5, <1>6, UpdateType
<1>8. /\ escrow' \in [Tokens -> Nat] /\ books' \in [Ids -> Ledger]
      /\ books'[id].funded = books[id].funded
      /\ books'[id].toBeneficiary = books[id].toBeneficiary + c
      /\ books'[id].toGrantor = books[id].toGrantor + 0
      /\ \A i \in Ids \ {id} : books'[i] = books[i]
  BY PayOutFacts
<1>9. TypeOK'
  BY <1>7, <1>8 DEF indices, IInv, TypeOK
<1>10. VestedAt(r, now) = VestedAt(s, now)
  <2>1. /\ SameCurve(r, s) /\ r.revoked = s.revoked
        /\ r.vested_at_revoke = s.vested_at_revoke /\ r.start_time = s.start_time
        /\ r.paused = s.paused /\ r.paused_at = s.paused_at
        /\ r.paused_duration = s.paused_duration
    BY <1>2 DEF SameCurve, Schedule
  <2> HIDE DEF r, s
  <2>2. Elapsed(r, now) = Elapsed(s, now)
    BY <2>1 DEF Elapsed
  <2>3. QED
    BY <2>1, <2>2, SameVested
<1>11. ScheduleInv(r, books'[id], now, id \in extended)
  <2>1. books[id].toGrantor \in Nat
    BY StoredFacts DEF IInv, TypeOK, Ledger
  <2>2. /\ r.claimed_amount = s.claimed_amount + c /\ r.total_amount = s.total_amount
        /\ r.vested_at_revoke = s.vested_at_revoke /\ r.revoked = s.revoked
        /\ r.revocable = s.revocable /\ r.paused_at = s.paused_at
        /\ r.paused = s.paused /\ r.kind = s.kind /\ r.milestones = s.milestones
    BY <1>2 DEF Schedule
  <2> HIDE DEF r, s
  <2>3. QED
    BY <1>2, <1>3, <1>4, <1>8, <1>10, <2>1, <2>2 DEF ScheduleInv, PlanAccepted
<1>12. /\ now' = now /\ count' = count /\ byGrantor' = byGrantor /\ extended' = extended
  BY DEF indices
<1>13. schedules'[id].grantor = schedules[id].grantor
  BY <1>2, <1>7 DEF Schedule
<1> HIDE DEF r, s
<1>14. QED
  BY <1>7, <1>8, <1>9, <1>11, <1>12, <1>13, OneScheduleStep

\* A claim adds to claimed_amount what has vested and is not yet claimed, at most.
LEMMA ClaimStep ==
  ASSUME IInv, NEW id \in Ids, Claim(id)
  PROVE  IInv'
<1> DEFINE c == Claimable(id)
<1>1. id \in Stored /\ c > 0 /\ PayOut(id, c, 0)
  BY DEF Claim
<1>2. ClaimableAt(schedules[id], now) \in Nat
  <2>1. /\ VestedAt(schedules[id], now) \in Int /\ schedules[id].claimed_amount \in Nat
        /\ schedules[id].total_amount \in Nat
    BY <1>1, StoredFacts DEF Schedule
  <2>2. QED
    BY <2>1 DEF ClaimableAt, SaturatingSub
<1>3. c \in 0..ClaimableAt(schedules[id], now)
  BY <1>1, <1>2, WithinBounds DEF Claimable
<1>4. /\ schedules' = [schedules EXCEPT ![id].claimed_amount = @ + c]
      /\ UNCHANGED <<now, count, indices, oracleSet, milestones, extended>>
  BY DEF Claim
<1> HIDE DEF c
<1>5. c \in Nat /\ c <= ClaimableAt(schedules[id], now)
  BY <1>2, <1>3
<1>6. QED
  BY <1>1, <1>4, <1>5, PayStep

\* A revocation freezes what has vested, pays what of it is due and returns the rest.
LEMMA RevokeStep ==
  ASSUME IInv, NEW id \in Ids, Revoke(id)
  PROVE  IInv'
<1> DEFINE s == schedules[id]
           v == VestedAt(s, now)
           c == WithinMilestones(id, SaturatingSub(v, s.claimed_amount))
           r == [s EXCEPT !.revoked = TRUE, !.vested_at_revoke = v,
                          !.claimed_amount = s.claimed_amount + c]
<1>1. id \in Stored
  BY DEF Revoke
<1>2. /\ s \in Schedule /\ now \in Nat
      /\ ScheduleInv(s, books[id], now, id \in extended)
      /\ v \in 0..s.total_amount
  BY <1>1, StoredFacts
<1>3. s.total_amount \in Nat /\ s.claimed_amount \in Nat
  BY <1>2 DEF Schedule
<1>4. /\ c \in Nat
      /\ s.claimed_amount + c <= s.total_amount
      /\ s.claimed_amount <= v => s.claimed_amount + c <= v
  <2> DEFINE d == SaturatingSub(v, s.claimed_amount)
  <2>1. /\ d \in Nat
        /\ IF v >= s.claimed_amount THEN d = v - s.claimed_amount ELSE d = 0
    <3> HIDE DEF v, s
    <3>1. QED
      BY <1>2, <1>3 DEF SaturatingSub
  <2> HIDE DEF d
  <2>2. WithinMilestones(id, d) \in 0..d
    BY <1>1, <2>1, WithinBounds
  <2>3. c \in 0..d
    BY <2>2 DEF d
  <2>4. s.claimed_amount <= s.total_amount
    BY <1>2 DEF ScheduleInv
  <2> HIDE DEF c, v, s
  <2>5. QED
    BY <1>2, <1>3, <2>1, <2>3, <2>4
<1>5. ~s.revoked /\ s.revocable
  BY DEF Revoke
<1>6. r \in Schedule
  <2>1. s.claimed_amount + c \in Nat /\ v \in Nat
    <3> HIDE DEF c, v
    <3>1. QED
      BY <1>2, <1>3, <1>4
  <2>2. QED
    BY <1>2, <2>1 DEF Schedule
<1>7. schedules' = [schedules EXCEPT ![id] = r]
  BY <1>1 DEF Revoke, IInv, TypeOK
<1>8. /\ schedules' \in [Stored' -> Schedule] /\ Stored' = Stored
      /\ schedules'[id] = r /\ \A i \in Stored \ {id} : schedules'[i] = schedules[i]
  BY <1>1, <1>6, <1>7, UpdateType
<1>9. /\ escrow' \in [Tokens -> Nat] /\ books' \in [Ids -> Ledger]
      /\ books'[id].funded = books[id].funded
      /\ books'[id].toBeneficiary = books[id].toBeneficiary + c
      /\ books'[id].toGrantor = books[id].toGrantor + (s.total_amount - v)
      /\ \A i \in Ids \ {id} : books'[i] = books[i]
  <2>1. PayOut(id, c, s.total_amount - v)
    BY DEF Revoke, UnvestedAt
  <2> HIDE DEF c, v
  <2>2. s.total_amount - v \in Nat
    BY <1>2, <1>3
  <2>3. QED
    BY <1>1, <1>4, <2>1, <2>2, PayOutFacts
<1>10. TypeOK'
  BY <1>8, <1>9 DEF Revoke, indices, IInv, TypeOK
<1>11. ScheduleInv(r, books'[id], now, id \in extended)
  <2>0. id \notin extended => s.claimed_amount <= v
    BY <1>2 DEF ScheduleInv
  <2> HIDE DEF c, v
  <2>1. VestedAt(r, now) = v
    BY <1>2 DEF VestedAt, Schedule
  <2>2. /\ r.claimed_amount = s.claimed_amount + c /\ r.total_amount = s.total_amount
        /\ r.vested_at_revoke = v /\ r.revoked /\ r.revocable = s.revocable
        /\ r.paused_at = s.paused_at /\ r.paused = s.paused
        /\ r.kind = s.kind /\ r.milestones = s.milestones
    BY <1>2 DEF Schedule
  <2>3. books[id].toGrantor = 0
    BY <1>2, <1>5 DEF ScheduleInv
  <2> HIDE DEF r, s
  <2>4. QED
    BY <1>2, <1>3, <1>4, <1>5, <1>9, <2>0, <2>1, <2>2, <2>3 DEF ScheduleInv, PlanAccepted
<1>12. /\ now' = now /\ count' = count /\ byGrantor' = byGrantor /\ extended' = extended
  BY DEF Revoke, indices
<1>13. schedules'[id].grantor = schedules[id].grantor
  BY <1>2, <1>8 DEF Schedule
<1> HIDE DEF r, s
<1>14. QED
  BY <1>1, <1>8, <1>10, <1>11, <1>9, <1>12, <1>13, OneScheduleStep

\* A new beneficiary changes nothing vesting depends on.
LEMMA TransferBeneficiaryStep ==
  ASSUME IInv, NEW id \in Ids, NEW a \in Accounts, TransferBeneficiary(id, a)
  PROVE  IInv'
<1> DEFINE s == schedules[id]
           r == [s EXCEPT !.beneficiary = a]
<1>1. id \in Stored
  BY DEF TransferBeneficiary
<1>2. s \in Schedule /\ ScheduleInv(s, books[id], now, id \in extended)
  BY <1>1, StoredFacts
<1>3. r \in Schedule
  BY <1>2 DEF Schedule
<1>4. schedules' = [schedules EXCEPT ![id] = r]
  BY <1>1 DEF TransferBeneficiary, IInv, TypeOK
<1>5. /\ schedules' \in [Stored' -> Schedule] /\ Stored' = Stored
      /\ schedules'[id] = r /\ \A i \in Stored \ {id} : schedules'[i] = schedules[i]
  BY <1>1, <1>3, <1>4, UpdateType
<1>6. TypeOK'
  BY <1>5 DEF TransferBeneficiary, indices, IInv, TypeOK
<1>7. VestedAt(r, now) = VestedAt(s, now)
  <2>1. /\ SameCurve(r, s) /\ r.revoked = s.revoked
        /\ r.vested_at_revoke = s.vested_at_revoke /\ r.start_time = s.start_time
        /\ r.paused = s.paused /\ r.paused_at = s.paused_at
        /\ r.paused_duration = s.paused_duration
    BY <1>2 DEF SameCurve, Schedule
  <2> HIDE DEF r, s
  <2>2. Elapsed(r, now) = Elapsed(s, now)
    BY <2>1 DEF Elapsed
  <2>3. QED
    BY <2>1, <2>2, SameVested
<1>8. ScheduleInv(r, books[id], now, id \in extended)
  BY <1>2, <1>7 DEF ScheduleInv, PlanAccepted, Schedule
<1>9. /\ now' = now /\ count' = count /\ byGrantor' = byGrantor /\ books' = books /\ extended' = extended
  BY DEF TransferBeneficiary, indices
<1>10. schedules'[id].grantor = schedules[id].grantor
  BY <1>2, <1>5 DEF Schedule
<1> HIDE DEF r, s
<1>11. QED
  BY <1>1, <1>5, <1>6, <1>8, <1>9, <1>10, OneScheduleStep

\* An extension may lower what has vested, so it leaves the scope of the last
\* conjunct of ScheduleInv.
LEMMA ExtendStep ==
  ASSUME IInv, NEW id \in Ids, NEW x \in ExtendBy, ExtendDuration(id, x)
  PROVE  IInv'
<1> DEFINE s == schedules[id]
           r == [s EXCEPT !.duration_seconds = s.duration_seconds + x]
<1>1. id \in Stored /\ x \in Nat
  BY BoundsAssumption DEF ExtendDuration
<1>2. s \in Schedule /\ ScheduleInv(s, books[id], now, id \in extended)
  BY <1>1, StoredFacts
<1>3. r \in Schedule
  <2>1. s.duration_seconds + x \in Nat
    BY <1>1, <1>2 DEF Schedule
  <2>2. QED
    BY <1>2, <2>1 DEF Schedule
<1>4. schedules' = [schedules EXCEPT ![id] = r]
  BY <1>1 DEF ExtendDuration, IInv, TypeOK
<1>5. /\ schedules' \in [Stored' -> Schedule] /\ Stored' = Stored
      /\ schedules'[id] = r /\ \A i \in Stored \ {id} : schedules'[i] = schedules[i]
  BY <1>1, <1>3, <1>4, UpdateType
<1>6. extended' = extended \cup {id} /\ extended' \subseteq Ids
  BY DEF ExtendDuration, IInv, TypeOK
<1>7. TypeOK'
  BY <1>5, <1>6 DEF ExtendDuration, indices, IInv, TypeOK
<1>8. ScheduleInv(r, books[id], now, id \in extended')
  BY <1>2, <1>6 DEF ScheduleInv, PlanAccepted, Schedule
<1>9. /\ now' = now /\ count' = count /\ byGrantor' = byGrantor /\ books' = books
  BY DEF ExtendDuration, indices
<1>10. schedules'[id].grantor = schedules[id].grantor
  BY <1>2, <1>5 DEF Schedule
<1> HIDE DEF r, s
<1>11. QED
  BY <1>1, <1>5, <1>7, <1>8, <1>6, <1>9, <1>10, OneScheduleStep

\* Moving a schedule between grantors moves its index entry along.
LEMMA TransferGrantorStep ==
  ASSUME IInv, NEW id \in Ids, NEW a \in Accounts, TransferGrantor(id, a)
  PROVE  IInv'
<1> DEFINE s == schedules[id]
           r == [s EXCEPT !.grantor = a]
<1>1. id \in Stored
  BY DEF TransferGrantor
<1>2. s \in Schedule /\ ScheduleInv(s, books[id], now, id \in extended)
  BY <1>1, StoredFacts
<1>3. r \in Schedule /\ s.grantor \in Accounts /\ r.grantor = a /\ s.grantor # a
  BY <1>2 DEF Schedule, TransferGrantor
<1>4. schedules' = [schedules EXCEPT ![id] = r]
  BY <1>1 DEF TransferGrantor, IInv, TypeOK
<1>5. /\ schedules' \in [Stored' -> Schedule] /\ Stored' = Stored
      /\ schedules'[id] = r /\ \A i \in Stored \ {id} : schedules'[i] = schedules[i]
  BY <1>1, <1>3, <1>4, UpdateType
<1>6. byGrantor' = [byGrantor EXCEPT ![s.grantor] = byGrantor[s.grantor] \ {id},
                                     ![a] = byGrantor[a] \cup {id}]
  BY <1>3 DEF TransferGrantor, Moved, IInv, TypeOK
<1>7. byGrantor \in [Accounts -> SUBSET Ids]
  BY DEF IInv, TypeOK
<1>8. byGrantor' \in [Accounts -> SUBSET Ids]
  BY <1>3, <1>6, <1>7
<1>9. TypeOK'
  BY <1>5, <1>8 DEF TransferGrantor, IInv, TypeOK
<1>10. GrantorIndexExact'
  <2>1. ASSUME NEW b \in Accounts
        PROVE  byGrantor'[b] = {i \in Stored : schedules'[i].grantor = b}
    <3>1. byGrantor[b] = {i \in Stored : schedules[i].grantor = b}
      BY DEF IInv, GrantorIndexExact
    <3> HIDE DEF r, s
    <3>2. CASE b = s.grantor
      <4>1. byGrantor'[b] = byGrantor[b] \ {id}
        BY <1>3, <1>6, <1>7, <3>2
      <4>2. QED
        BY <1>3, <1>5, <3>1, <3>2, <4>1
    <3>3. CASE b = a
      <4>1. byGrantor'[b] = byGrantor[b] \cup {id}
        BY <1>3, <1>6, <1>7, <3>3
      <4>2. QED
        BY <1>1, <1>3, <1>5, <3>1, <3>3, <4>1
    <3>4. CASE b # s.grantor /\ b # a
      <4>1. byGrantor'[b] = byGrantor[b]
        BY <1>3, <1>6, <1>7, <3>4
      <4>2. schedules[id].grantor # b
        BY <3>4 DEF s
      <4>3. QED
        BY <1>3, <1>5, <3>1, <3>4, <4>1, <4>2
    <3>5. QED
      BY <3>2, <3>3, <3>4
  <2>2. QED
    BY <1>5, <2>1 DEF GrantorIndexExact
<1>11. VestedAt(r, now) = VestedAt(s, now)
  <2>1. /\ SameCurve(r, s) /\ r.revoked = s.revoked
        /\ r.vested_at_revoke = s.vested_at_revoke /\ r.start_time = s.start_time
        /\ r.paused = s.paused /\ r.paused_at = s.paused_at
        /\ r.paused_duration = s.paused_duration
    BY <1>2 DEF SameCurve, Schedule
  <2> HIDE DEF r, s
  <2>2. Elapsed(r, now) = Elapsed(s, now)
    BY <2>1 DEF Elapsed
  <2>3. QED
    BY <2>1, <2>2, SameVested
<1>12. ScheduleInv(r, books[id], now, id \in extended)
  BY <1>2, <1>11 DEF ScheduleInv, PlanAccepted, Schedule
<1>13. \A i \in Stored : ScheduleInv(schedules'[i], books[i], now, i \in extended)
  <2> HIDE DEF r
  <2>1. \A i \in Stored \ {id} :
            ScheduleInv(schedules'[i], books[i], now, i \in extended)
    BY <1>5 DEF IInv
  <2>2. QED
    BY <1>5, <1>12, <2>1
<1>14. QED
  BY <1>5, <1>9, <1>10, <1>13 DEF TransferGrantor, IInv

\* A destroyed schedule has paid out what it was funded with.
LEMMA DestroyStep ==
  ASSUME IInv, NEW id \in Ids, DestroySchedule(id)
  PROVE  IInv'
<1> DEFINE s == schedules[id]
<1>1. id \in Stored /\ s.claimed_amount = s.total_amount /\ ~s.revocable
  BY DEF DestroySchedule, FullyClaimed
<1>2. s \in Schedule /\ ScheduleInv(s, books[id], now, id \in extended)
  BY <1>1, StoredFacts
<1>3. Stored' = Stored \ {id} /\ \A i \in Stored' : schedules'[i] = schedules[i]
  BY DEF DestroySchedule, Stored
<1>4. schedules' \in [Stored' -> Schedule]
  <2>1. schedules \in [Stored -> Schedule]
    BY DEF IInv, TypeOK
  <2>2. QED
    BY <1>3, <2>1 DEF DestroySchedule
<1>5. s.grantor \in Accounts /\ s.beneficiary \in Accounts
  BY <1>2 DEF Schedule
<1>6. /\ byGrantor \in [Accounts -> SUBSET Ids]
      /\ byGrantor' = [byGrantor EXCEPT ![s.grantor] = byGrantor[s.grantor] \ {id}]
      /\ byBeneficiary' \in [Accounts -> SUBSET Ids]
  BY <1>5 DEF DestroySchedule, IInv, TypeOK
<1>7. byGrantor' \in [Accounts -> SUBSET Ids]
  BY <1>5, <1>6
<1>8. TypeOK'
  BY <1>3, <1>4, <1>6, <1>7 DEF DestroySchedule, IInv, TypeOK
<1>9. GrantorIndexExact'
  <2>1. ASSUME NEW b \in Accounts
        PROVE  byGrantor'[b] = {i \in Stored' : schedules'[i].grantor = b}
    <3>1. byGrantor[b] = {i \in Stored : schedules[i].grantor = b}
      BY DEF IInv, GrantorIndexExact
    <3>2. byGrantor'[b] = byGrantor[b] \ {id}
      <4>1. CASE b = s.grantor
        BY <1>5, <1>6, <4>1
      <4>2. CASE b # s.grantor
        <5>1. id \notin byGrantor[b]
          BY <3>1, <4>2
        <5>2. QED
          BY <1>5, <1>6, <4>2, <5>1
      <4>3. QED
        BY <4>1, <4>2
    <3>3. QED
      BY <1>3, <3>1, <3>2
  <2>2. QED
    BY <2>1 DEF GrantorIndexExact
<1>10. books[id].toBeneficiary + books[id].toGrantor = books[id].funded
  <2>1. s.total_amount \in Nat
    BY <1>2 DEF Schedule
  <2>2. QED
    BY <1>1, <1>2, <2>1 DEF ScheduleInv
<1>11. \A i \in Ids \ Stored' :
           books[i].toBeneficiary + books[i].toGrantor = books[i].funded
  BY <1>3, <1>10 DEF IInv
<1>12. \A i \in Stored' : ScheduleInv(schedules'[i], books[i], now, i \in extended)
  BY <1>3 DEF IInv
<1>13. QED
  BY <1>8, <1>9, <1>11, <1>12 DEF DestroySchedule, IInv

\* Storing a fresh schedule under the next id keeps the invariant.
LEMMA PersistStep ==
  ASSUME IInv, NEW s \in Schedule, PersistFundedSchedule(s), PlanAccepted(s),
         escrow' \in [Tokens -> Nat],
         s.claimed_amount = 0, s.vested_at_revoke = 0, ~s.revoked,
         ~s.paused, s.paused_at = 0
  PROVE  IInv'
<1> DEFINE id == count + 1
<1>1. /\ count \in Nat /\ id \in Ids /\ id \notin Stored /\ Stored \subseteq 1..count
      /\ id \in 1..id
  BY BoundsAssumption DEF PersistFundedSchedule, IInv, TypeOK, Ids
<1>2. /\ Stored' = Stored \cup {id} /\ schedules'[id] = s
      /\ \A i \in Stored : schedules'[i] = schedules[i]
  BY <1>1 DEF PersistFundedSchedule, Stored
<1>3. schedules' \in [Stored' -> Schedule]
  <2>1. schedules \in [Stored -> Schedule]
    BY DEF IInv, TypeOK
  <2>2. QED
    BY <1>2, <2>1 DEF PersistFundedSchedule
<1>4. /\ s.grantor \in Accounts /\ s.beneficiary \in Accounts /\ s.token \in Tokens
      /\ s.total_amount \in Nat /\ 0 \in Nat
  BY DEF Schedule
<1>5. /\ byGrantor \in [Accounts -> SUBSET Ids]
      /\ byGrantor' = [byGrantor EXCEPT ![s.grantor] = byGrantor[s.grantor] \cup {id}]
      /\ byBeneficiary' \in [Accounts -> SUBSET Ids]
  BY <1>1, <1>4 DEF PersistFundedSchedule, IInv, TypeOK
<1>6. byGrantor' \in [Accounts -> SUBSET Ids]
  BY <1>1, <1>4, <1>5
<1>7. books[id] = NoMoney
  <2>1. id > count
    BY <1>1
  <2>2. QED
    BY <1>1, <2>1 DEF IInv
<1>8. /\ books' \in [Ids -> Ledger]
      /\ books'[id] = [funded |-> s.total_amount, toBeneficiary |-> 0, toGrantor |-> 0]
      /\ \A i \in Ids \ {id} : books'[i] = books[i]
  <2>1. books \in [Ids -> Ledger]
    BY DEF IInv, TypeOK
  <2>2. books' = [books EXCEPT ![id] =
                    [funded |-> s.total_amount, toBeneficiary |-> 0, toGrantor |-> 0]]
    <3> DEFINE new == [funded |-> s.total_amount, toBeneficiary |-> 0, toGrantor |-> 0]
    <3>1. [books[id] EXCEPT !.funded = s.total_amount] = new
      BY <1>7 DEF NoMoney
    <3>2. books' = [books EXCEPT ![id] = [books[id] EXCEPT !.funded = s.total_amount]]
      BY <1>1, <2>1 DEF PersistFundedSchedule
    <3> HIDE DEF new
    <3>3. books' = [books EXCEPT ![id] = new]
      BY <3>1, <3>2, Zenon
    <3>4. QED
      BY <3>3 DEF new
  <2>3. [funded |-> s.total_amount, toBeneficiary |-> 0, toGrantor |-> 0] \in Ledger
    BY <1>4 DEF Ledger
  <2> HIDE DEF id
  <2>4. QED
    BY <1>1, <2>1, <2>2, <2>3
<1>9. count' = id /\ count' \in 0..MaxSchedules /\ Stored' \subseteq 1..count'
  BY <1>1, <1>2, BoundsAssumption DEF PersistFundedSchedule
<1>10. TypeOK'
  BY <1>3, <1>5, <1>6, <1>8, <1>9 DEF PersistFundedSchedule, IInv, TypeOK
<1>11. GrantorIndexExact'
  <2>1. ASSUME NEW b \in Accounts
        PROVE  byGrantor'[b] = {i \in Stored' : schedules'[i].grantor = b}
    <3>1. byGrantor[b] = {i \in Stored : schedules[i].grantor = b}
      BY DEF IInv, GrantorIndexExact
    <3> HIDE DEF id
    <3>2. CASE b = s.grantor
      <4>1. byGrantor'[b] = byGrantor[b] \cup {id}
        BY <1>4, <1>5, <3>2
      <4>2. QED
        BY <1>1, <1>2, <3>1, <3>2, <4>1
    <3>3. CASE b # s.grantor
      <4>1. byGrantor'[b] = byGrantor[b]
        BY <1>4, <1>5, <3>3
      <4>2. QED
        BY <1>1, <1>2, <3>1, <3>3, <4>1
    <3>4. QED
      BY <3>2, <3>3
  <2>2. QED
    BY <2>1 DEF GrantorIndexExact
<1>12. ScheduleInv(s, books'[id], now, id \in extended)
  <2>1. now \in 1..MaxTime /\ now \in Nat
    BY BoundsAssumption DEF IInv, TypeOK
  <2>2. VestedAt(s, now) \in 0..s.total_amount
    BY <1>4, <2>1, VestedBounds
  <2>3. QED
    BY <1>4, <1>8, <2>1, <2>2 DEF ScheduleInv
<1>13. \A i \in Stored' : ScheduleInv(schedules'[i], books'[i], now, i \in extended)
  <2>1. ASSUME NEW i \in Stored
        PROVE  ScheduleInv(schedules'[i], books'[i], now, i \in extended)
    <3>1. schedules'[i] = schedules[i] /\ books'[i] = books[i]
      <4>1. i \in Ids \ {id}
        BY <1>1, BoundsAssumption DEF Ids, IInv, TypeOK
      <4>2. QED
        BY <1>2, <1>8, <4>1
    <3>2. QED
      BY <3>1 DEF IInv
  <2>2. QED
    BY <1>2, <1>12, <2>1
<1>14. \A i \in Ids \ Stored' :
           books'[i].toBeneficiary + books'[i].toGrantor = books'[i].funded
  BY <1>2, <1>8 DEF IInv
<1>15. \A i \in Ids : i > count' => books'[i] = NoMoney
  <2>1. \A i \in Ids : i > id => i > count /\ i # id
    BY <1>1, BoundsAssumption DEF Ids
  <2>2. QED
    BY <1>8, <1>9, <2>1 DEF IInv
<1>16. QED
  BY <1>10, <1>11, <1>13, <1>14, <1>15 DEF PersistFundedSchedule, IInv

\* So does pulling its tokens and storing it.
LEMMA FundStep ==
  ASSUME IInv, NEW s \in Schedule, FundSchedule(s), PlanAccepted(s),
         s.claimed_amount = 0, s.vested_at_revoke = 0, ~s.revoked,
         ~s.paused, s.paused_at = 0
  PROVE  IInv'
<1>1. escrow \in [Tokens -> Nat] /\ s.token \in Tokens /\ s.total_amount \in Nat
  BY DEF IInv, TypeOK, Schedule
<1>2. escrow[s.token] + s.total_amount \in Nat
  BY <1>1
<1>3. escrow' \in [Tokens -> Nat]
  BY <1>1, <1>2 DEF FundSchedule
<1>4. PersistFundedSchedule(s)
  BY DEF FundSchedule
<1>5. QED
  BY <1>3, <1>4, PersistStep

\* A schedule without graded milestones is a schedule that has paid nothing yet.
LEMMA PlainScheduleFresh ==
  ASSUME NEW g \in Accounts, NEW b \in Accounts, NEW t \in Tokens,
         NEW o \in OfferType, o.total_amount > 0
  PROVE  LET s == PlainSchedule(g, b, t, o)
         IN  /\ s \in Schedule /\ PlanAccepted(s)
             /\ s.claimed_amount = 0 /\ s.vested_at_revoke = 0 /\ ~s.revoked
             /\ ~s.paused /\ s.paused_at = 0
<1> DEFINE s == PlainSchedule(g, b, t, o)
<1>1. o.total_amount \in Nat
  BY DEF OfferType
<1>2. s \in Schedule
  <2>1. <<>> \in Seq(Milestone)
    OBVIOUS
  <2>2. QED
    BY <1>1, <2>1 DEF OfferType, PlainSchedule, NewSchedule, Schedule
<1>3. PlanAccepted(s)
  BY <1>1 DEF OfferType, PlainSchedule, NewSchedule, PlanAccepted
<1>4. /\ s.claimed_amount = 0 /\ s.vested_at_revoke = 0 /\ ~s.revoked
      /\ ~s.paused /\ s.paused_at = 0
  BY DEF PlainSchedule, NewSchedule
<1>5. QED
  BY <1>2, <1>3, <1>4

\* Creating a schedule funds a fresh record.
LEMMA CreateStep ==
  ASSUME IInv, NEW g \in Accounts, NEW b \in Accounts, NEW t \in Tokens,
         NEW o \in Offers, CreateSchedule(g, b, t, o)
  PROVE  IInv'
<1> DEFINE s == PlainSchedule(g, b, t, o)
<1>1. o \in OfferType /\ o.total_amount > 0
  BY BoundsAssumption DEF CreateSchedule, ValidTerms
<1>2. /\ s \in Schedule /\ PlanAccepted(s)
      /\ s.claimed_amount = 0 /\ s.vested_at_revoke = 0 /\ ~s.revoked
      /\ ~s.paused /\ s.paused_at = 0
  BY <1>1, PlainScheduleFresh
<1>3. FundSchedule(s)
  BY DEF CreateSchedule
<1> HIDE DEF s
<1>4. QED
  BY <1>2, <1>3, FundStep

\* So does creating a graded one, whose last milestone ends it.
LEMMA CreateGradedStep ==
  ASSUME IInv, NEW g \in Accounts, NEW b \in Accounts, NEW t \in Tokens,
         NEW o \in GradedOffers, CreateGradedSchedule(g, b, t, o)
  PROVE  IInv'
<1> DEFINE offsets == {o.milestones[i].offset_secs : i \in DOMAIN o.milestones}
           s == NewSchedule(g, b, t, o.total_amount, o.start_time, Max(offsets),
                            0, o.lockup, "Graded", o.revocable, o.milestones)
<1>1. /\ o.total_amount \in Nat /\ o.start_time \in Nat /\ o.lockup \in Nat
      /\ o.revocable \in BOOLEAN /\ o.milestones \in Seq(Milestone)
      /\ o.milestones # <<>> /\ ValidPlan(o.milestones)
  BY BoundsAssumption DEF CreateGradedSchedule, ValidPlan
<1>2. Max(offsets) \in Nat
  <2>1. \A i \in DOMAIN o.milestones : o.milestones[i] \in Milestone
    BY <1>1, SeqFacts
  <2>2. offsets \in SUBSET (0..MaxDuration)
    BY <2>1 DEF Milestone
  <2>3. offsets # {}
    <3>1. 1 \in DOMAIN o.milestones
      BY <1>1, SeqFacts, EmptySeq
    <3>2. QED
      BY <3>1
  <2>4. MaxDuration \in Nat
    BY BoundsAssumption
  <2> HIDE DEF offsets
  <2>5. Max(offsets) \in offsets
    BY <2>2, <2>3, <2>4, MaxExists
  <2>6. \A y \in 0..MaxDuration : y \in Nat
    BY <2>4
  <2>7. QED
    BY <2>2, <2>5, <2>6
<1>3. s \in Schedule
  <2> HIDE DEF offsets
  <2>1. QED
    BY <1>1, <1>2 DEF NewSchedule, Schedule, VestingKinds
<1>4. PlanAccepted(s)
  BY <1>1 DEF NewSchedule, PlanAccepted
<1>5. FundSchedule(s)
  BY DEF CreateGradedSchedule
<1>6. /\ s.claimed_amount = 0 /\ s.vested_at_revoke = 0 /\ ~s.revoked
      /\ ~s.paused /\ s.paused_at = 0
  BY DEF NewSchedule
<1> HIDE DEF s
<1>7. QED
  BY <1>3, <1>4, <1>5, <1>6, FundStep

\* A ledger that closes only lets more vest.
LEMMA TickStep ==
  ASSUME IInv, Tick
  PROVE  IInv'
<1>1. now \in 1..MaxTime /\ now' \in 1..MaxTime /\ now \in Nat /\ now' = now + 1
  BY BoundsAssumption DEF Tick, IInv, TypeOK
<1>2. TypeOK'
  BY <1>1 DEF Tick, indices, IInv, TypeOK, Stored
<1>3. ASSUME NEW id \in Stored
      PROVE  ScheduleInv(schedules[id], books[id], now', id \in extended)
  <2> DEFINE s == schedules[id]
  <2>1. /\ s \in Schedule /\ ScheduleInv(s, books[id], now, id \in extended)
        /\ VestedAt(s, now) \in 0..s.total_amount
    BY StoredFacts
  <2>2. /\ PlanAccepted(s) /\ s.paused_at <= now /\ s.paused_at \in Nat
        /\ s.claimed_amount \in Nat /\ s.total_amount \in Nat
        /\ s.vested_at_revoke <= s.total_amount /\ now <= now'
    BY <1>1, <2>1 DEF ScheduleInv, Schedule
  <2> HIDE DEF s
  <2>3. VestedAt(s, now) <= VestedAt(s, now')
    BY <1>1, <2>1, <2>2, VestedMonotone
  <2>4. VestedAt(s, now') \in 0..s.total_amount
    BY <1>1, <2>1, <2>2, VestedBounds
  <2>5. ScheduleInv(s, books[id], now', id \in extended)
    BY <1>1, <2>1, <2>2, <2>3, <2>4 DEF ScheduleInv
  <2>6. QED
    BY <2>5 DEF s
<1>4. QED
  BY <1>2, <1>3 DEF Tick, indices, IInv, GrantorIndexExact, Stored

\* A step that changes no variable keeps the invariant.
LEMMA StutterStep ==
  ASSUME IInv, UNCHANGED vars
  PROVE  IInv'
<1>1. TypeOK'
  BY DEF vars, indices, IInv, TypeOK, Stored
<1>2. QED
  BY <1>1 DEF vars, indices, IInv, GrantorIndexExact, Stored

\* Every step keeps the invariant.
LEMMA NextIInv == IInv /\ [Next]_vars => IInv'
<1> SUFFICES ASSUME IInv, [Next]_vars PROVE IInv'
  OBVIOUS
<1>1. CASE Tick
  BY <1>1, TickStep
<1>2. CASE Create
  <2>1. PICK g \in Accounts, b \in Accounts, t \in Tokens :
            \/ \E o \in Offers : CreateSchedule(g, b, t, o)
            \/ \E o \in GradedOffers : CreateGradedSchedule(g, b, t, o)
    BY <1>2 DEF Create
  <2>2. QED
    BY <2>1, CreateStep, CreateGradedStep
<1>3. CASE InitializePerformanceOracle
  BY <1>3, OracleStep
<1>4. ASSUME NEW id \in Ids, Operate(id) PROVE IInv'
  <2>1. CASE PauseSchedule(id)
    BY <2>1, PauseStep
  <2>2. CASE ResumeSchedule(id)
    BY <2>2, ResumeStep
  <2>3. CASE \E l \in MilestoneLists : EnablePerformanceMilestones(id, l)
    BY <2>3, EnableStep
  <2>4. CASE \E i \in DOMAIN milestones[id] : AttestMilestone(id, i)
    BY <2>4, AttestStep
  <2>5. CASE Claim(id)
    BY <2>5, ClaimStep
  <2>6. CASE Revoke(id)
    BY <2>6, RevokeStep
  <2>7. CASE \E a \in Accounts : TransferBeneficiary(id, a) \/ TransferGrantor(id, a)
    BY <2>7, TransferBeneficiaryStep, TransferGrantorStep
  <2>8. CASE \E x \in ExtendBy : ExtendDuration(id, x)
    BY <2>8, ExtendStep
  <2>9. CASE DestroySchedule(id)
    BY <2>9, DestroyStep
  <2>10. QED
    BY <1>4, <2>1, <2>2, <2>3, <2>4, <2>5, <2>6, <2>7, <2>8, <2>9 DEF Operate
<1>5. CASE UNCHANGED vars
  BY <1>5, StutterStep
<1>6. QED
  BY <1>1, <1>2, <1>3, <1>4, <1>5 DEF Next

\* What the invariant says of books and records bounds the payouts: a revocation
\* returns only what has not vested, and what the beneficiary was paid by then had.
LEMMA InvariantBoundsPayouts == IInv => PayoutsWithinGrant
<1>1. ASSUME IInv, NEW id \in Ids \ extended
      PROVE  books[id].toBeneficiary + books[id].toGrantor <= books[id].funded
  <2>1. books[id] \in Ledger
    BY <1>1 DEF IInv, TypeOK
  <2>2. CASE id \notin Stored
    BY <1>1, <2>1, <2>2 DEF IInv, Ledger
  <2>3. CASE id \in Stored
    <3> DEFINE s == schedules[id]
    <3>1. s \in Schedule /\ ScheduleInv(s, books[id], now, id \in extended)
      BY <1>1, <2>3, StoredFacts
    <3>2. /\ s.claimed_amount \in Nat /\ s.total_amount \in Nat
          /\ s.vested_at_revoke \in Nat
      BY <3>1 DEF Schedule
    <3>3. s.revoked => s.claimed_amount <= s.vested_at_revoke
      BY <1>1, <3>1 DEF ScheduleInv, VestedAt
    <3> HIDE DEF s
    <3>4. QED
      BY <3>1, <3>2, <3>3 DEF ScheduleInv
  <2>4. QED
    BY <2>2, <2>3
<1>2. QED
  BY <1>1 DEF PayoutsWithinGrant

\* A handed-out id without a record has paid out all it was funded with.
LEMMA InvariantStrandsNothing == IInv => NothingStranded
<1>1. ASSUME IInv PROVE NothingStranded
  <2>1. \A id \in 1..count : id \in Ids
    BY <1>1, BoundsAssumption DEF IInv, TypeOK, Ids
  <2>2. QED
    BY <1>1, <2>1 DEF IInv, NothingStranded
<1>2. QED
  BY <1>1

-----------------------------------------------------------------------------
(* What a step does to the vested amount *)

\* A call that changes neither the curve of a stored schedule nor where it stands
\* on it leaves its vested amount as it was.
LEMMA SameFieldsSameVested ==
  ASSUME NEW r, NEW s, NEW t, SameCurve(r, s), r.start_time = s.start_time,
         r.revoked = s.revoked, r.vested_at_revoke = s.vested_at_revoke,
         r.paused = s.paused, r.paused_at = s.paused_at,
         r.paused_duration = s.paused_duration
  PROVE  VestedAt(r, t) = VestedAt(s, t)
<1>1. Elapsed(r, t) = Elapsed(s, t)
  BY DEF Elapsed
<1>2. QED
  BY <1>1, SameVested

\* A pause begins, or ends, without a jump in the vested amount.
LEMMA PauseKeepsVested ==
  ASSUME IInv, NEW id \in Stored, PauseSchedule(id) \/ ResumeSchedule(id)
  PROVE  VestedAt(schedules'[id], now) = VestedAt(schedules[id], now)
<1> DEFINE s == schedules[id]
           r == schedules'[id]
<1>1. /\ s \in Schedule /\ now \in Nat /\ now > 0
      /\ ScheduleInv(s, books[id], now, id \in extended)
  BY StoredFacts
<1>2. /\ s.start_time \in Nat /\ s.paused_duration \in Nat /\ s.paused_at \in Nat
      /\ s.paused => s.paused_at > 0 /\ s.paused_at <= now
  BY <1>1 DEF Schedule, ScheduleInv
<1>3. schedules \in [Stored -> Schedule]
  BY DEF IInv, TypeOK
<1>4. CASE PauseSchedule(id)
  <2>1. r = [s EXCEPT !.paused = TRUE, !.paused_at = now] /\ ~s.paused
    BY <1>3, <1>4 DEF PauseSchedule
  <2>2. /\ SameCurve(r, s) /\ r.start_time = s.start_time /\ r.revoked = s.revoked
        /\ r.vested_at_revoke = s.vested_at_revoke
        /\ r.paused /\ r.paused_at = now /\ r.paused_duration = s.paused_duration
    BY <1>1, <2>1 DEF SameCurve, Schedule
  <2>3. Elapsed(r, now) = Elapsed(s, now)
    <3> HIDE DEF r, s
    <3>1. QED
      BY <1>1, <1>2, <2>1, <2>2 DEF Elapsed, SaturatingSub
  <2> HIDE DEF r, s
  <2>4. VestedAt(r, now) = VestedAt(s, now)
    BY <2>2, <2>3, SameVested
  <2> QED
    BY <2>4 DEF r, s
<1>5. CASE ResumeSchedule(id)
  <2>1. /\ r = [s EXCEPT !.paused_duration = PausedTotal(s), !.paused = FALSE, !.paused_at = 0]
        /\ s.paused
    BY <1>3, <1>5 DEF ResumeSchedule
  <2>2. /\ SameCurve(r, s) /\ r.start_time = s.start_time /\ r.revoked = s.revoked
        /\ r.vested_at_revoke = s.vested_at_revoke
        /\ ~r.paused /\ r.paused_duration = PausedTotal(s)
    BY <1>1, <2>1 DEF SameCurve, Schedule
  <2>3. Elapsed(r, now) = Elapsed(s, now)
    <3> HIDE DEF r, s
    <3>1. QED
      BY <1>1, <1>2, <2>1, <2>2 DEF Elapsed, PausedTotal, SaturatingSub
  <2> HIDE DEF r, s
  <2>4. VestedAt(r, now) = VestedAt(s, now)
    BY <2>2, <2>3, SameVested
  <2> QED
    BY <2>4 DEF r, s
<1> QED
  BY <1>4, <1>5

\* A revocation freezes the schedule at what has vested.
LEMMA RevokeKeepsVested ==
  ASSUME IInv, NEW id \in Stored, Revoke(id)
  PROVE  VestedAt(schedules'[id], now) = VestedAt(schedules[id], now)
<1>1. schedules \in [Stored -> Schedule] /\ schedules[id] \in Schedule
  BY DEF IInv, TypeOK
<1>2. schedules'[id].revoked /\ schedules'[id].vested_at_revoke = VestedAt(schedules[id], now)
  <2> DEFINE v == VestedAt(schedules[id], now)
             c == WithinMilestones(id, SaturatingSub(v, schedules[id].claimed_amount))
  <2>1. schedules' = [schedules EXCEPT ![id].revoked = TRUE, ![id].vested_at_revoke = v,
                                       ![id].claimed_amount = @ + c]
    BY DEF Revoke
  <2> HIDE DEF v, c
  <2>2. schedules'[id].revoked /\ schedules'[id].vested_at_revoke = v
    BY <1>1, <2>1 DEF Schedule
  <2> QED
    BY <2>2 DEF v
<1> QED
  BY <1>2 DEF VestedAt

\* The other calls on a schedule that keep its duration write no field its vesting
\* reads, and no call writes another schedule's record.
LEMMA OperateKeepsVested ==
  ASSUME IInv, NEW id \in Ids, Operate(id),
         NEW j \in Stored \cap DOMAIN schedules',
         schedules'[j].duration_seconds = schedules[j].duration_seconds
  PROVE  VestedAt(schedules'[j], now') = VestedAt(schedules[j], now)
<1>1. schedules \in [Stored -> Schedule] /\ schedules[j] \in Schedule
  BY DEF IInv, TypeOK
<1> DEFINE Same == schedules'[j] = schedules[j]
           Alike == LET r == schedules'[j]
                        s == schedules[j]
                    IN  /\ SameCurve(r, s) /\ r.start_time = s.start_time
                        /\ r.revoked = s.revoked /\ r.vested_at_revoke = s.vested_at_revoke
                        /\ r.paused = s.paused /\ r.paused_at = s.paused_at
                        /\ r.paused_duration = s.paused_duration
<1>2. now' = now
  BY DEF Operate, PauseSchedule, ResumeSchedule, EnablePerformanceMilestones,
         AttestMilestone, Claim, Revoke, TransferBeneficiary, TransferGrantor,
         ExtendDuration, DestroySchedule
<1>3. ASSUME Same PROVE VestedAt(schedules'[j], now) = VestedAt(schedules[j], now)
  BY <1>3
<1>4. ASSUME Alike PROVE VestedAt(schedules'[j], now) = VestedAt(schedules[j], now)
  BY <1>4, SameFieldsSameVested
<1>5. CASE PauseSchedule(id) \/ ResumeSchedule(id)
  <2>1. CASE j = id
    BY <1>2, <1>5, <2>1, PauseKeepsVested
  <2>2. CASE j # id
    BY <1>1, <1>2, <1>3, <1>5, <2>2 DEF PauseSchedule, ResumeSchedule
  <2> QED
    BY <2>1, <2>2
<1>6. CASE Revoke(id)
  <2>1. CASE j = id
    BY <1>2, <1>6, <2>1, RevokeKeepsVested
  <2>2. CASE j # id
    BY <1>1, <1>2, <1>3, <1>6, <2>2 DEF Revoke
  <2> QED
    BY <2>1, <2>2
<1>7. CASE \E l \in MilestoneLists : EnablePerformanceMilestones(id, l)
  <2>1. schedules' = [schedules EXCEPT ![id].requires_milestones = TRUE]
    BY <1>7 DEF EnablePerformanceMilestones
  <2>2. Alike
    BY <1>1, <2>1 DEF Schedule, SameCurve
  <2> QED
    BY <1>2, <1>4, <2>2
<1>8. CASE \E i \in DOMAIN milestones[id] : AttestMilestone(id, i)
  BY <1>2, <1>3, <1>8 DEF AttestMilestone
<1>9. CASE Claim(id)
  <2>1. schedules' = [schedules EXCEPT ![id].claimed_amount = @ + Claimable(id)]
    BY <1>9 DEF Claim
  <2>2. Alike
    BY <1>1, <2>1 DEF Schedule, SameCurve
  <2> QED
    BY <1>2, <1>4, <2>2
<1>10. ASSUME NEW a \in Accounts, TransferBeneficiary(id, a) \/ TransferGrantor(id, a)
       PROVE  VestedAt(schedules'[j], now) = VestedAt(schedules[j], now)
  <2>1. CASE TransferBeneficiary(id, a)
    <3>1. schedules' = [schedules EXCEPT ![id].beneficiary = a]
      BY <2>1 DEF TransferBeneficiary
    <3>2. Alike
      BY <1>1, <3>1 DEF Schedule, SameCurve
    <3> QED
      BY <1>4, <3>2
  <2>2. CASE TransferGrantor(id, a)
    <3>1. schedules' = [schedules EXCEPT ![id].grantor = a]
      BY <2>2 DEF TransferGrantor
    <3>2. Alike
      BY <1>1, <3>1 DEF Schedule, SameCurve
    <3> QED
      BY <1>4, <3>2
  <2> QED
    BY <1>10, <2>1, <2>2
<1>11. ASSUME NEW x \in ExtendBy, ExtendDuration(id, x)
       PROVE  Same
  <2>1. schedules' = [schedules EXCEPT ![id].duration_seconds = @ + x] /\ x > 0 /\ x \in Nat
    BY <1>11, BoundsAssumption DEF ExtendDuration
  <2>2. j # id
    <3>1. SUFFICES ASSUME j = id PROVE FALSE
      OBVIOUS
    <3>2. schedules'[j].duration_seconds = schedules[j].duration_seconds + x
      BY <1>1, <2>1, <3>1 DEF Schedule
    <3>3. schedules[j].duration_seconds \in Nat
      BY <1>1 DEF Schedule
    <3> QED
      BY <2>1, <3>2, <3>3
  <2> QED
    BY <1>1, <2>1, <2>2
<1>12. CASE DestroySchedule(id)
  <2>1. Same
    BY <1>12 DEF DestroySchedule
  <2> QED
    BY <1>2, <1>3, <2>1
<1> HIDE DEF Same, Alike
<1> QED
  BY <1>2, <1>3, <1>5, <1>6, <1>7, <1>8, <1>9, <1>10, <1>11, <1>12 DEF Operate

\* Both ways to create a schedule end with storing it under the next id.
LEMMA CreatePersists ==
  ASSUME Create
  PROVE  \E s : PersistFundedSchedule(s)
<1>1. PICK g \in Accounts, b \in Accounts, t \in Tokens :
          \/ \E o \in Offers : CreateSchedule(g, b, t, o)
          \/ \E o \in GradedOffers : CreateGradedSchedule(g, b, t, o)
  BY DEF Create
<1>2. ASSUME NEW o \in Offers, CreateSchedule(g, b, t, o)
      PROVE  \E s : PersistFundedSchedule(s)
  <2>1. PersistFundedSchedule(PlainSchedule(g, b, t, o))
    BY <1>2 DEF CreateSchedule, FundSchedule
  <2> QED
    BY <2>1
<1>3. ASSUME NEW o \in GradedOffers, CreateGradedSchedule(g, b, t, o)
      PROVE  \E s : PersistFundedSchedule(s)
  <2> DEFINE x == NewSchedule(g, b, t, o.total_amount, o.start_time,
                    Max({o.milestones[i].offset_secs : i \in DOMAIN o.milestones}),
                    0, o.lockup, "Graded", o.revocable, o.milestones)
  <2>1. PersistFundedSchedule(x)
    BY <1>3 DEF CreateGradedSchedule, FundSchedule
  <2> HIDE DEF x
  <2> QED
    BY <2>1
<1> QED
  BY <1>1, <1>2, <1>3

\* A new schedule is stored under an id no other has.
LEMMA CreateKeepsSchedules ==
  ASSUME IInv, Create, NEW j \in Stored
  PROVE  /\ schedules'[j] = schedules[j] /\ now' = now
         /\ books'[j] = books[j]
<1>1. j # count + 1 /\ j \in Ids
  <2>1. j \in 1..count /\ count \in Nat
    BY BoundsAssumption DEF IInv, TypeOK
  <2> QED
    BY <2>1, StoredFacts
<1>2. PICK s : PersistFundedSchedule(s)
  BY CreatePersists
<1>3. books \in [Ids -> Ledger]
  BY DEF IInv, TypeOK
<1> QED
  BY <1>1, <1>2, <1>3 DEF PersistFundedSchedule

\* Ids are handed out in order, none twice, and a schedule outside storage stays
\* there.
LEMMA StoredGrows ==
  ASSUME IInv, [Next]_vars
  PROVE  /\ count' \in {count, count + 1}
         /\ Stored' \subseteq Stored \cup {count + 1}
         /\ count' = count => Stored' \subseteq Stored
<1>1. CASE Create
  <2>1. PICK s : PersistFundedSchedule(s)
    BY <1>1, CreatePersists
  <2> QED
    BY <2>1 DEF PersistFundedSchedule, Stored, IInv, TypeOK
<1>2. ASSUME NEW id \in Ids, Operate(id)
      PROVE  count' = count /\ Stored' \subseteq Stored
  <2>1. CASE DestroySchedule(id)
    BY <2>1 DEF DestroySchedule, Stored
  <2>2. CASE PauseSchedule(id)
    BY <2>2 DEF PauseSchedule, Stored
  <2>3. CASE ResumeSchedule(id)
    BY <2>3 DEF ResumeSchedule, Stored
  <2>4. CASE \E l \in MilestoneLists : EnablePerformanceMilestones(id, l)
    BY <2>4 DEF EnablePerformanceMilestones, Stored
  <2>5. CASE \E i \in DOMAIN milestones[id] : AttestMilestone(id, i)
    BY <2>5 DEF AttestMilestone, Stored
  <2>6. CASE Claim(id)
    BY <2>6 DEF Claim, Stored
  <2>7. CASE Revoke(id)
    BY <2>7 DEF Revoke, Stored
  <2>8. CASE \E a \in Accounts : TransferBeneficiary(id, a)
    BY <2>8 DEF TransferBeneficiary, Stored
  <2>9. CASE \E a \in Accounts : TransferGrantor(id, a)
    BY <2>9 DEF TransferGrantor, Stored
  <2>10. CASE \E x \in ExtendBy : ExtendDuration(id, x)
    BY <2>10 DEF ExtendDuration, Stored
  <2> QED
    BY <1>2, <2>1, <2>2, <2>3, <2>4, <2>5, <2>6, <2>7, <2>8, <2>9, <2>10 DEF Operate
<1>3. CASE Tick \/ InitializePerformanceOracle \/ UNCHANGED vars
  BY <1>3 DEF Tick, InitializePerformanceOracle, vars, Stored
<1> QED
  BY <1>1, <1>2, <1>3 DEF Next

\* No call takes anything back from the amount a stored schedule has claimed.
LEMMA ClaimedGrows ==
  ASSUME IInv, [Next]_vars, NEW j \in Stored \cap Stored'
  PROVE  schedules'[j].claimed_amount >= schedules[j].claimed_amount
<1>1. /\ schedules[j] \in Schedule /\ schedules[j].claimed_amount \in Nat
      /\ schedules \in [Stored -> Schedule]
  BY StoredFacts DEF Schedule, IInv, TypeOK
<1>2. CASE Create
  BY <1>1, <1>2, CreateKeepsSchedules
<1>3. ASSUME NEW id \in Ids, Operate(id)
      PROVE  schedules'[j].claimed_amount >= schedules[j].claimed_amount
  <2>1. CASE DestroySchedule(id)
    BY <1>1, <2>1 DEF DestroySchedule, Stored
  <2>2. CASE PauseSchedule(id)
    <3>1. schedules'[j].claimed_amount = schedules[j].claimed_amount
      BY <1>1, <2>2 DEF PauseSchedule, Schedule
    <3> QED BY <1>1, <3>1
  <2>3. CASE ResumeSchedule(id)
    <3>1. schedules'[j].claimed_amount = schedules[j].claimed_amount
      BY <1>1, <2>3 DEF ResumeSchedule, Schedule
    <3> QED BY <1>1, <3>1
  <2>4. CASE \E l \in MilestoneLists : EnablePerformanceMilestones(id, l)
    <3>1. schedules'[j].claimed_amount = schedules[j].claimed_amount
      BY <1>1, <2>4 DEF EnablePerformanceMilestones, Schedule
    <3> QED BY <1>1, <3>1
  <2>5. CASE \E i \in DOMAIN milestones[id] : AttestMilestone(id, i)
    BY <1>1, <2>5 DEF AttestMilestone
  <2>6. CASE Claim(id)
    <3>1. Claimable(id) \in Nat
      <4>1. id \in Stored
        BY <2>6 DEF Claim
      <4>2. /\ VestedAt(schedules[id], now) \in Int /\ schedules[id].claimed_amount \in Nat
            /\ schedules[id].total_amount \in Nat
        BY <4>1, StoredFacts DEF Schedule
      <4>3. ClaimableAt(schedules[id], now) \in Nat
        BY <4>2 DEF ClaimableAt, SaturatingSub
      <4> QED
        BY <4>1, <4>3, WithinBounds DEF Claimable
    <3>2. schedules' = [schedules EXCEPT ![id].claimed_amount = @ + Claimable(id)]
      BY <2>6 DEF Claim
    <3> QED
      BY <1>1, <3>1, <3>2 DEF Schedule
  <2>7. CASE Revoke(id)
    <3> DEFINE vested == VestedAt(schedules[id], now)
               released == WithinMilestones(id,
                              SaturatingSub(vested, schedules[id].claimed_amount))
    <3>1. id \in Stored
      BY <2>7 DEF Revoke
    <3>2. released \in Nat
      <4>1. /\ vested \in Int /\ schedules[id].claimed_amount \in Nat
            /\ schedules[id].total_amount \in Nat
        BY <3>1, StoredFacts DEF Schedule
      <4>2. SaturatingSub(vested, schedules[id].claimed_amount) \in Nat
        BY <4>1 DEF SaturatingSub
      <4> QED
        BY <3>1, <4>2, WithinBounds
    <3>3. schedules' = [schedules EXCEPT ![id].revoked = TRUE,
                                         ![id].vested_at_revoke = vested,
                                         ![id].claimed_amount = @ + released]
      BY <2>7 DEF Revoke
    <3> HIDE DEF released, vested
    <3> QED
      BY <1>1, <3>2, <3>3 DEF Schedule
  <2>8. CASE \E a \in Accounts : TransferBeneficiary(id, a)
    <3>1. schedules'[j].claimed_amount = schedules[j].claimed_amount
      BY <1>1, <2>8 DEF TransferBeneficiary, Schedule
    <3> QED BY <1>1, <3>1
  <2>9. CASE \E a \in Accounts : TransferGrantor(id, a)
    <3>1. schedules'[j].claimed_amount = schedules[j].claimed_amount
      BY <1>1, <2>9 DEF TransferGrantor, Schedule
    <3> QED BY <1>1, <3>1
  <2>10. CASE \E x \in ExtendBy : ExtendDuration(id, x)
    <3>1. schedules'[j].claimed_amount = schedules[j].claimed_amount
      BY <1>1, <2>10 DEF ExtendDuration, Schedule
    <3> QED BY <1>1, <3>1
  <2> QED
    BY <1>3, <2>1, <2>2, <2>3, <2>4, <2>5, <2>6, <2>7, <2>8, <2>9, <2>10 DEF Operate
<1>4. CASE Tick \/ InitializePerformanceOracle \/ UNCHANGED vars
  BY <1>1, <1>4 DEF Tick, InitializePerformanceOracle, vars
<1> QED
  BY <1>2, <1>3, <1>4 DEF Next

\* While a schedule is paused the clock adds nothing to its elapsed time.
LEMMA TickKeepsPaused ==
  ASSUME IInv, Tick, NEW j \in Stored, schedules[j].paused, now >= schedules[j].start_time
  PROVE  VestedAt(schedules[j], now + 1) = VestedAt(schedules[j], now)
<1> DEFINE s == schedules[j]
<1>1. /\ s \in Schedule /\ now \in Nat
      /\ ScheduleInv(s, books[j], now, j \in extended)
  BY StoredFacts
<1>2. /\ s.start_time \in Nat /\ s.paused_duration \in Nat /\ s.paused_at \in Nat
      /\ s.paused /\ s.paused_at > 0 /\ s.paused_at <= now /\ now >= s.start_time
  BY <1>1 DEF Schedule, ScheduleInv
<1> HIDE DEF s
<1>3. Elapsed(s, now + 1) = Elapsed(s, now)
  BY <1>1, <1>2 DEF Elapsed, SaturatingSub
<1>4. VestedAt(s, now + 1) = VestedAt(s, now)
  BY <1>1, <1>2, <1>3 DEF VestedAt
<1> QED
  BY <1>4 DEF s

\* Every step keeps or raises the vested amount, and keeps it during a pause.
LEMMA StepVested ==
  ASSUME IInv, [Next]_vars, NEW j \in Stored \cap DOMAIN schedules',
         schedules'[j].duration_seconds = schedules[j].duration_seconds
  PROVE  /\ VestedAt(schedules'[j], now') >= VestedAt(schedules[j], now)
         /\ /\ schedules[j].paused \/ schedules'[j].paused
            /\ now >= schedules[j].start_time
            => VestedAt(schedules'[j], now') = VestedAt(schedules[j], now)
<1>1. /\ VestedAt(schedules[j], now) \in Nat /\ schedules[j] \in Schedule
      /\ now \in Nat /\ now \in 1..MaxTime
      /\ ScheduleInv(schedules[j], books[j], now, j \in extended)
  <2>1. schedules[j].total_amount \in Nat
    BY StoredFacts DEF Schedule
  <2> QED
    BY <2>1, StoredFacts
<1>2. ASSUME VestedAt(schedules'[j], now') = VestedAt(schedules[j], now)
      PROVE  VestedAt(schedules'[j], now') >= VestedAt(schedules[j], now)
  BY <1>1, <1>2
<1>3. CASE Tick
  <2>1. now' = now + 1 /\ schedules' = schedules /\ now + 1 \in 1..MaxTime
    BY <1>1, <1>3, BoundsAssumption DEF Tick
  <2>2. VestedAt(schedules[j], now) <= VestedAt(schedules[j], now + 1)
    BY <1>1, <2>1, VestedMonotone DEF ScheduleInv
  <2>3. schedules[j].paused /\ now >= schedules[j].start_time =>
            VestedAt(schedules[j], now + 1) = VestedAt(schedules[j], now)
    BY <1>3, TickKeepsPaused
  <2>4. VestedAt(schedules[j], now + 1) \in Nat
    <3>1. VestedAt(schedules[j], now + 1) \in 0..schedules[j].total_amount
      BY <1>1, <2>1, VestedBounds DEF ScheduleInv
    <3>2. schedules[j].total_amount \in Nat
      BY <1>1 DEF Schedule
    <3> QED
      BY <3>1, <3>2
  <2>5. VestedAt(schedules[j], now + 1) >= VestedAt(schedules[j], now)
    BY <1>1, <2>2, <2>4
  <2> QED
    BY <2>1, <2>3, <2>5
<1>4. CASE Create
  <2>1. schedules'[j] = schedules[j] /\ now' = now
    BY <1>4, CreateKeepsSchedules
  <2> QED
    BY <1>2, <2>1
<1>5. CASE InitializePerformanceOracle
  BY <1>2, <1>5 DEF InitializePerformanceOracle
<1>6. ASSUME NEW id \in Ids, Operate(id)
      PROVE  VestedAt(schedules'[j], now') = VestedAt(schedules[j], now)
  BY <1>6, OperateKeepsVested
<1>7. CASE UNCHANGED vars
  BY <1>2, <1>7 DEF vars
<1> QED
  BY <1>2, <1>3, <1>4, <1>5, <1>6, <1>7 DEF Next

\* A payout under milestones keeps what the beneficiary has been paid within the
\* attested percentage.
LEMMA PaidWithinMilestones ==
  ASSUME IInv, NEW id \in Stored, schedules[id].requires_milestones,
         NEW due \in Nat, NEW refund \in Nat,
         PayOut(id, WithinMilestones(id, due), refund),
         books'[id].toBeneficiary > books[id].toBeneficiary
  PROVE  books'[id].toBeneficiary * 100 <=
             schedules[id].total_amount * MaxUnlockPercentage(milestones[id])
<1> DEFINE s == schedules[id]
           q == MaxUnlockPercentage(milestones[id])
           cap == MulDivOr(s.total_amount, q, 100, 0)
           paid == WithinMilestones(id, due)
<1>1. /\ s \in Schedule /\ id \in Ids
      /\ ScheduleInv(s, books[id], now, id \in extended)
  BY StoredFacts
<1>2. /\ s.total_amount \in Nat /\ s.claimed_amount \in Nat
      /\ books[id].toBeneficiary = s.claimed_amount
  BY <1>1 DEF Schedule, ScheduleInv
<1>3. q \in Nat
  BY <1>1, PercentageType
<1>4. paid \in Nat /\ paid <= Greatest(cap - s.claimed_amount, 0)
  <2>1. paid \in 0..due
    BY WithinBounds
  <2>2. MilestoneAllowance(s, milestones[id]) \in Nat
    BY AllowanceType
  <2>3. MilestoneAllowance(s, milestones[id]) = Greatest(cap - s.claimed_amount, 0)
    BY DEF MilestoneAllowance
  <2>4. paid = Least(due, MilestoneAllowance(s, milestones[id]))
    BY DEF WithinMilestones
  <2> HIDE DEF paid, cap, s
  <2> QED
    BY <2>1, <2>2, <2>3, <2>4 DEF Least
<1>5. books'[id].toBeneficiary = books[id].toBeneficiary + paid
  <2> HIDE DEF paid
  <2> QED
    BY <1>4, PayOutFacts DEF paid
<1>6. cap \in Nat /\ cap * 100 <= s.total_amount * q
  <2>1. ASSUME NEW a \in Nat, NEW p \in Nat
        PROVE  MulDivOr(a, p, 100, 0) \in Nat /\ MulDivOr(a, p, 100, 0) * 100 <= a * p
    <3> DEFINE n == a * p
    <3>1. n \in Nat
      OBVIOUS
    <3> HIDE DEF n
    <3>2. (n \div 100) \in Nat /\ (n \div 100) * 100 <= n
      BY <3>1
    <3>3. MulDivOr(a, p, 100, 0) = IF n > I128_MAX THEN 0 ELSE n \div 100
      BY DEF MulDivOr, n
    <3>4. MulDivOr(a, p, 100, 0) \in Nat /\ MulDivOr(a, p, 100, 0) * 100 <= n
      BY <3>1, <3>2, <3>3
    <3> QED
      BY <3>4 DEF n
  <2> HIDE DEF q, s
  <2> QED
    BY <1>2, <1>3, <2>1
<1>7. s.claimed_amount + paid <= cap
  <2> HIDE DEF s, cap, paid
  <2> QED
    BY <1>2, <1>4, <1>5, <1>6 DEF Greatest
<1>8. (s.claimed_amount + paid) * 100 <= cap * 100
  <2> HIDE DEF s, cap, paid
  <2> QED
    BY <1>2, <1>4, <1>6, <1>7
<1>9. \A a, b, c \in Int : a <= b /\ b <= c => a <= c
  OBVIOUS
<1>10. (s.claimed_amount + paid) * 100 \in Int /\ cap * 100 \in Int /\ s.total_amount * q \in Int
  <2> HIDE DEF s, cap, paid, q
  <2> QED
    BY <1>2, <1>3, <1>4, <1>6
<1> HIDE DEF s, cap, paid, q
<1>11. (s.claimed_amount + paid) * 100 <= s.total_amount * q
  BY <1>6, <1>8, <1>9, <1>10
<1> QED
  BY <1>2, <1>5, <1>11 DEF s, q

\* Only a claim and a revocation pay the beneficiary of a stored schedule.
LEMMA StepWithinMilestones ==
  ASSUME IInv, [Next]_vars, NEW j \in Stored, schedules[j].requires_milestones,
         books'[j].toBeneficiary > books[j].toBeneficiary
  PROVE  books'[j].toBeneficiary * 100 <=
             schedules[j].total_amount * MaxUnlockPercentage(milestones[j])
<1>1. /\ books \in [Ids -> Ledger] /\ j \in Ids
      /\ schedules[j] \in Schedule /\ now \in Nat
      /\ VestedAt(schedules[j], now) \in 0..schedules[j].total_amount
  BY StoredFacts DEF IInv, TypeOK
<1>2. books[j].toBeneficiary \in Nat
  BY <1>1 DEF Ledger
<1>3. schedules[j].claimed_amount \in Nat /\ schedules[j].total_amount \in Nat
  BY <1>1 DEF Schedule
<1>4. books'[j].toBeneficiary # books[j].toBeneficiary
  BY <1>2
<1>5. CASE Create
  BY <1>4, <1>5, CreateKeepsSchedules
<1>6. ASSUME NEW id \in Ids, Operate(id)
      PROVE  id = j /\ (Claim(id) \/ Revoke(id))
  <2>1. CASE Claim(id) \/ Revoke(id)
    <3>1. \E m, n : books' = [books EXCEPT ![id].toBeneficiary = @ + m,
                                           ![id].toGrantor = @ + n]
      BY <2>1, Zenon DEF Claim, Revoke, PayOut
    <3>2. id # j => books'[j] = books[j]
      BY <1>1, <3>1
    <3> QED
      BY <1>4, <2>1, <3>2
  <2>2. CASE ~(Claim(id) \/ Revoke(id))
    <3>1. books' = books
      BY <1>6, <2>2 DEF Operate, PauseSchedule, ResumeSchedule,
         EnablePerformanceMilestones, AttestMilestone, TransferBeneficiary,
         TransferGrantor, ExtendDuration, DestroySchedule
    <3> QED
      BY <1>4, <3>1
  <2> QED
    BY <2>1, <2>2
<1>7. CASE Claim(j)
  <2> DEFINE due == ClaimableAt(schedules[j], now)
  <2>1. due \in Nat
    BY <1>1, <1>3 DEF ClaimableAt, SaturatingSub
  <2>2. PayOut(j, WithinMilestones(j, due), 0)
    BY <1>7 DEF Claim, Claimable
  <2> HIDE DEF due
  <2> QED
    BY <2>1, <2>2, PaidWithinMilestones
<1>8. CASE Revoke(j)
  <2> DEFINE due == SaturatingSub(VestedAt(schedules[j], now), schedules[j].claimed_amount)
             refund == UnvestedAt(schedules[j], now)
  <2>1. due \in Nat /\ refund \in Nat
    BY <1>1, <1>3 DEF SaturatingSub, UnvestedAt
  <2>2. PayOut(j, WithinMilestones(j, due), refund)
    BY <1>8 DEF Revoke
  <2> HIDE DEF due, refund
  <2> QED
    BY <2>1, <2>2, PaidWithinMilestones
<1> QED
  BY <1>4, <1>5, <1>6, <1>7, <1>8 DEF Next, Tick, InitializePerformanceOracle, vars

-----------------------------------------------------------------------------
(* The theorems *)

\* The inductive invariant holds in every reachable state.
THEOREM Invariant == Spec => []IInv
BY InitIInv, NextIInv, PTL DEF Spec

\* Every variable keeps its type: no call leaves a negative amount, a schedule
\* under an id that was never handed out, or a balance below zero.
THEOREM TypeCorrect == Spec => []TypeOK
<1>1. IInv => TypeOK
  BY DEF IInv
<1>2. QED
  BY <1>1, Invariant, PTL

\* The beneficiary never holds tokens ahead of the vesting curve.
THEOREM ClaimsFollowVesting == Spec => []ClaimedWithinVested
<1>1. IInv => ClaimedWithinVested
  BY DEF IInv, ScheduleInv, ClaimedWithinVested
<1>2. QED
  BY <1>1, Invariant, PTL

\* Payouts to both sides never exceed the funding of a schedule whose duration
\* was not extended: a revocation returns only what has not vested, and what the
\* beneficiary was paid by then had.
THEOREM PayoutsBounded == Spec => []PayoutsWithinGrant
BY InvariantBoundsPayouts, Invariant, PTL

\* The grantor index lists exactly the stored schedules of each grantor.
THEOREM GrantorIndexCorrect == Spec => []GrantorIndexExact
<1>1. IInv => GrantorIndexExact
  BY DEF IInv
<1>2. QED
  BY <1>1, Invariant, PTL

\* A schedule leaves storage only when all of its funding was paid out.
THEOREM DestroyedArePaidOut == Spec => []NothingStranded
BY InvariantStrandsNothing, Invariant, PTL
\* Vesting never runs backwards: as long as its duration stays the same, no call
\* and no closing ledger lowers the vested amount of a stored schedule.
THEOREM VestingMonotone == Spec => VestedNeverDecreases
<1>1. IInv /\ [Next]_vars =>
        [\A id \in Stored \cap DOMAIN schedules' :
           schedules'[id].duration_seconds = schedules[id].duration_seconds =>
               VestedAt(schedules'[id], now') >= VestedAt(schedules[id], now)]_vars
  BY StepVested
<1>2. QED
  BY <1>1, Invariant, PTL DEF Spec, VestedNeverDecreases

\* Once vesting has begun nothing vests while a schedule is paused, and neither
\* the pause nor the resumption makes the vested amount jump.
THEOREM PauseFreezes == Spec => PauseFreezesVesting
<1>1. IInv /\ [Next]_vars =>
        [\A id \in Stored \cap DOMAIN schedules' :
           /\ schedules[id].paused \/ schedules'[id].paused
           /\ now >= schedules[id].start_time
           /\ schedules'[id].duration_seconds = schedules[id].duration_seconds
           => VestedAt(schedules'[id], now') = VestedAt(schedules[id], now)]_vars
  BY StepVested
<1>2. QED
  BY <1>1, Invariant, PTL DEF Spec, PauseFreezesVesting

\* Once milestones are required, no claim and no revocation takes the beneficiary
\* past the largest attested percentage of the grant.
THEOREM MilestonesCap == Spec => PayoutsWithinMilestones
<1>1. IInv /\ [Next]_vars =>
        [\A id \in Stored :
           /\ schedules[id].requires_milestones
           /\ books'[id].toBeneficiary > books[id].toBeneficiary
           => books'[id].toBeneficiary * 100 <=
                 schedules[id].total_amount * MaxUnlockPercentage(milestones[id])]_vars
  BY StepWithinMilestones
<1>2. QED
  BY <1>1, Invariant, PTL DEF Spec, PayoutsWithinMilestones
=============================================================================
