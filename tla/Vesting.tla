------------------------------ MODULE Vesting ------------------------------
(***************************************************************************)
(* Single-token vesting schedules of the VestFlow contract                 *)
(* (contracts/vestflow/src/lib.rs): the life of a grant from the transfer  *)
(* that funds it to its last payout.  One action is one contract call; the *)
(* host runs calls one at a time and rolls a failing one back, so a call   *)
(* that returns an error or panics is an action that is not enabled.       *)
(*                                                                         *)
(* `books' and `extended' are history: what each schedule was funded with  *)
(* and has paid to each side, and which schedules had their duration       *)
(* extended.  No guard reads them.                                         *)
(***************************************************************************)
EXTENDS VestingCurve, FiniteSets

CONSTANTS
    Accounts,         \* addresses that call the contract
    Tokens,           \* recognised Stellar asset contracts
    MaxSchedules,     \* bound: schedule ids handed out
    MaxTime,          \* bound: the last timestamp
    MaxDuration,      \* bound: milestone offsets, and durations once extended
    MIN_DURATION,     \* the shortest duration validate_duration accepts
    Offers,           \* bound: the terms create_schedule is called with
    GradedOffers,     \* bound: the terms create_graded_schedule is called with
    MilestoneLists,   \* bound: the percentages milestones are enabled with
    ExtendBy          \* bound: the seconds extend_duration is called with

OfferType ==
    [total_amount : Int, start_time : Nat, duration : Nat, cliff : Nat,
     lockup : Nat, kind : VestingKinds \ {"Graded"}, revocable : BOOLEAN]

Milestone == [offset_secs : 0..MaxDuration, bps : Nat]

GradedOfferType ==
    [total_amount : Int, start_time : Nat, lockup : Nat, revocable : BOOLEAN,
     milestones : Seq(Milestone)]

TotalBps(plan) == SumFunctionOnSet(Bps(plan), DOMAIN plan)

\* The milestone list create_graded_schedule accepts.
ValidPlan(plan) ==
    /\ plan # <<>>
    /\ \A i \in DOMAIN plan : plan[i].bps > 0
    /\ TotalBps(plan) = FULL_BPS

ASSUME BoundsAssumption ==
    /\ MaxSchedules \in Nat /\ MaxTime \in Nat \ {0} /\ MIN_DURATION \in Nat \ {0}
    /\ MaxDuration \in Nat
    /\ Offers \subseteq OfferType
    /\ \A o \in GradedOffers :
          /\ o.total_amount \in Int /\ o.start_time \in Nat /\ o.lockup \in Nat
          /\ o.revocable \in BOOLEAN /\ o.milestones \in Seq(Milestone)
    /\ ExtendBy \subseteq Nat

ASSUME MilestoneListAssumption ==
    \A l \in MilestoneLists : l \in Seq(0..100)

Ids == 1..MaxSchedules

VARIABLES
    now,             \* the ledger timestamp
    count,           \* DataKey::ScheduleCount
    schedules,       \* DataKey::Schedule(id): the records in storage
    byGrantor,       \* DataKey::GrantorSchedules(address)
    byBeneficiary,   \* DataKey::BeneficiarySchedules(address)
    oracleSet,       \* DataKey::PerformanceOracle is present
    milestones,      \* DataKey::PerformanceMilestones(id)
    escrow,          \* the contract's balance of each token
    books,           \* history: funding and payouts of each id
    extended         \* history: ids whose duration was extended

indices == <<byGrantor, byBeneficiary>>
vars == <<now, count, schedules, byGrantor, byBeneficiary, oracleSet,
          milestones, escrow, books, extended>>

Schedule ==
    [grantor : Accounts, beneficiary : Accounts, token : Tokens,
     total_amount : Nat, claimed_amount : Nat, start_time : Nat,
     duration_seconds : Nat, cliff_seconds : Nat, lockup_duration : Nat,
     kind : VestingKinds, revocable : BOOLEAN, revoked : BOOLEAN,
     vested_at_revoke : Nat, paused : BOOLEAN, paused_duration : Nat,
     paused_at : Nat, requires_milestones : BOOLEAN, milestones : Seq(Milestone)]

PerformanceMilestone == [unlock_percentage : 0..100, attested : BOOLEAN]

Ledger == [funded : Nat, toBeneficiary : Nat, toGrantor : Nat]

NoMoney == [funded |-> 0, toBeneficiary |-> 0, toGrantor |-> 0]

Stored == DOMAIN schedules

TypeOK ==
    /\ now \in 1..MaxTime
    /\ count \in 0..MaxSchedules
    /\ Stored \subseteq 1..count
    /\ schedules \in [Stored -> Schedule]
    /\ byGrantor \in [Accounts -> SUBSET Ids]
    /\ byBeneficiary \in [Accounts -> SUBSET Ids]
    /\ oracleSet \in BOOLEAN
    /\ milestones \in [Ids -> Seq(PerformanceMilestone)]
    /\ escrow \in [Tokens -> Nat]
    /\ books \in [Ids -> Ledger]
    /\ extended \subseteq Ids

Init ==
    /\ now = 1
    /\ count = 0
    /\ schedules = [id \in {} |-> {}]
    /\ byGrantor = [a \in Accounts |-> {}]
    /\ byBeneficiary = [a \in Accounts |-> {}]
    /\ oracleSet = FALSE
    /\ milestones = [id \in Ids |-> <<>>]
    /\ escrow = [t \in Tokens |-> 0]
    /\ books = [id \in Ids |-> NoMoney]
    /\ extended = {}

-----------------------------------------------------------------------------
\* A ledger closes.
Tick ==
    /\ now < MaxTime
    /\ now' = now + 1
    /\ UNCHANGED <<count, schedules, indices, oracleSet, milestones, escrow,
                   books, extended>>

\* Store a funded schedule under the next id and enter it in both indices.
PersistFundedSchedule(s) ==
    LET id == count + 1
    IN  /\ count < MaxSchedules
        /\ count' = id
        /\ schedules' = [i \in Stored \cup {id} |-> IF i = id THEN s ELSE schedules[i]]
        /\ byGrantor' = [byGrantor EXCEPT ![s.grantor] = @ \cup {id}]
        /\ byBeneficiary' = [byBeneficiary EXCEPT ![s.beneficiary] = @ \cup {id}]
        /\ books' = [books EXCEPT ![id].funded = s.total_amount]
        /\ UNCHANGED <<now, oracleSet, milestones, extended>>

\* The tail of both create calls: pull the grantor's tokens, then persist.
FundSchedule(s) ==
    /\ escrow' = [escrow EXCEPT ![s.token] = @ + s.total_amount]
    /\ PersistFundedSchedule(s)

NewSchedule(g, b, t, total, start, duration, cliff, lockup, kind, revocable, plan) ==
    [grantor |-> g, beneficiary |-> b, token |-> t, total_amount |-> total,
     claimed_amount |-> 0, start_time |-> start, duration_seconds |-> duration,
     cliff_seconds |-> cliff, lockup_duration |-> lockup, kind |-> kind,
     revocable |-> revocable, revoked |-> FALSE, vested_at_revoke |-> 0,
     paused |-> FALSE, paused_duration |-> 0, paused_at |-> 0,
     requires_milestones |-> FALSE, milestones |-> plan]

\* The terms create_schedule and propose_schedule accept.
ValidTerms(g, b, o) ==
    /\ b # g
    /\ o.total_amount > 0
    /\ o.duration >= MIN_DURATION
    /\ o.cliff <= o.duration
    /\ o.lockup >= o.cliff
    /\ o.start_time >= now

\* A schedule with these terms, without graded milestones.
PlainSchedule(g, b, t, o) ==
    NewSchedule(g, b, t, o.total_amount, o.start_time, o.duration, o.cliff,
                o.lockup, o.kind, o.revocable, <<>>)

CreateSchedule(g, b, t, o) ==
    /\ ValidTerms(g, b, o)
    /\ FundSchedule(PlainSchedule(g, b, t, o))

CreateGradedSchedule(g, b, t, o) ==
    /\ b # g
    /\ o.total_amount > 0
    /\ o.start_time >= now
    /\ ValidPlan(o.milestones)
    /\ FundSchedule(
          NewSchedule(g, b, t, o.total_amount, o.start_time,
                      Max({o.milestones[i].offset_secs : i \in DOMAIN o.milestones}),
                      0, o.lockup, "Graded", o.revocable, o.milestones))

-----------------------------------------------------------------------------
PauseSchedule(id) ==
    /\ id \in Stored
    /\ ~schedules[id].paused
    /\ ~schedules[id].revoked
    /\ schedules' = [schedules EXCEPT ![id].paused = TRUE, ![id].paused_at = now]
    /\ UNCHANGED <<now, count, indices, oracleSet, milestones, escrow, books, extended>>

\* Mutant: the pause just ended is not added up.
PausedTotalForgotten(s) == s.paused_duration

\* Mutant: the pause just ended is subtracted.
PausedTotalNetted(s) == s.paused_duration - SaturatingSub(now, s.paused_at)

\* The pause that ends now is added to the finished ones.
PausedTotal(s) == s.paused_duration + SaturatingSub(now, s.paused_at)

ResumeSchedule(id) ==
    /\ id \in Stored
    /\ schedules[id].paused
    /\ schedules' = [schedules EXCEPT ![id].paused_duration = PausedTotal(schedules[id]),
                                      ![id].paused = FALSE, ![id].paused_at = 0]
    /\ UNCHANGED <<now, count, indices, oracleSet, milestones, escrow, books, extended>>

\* The upgrade authority names the oracle, once.
InitializePerformanceOracle ==
    /\ ~oracleSet
    /\ oracleSet' = TRUE
    /\ UNCHANGED <<now, count, schedules, indices, milestones, escrow, books, extended>>

EnablePerformanceMilestones(id, percentages) ==
    /\ oracleSet
    /\ id \in Stored
    /\ ~schedules[id].requires_milestones
    /\ SumFunction(percentages) = 100
    /\ schedules' = [schedules EXCEPT ![id].requires_milestones = TRUE]
    /\ milestones' = [milestones EXCEPT ![id] =
                        [i \in 1..Len(percentages) |->
                            [unlock_percentage |-> percentages[i], attested |-> FALSE]]]
    /\ UNCHANGED <<now, count, indices, oracleSet, escrow, books, extended>>

\* The oracle attests milestone i; the list outlives the schedule record.
AttestMilestone(id, i) ==
    /\ oracleSet
    /\ i \in DOMAIN milestones[id]
    /\ ~milestones[id][i].attested
    /\ milestones' = [milestones EXCEPT ![id][i].attested = TRUE]
    /\ UNCHANGED <<now, count, schedules, indices, oracleSet, escrow, books, extended>>

-----------------------------------------------------------------------------
\* Cap an amount due by what the attested performance milestones allow.
WithinMilestones(id, due) ==
    IF schedules[id].requires_milestones
    THEN Least(due, MilestoneAllowance(schedules[id], milestones[id]))
    ELSE due

Claimable(id) == WithinMilestones(id, ClaimableAt(schedules[id], now))

\* Pay `released' to the beneficiary's side and `refund' to the grantor's.
PayOut(id, released, refund) ==
    LET t == schedules[id].token
    IN  /\ escrow[t] >= released + refund
        /\ escrow' = [escrow EXCEPT ![t] = @ - (released + refund)]
        /\ books' = [books EXCEPT ![id].toBeneficiary = @ + released,
                                  ![id].toGrantor = @ + refund]

Claim(id) ==
    /\ id \in Stored
    /\ Claimable(id) > 0
    /\ schedules' = [schedules EXCEPT ![id].claimed_amount = @ + Claimable(id)]
    /\ PayOut(id, Claimable(id), 0)
    /\ UNCHANGED <<now, count, indices, oracleSet, milestones, extended>>

\* Mutant: what was not yet claimed goes back, vested or not.
UnclaimedAt(s, t) == s.total_amount - s.claimed_amount

UnvestedAt(s, t) == s.total_amount - VestedAt(s, t)

Revoke(id) ==
    LET s        == schedules[id]
        vested   == VestedAt(s, now)
        released == WithinMilestones(id, SaturatingSub(vested, s.claimed_amount))
    IN  /\ id \in Stored
        /\ s.revocable
        /\ ~s.revoked
        /\ schedules' = [schedules EXCEPT ![id].revoked = TRUE,
                                          ![id].vested_at_revoke = vested,
                                          ![id].claimed_amount = @ + released]
        /\ PayOut(id, released, UnvestedAt(s, now))
        /\ UNCHANGED <<now, count, indices, oracleSet, milestones, extended>>

-----------------------------------------------------------------------------
\* The beneficiary index is left as it was.
TransferBeneficiary(id, b) ==
    /\ id \in Stored
    /\ ~schedules[id].revoked
    /\ b # schedules[id].grantor
    /\ schedules' = [schedules EXCEPT ![id].beneficiary = b]
    /\ UNCHANGED <<now, count, indices, oracleSet, milestones, escrow, books, extended>>

ExtendDuration(id, seconds) ==
    /\ id \in Stored
    /\ ~schedules[id].revoked
    /\ seconds > 0
    /\ schedules[id].duration_seconds + seconds <= MaxDuration
    /\ schedules' = [schedules EXCEPT ![id].duration_seconds = @ + seconds]
    /\ extended' = extended \cup {id}
    /\ UNCHANGED <<now, count, indices, oracleSet, milestones, escrow, books>>

\* The grantor index after id moves from one grantor to another.
Moved(id, old, new) == [byGrantor EXCEPT ![old] = @ \ {id}, ![new] = @ \cup {id}]

\* Transferring to the current grantor is a successful no-op.
TransferGrantor(id, g) ==
    /\ id \in Stored
    /\ g # schedules[id].grantor
    /\ byGrantor' = Moved(id, schedules[id].grantor, g)
    /\ schedules' = [schedules EXCEPT ![id].grantor = g]
    /\ UNCHANGED <<now, count, byBeneficiary, oracleSet, milestones, escrow, books, extended>>

\* Mutant: a fully vested schedule counts as settled.
FullyVested(s) == VestedAt(s, now) = s.total_amount

FullyClaimed(s) == s.claimed_amount = s.total_amount

\* Either party removes a settled, irrevocable schedule.  Only the current
\* beneficiary's index entry is removed.
DestroySchedule(id) ==
    LET s == schedules[id]
    IN  /\ id \in Stored
        /\ FullyClaimed(s)
        /\ ~s.revocable
        /\ schedules' = [i \in Stored \ {id} |-> schedules[i]]
        /\ byGrantor' = [byGrantor EXCEPT ![s.grantor] = @ \ {id}]
        /\ byBeneficiary' = [byBeneficiary EXCEPT ![s.beneficiary] = @ \ {id}]
        /\ UNCHANGED <<now, count, oracleSet, milestones, escrow, books, extended>>

-----------------------------------------------------------------------------
Create ==
    \E g, b \in Accounts, t \in Tokens :
        \/ \E o \in Offers : CreateSchedule(g, b, t, o)
        \/ \E o \in GradedOffers : CreateGradedSchedule(g, b, t, o)

\* The calls on one schedule.
Operate(id) ==
    \/ PauseSchedule(id)
    \/ ResumeSchedule(id)
    \/ \E l \in MilestoneLists : EnablePerformanceMilestones(id, l)
    \/ \E i \in DOMAIN milestones[id] : AttestMilestone(id, i)
    \/ Claim(id)
    \/ Revoke(id)
    \/ \E a \in Accounts : TransferBeneficiary(id, a) \/ TransferGrantor(id, a)
    \/ \E x \in ExtendBy : ExtendDuration(id, x)
    \/ DestroySchedule(id)

Next == Tick \/ Create \/ InitializePerformanceOracle \/ \E id \in Ids : Operate(id)

Spec == Init /\ [][Next]_vars

\* Ledgers keep closing and each beneficiary keeps claiming what it can.
FairSpec == Spec /\ WF_vars(Tick) /\ \A id \in Ids : WF_vars(Claim(id))

-----------------------------------------------------------------------------
(* Properties *)

\* No schedule pays out more than it was funded with, over claims and the two
\* transfers of a revocation together, unless its duration was extended.
PayoutsWithinGrant ==
    \A id \in Ids \ extended :
        books[id].toBeneficiary + books[id].toGrantor <= books[id].funded

\* What the contract still owes on a stored schedule.
Owed(s) == (IF s.revoked THEN s.vested_at_revoke ELSE s.total_amount) - s.claimed_amount

\* A beneficiary never holds tokens ahead of the vesting curve, whatever pauses,
\* resumes, milestone caps, transfers and revocations came in between.
ClaimedWithinVested ==
    \A id \in Stored \ extended : schedules[id].claimed_amount <= VestedAt(schedules[id], now)

\* The grantor index lists exactly the stored schedules of each grantor.
GrantorIndexExact ==
    \A a \in Accounts : byGrantor[a] = {id \in Stored : schedules[id].grantor = a}

\* A schedule leaves storage only when all it was funded with has been paid out.
NothingStranded ==
    \A id \in (1..count) \ Stored :
        books[id].toBeneficiary + books[id].toGrantor = books[id].funded

\* Vesting never runs backwards: no call and no closing ledger lowers the vested
\* amount of a stored schedule, as long as its duration stays the same.
VestedNeverDecreases ==
    [][\A id \in Stored \cap DOMAIN schedules' :
          schedules'[id].duration_seconds = schedules[id].duration_seconds =>
              VestedAt(schedules'[id], now') >= VestedAt(schedules[id], now)]_vars

\* Once vesting has begun nothing vests while a schedule is paused, and neither
\* the pause nor the resumption makes the vested amount jump.
PauseFreezesVesting ==
    [][\A id \in Stored \cap DOMAIN schedules' :
          /\ schedules[id].paused \/ schedules'[id].paused
          /\ now >= schedules[id].start_time
          /\ schedules'[id].duration_seconds = schedules[id].duration_seconds
          => VestedAt(schedules'[id], now') = VestedAt(schedules[id], now)]_vars

\* Once milestones are required, no payout takes the beneficiary past the
\* largest attested percentage, through a claim or through a revocation.
PayoutsWithinMilestones ==
    [][\A id \in Stored :
          /\ schedules[id].requires_milestones
          /\ books'[id].toBeneficiary > books[id].toBeneficiary
          => books'[id].toBeneficiary * 100 <=
                schedules[id].total_amount * MaxUnlockPercentage(milestones[id])]_vars

\* An irrevocable schedule without performance milestones ends up wholly in its
\* beneficiaries' hands, unless it is left paused or fully_vested_at puts the end
\* of its vesting beyond the clock's bound.
EventuallyPaid ==
    \A id \in Ids :
        id \in Stored /\ ~schedules[id].revocable ~>
            \/ books[id].toBeneficiary = books[id].funded
            \/ /\ id \in Stored
               /\ \/ schedules[id].paused
                  \/ schedules[id].requires_milestones
                  \/ FullyVestedAt(schedules[id]) > MaxTime
=============================================================================
