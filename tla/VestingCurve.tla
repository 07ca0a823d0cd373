---------------------------- MODULE VestingCurve ----------------------------
(***************************************************************************)
(* The arithmetic of a vesting schedule (contracts/vestflow/src/lib.rs,    *)
(* impl VestingSchedule): how much of a grant has vested at a timestamp,   *)
(* how much of that may be claimed, and the percentage cap performance     *)
(* milestones put on it.  Nothing here changes state.                      *)
(***************************************************************************)
EXTENDS Integers, Sequences, FiniteSetsExt, Functions

CONSTANTS
    I128_MAX,    \* the largest i128: a larger product is an overflow
    FULL_BPS     \* the basis points of a whole grant (10_000)

ASSUME I128Assumption == I128_MAX \in Nat
ASSUME BpsAssumption == FULL_BPS \in Nat \ {0}

VestingKinds == {"Linear", "Cliff", "LinearWithCliff", "Graded"}

\* u64::saturating_sub
SaturatingSub(a, b) == IF a >= b THEN a - b ELSE 0

Least(a, b) == IF a <= b THEN a ELSE b
Greatest(a, b) == IF a >= b THEN a ELSE b

\* a.checked_mul(b).and_then(|n| n.checked_div(d)).unwrap_or(fallback)
MulDivOr(a, b, d, fallback) ==
    IF a * b > I128_MAX THEN fallback ELSE (a * b) \div d

-----------------------------------------------------------------------------
\* Mutant: the pause in progress is not taken off the elapsed time.
ElapsedIgnoringCurrentPause(s, now) ==
    SaturatingSub(SaturatingSub(now, s.start_time), s.paused_duration)

\* Seconds of vesting a schedule has accrued: the time since start_time, less
\* every finished pause, less the pause in progress.
Elapsed(s, now) ==
    LET running == SaturatingSub(now - s.start_time, s.paused_duration)
    IN  IF s.paused /\ s.paused_at > 0
        THEN SaturatingSub(running, SaturatingSub(now, s.paused_at))
        ELSE running

\* The basis points of each graded milestone.
Bps(plan) == [i \in DOMAIN plan |-> plan[i].bps]

\* The graded milestones whose offset is reached.
Reached(plan, elapsed) == {i \in DOMAIN plan : plan[i].offset_secs <= elapsed}

\* Basis points they unlock.
VestedBps(plan, elapsed) == SumFunctionOnSet(Bps(plan), Reached(plan, elapsed))

\* The four curves, as functions of the elapsed time.
LinearCurve(total, duration, elapsed) ==
    IF elapsed >= duration THEN total ELSE MulDivOr(total, elapsed, duration, total)

CliffCurve(total, cliff, elapsed) == IF elapsed >= cliff THEN total ELSE 0

LinearWithCliffCurve(total, cliff, duration, elapsed) ==
    IF elapsed < cliff THEN 0
    ELSE IF elapsed >= duration THEN total
    ELSE MulDivOr(total, elapsed - cliff, duration - cliff, total)

GradedCurve(total, plan, elapsed) ==
    Least(MulDivOr(total, VestedBps(plan, elapsed), FULL_BPS, total), total)

Curve(s, elapsed) ==
    CASE s.kind = "Cliff"  -> CliffCurve(s.total_amount, s.cliff_seconds, elapsed)
      [] s.kind = "Linear" -> LinearCurve(s.total_amount, s.duration_seconds, elapsed)
      [] s.kind = "LinearWithCliff" ->
             LinearWithCliffCurve(s.total_amount, s.cliff_seconds,
                                  s.duration_seconds, elapsed)
      [] s.kind = "Graded" -> GradedCurve(s.total_amount, s.milestones, elapsed)

\* Tokens vested at `now`; a revoked schedule is frozen at its revocation.
VestedAt(s, now) ==
    IF s.revoked THEN s.vested_at_revoke
    ELSE IF now < s.start_time THEN 0
    ELSE Curve(s, Elapsed(s, now))

\* When the schedule reaches 100% vested, as the contract reports it.
FullyVestedAt(s) == s.start_time + s.duration_seconds + s.paused_duration

\* Vested and unclaimed tokens, none of them before the lockup ends.
ClaimableAt(s, now) ==
    IF now < s.start_time + s.lockup_duration THEN 0
    ELSE SaturatingSub(VestedAt(s, now), s.claimed_amount)

-----------------------------------------------------------------------------
\* The largest percentage among the attested performance milestones.
MaxUnlockPercentage(milestones) ==
    Max({0} \cup {milestones[i].unlock_percentage :
                    i \in {j \in DOMAIN milestones : milestones[j].attested}})

\* Mutant: what was already claimed is not taken off the cap.
AllowanceIgnoringClaims(s, milestones) ==
    MulDivOr(s.total_amount, MaxUnlockPercentage(milestones), 100, 0)

\* How much may still be paid out under the performance milestones.
MilestoneAllowance(s, milestones) ==
    Greatest(MulDivOr(s.total_amount, MaxUnlockPercentage(milestones), 100, 0)
                 - s.claimed_amount, 0)
=============================================================================
