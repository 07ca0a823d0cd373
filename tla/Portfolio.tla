----------------------------- MODULE Portfolio -----------------------------
(***************************************************************************)
(* The portfolio timeline projects what can be claimed in the browser,     *)
(* from rows that were read from the contract, parsed by lib/stellar.ts,   *)
(* served by /api/schedules and parsed again (lib/portfolio).              *)
(*                                                                         *)
(* A kind arrives as its name.  A row has one token; the cursor stands on  *)
(* whole seconds.                                                          *)
(***************************************************************************)
EXTENDS Vesting

\* parseSchedule looks for pct and timestamp in a milestone; the contract's
\* records have offset_secs and bps.
ParsedMilestones(plan) == [i \in DOMAIN plan |-> [pct |-> 0, timestamp |-> 0]]

\* parseSchedule, the route's answer and parseTimelineSchedule.
TimelineRow(s) ==
    [kind |-> s.kind, start_time |-> s.start_time, duration |-> s.duration_seconds,
     cliff_duration |-> s.cliff_seconds, lockup_duration |-> s.lockup_duration,
     paused |-> s.paused, paused_duration |-> s.paused_duration,
     paused_at |-> s.paused_at, revoked |-> s.revoked,
     vested_at_revoke |-> s.vested_at_revoke, total_amount |-> s.total_amount,
     claimed |-> s.claimed_amount, milestones |-> ParsedMilestones(s.milestones)]

\* Mutant: the pause in progress still counts as vesting.
EffectiveElapsedRunning(r, ledger) ==
    IF ledger <= r.start_time THEN 0
    ELSE Greatest(0, ledger - r.start_time - r.paused_duration)

EffectiveElapsed(r, ledger) ==
    IF ledger <= r.start_time THEN 0
    ELSE Greatest(0, ledger - r.start_time - r.paused_duration
                         - (IF r.paused /\ r.paused_at > 0
                            THEN Greatest(0, ledger - r.paused_at) ELSE 0))

\* The percentages of the milestones reached, in basis points.
GradedBps(r, ledger) ==
    Least(FULL_BPS,
          100 * SumFunctionOnSet(
                    [i \in DOMAIN r.milestones |-> r.milestones[i].pct],
                    {i \in DOMAIN r.milestones :
                        r.start_time + EffectiveElapsed(r, ledger) >= r.milestones[i].timestamp}))

\* vestedForLeg of the only leg: exact integers, where the contract's product may
\* overflow.
VestedForLeg(r, ledger) ==
    LET total   == r.total_amount
        elapsed == EffectiveElapsed(r, ledger)
        linear  == r.duration - r.cliff_duration
    IN  CASE r.revoked -> Least(r.vested_at_revoke, total)
          [] ~r.revoked /\ ledger < r.start_time -> 0
          [] OTHER ->
             CASE r.kind = "Cliff" -> IF elapsed >= r.cliff_duration THEN total ELSE 0
               [] r.kind = "LinearWithCliff" ->
                      IF elapsed < r.cliff_duration THEN 0
                      ELSE IF elapsed >= r.duration \/ linear <= 0 THEN total
                      ELSE (total * (elapsed - r.cliff_duration)) \div linear
               [] r.kind = "Graded" ->
                      Least((total * GradedBps(r, ledger)) \div FULL_BPS, total)
               [] r.kind = "Linear" ->
                      IF elapsed >= r.duration THEN total ELSE (total * elapsed) \div r.duration

TimelineClaimable(r, ledger) ==
    IF ledger < r.start_time + r.lockup_duration THEN 0
    ELSE Greatest(0, VestedForLeg(r, ledger) - r.claimed)

\* "a cursor parked on now agrees with what the chain reports", and so does one
\* parked later: through every life of a schedule the browser projects what the
\* contract's claimable_at would say, except of a graded schedule, whose milestones
\* do not survive the parsing.
TimelineAgrees ==
    \A id \in Stored : \A ledger \in now..MaxTime :
        schedules[id].kind # "Graded" =>
            TimelineClaimable(TimelineRow(schedules[id]), ledger)
                = ClaimableAt(schedules[id], ledger)
=============================================================================
