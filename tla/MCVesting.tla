----------------------------- MODULE MCVesting -----------------------------
(* Small instances of Vesting. *)
EXTENDS Portfolio

CONSTANTS a1, a2

Offer(total, start, duration, cliff, lockup, kind, revocable) ==
    [total_amount |-> total, start_time |-> start, duration |-> duration,
     cliff |-> cliff, lockup |-> lockup, kind |-> kind, revocable |-> revocable]

GradedOffer(total, start, lockup, revocable, plan) ==
    [total_amount |-> total, start_time |-> start, lockup |-> lockup,
     revocable |-> revocable, milestones |-> plan]

Step(offset, bps) == [offset_secs |-> offset, bps |-> bps]

\* One offer of each curve; 5 over 3 seconds does not divide evenly, the
\* lockups end before, with and after the vesting, starts lie in the future.
CurveOffers ==
    {Offer(5, 2, 3, 0, 0, "Linear", TRUE),
     Offer(5, 1, 3, 0, 5, "Linear", FALSE),
     Offer(7, 1, 4, 1, 2, "LinearWithCliff", TRUE),
     Offer(3, 2, 2, 2, 2, "Cliff", TRUE),
     Offer(2, 3, 1, 0, 0, "Cliff", FALSE)}

CurveGraded ==
    {GradedOffer(5, 2, 0, TRUE, <<Step(1, 3000), Step(3, 7000)>>),
     GradedOffer(4, 1, 2, FALSE, <<Step(2, 5000), Step(0, 5000)>>)}

PercentLists == {<<100>>, <<40, 60>>}

=============================================================================
