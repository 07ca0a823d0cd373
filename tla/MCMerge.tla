------------------------------ MODULE MCMerge ------------------------------
(* Small instances of Merge. *)
EXTENDS Merge, TLC

CONSTANTS a1, a2

Symmetry == Permutations(Accounts)

Offer(total, start, duration, cliff, lockup, kind, revocable) ==
    [total_amount |-> total, start_time |-> start, duration |-> duration,
     cliff |-> cliff, lockup |-> lockup, kind |-> kind, revocable |-> revocable]

\* Different weights, durations and lockups, so that the averages are not whole.
MergeOffers ==
    {Offer(3, 1, 2, 1, 1, "LinearWithCliff", TRUE),
     Offer(2, 2, 4, 1, 3, "LinearWithCliff", FALSE)}

NoOffers == {}

\* Each source once, in both orders.
DistinctLists == {<<1, 2>>, <<2, 1>>}

RepeatedLists == {<<1, 1>>}
=============================================================================
