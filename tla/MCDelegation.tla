---------------------------- MODULE MCDelegation ----------------------------
(* Small instances of Delegation. *)
EXTENDS Delegation, TLC

CONSTANTS a1, a2, a3

Symmetry == Permutations(Accounts)

Offer(total, start, duration, kind, revocable) ==
    [total_amount |-> total, start_time |-> start, duration |-> duration,
     cliff |-> 0, lockup |-> 0, kind |-> kind, revocable |-> revocable]

\* A token a second, so that a budget of one binds both a claim that finds two
\* tokens vested and a second claim.
LinearOffer == {Offer(3, 1, 3, "Linear", TRUE)}

NoOffers == {}

SomeExpiries == {None, 2}

OneBudget == {1}
=============================================================================
