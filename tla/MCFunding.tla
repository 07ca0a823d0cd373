----------------------------- MODULE MCFunding -----------------------------
(* Small instances of Funding. *)
EXTENDS Funding, TLC

CONSTANTS a1, a2, xlm

Symmetry == Permutations(Accounts)

NoOffers == {}

\* A revocable grant whose lockup outlasts its vesting.
LockedOffer ==
    {[total_amount |-> 3, start_time |-> 1, duration |-> 2, cliff |-> 0, lockup |-> 3,
      kind |-> "Linear", revocable |-> TRUE]}

\* A slot for each account, so that accounts stay interchangeable.
Slots(total, revocable) ==
    {[beneficiary |-> a, total_amount |-> total, duration |-> 1, cliff |-> 1,
      start_time |-> 1, kind |-> "Cliff", revocable |-> revocable] : a \in Accounts}

BatchOf(total, root, expiry) ==
    [total_amount |-> total, root |-> root, expiry_ledger |-> expiry]

\* A tree with a slot for each account, deposited exactly.
OneBatch == <<BatchOf(4, Slots(2, FALSE), 3)>>

\* A deposit smaller than its slots.
ShortDeposit == <<BatchOf(3, Slots(2, FALSE), 3)>>
=============================================================================
