----------------------------- MODULE Delegation -----------------------------
(***************************************************************************)
(* Claim delegations of the VestFlow contract: a schedule's beneficiary    *)
(* lets other addresses claim vested tokens for themselves, up to an       *)
(* optional budget and until an optional ledger.  Composed with every      *)
(* operation of Vesting, whose records and balance they share.             *)
(*                                                                         *)
(* Ledger sequence and timestamp advance together here, so an expiry is    *)
(* compared with `now'.                                                    *)
(***************************************************************************)
EXTENDS Vesting, SequencesExt

CONSTANTS
    None,                           \* Option::None
    MAX_DELEGATIONS_PER_SCHEDULE,   \* open delegations of one schedule
    MaxDelegations,                 \* bound: delegation ids handed out per schedule
    Budgets,                        \* bound: values of max_amount
    Expiries                        \* bound: values of expires_at_ledger

ASSUME DelegationAssumption ==
    /\ MAX_DELEGATIONS_PER_SCHEDULE \in Nat /\ MaxDelegations \in Nat
    /\ Budgets \subseteq Int \cup {None} /\ Expiries \subseteq Nat \cup {None}

VARIABLES
    delegations,   \* DelegationKey::Delegation(id, i): delegations[id][i]
    activeCount    \* DelegationKey::ActiveDelegationCount(id)

delegationVars == <<delegations, activeCount>>
dvars == <<vars, delegationVars>>

ClaimDelegation ==
    [delegate : Accounts, max_amount : Budgets, expires_at_ledger : Expiries,
     claimed_so_far : Nat, revoked : BOOLEAN]

DelegationInit ==
    /\ Init
    /\ delegations = [id \in Ids |-> <<>>]
    /\ activeCount = [id \in Ids |-> 0]

-----------------------------------------------------------------------------
SlotFree(id) == activeCount[id] < MAX_DELEGATIONS_PER_SCHEDULE

CreateDelegation(id, delegate, max, expiry) ==
    /\ id \in Stored
    /\ delegate # schedules[id].beneficiary
    /\ max # None => max > 0
    /\ expiry # None => expiry > now
    /\ SlotFree(id)
    /\ Len(delegations[id]) < MaxDelegations
    /\ delegations' = [delegations EXCEPT ![id] = Append(@,
          [delegate |-> delegate, max_amount |-> max, expires_at_ledger |-> expiry,
           claimed_so_far |-> 0, revoked |-> FALSE])]
    /\ activeCount' = [activeCount EXCEPT ![id] = @ + 1]
    /\ UNCHANGED vars

\* Mutant: a revocation that is repeated frees a slot again.
RevocableAgain(d) == TRUE

\* Revoking a revoked delegation is a successful no-op.
Revocable(d) == ~d.revoked

RevokeDelegation(id, i) ==
    /\ id \in Stored
    /\ Revocable(delegations[id][i])
    /\ delegations' = [delegations EXCEPT ![id][i].revoked = TRUE]
    /\ activeCount' = [activeCount EXCEPT ![id] = SaturatingSub(@, 1)]
    /\ UNCHANGED vars

\* Mutant: the whole budget is available to every claim.
BudgetIgnoringClaims(d, claimable) ==
    IF d.max_amount = None THEN claimable ELSE Least(claimable, d.max_amount)

\* What of the claimable amount the delegation's budget still allows.
WithinBudget(d, claimable) ==
    IF d.max_amount = None THEN claimable
    ELSE Least(claimable, Greatest(d.max_amount - d.claimed_so_far, 0))

Expired(d) == d.expires_at_ledger # None /\ now > d.expires_at_ledger

\* Mutant: the delegate's claim is only entered in the delegation.
ClaimNotEntered(s, amount) == s.claimed_amount

\* The delegate's claim counts towards what the beneficiary has claimed.
ClaimEntered(s, amount) == s.claimed_amount + amount

\* The tokens go to the delegate; performance milestones are not consulted.
ClaimAsDelegate(id, i) ==
    LET d      == delegations[id][i]
        amount == WithinBudget(d, ClaimableAt(schedules[id], now))
    IN  /\ ~d.revoked
        /\ ~Expired(d)
        /\ id \in Stored
        /\ amount > 0
        /\ delegations' = [delegations EXCEPT ![id][i].claimed_so_far = @ + amount]
        /\ schedules' = [schedules EXCEPT ![id].claimed_amount =
                            ClaimEntered(schedules[id], amount)]
        /\ PayOut(id, amount, 0)
        /\ UNCHANGED <<now, count, indices, oracleSet, milestones, extended,
                       activeCount>>

DelegationStep(id) ==
    \/ \E a \in Accounts, max \in Budgets, e \in Expiries : CreateDelegation(id, a, max, e)
    \/ \E i \in DOMAIN delegations[id] : RevokeDelegation(id, i) \/ ClaimAsDelegate(id, i)

DelegationNext ==
    \/ Next /\ UNCHANGED delegationVars
    \/ \E id \in Ids : DelegationStep(id)

DelegationSpec == DelegationInit /\ [][DelegationNext]_dvars

-----------------------------------------------------------------------------
(* Properties *)

Open(id) == {i \in DOMAIN delegations[id] : ~delegations[id][i].revoked}

\* The O(1) counter that enforces the cap agrees with the records it stands for,
\* through creations, revocations and transfers of the beneficiary.
ActiveCountExact ==
    \A id \in Ids :
        /\ activeCount[id] = Cardinality(Open(id))
        /\ activeCount[id] <= MAX_DELEGATIONS_PER_SCHEDULE

\* No delegate draws more than its budget over all of its claims.
BudgetHolds ==
    \A id \in Ids : \A i \in DOMAIN delegations[id] :
        LET d == delegations[id][i]
        IN  d.max_amount # None => d.claimed_so_far <= d.max_amount

\* What the delegates of a schedule drew is part of its claimed amount: a grant is
\* paid out once, whoever claims.
DelegatedWithinClaimed ==
    \A id \in Stored :
        SumFunction([i \in DOMAIN delegations[id] |-> delegations[id][i].claimed_so_far])
            <= schedules[id].claimed_amount
=============================================================================
