------------------------------- MODULE Batch -------------------------------
(***************************************************************************)
(* Merkle-batched grants of the VestFlow contract: a grantor deposits the  *)
(* tokens of many grants at once and commits to the list of slots by a     *)
(* Merkle root; each beneficiary proves its slot and gets its schedule;    *)
(* what is left after the expiry goes back.  Composed with every operation *)
(* of Vesting, whose balance holds the deposits too.                       *)
(*                                                                         *)
(* A root is the set of the slots below it and a proof shows membership:   *)
(* sha256 is taken to be free of collisions and proofs to be no deeper     *)
(* than the 20 levels allowed.  Ledger sequence and timestamp advance      *)
(* together, so an expiry is compared with `now'.                          *)
(***************************************************************************)
EXTENDS Vesting

CONSTANT BatchOffers   \* bound: the k-th batch is committed as BatchOffers[k]

\* What a leaf of the tree hashes: neither the batch nor its grantor or token.
Slot ==
    [beneficiary : Accounts, total_amount : Int, duration : Nat, cliff : Nat,
     start_time : Nat, kind : VestingKinds \ {"Graded"}, revocable : BOOLEAN]

BatchOffer == [total_amount : Int, root : SUBSET Slot, expiry_ledger : Nat]

ASSUME BatchAssumption ==
    /\ BatchOffers \in Seq(BatchOffer)
    /\ \A b \in DOMAIN BatchOffers : IsFiniteSet(BatchOffers[b].root)

VARIABLES
    batchCount,    \* DataKey::BatchCounter
    batches,       \* DataKey::BatchRoot, Token, Grantor, Remaining and Expiry of an id
    slotClaimed    \* DataKey::BatchSlotClaimed(leaf)

batchVars == <<batchCount, batches, slotClaimed>>
bvars == <<vars, batchVars>>

BatchRecord ==
    [root : SUBSET Slot, token : Tokens, grantor : Accounts, remaining : Int, expiry : Nat]

BatchTypeOK ==
    /\ batchCount \in 0..Len(BatchOffers)
    /\ DOMAIN batches \subseteq 1..batchCount
    /\ batches \in [DOMAIN batches -> BatchRecord]
    /\ slotClaimed \subseteq Slot

BatchInit ==
    /\ Init
    /\ batchCount = 0
    /\ batches = [b \in {} |-> {}]
    /\ slotClaimed = {}

-----------------------------------------------------------------------------
CommitScheduleBatch(g, t) ==
    LET b == batchCount + 1
        o == BatchOffers[b]
    IN  /\ b \in DOMAIN BatchOffers
        /\ o.total_amount > 0
        /\ o.expiry_ledger > now
        /\ escrow' = [escrow EXCEPT ![t] = @ + o.total_amount]
        /\ batchCount' = b
        /\ batches' = [i \in (DOMAIN batches) \cup {b} |->
                          IF i = b THEN [root |-> o.root, token |-> t, grantor |-> g,
                                         remaining |-> o.total_amount,
                                         expiry |-> o.expiry_ledger]
                          ELSE batches[i]]
        /\ UNCHANGED <<now, count, schedules, indices, oracleSet, milestones,
                       books, extended, slotClaimed>>

\* Mutant: any slot of the tree can be claimed, claimed or not.
ClaimableAgain(b, slot) == slot \in batches[b].root

\* The slot is below the batch's root and no batch has paid it yet.
SlotClaimable(b, slot) == slot \in batches[b].root /\ slot \notin slotClaimed

\* Mutant: the batch is not debited.
NotDebited(b, slot) == batches[b].remaining

\* What remains of the deposit; checked_sub lets it go below zero.
Debited(b, slot) == batches[b].remaining - slot.total_amount

\* The terms of a slot's schedule; the cliff is also the lockup.
SlotTerms(slot) ==
    [total_amount |-> slot.total_amount, start_time |-> slot.start_time,
     duration |-> slot.duration, cliff |-> slot.cliff, lockup |-> slot.cliff,
     kind |-> slot.kind, revocable |-> slot.revocable]

\* start_time may lie in the past and the beneficiary may be the grantor.  No
\* token moves.
ClaimScheduleSlot(b, slot) ==
    /\ now < batches[b].expiry
    /\ slot.total_amount > 0
    /\ slot.duration >= MIN_DURATION
    /\ slot.cliff <= slot.duration
    /\ SlotClaimable(b, slot)
    /\ slotClaimed' = slotClaimed \cup {slot}
    /\ batches' = [batches EXCEPT ![b].remaining = Debited(b, slot)]
    /\ PersistFundedSchedule(
          PlainSchedule(batches[b].grantor, slot.beneficiary, batches[b].token,
                        SlotTerms(slot)))
    /\ UNCHANGED <<escrow, batchCount>>

\* The grantor takes back what remains, if anything does, and the batch is gone;
\* its claimed slots stay marked.
ReclaimBatch(b) ==
    LET batch  == batches[b]
        refund == Greatest(batch.remaining, 0)
    IN  /\ now >= batch.expiry
        /\ escrow[batch.token] >= refund
        /\ escrow' = [escrow EXCEPT ![batch.token] = @ - refund]
        /\ batches' = [i \in (DOMAIN batches) \ {b} |-> batches[i]]
        /\ UNCHANGED <<now, count, schedules, indices, oracleSet, milestones,
                       books, extended, batchCount, slotClaimed>>

BatchStep ==
    \/ \E g \in Accounts, t \in Tokens : CommitScheduleBatch(g, t)
    \/ \E b \in DOMAIN batches :
          (\E slot \in batches[b].root : ClaimScheduleSlot(b, slot)) \/ ReclaimBatch(b)

BatchNext ==
    \/ Next /\ UNCHANGED batchVars
    \/ BatchStep

BatchSpec == BatchInit /\ [][BatchNext]_bvars

-----------------------------------------------------------------------------
(* Properties *)

\* The contract's balance of each token is exactly what its schedules are still
\* owed and what remains of its open batches: a slot's schedule is paid for by
\* its own batch, and a reclaim takes nothing that belongs to a schedule.
EscrowExact ==
    extended = {} =>
        \A t \in Tokens :
            escrow[t] = SumFunctionOnSet([id \in Stored |-> Owed(schedules[id])],
                                         {id \in Stored : schedules[id].token = t})
                      + SumFunctionOnSet([b \in DOMAIN batches |-> batches[b].remaining],
                                         {b \in DOMAIN batches : batches[b].token = t})

\* claim_schedule_slot is "funded from the batch's deposit", and asserts against
\* "batch remaining underflow": a batch never hands out more than its deposit.
FundedFromDeposit == \A b \in DOMAIN batches : batches[b].remaining >= 0

\* "Leaves already commit to their batch via the Merkle root": a slot of an open
\* batch counts as claimed exactly when this batch's deposit has paid for it.
SlotsPaidByTheirBatch ==
    \A b \in DOMAIN batches :
        batches[b].remaining =
            BatchOffers[b].total_amount
                - SumFunctionOnSet([slot \in slotClaimed |-> slot.total_amount],
                                   batches[b].root \cap slotClaimed)
=============================================================================
