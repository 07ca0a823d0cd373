------------------------------ MODULE Funding ------------------------------
(***************************************************************************)
(* The three ways into the vesting contract together: direct creation,     *)
(* proposals and batches share the schedule counter, the indices and the   *)
(* balance, and every other operation goes on between their steps.         *)
(***************************************************************************)
EXTENDS Proposal, Batch

fundingVars == <<vars, proposals, batchVars>>

FundingInit == ProposalInit /\ BatchInit

FundingNext ==
    \/ Next /\ UNCHANGED <<proposals, batchVars>>
    \/ ProposalStep /\ UNCHANGED batchVars
    \/ BatchStep /\ UNCHANGED proposals

FundingSpec == FundingInit /\ [][FundingNext]_fundingVars
=============================================================================
