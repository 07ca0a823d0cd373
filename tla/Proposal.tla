------------------------------ MODULE Proposal ------------------------------
(***************************************************************************)
(* Two-phase creation of a vesting schedule in the VestFlow contract: the  *)
(* grantor locks the terms in a proposal, the beneficiary may acknowledge  *)
(* it, and the grantor funds it within a window of ledgers, after which    *)
(* anybody may mark it expired.  Composed with every operation of Vesting, *)
(* whose records and balance a funded proposal adds to.                    *)
(*                                                                         *)
(* Ledger sequence and timestamp advance together here, so the window is   *)
(* compared with `now'.                                                    *)
(***************************************************************************)
EXTENDS Vesting

CONSTANTS
    PROPOSAL_WINDOW_LEDGERS,   \* ledgers a proposal may be funded for
    MaxProposals               \* bound: proposal ids handed out

ASSUME ProposalAssumption ==
    PROPOSAL_WINDOW_LEDGERS \in Nat /\ MaxProposals \in Nat

VARIABLE proposals   \* DataKey::Proposal(id): proposals[id]

pvars == <<vars, proposals>>

ProposalState == {"Pending", "Acknowledged", "Activated", "Expired"}

\* `schedule' is the id an activation carries, 0 before it.
ScheduleProposal ==
    [grantor : Accounts, beneficiary : Accounts, token : Tokens, terms : Offers,
     state : ProposalState, schedule : 0..MaxSchedules, created_at_ledger : Nat]

ProposalTypeOK == proposals \in Seq(ScheduleProposal)

ProposalInit == Init /\ proposals = <<>>

-----------------------------------------------------------------------------
\* The terms are checked once, here; no token moves.
ProposeSchedule(g, b, t, o) ==
    /\ ValidTerms(g, b, o)
    /\ Len(proposals) < MaxProposals
    /\ proposals' = Append(proposals,
          [grantor |-> g, beneficiary |-> b, token |-> t, terms |-> o,
           state |-> "Pending", schedule |-> 0, created_at_ledger |-> now])
    /\ UNCHANGED vars

\* Acknowledging twice is a successful no-op.
AcknowledgeProposal(i) ==
    /\ proposals[i].state = "Pending"
    /\ proposals' = [proposals EXCEPT ![i].state = "Acknowledged"]
    /\ UNCHANGED vars

\* Mutant: only expired proposals are turned away.
UnsettledForgettingActivated(p) == p.state # "Expired"

Unsettled(p) == p.state \notin {"Activated", "Expired"}

Deadline(p) == p.created_at_ledger + PROPOSAL_WINDOW_LEDGERS

\* Mutant: the lockup is not handed over.
ProposedWithoutLockup(p) ==
    PlainSchedule(p.grantor, p.beneficiary, p.token, [p.terms EXCEPT !.lockup = 0])

\* The schedule a proposal promises.
Proposed(p) == PlainSchedule(p.grantor, p.beneficiary, p.token, p.terms)

\* The grantor funds; start_time may have passed meanwhile.
FundAndActivate(i) ==
    LET p == proposals[i]
    IN  /\ Unsettled(p)
        /\ now < Deadline(p)
        /\ FundSchedule(Proposed(p))
        /\ proposals' = [proposals EXCEPT ![i].state = "Activated", ![i].schedule = count + 1]

\* Expiring twice is a successful no-op.
ExpireProposal(i) ==
    /\ Unsettled(proposals[i])
    /\ now >= Deadline(proposals[i])
    /\ proposals' = [proposals EXCEPT ![i].state = "Expired"]
    /\ UNCHANGED vars

ProposalStep ==
    \/ \E g, b \in Accounts, t \in Tokens, o \in Offers : ProposeSchedule(g, b, t, o)
    \/ \E i \in DOMAIN proposals :
          AcknowledgeProposal(i) \/ FundAndActivate(i) \/ ExpireProposal(i)

ProposalNext ==
    \/ Next /\ UNCHANGED proposals
    \/ ProposalStep

ProposalSpec == ProposalInit /\ [][ProposalNext]_pvars

-----------------------------------------------------------------------------
(* Properties *)

\* What the parties may not change about a schedule.
FixedTerms(s) ==
    <<s.token, s.total_amount, s.start_time, s.cliff_seconds, s.lockup_duration,
      s.kind, s.revocable>>

\* "Parameters locked": each activated proposal stands for a schedule of its own,
\* funded with the proposed amount, which keeps the proposed terms for as long
\* as it is stored, whatever is done to it and to other proposals.
ActivatedAsProposed ==
    \A i \in DOMAIN proposals :
        LET p == proposals[i]
        IN  p.state = "Activated" =>
                /\ p.schedule \in 1..count
                /\ books[p.schedule].funded = p.terms.total_amount
                /\ p.schedule \in Stored =>
                      FixedTerms(schedules[p.schedule])
                          = FixedTerms(PlainSchedule(p.grantor, p.beneficiary, p.token, p.terms))
                /\ \A j \in (DOMAIN proposals) \ {i} : proposals[j].schedule # p.schedule

\* A proposal is settled once: funded or expired, it is never funded, expired or
\* acknowledged again.
SettledIsFinal ==
    [][\A i \in DOMAIN proposals :
          proposals[i].state \in {"Activated", "Expired"} => proposals'[i] = proposals[i]]_pvars
=============================================================================
