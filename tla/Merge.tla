------------------------------- MODULE Merge -------------------------------
(***************************************************************************)
(* merge_schedules of the VestFlow contract: several schedules of one      *)
(* grantor and beneficiary are paid up and replaced by one schedule over   *)
(* what remains.  Composed with every operation of Vesting.                *)
(*                                                                         *)
(* `ids' is the argument as the contract gets it, a list: an id that is    *)
(* repeated is loaded, paid and counted once for each place it has.        *)
(***************************************************************************)
EXTENDS Vesting, SequencesExt

CONSTANTS
    MaxCreated,   \* bound: schedules that come from a create call
    MergeLists    \* bound: the lists of ids merge_schedules is called with

ASSUME MergeAssumption ==
    MaxCreated \in Nat /\ \A l \in MergeLists : l \in Seq(Nat)

MIN_MERGE == 2
MAX_MERGE == 20

\* The sources a merge accepts.
Mergeable(ids) ==
    LET first == schedules[ids[1]]
    IN  /\ Len(ids) \in MIN_MERGE..MAX_MERGE
        /\ Range(ids) \subseteq Stored
        /\ \A id \in Range(ids) :
              LET s == schedules[id]
              IN  /\ s.grantor = first.grantor /\ s.beneficiary = first.beneficiary
                  /\ s.token = first.token
                  /\ s.kind = first.kind /\ s.kind # "Graded"
                  /\ ~s.revoked

\* Mutant: the merged balance is everything the source was funded with.
RemainingUnpaid(id) == schedules[id].total_amount

\* What is left of a source once its claimable amount is paid.
Remaining(id) ==
    schedules[id].total_amount - schedules[id].claimed_amount
        - ClaimableAt(schedules[id], now)

Paid(ids) == SumFunction([k \in DOMAIN ids |-> ClaimableAt(schedules[ids[k]], now)])

TotalRemaining(ids) == SumFunction([k \in DOMAIN ids |-> Remaining(ids[k])])

\* The average of a field of the sources, weighted by what remains of each.
WeightedAverage(field, ids, fallback) ==
    IF TotalRemaining(ids) > 0
    THEN SumFunction([k \in DOMAIN ids |-> schedules[ids[k]][field] * Remaining(ids[k])])
             \div TotalRemaining(ids)
    ELSE fallback

Start(ids)    == WeightedAverage("start_time", ids, now)
Duration(ids) == WeightedAverage("duration_seconds", ids, 60)
Cliff(ids)    == WeightedAverage("cliff_seconds", ids, 0)
Lockup(ids)   == WeightedAverage("lockup_duration", ids, 0)

\* Mutant: the last two fields change places.
TimelineSwapped(ids) == <<Start(ids), Duration(ids), Lockup(ids), Cliff(ids)>>

\* Start, duration, cliff and lockup of the merged schedule.
Timeline(ids) == <<Start(ids), Duration(ids), Cliff(ids), Lockup(ids)>>

MergedSchedule(ids) ==
    LET first == schedules[ids[1]]
        t     == Timeline(ids)
    IN  NewSchedule(first.grantor, first.beneficiary, first.token, TotalRemaining(ids),
                    t[1], t[2], t[3], t[4], first.kind,
                    \A id \in Range(ids) : schedules[id].revocable, <<>>)

\* Mutant: the sources stay in the indices.
EntryMovedKeepingSources(index, a, ids) == [index EXCEPT ![a] = @ \cup {count + 1}]

\* An index in which the merged schedule stands for its sources.
EntryMoved(index, a, ids) == [index EXCEPT ![a] = (@ \ Range(ids)) \cup {count + 1}]

\* The books of a source keep what it has paid; the rest funds the merged schedule.
MergeSchedules(ids) ==
    LET m  == MergedSchedule(ids)
        id == count + 1
    IN  /\ Mergeable(ids)
        /\ count < MaxSchedules
        /\ count' = id
        /\ schedules' = [i \in (Stored \ Range(ids)) \cup {id} |->
                            IF i = id THEN m ELSE schedules[i]]
        /\ byGrantor' = EntryMoved(byGrantor, m.grantor, ids)
        /\ byBeneficiary' = EntryMoved(byBeneficiary, m.beneficiary, ids)
        /\ escrow[m.token] >= Paid(ids)
        /\ escrow' = [escrow EXCEPT ![m.token] = @ - Paid(ids)]
        /\ books' = [i \in Ids |->
              IF i = id THEN [NoMoney EXCEPT !.funded = m.total_amount]
              ELSE IF i \in Range(ids)
              THEN [books[i] EXCEPT !.funded = @ - Remaining(i),
                                    !.toBeneficiary = @ + ClaimableAt(schedules[i], now)]
              ELSE books[i]]
        /\ extended' = extended \cup (IF Range(ids) \cap extended = {} THEN {} ELSE {id})
        /\ UNCHANGED <<now, oracleSet, milestones>>

MergeNext ==
    \/ Next /\ (count' > count => count < MaxCreated)
    \/ \E ids \in MergeLists : MergeSchedules(ids)

MergeSpec == Init /\ [][MergeNext]_vars

-----------------------------------------------------------------------------
(* Properties *)

\* "claimed_total + merged.total_amount == sum(source.total_amount)": nothing is
\* lost or made up between the sources that leave storage and the schedule that
\* replaces them.
MergeConserves ==
    [][\A ids \in MergeLists :
          MergeSchedules(ids) =>
              LET sources == Stored \ DOMAIN schedules'
                  m       == schedules'[count']
                  earlier == SumFunctionOnSet([i \in Stored |-> schedules[i].claimed_amount],
                                              sources)
              IN  earlier + (escrow[m.token] - escrow'[m.token]) + m.total_amount
                    = SumFunctionOnSet([i \in Stored |-> schedules[i].total_amount],
                                       sources)]_vars

\* "the merged schedule automatically satisfies the same invariants": its cliff
\* is within its duration and its lockup, and its duration is positive.
MergedWellFormed ==
    \A id \in Stored :
        LET s == schedules[id]
        IN  s.kind # "Graded" =>
                /\ 0 < s.duration_seconds /\ s.cliff_seconds <= s.duration_seconds
                /\ s.cliff_seconds <= s.lockup_duration
=============================================================================
