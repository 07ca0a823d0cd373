----------------------------- MODULE MultiToken -----------------------------
(***************************************************************************)
(* Multi-token schedules of the VestFlow contract: one grant in several    *)
(* tokens on one timeline.  The timeline yields whole basis points, which  *)
(* are then applied to each token.  Composed with the upgrade authority    *)
(* over one clock.                                                         *)
(*                                                                         *)
(* No call pauses or revokes such a schedule, so the fields for that keep  *)
(* their first values and are left out; so are the two parties, who differ *)
(* and never change, and the lists of ids by party, which only views read. *)
(* Grants start unclaimed.                                                 *)
(***************************************************************************)
EXTENDS VestingCurve, Upgrade, SequencesExt

CONSTANTS
    Tokens,
    MultiOffers,   \* bound: the terms schedules are created on
    MaxMulti       \* bound: schedules created

Tranche == [token : Tokens, total_amount : Int, claimed_amount : Nat]

MultiTokenSchedule ==
    [tokens : Seq(Tranche), start_time : Nat, duration_seconds : Nat,
     cliff_seconds : Nat, lockup_duration : Nat, kind : VestingKinds,
     milestones : Seq([offset_secs : Nat, bps : Nat])]

ASSUME MultiAssumption ==
    IsFiniteSet(Tokens) /\ MultiOffers \subseteq MultiTokenSchedule

VARIABLES
    multiSchedules,   \* DataKey::MultiTokenSchedule(id), id from 1 to the count
    held              \* the contract's balance of each token

multiVars == <<multiSchedules, held>>

MultiTokenInit ==
    /\ UpgradeInit
    /\ multiSchedules = <<>>
    /\ held = [t \in Tokens |-> 0]

\* The sum of what `amount' gives the tranches in token t.
OfToken(tokens, t, amount) ==
    SumFunctionOnSet(amount, {i \in DOMAIN tokens : tokens[i].token = t})

-----------------------------------------------------------------------------
\* Nothing is transferred unless every tranche is; graded milestones are stored
\* as they come.
CreateMultiTokenSchedule(o) ==
    /\ Len(multiSchedules) < MaxMulti
    /\ o.tokens # <<>>
    /\ o.start_time >= now
    /\ o.duration_seconds > 0
    /\ o.cliff_seconds <= o.duration_seconds
    /\ o.lockup_duration >= o.cliff_seconds
    /\ \A i \in DOMAIN o.tokens : o.tokens[i].total_amount > 0
    /\ multiSchedules' = Append(multiSchedules, o)
    /\ held' = [t \in Tokens |->
                   held[t] + OfToken(o.tokens, t,
                                [i \in DOMAIN o.tokens |-> o.tokens[i].total_amount])]

\* Mutant: after the cliff the whole duration counts.
CliffPercentageOfAll(s, elapsed) == (FULL_BPS * elapsed) \div s.duration_seconds

CliffPercentage(s, elapsed) ==
    (FULL_BPS * (elapsed - s.cliff_seconds)) \div (s.duration_seconds - s.cliff_seconds)

\* The basis points of every tranche vested at `at'.
VestedPercentageAt(s, at) ==
    LET elapsed == at - s.start_time
    IN  IF at < s.start_time THEN 0
        ELSE CASE s.kind = "Graded" ->
                    Least(VestedBps(s.milestones, elapsed), FULL_BPS)
               [] s.kind = "Cliff" ->
                    IF elapsed >= s.cliff_seconds THEN FULL_BPS ELSE 0
               [] s.kind = "Linear" ->
                    IF elapsed >= s.duration_seconds THEN FULL_BPS
                    ELSE (FULL_BPS * elapsed) \div s.duration_seconds
               [] s.kind = "LinearWithCliff" ->
                    IF elapsed < s.cliff_seconds THEN 0
                    ELSE IF elapsed >= s.duration_seconds THEN FULL_BPS
                    ELSE CliffPercentage(s, elapsed)

TrancheVested(tranche, pct) ==
    Least(MulDivOr(tranche.total_amount, pct, FULL_BPS, tranche.total_amount),
          tranche.total_amount)

\* Mutant: a claim pays a tranche up to the vested amount again.
ClaimableAnew(s) ==
    [i \in DOMAIN s.tokens |-> TrancheVested(s.tokens[i], VestedPercentageAt(s, now))]

\* What a claim pays of each tranche.
Claimable(s) ==
    [i \in DOMAIN s.tokens |->
        Greatest(0, TrancheVested(s.tokens[i], VestedPercentageAt(s, now))
                        - s.tokens[i].claimed_amount)]

\* What a claim leaves of them.
AfterClaim(s) ==
    [i \in DOMAIN s.tokens |->
        [s.tokens[i] EXCEPT !.claimed_amount = @ + Claimable(s)[i]]]

ClaimMultiToken(id) ==
    LET s    == multiSchedules[id]
        paid == Claimable(s)
    IN  /\ now >= s.start_time + s.lockup_duration
        /\ \E i \in DOMAIN paid : paid[i] > 0
        /\ multiSchedules' = [multiSchedules EXCEPT ![id].tokens = AfterClaim(s)]
        /\ \A t \in Tokens : held[t] >= OfToken(s.tokens, t, paid)
        /\ held' = [t \in Tokens |-> held[t] - OfToken(s.tokens, t, paid)]

MultiTokenStep ==
    \/ \E o \in MultiOffers : CreateMultiTokenSchedule(o)
    \/ \E id \in DOMAIN multiSchedules : ClaimMultiToken(id)

-----------------------------------------------------------------------------
(* Properties *)

\* A tranche as a schedule of its own.
AsSingle(s, i) ==
    [kind |-> s.kind, start_time |-> s.start_time,
     duration_seconds |-> s.duration_seconds, cliff_seconds |-> s.cliff_seconds,
     lockup_duration |-> s.lockup_duration, milestones |-> s.milestones,
     total_amount |-> s.tokens[i].total_amount,
     claimed_amount |-> s.tokens[i].claimed_amount,
     revoked |-> FALSE, paused |-> FALSE, paused_duration |-> 0, paused_at |-> 0]

\* Rounding twice, first to basis points and then to tokens, never puts the
\* beneficiary of a tranche ahead of a single-token schedule of the same terms,
\* and keeps it behind by less than a basis point of the tranche and a token
\* (vested_percentage_at against vested_at).
WithinABasisPoint ==
    \A id \in DOMAIN multiSchedules :
       LET s == multiSchedules[id]
       IN  \A i \in DOMAIN s.tokens :
              LET tranche == s.tokens[i]
                  single  == VestedAt(AsSingle(s, i), now)
              IN  /\ tranche.claimed_amount <= single
                  /\ single - TrancheVested(tranche, VestedPercentageAt(s, now))
                        \in 0..(tranche.total_amount \div FULL_BPS + 1)

\* What each tranche of a schedule is still owed.
Unclaimed(tokens) ==
    [i \in DOMAIN tokens |-> tokens[i].total_amount - tokens[i].claimed_amount]

\* What the schedules still owe in a token.
Owed(t) ==
    SumFunction([id \in DOMAIN multiSchedules |->
                    OfToken(multiSchedules[id].tokens, t,
                            Unclaimed(multiSchedules[id].tokens))])
=============================================================================
