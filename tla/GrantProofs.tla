---------------------------- MODULE GrantProofs ----------------------------
(***************************************************************************)
(* Proofs about the modules that each add one thing to Vesting.            *)
(*                                                                         *)
(* Delegation: the counter of open delegations is exact, budgets hold, and *)
(* what delegates draw is part of what the schedule has paid.  Merge: a    *)
(* merge of different schedules conserves what they were granted and       *)
(* leaves a well-formed schedule.  Portfolio: the browser projects what    *)
(* the contract would pay.  Funding: schedules come from proposals and     *)
(* batches, which are settled once and as proposed or committed to.        *)
(*                                                                         *)
(* The invariant of Vesting carries over to each of them.                  *)
(***************************************************************************)
EXTENDS Delegation, Merge, Portfolio, Funding, VestingProofs

-----------------------------------------------------------------------------
(* Delegation *)

\* What the delegates in a list have drawn together.
Drawn(l) == SumFunction([i \in DOMAIN l |-> l[i].claimed_so_far])

DelegationTypeOK ==
    /\ delegations \in [Ids -> Seq(ClaimDelegation)]
    /\ activeCount \in [Ids -> Nat]

\* An id that has not been handed out has no delegations, so a new schedule starts
\* without any.
DInv ==
    /\ IInv
    /\ DelegationTypeOK
    /\ ActiveCountExact
    /\ BudgetHolds
    /\ DelegatedWithinClaimed
    /\ \A id \in Ids : id > count => delegations[id] = <<>>

-----------------------------------------------------------------------------
(* Delegation: lists *)

\* Replacing a delegation in a list changes what was drawn by the difference.
LEMMA DrawnReplaced ==
  ASSUME NEW l \in Seq(ClaimDelegation), NEW i \in DOMAIN l, NEW d \in ClaimDelegation
  PROVE  /\ [l EXCEPT ![i] = d] \in Seq(ClaimDelegation)
         /\ Drawn([l EXCEPT ![i] = d])
               = Drawn(l) - l[i].claimed_so_far + d.claimed_so_far
<1> DEFINE m == [l EXCEPT ![i] = d]
           f == [k \in DOMAIN l |-> l[k].claimed_so_far]
           g == [k \in DOMAIN m |-> m[k].claimed_so_far]
           S == DOMAIN l
<1>1. /\ S = 1..Len(l) /\ Len(l) \in Nat /\ DOMAIN m = S
      /\ \A k \in S : l[k] \in ClaimDelegation
  BY LenProperties
<1>2. m \in Seq(ClaimDelegation)
  BY <1>1, ExceptSeq
<1>3. /\ IsFiniteSet(S) /\ (\A k \in S : f[k] \in Int) /\ g[i] \in Int
      /\ \A k \in S \ {i} : g[k] = f[k]
  <2>1. IsFiniteSet(S)
    BY <1>1, FS_Interval
  <2>2. \A k \in S : f[k] \in Int
    BY <1>1 DEF ClaimDelegation
  <2>3. g[i] = d.claimed_so_far /\ \A k \in S \ {i} : g[k] = f[k]
    BY <1>1
  <2>4. d.claimed_so_far \in Int
    BY DEF ClaimDelegation
  <2> HIDE DEF f, g, S
  <2> QED BY <2>1, <2>2, <2>3, <2>4
<1>4. f[i] = l[i].claimed_so_far /\ g[i] = d.claimed_so_far
  BY <1>1
<1>5. DOMAIN f = S /\ DOMAIN g = S
  BY <1>1
<1>6. Drawn(l) = SumFunctionOnSet(f, S) /\ Drawn(m) = SumFunctionOnSet(g, S)
  BY <1>5, Zenon DEF Drawn, SumFunction
<1> HIDE DEF f, g, S, m
<1>7. SumFunctionOnSet(g, S) = SumFunctionOnSet(f, S) - f[i] + g[i]
  BY <1>3, SumUpdate DEF S
<1> QED BY <1>2, <1>4, <1>6, <1>7 DEF m

\* Appending one adds what it has drawn.
LEMMA DrawnAppended ==
  ASSUME NEW l \in Seq(ClaimDelegation), NEW d \in ClaimDelegation
  PROVE  /\ Append(l, d) \in Seq(ClaimDelegation)
         /\ Drawn(Append(l, d)) = Drawn(l) + d.claimed_so_far
<1> DEFINE m == Append(l, d)
           n == Len(l) + 1
           f == [k \in DOMAIN l |-> l[k].claimed_so_far]
           g == [k \in DOMAIN m |-> m[k].claimed_so_far]
           S == DOMAIN l
<1>1. /\ S = 1..Len(l) /\ Len(l) \in Nat
      /\ \A k \in S : l[k] \in ClaimDelegation
  BY LenProperties
<1>2. /\ m \in Seq(ClaimDelegation) /\ DOMAIN m = 1..n /\ m[n] = d
      /\ \A k \in S : m[k] = l[k]
  BY <1>1
<1>3. DOMAIN m = S \cup {n} /\ n \notin S
  BY <1>1, <1>2
<1>4. IsFiniteSet(S)
  BY <1>1, FS_Interval
<1>5. /\ \A k \in S : f[k] = g[k] /\ f[k] \in Int
      /\ g[n] = d.claimed_so_far
      /\ \A k \in S \cup {n} : g[k] \in Int
  BY <1>1, <1>2, <1>3 DEF ClaimDelegation
<1>6. DOMAIN f = S /\ DOMAIN g = S \cup {n}
  BY <1>3
<1>7. Drawn(l) = SumFunctionOnSet(f, S) /\ Drawn(m) = SumFunctionOnSet(g, S \cup {n})
  BY <1>6, Zenon DEF Drawn, SumFunction
<1> HIDE DEF f, g, S, m, n
<1>8. SumFunctionOnSet(g, S \cup {n}) = SumFunctionOnSet(g, S) + g[n]
  BY <1>3, <1>4, <1>5, SumAdd
<1>9. SumFunctionOnSet(f, S) = SumFunctionOnSet(g, S)
  BY <1>4, <1>5, SumAgrees
<1> QED BY <1>2, <1>5, <1>7, <1>8, <1>9 DEF m

\* Nobody has drawn anything from an empty list.
LEMMA DrawnEmpty == Drawn(<<>>) = 0
<1> DEFINE f == [i \in DOMAIN <<>> |-> <<>>[i].claimed_so_far]
<1>1. DOMAIN f = {}
  OBVIOUS
<1>2. Drawn(<<>>) = SumFunctionOnSet(f, {})
  BY <1>1, Zenon DEF Drawn, SumFunction
<1> QED BY <1>2, SumEmpty

\* What was drawn is a natural number.
LEMMA DrawnNat ==
  ASSUME NEW l \in Seq(ClaimDelegation)
  PROVE  Drawn(l) \in Nat
<1> DEFINE f == [k \in DOMAIN l |-> l[k].claimed_so_far]
           S == DOMAIN l
<1>1. /\ S = 1..Len(l) /\ Len(l) \in Nat
      /\ \A k \in S : l[k] \in ClaimDelegation
  BY LenProperties
<1>2. IsFiniteSet(S) /\ \A k \in S : f[k] \in Nat
  BY <1>1, FS_Interval DEF ClaimDelegation
<1>3. DOMAIN f = S
  OBVIOUS
<1>4. Drawn(l) = SumFunctionOnSet(f, S)
  BY <1>3, Zenon DEF Drawn, SumFunction
<1> HIDE DEF f, S
<1> QED BY <1>2, <1>4, SumNat

\* The open delegations of a schedule are finitely many.
LEMMA OpenFinite ==
  ASSUME DelegationTypeOK, NEW id \in Ids
  PROVE  /\ IsFiniteSet(Open(id)) /\ Cardinality(Open(id)) \in Nat
         /\ Open(id) \subseteq 1..Len(delegations[id])
         /\ DOMAIN delegations[id] = 1..Len(delegations[id])
         /\ Len(delegations[id]) \in Nat
<1>1. delegations[id] \in Seq(ClaimDelegation)
  BY DEF DelegationTypeOK
<1>2. DOMAIN delegations[id] = 1..Len(delegations[id]) /\ Len(delegations[id]) \in Nat
  BY <1>1, LenProperties
<1>3. IsFiniteSet(1..Len(delegations[id])) /\ Open(id) \subseteq 1..Len(delegations[id])
  BY <1>2, FS_Interval DEF Open
<1>4. IsFiniteSet(Open(id))
  BY <1>3, FS_Subset
<1> QED BY <1>2, <1>3, <1>4, FS_CardinalityType

-----------------------------------------------------------------------------
(* Delegation: steps *)

\* Replacing one delegation leaves the others, and every type, as they were.
LEMMA DelegationReplaced ==
  ASSUME DelegationTypeOK, NEW id \in Ids, NEW i \in DOMAIN delegations[id],
         NEW d \in ClaimDelegation,
         delegations' = [delegations EXCEPT ![id] = [delegations[id] EXCEPT ![i] = d]]
  PROVE  /\ delegations' \in [Ids -> Seq(ClaimDelegation)]
         /\ DOMAIN delegations'[id] = DOMAIN delegations[id]
         /\ delegations'[id][i] = d
         /\ \A k \in DOMAIN delegations[id] \ {i} : delegations'[id][k] = delegations[id][k]
         /\ \A j \in Ids \ {id} : delegations'[j] = delegations[j]
         /\ Drawn(delegations'[id]) = Drawn(delegations[id])
               - delegations[id][i].claimed_so_far + d.claimed_so_far
<1> DEFINE l == delegations[id]
           m == [l EXCEPT ![i] = d]
<1>1. l \in Seq(ClaimDelegation)
  BY DEF DelegationTypeOK
<1>2. m \in Seq(ClaimDelegation) /\ Drawn(m) = Drawn(l) - l[i].claimed_so_far + d.claimed_so_far
  BY <1>1, DrawnReplaced
<1>3. DOMAIN m = DOMAIN l /\ m[i] = d /\ \A k \in DOMAIN l \ {i} : m[k] = l[k]
  OBVIOUS
<1> HIDE DEF l, m
<1>4. delegations' = [delegations EXCEPT ![id] = m]
  BY DEF m, l
<1>5. delegations'[id] = m
  BY <1>4 DEF DelegationTypeOK
<1> QED BY <1>2, <1>3, <1>4, <1>5 DEF l, DelegationTypeOK

\* An accepted delegation starts open, within its budget and with nothing drawn.
LEMMA CreateDelegationStep ==
  ASSUME DInv, NEW id \in Ids, NEW a \in Accounts, NEW max \in Budgets,
         NEW e \in Expiries, CreateDelegation(id, a, max, e)
  PROVE  DInv'
<1> DEFINE d == [delegate |-> a, max_amount |-> max, expires_at_ledger |-> e,
                 claimed_so_far |-> 0, revoked |-> FALSE]
           l == delegations[id]
           n == Len(l) + 1
<1>1. IInv'
  BY StutterStep DEF DInv, CreateDelegation
<1>2. d \in ClaimDelegation /\ d.claimed_so_far = 0 /\ ~d.revoked /\ d.max_amount = max
  BY DEF ClaimDelegation
<1>3. /\ l \in Seq(ClaimDelegation) /\ delegations \in [Ids -> Seq(ClaimDelegation)]
      /\ activeCount \in [Ids -> Nat] /\ Len(l) \in Nat /\ DOMAIN l = 1..Len(l)
  BY LenProperties DEF DInv, DelegationTypeOK
<1> HIDE DEF d
<1>4. /\ delegations' = [delegations EXCEPT ![id] = Append(l, d)]
      /\ activeCount' = [activeCount EXCEPT ![id] = @ + 1]
      /\ activeCount[id] < MAX_DELEGATIONS_PER_SCHEDULE
      /\ UNCHANGED vars /\ id \in Stored
  BY DEF CreateDelegation, SlotFree, d
<1>5. Append(l, d) \in Seq(ClaimDelegation) /\ Drawn(Append(l, d)) = Drawn(l) + 0
  BY <1>2, <1>3, DrawnAppended
<1>6. /\ DOMAIN Append(l, d) = 1..n /\ Append(l, d)[n] = d
      /\ \A k \in 1..Len(l) : Append(l, d)[k] = l[k]
  BY <1>2, <1>3
<1>7. /\ delegations'[id] = Append(l, d)
      /\ \A j \in Ids \ {id} : delegations'[j] = delegations[j]
      /\ activeCount'[id] = activeCount[id] + 1
      /\ \A j \in Ids \ {id} : activeCount'[j] = activeCount[j]
  BY <1>3, <1>4
<1>8. DelegationTypeOK'
  BY <1>3, <1>4, <1>5 DEF DelegationTypeOK
<1>9. ActiveCountExact'
  <2>1. Open(id)' = Open(id) \cup {n} /\ n \notin Open(id)
    BY <1>2, <1>3, <1>6, <1>7 DEF Open
  <2>2. Cardinality(Open(id) \cup {n}) = Cardinality(Open(id)) + 1
    BY <2>1, OpenFinite, FS_AddElement DEF DInv
  <2>3. \A j \in Ids \ {id} : Open(j)' = Open(j)
    BY <1>7 DEF Open
  <2>4. ASSUME NEW j \in Ids
        PROVE  /\ activeCount'[j] = Cardinality(Open(j)')
               /\ activeCount'[j] <= MAX_DELEGATIONS_PER_SCHEDULE
    <3>1. CASE j = id
      <4>1. activeCount[id] = Cardinality(Open(id)) /\ activeCount[id] \in Nat
        BY <1>3 DEF DInv, ActiveCountExact
      <4>2. Cardinality(Open(id)') = Cardinality(Open(id) \cup {n})
        BY <2>1, Zenon
      <4>3. /\ activeCount'[id] = Cardinality(Open(id)')
            /\ activeCount'[id] <= MAX_DELEGATIONS_PER_SCHEDULE
        BY <1>4, <1>7, <2>2, <4>1, <4>2, DelegationAssumption
      <4> QED BY <3>1, <4>3, Zenon
    <3>2. CASE j # id
      BY <1>7, <2>3, <3>2 DEF DInv, ActiveCountExact
    <3> QED BY <3>1, <3>2
  <2> QED BY <2>4 DEF ActiveCountExact
<1>10. BudgetHolds'
  <2>1. max # None => d.claimed_so_far <= max
    BY <1>2, DelegationAssumption DEF CreateDelegation
  <2>2. ASSUME NEW j \in Ids, NEW k \in DOMAIN delegations'[j]
        PROVE  LET x == delegations'[j][k]
               IN  x.max_amount # None => x.claimed_so_far <= x.max_amount
    <3>1. CASE j = id /\ k = n
      BY <1>2, <1>6, <1>7, <2>1, <3>1
    <3>2. CASE j = id /\ k # n
      <4>1. k \in DOMAIN l /\ delegations'[j][k] = l[k]
        BY <1>3, <1>6, <1>7, <3>2
      <4> QED BY <4>1, <3>2 DEF DInv, BudgetHolds
    <3>3. CASE j # id
      BY <1>7, <3>3 DEF DInv, BudgetHolds
    <3> QED BY <3>1, <3>2, <3>3
  <2> QED BY <2>2 DEF BudgetHolds
<1>11. DelegatedWithinClaimed'
  <2>1. Drawn(l) \in Nat
    BY <1>3, DrawnNat
  <2>2. ASSUME NEW j \in Stored
        PROVE  Drawn(delegations'[j]) <= schedules'[j].claimed_amount
    <3>1. j \in Ids /\ schedules' = schedules
      BY <1>4, StoredFacts DEF vars, DInv
    <3>2. Drawn(delegations[j]) <= schedules[j].claimed_amount
      BY DEF DInv, DelegatedWithinClaimed, Drawn
    <3>3. Drawn(delegations'[j]) = Drawn(delegations[j])
      <4>1. Drawn(Append(l, d)) = Drawn(l)
        BY <1>5, <2>1
      <4>2. CASE j = id
        BY <1>7, <4>1, <4>2, Zenon
      <4>3. CASE j # id
        BY <1>7, <3>1, <4>3, Zenon
      <4> QED BY <4>2, <4>3
    <3> QED BY <3>1, <3>2, <3>3
  <2>3. Stored' = Stored
    BY <1>4 DEF vars, Stored
  <2> QED BY <2>2, <2>3 DEF DelegatedWithinClaimed, Drawn
<1>12. \A j \in Ids : j > count' => delegations'[j] = <<>>
  <2>1. id \in 1..count /\ count' = count /\ count \in Nat
    BY <1>4 DEF vars, DInv, IInv, TypeOK
  <2>2. ~(id > count)
    BY <2>1
  <2> QED BY <1>7, <2>1, <2>2 DEF DInv
<1> QED BY <1>1, <1>8, <1>9, <1>10, <1>11, <1>12 DEF DInv

\* Replacing a delegation by one that spends no more than its budget, and no more
\* than the schedule's claimed amount grows by, keeps what the invariant says of
\* the draws.
LEMMA DrawsStep ==
  ASSUME DInv, NEW id \in Ids, NEW i \in DOMAIN delegations[id],
         NEW d \in ClaimDelegation,
         delegations' = [delegations EXCEPT ![id] = [delegations[id] EXCEPT ![i] = d]],
         d.max_amount # None => d.claimed_so_far <= d.max_amount,
         Stored' = Stored, count' = count,
         \A j \in Stored \ {id} : schedules'[j] = schedules[j],
         id \in Stored => schedules'[id].claimed_amount \in Nat,
         id \in Stored => d.claimed_so_far - delegations[id][i].claimed_so_far
                             <= schedules'[id].claimed_amount - schedules[id].claimed_amount
  PROVE  /\ BudgetHolds' /\ DelegatedWithinClaimed'
         /\ \A j \in Ids : j > count' => delegations'[j] = <<>>
<1> DEFINE l == delegations[id]
<1>1. DelegationTypeOK /\ l \in Seq(ClaimDelegation)
  BY DEF DInv, DelegationTypeOK
<1>2. /\ DOMAIN delegations'[id] = DOMAIN l /\ delegations'[id][i] = d
      /\ \A k \in DOMAIN l \ {i} : delegations'[id][k] = l[k]
      /\ \A j \in Ids \ {id} : delegations'[j] = delegations[j]
      /\ Drawn(delegations'[id]) = Drawn(l) - l[i].claimed_so_far + d.claimed_so_far
  BY <1>1, DelegationReplaced
<1>3. BudgetHolds'
  <2>1. ASSUME NEW j \in Ids, NEW k \in DOMAIN delegations'[j]
        PROVE  LET x == delegations'[j][k]
               IN  x.max_amount # None => x.claimed_so_far <= x.max_amount
    <3>1. CASE j = id /\ k = i
      BY <1>2, <3>1
    <3>2. CASE j = id /\ k # i
      <4>1. k \in DOMAIN l /\ delegations'[j][k] = l[k]
        BY <1>2, <3>2
      <4> QED BY <4>1, <3>2 DEF DInv, BudgetHolds
    <3>3. CASE j # id
      BY <1>2, <3>3 DEF DInv, BudgetHolds
    <3> QED BY <3>1, <3>2, <3>3
  <2> QED BY <2>1 DEF BudgetHolds
<1>4. DelegatedWithinClaimed'
  <2>1. ASSUME NEW j \in Stored
        PROVE  Drawn(delegations'[j]) <= schedules'[j].claimed_amount
    <3>1. j \in Ids
      BY StoredFacts DEF DInv
    <3>2. Drawn(delegations[j]) <= schedules[j].claimed_amount
      BY DEF DInv, DelegatedWithinClaimed, Drawn
    <3>3. CASE j = id
      <4>1. Drawn(l) \in Nat /\ l[i].claimed_so_far \in Nat /\ d.claimed_so_far \in Nat
        <5>1. l[i] \in ClaimDelegation
          BY <1>1, SeqFacts
        <5> QED BY <1>1, <5>1, DrawnNat DEF ClaimDelegation
      <4>2. schedules[id].claimed_amount \in Nat
        BY <3>3, StoredFacts DEF Schedule, DInv
      <4>3. Drawn(l) <= schedules[id].claimed_amount
        BY <3>2, <3>3
      <4>4. Drawn(delegations'[id]) <= schedules'[id].claimed_amount
        BY <1>2, <3>3, <4>1, <4>2, <4>3
      <4> QED BY <3>3, <4>4, Zenon
    <3>4. CASE j # id
      <4>1. delegations'[j] = delegations[j] /\ schedules'[j] = schedules[j]
        BY <1>2, <3>1, <3>4
      <4> QED BY <3>2, <4>1, Zenon
    <3> QED BY <3>3, <3>4
  <2> QED BY <2>1 DEF DelegatedWithinClaimed, Drawn
<1>5. \A j \in Ids : j > count' => delegations'[j] = <<>>
  <2>1. l # <<>>
    OBVIOUS
  <2> QED BY <1>2, <2>1 DEF DInv
<1> QED BY <1>3, <1>4, <1>5

\* Revoking closes one delegation and counts it off once.
LEMMA RevokeDelegationStep ==
  ASSUME DInv, NEW id \in Ids, NEW i \in DOMAIN delegations[id], RevokeDelegation(id, i)
  PROVE  DInv'
<1> DEFINE l == delegations[id]
           d == [l[i] EXCEPT !.revoked = TRUE]
<1>1. /\ l \in Seq(ClaimDelegation) /\ delegations \in [Ids -> Seq(ClaimDelegation)]
      /\ activeCount \in [Ids -> Nat] /\ DelegationTypeOK /\ l[i] \in ClaimDelegation
  BY SeqFacts DEF DInv, DelegationTypeOK
<1>2. /\ d \in ClaimDelegation /\ d.revoked
      /\ d.max_amount = l[i].max_amount /\ d.claimed_so_far = l[i].claimed_so_far
      /\ d.claimed_so_far \in Nat /\ ~l[i].revoked
  BY <1>1 DEF ClaimDelegation, RevokeDelegation, Revocable
<1> HIDE DEF d
<1>3. delegations' = [delegations EXCEPT ![id] = [delegations[id] EXCEPT ![i] = d]]
  BY <1>1 DEF RevokeDelegation, d
<1>4. /\ activeCount' = [activeCount EXCEPT ![id] = SaturatingSub(@, 1)]
      /\ UNCHANGED vars /\ id \in Stored
  BY DEF RevokeDelegation
<1>5. /\ delegations' \in [Ids -> Seq(ClaimDelegation)]
      /\ DOMAIN delegations'[id] = DOMAIN l /\ delegations'[id][i] = d
      /\ \A k \in DOMAIN l \ {i} : delegations'[id][k] = l[k]
      /\ \A j \in Ids \ {id} : delegations'[j] = delegations[j]
  BY <1>1, <1>2, <1>3, DelegationReplaced
<1>6. IInv'
  BY <1>4, StutterStep DEF DInv
<1>7. /\ activeCount' \in [Ids -> Nat]
      /\ activeCount'[id] = activeCount[id] - 1
      /\ \A j \in Ids \ {id} : activeCount'[j] = activeCount[j]
      /\ Open(id)' = Open(id) \ {i} /\ i \in Open(id)
      /\ activeCount[id] = Cardinality(Open(id))
      /\ Cardinality(Open(id) \ {i}) = Cardinality(Open(id)) - 1
  <2>1. Open(id)' = Open(id) \ {i} /\ i \in Open(id)
    BY <1>2, <1>5 DEF Open
  <2>2. /\ Cardinality(Open(id) \ {i}) = Cardinality(Open(id)) - 1
        /\ Cardinality(Open(id)) \in Nat /\ Cardinality(Open(id) \ {i}) \in Nat
    BY <1>1, <2>1, OpenFinite, FS_RemoveElement, FS_CardinalityType
  <2>3. activeCount[id] = Cardinality(Open(id)) /\ activeCount[id] >= 1
    BY <2>2 DEF DInv, ActiveCountExact
  <2> QED BY <1>1, <1>4, <2>1, <2>2, <2>3 DEF SaturatingSub
<1>8. ActiveCountExact'
  <2>1. \A j \in Ids \ {id} : Open(j)' = Open(j)
    BY <1>5 DEF Open
  <2>2. ASSUME NEW j \in Ids
        PROVE  /\ activeCount'[j] = Cardinality(Open(j)')
               /\ activeCount'[j] <= MAX_DELEGATIONS_PER_SCHEDULE
    <3>1. CASE j = id
      <4>1. Cardinality(Open(id)') = Cardinality(Open(id) \ {i})
        BY <1>7, Zenon
      <4>2. activeCount[id] <= MAX_DELEGATIONS_PER_SCHEDULE /\ activeCount[id] \in Nat
        BY <1>1 DEF DInv, ActiveCountExact
      <4>3. /\ activeCount'[id] = Cardinality(Open(id)')
            /\ activeCount'[id] <= MAX_DELEGATIONS_PER_SCHEDULE
        BY <1>7, <4>1, <4>2, DelegationAssumption
      <4> QED BY <3>1, <4>3, Zenon
    <3>2. CASE j # id
      BY <1>7, <2>1, <3>2 DEF DInv, ActiveCountExact
    <3> QED BY <3>1, <3>2
  <2> QED BY <2>2 DEF ActiveCountExact
<1>9. /\ BudgetHolds' /\ DelegatedWithinClaimed'
      /\ \A j \in Ids : j > count' => delegations'[j] = <<>>
  <2>1. d.max_amount # None => d.claimed_so_far <= d.max_amount
    BY <1>2 DEF DInv, BudgetHolds
  <2>2. Stored' = Stored /\ count' = count /\ schedules' = schedules
    BY <1>4 DEF vars, Stored
  <2>3. schedules[id].claimed_amount \in Nat
    BY <1>4, StoredFacts DEF Schedule, DInv
  <2>4. d.claimed_so_far - l[i].claimed_so_far
           <= schedules'[id].claimed_amount - schedules[id].claimed_amount
    BY <1>2, <2>2, <2>3
  <2> QED BY <1>2, <1>3, <2>1, <2>2, <2>3, <2>4, DrawsStep
<1> QED BY <1>5, <1>6, <1>7, <1>8, <1>9 DEF DInv, DelegationTypeOK

\* A delegate is paid out of what has vested, within its budget, and the payment is
\* entered on both sides.
LEMMA ClaimAsDelegateStep ==
  ASSUME DInv, NEW id \in Ids, NEW i \in DOMAIN delegations[id], ClaimAsDelegate(id, i)
  PROVE  DInv'
<1> DEFINE l == delegations[id]
           s == schedules[id]
           c == WithinBudget(l[i], ClaimableAt(s, now))
           d == [l[i] EXCEPT !.claimed_so_far = l[i].claimed_so_far + c]
<1>1. /\ l \in Seq(ClaimDelegation) /\ delegations \in [Ids -> Seq(ClaimDelegation)]
      /\ activeCount \in [Ids -> Nat] /\ DelegationTypeOK /\ l[i] \in ClaimDelegation
      /\ l[i].claimed_so_far \in Nat /\ l[i].max_amount \in Budgets
      /\ (l[i].max_amount # None => l[i].max_amount \in Int)
  <2>1. /\ l \in Seq(ClaimDelegation) /\ delegations \in [Ids -> Seq(ClaimDelegation)]
        /\ activeCount \in [Ids -> Nat] /\ DelegationTypeOK
    BY DEF DInv, DelegationTypeOK
  <2>2. l[i] \in ClaimDelegation
    BY <2>1, SeqFacts
  <2>3. l[i].claimed_so_far \in Nat /\ l[i].max_amount \in Budgets
    BY <2>2 DEF ClaimDelegation
  <2> QED BY <2>1, <2>2, <2>3, DelegationAssumption
<1>2. id \in Stored /\ s \in Schedule /\ s.claimed_amount \in Nat /\ c > 0
  BY StoredFacts DEF DInv, Schedule, ClaimAsDelegate
<1>3. ClaimableAt(s, now) \in Nat
  <2>1. VestedAt(s, now) \in Int
    <3>1. s.total_amount \in Nat /\ VestedAt(s, now) \in 0..s.total_amount
      BY <1>2, StoredFacts DEF DInv, Schedule
    <3> QED BY <3>1
  <2> QED BY <1>2, <2>1 DEF ClaimableAt, SaturatingSub
<1>4. /\ c \in Nat /\ c <= ClaimableAt(s, now)
      /\ l[i].max_amount # None => l[i].claimed_so_far + c <= l[i].max_amount
  <2> DEFINE m == l[i].max_amount
             k == l[i].claimed_so_far
             v == ClaimableAt(s, now)
  <2>1. CASE m = None
    <3>1. c = v
      BY <2>1 DEF WithinBudget
    <3> QED BY <1>3, <2>1, <3>1
  <2>2. CASE m # None
    <3>1. c = Least(v, Greatest(m - k, 0)) /\ m \in Int /\ k \in Nat /\ v \in Nat
      BY <1>1, <1>3, <2>2 DEF WithinBudget
    <3>2. c > 0
      BY <1>2
    <3> HIDE DEF c, m, k, v
    <3>3. c \in Nat /\ c <= v /\ k + c <= m
      BY <3>1, <3>2 DEF Least, Greatest
    <3> QED BY <3>3 DEF m, k, v
  <2> QED BY <2>1, <2>2
<1>5. /\ d \in ClaimDelegation /\ d.revoked = l[i].revoked /\ d.max_amount = l[i].max_amount
      /\ d.claimed_so_far = l[i].claimed_so_far + c
  <2>1. l[i].claimed_so_far + c \in Nat
    BY <1>1, <1>4
  <2> HIDE DEF c
  <2> QED BY <1>1, <2>1 DEF ClaimDelegation
<1>6. delegations' = [delegations EXCEPT ![id] = [delegations[id] EXCEPT ![i] = d]]
  BY <1>1 DEF ClaimAsDelegate
<1>7. /\ schedules' = [schedules EXCEPT ![id].claimed_amount = @ + c]
      /\ PayOut(id, c, 0)
      /\ UNCHANGED <<now, count, indices, oracleSet, milestones, extended, activeCount>>
  BY <1>2 DEF ClaimAsDelegate, ClaimEntered, DInv, IInv, TypeOK
<1> HIDE DEF c, d
<1>8. IInv'
  <2>1. UNCHANGED <<now, count, indices, oracleSet, milestones, extended>>
    BY <1>7
  <2> QED BY <1>2, <1>4, <1>7, <2>1, PayStep DEF DInv
<1>9. /\ delegations' \in [Ids -> Seq(ClaimDelegation)]
      /\ DOMAIN delegations'[id] = DOMAIN l /\ delegations'[id][i] = d
      /\ \A k \in DOMAIN l \ {i} : delegations'[id][k] = l[k]
      /\ \A j \in Ids \ {id} : delegations'[j] = delegations[j]
  BY <1>1, <1>5, <1>6, DelegationReplaced
<1>10. ActiveCountExact'
  <2>1. ASSUME NEW j \in Ids PROVE Open(j)' = Open(j)
    <3>1. CASE j = id
      BY <1>5, <1>9, <3>1 DEF Open
    <3>2. CASE j # id
      BY <1>9, <3>2 DEF Open
    <3> QED BY <3>1, <3>2
  <2>2. activeCount' = activeCount
    BY <1>7
  <2> QED BY <2>1, <2>2 DEF DInv, ActiveCountExact
<1>11. /\ Stored' = Stored /\ schedules'[id].claimed_amount = s.claimed_amount + c
       /\ \A j \in Stored \ {id} : schedules'[j] = schedules[j]
  <2>1. schedules \in [Stored -> Schedule]
    BY DEF DInv, IInv, TypeOK
  <2> QED BY <1>2, <1>7, <2>1 DEF Stored, Schedule
<1>12. /\ BudgetHolds' /\ DelegatedWithinClaimed'
       /\ \A j \in Ids : j > count' => delegations'[j] = <<>>
  <2>1. d.max_amount # None => d.claimed_so_far <= d.max_amount
    BY <1>4, <1>5
  <2>2. schedules'[id].claimed_amount \in Nat
    BY <1>2, <1>4, <1>11
  <2>3. d.claimed_so_far - l[i].claimed_so_far
           <= schedules'[id].claimed_amount - schedules[id].claimed_amount
    BY <1>1, <1>2, <1>4, <1>5, <1>11
  <2>4. count' = count
    BY <1>7
  <2> QED BY <1>5, <1>6, <1>11, <2>1, <2>2, <2>3, <2>4, DrawsStep
<1> QED BY <1>1, <1>7, <1>8, <1>9, <1>10, <1>12 DEF DInv, DelegationTypeOK

\* The calls on schedules only ever add to the claimed amounts, and open no
\* schedule under an id that has delegations.
LEMMA VestingKeepsDelegations ==
  ASSUME DInv, [Next]_vars, UNCHANGED delegationVars
  PROVE  DInv'
<1>1. IInv /\ IInv'
  BY NextIInv DEF DInv
<1>2. delegations' = delegations /\ activeCount' = activeCount
  BY DEF delegationVars
<1>3. /\ count' \in {count, count + 1} /\ Stored' \subseteq Stored \cup {count + 1}
      /\ count' = count => Stored' \subseteq Stored
  BY <1>1, StoredGrows
<1>4. count \in Nat /\ (Stored' \subseteq 1..count') /\ Stored' \subseteq Ids
  BY <1>1, BoundsAssumption DEF IInv, TypeOK, Ids
<1>5. ActiveCountExact'
  BY <1>2 DEF DInv, ActiveCountExact, Open
<1>6. BudgetHolds'
  BY <1>2 DEF DInv, BudgetHolds
<1>7. \A j \in Ids : j > count' => delegations'[j] = <<>>
  BY <1>2, <1>3, <1>4 DEF DInv, Ids
<1>8. ASSUME NEW j \in Stored'
      PROVE  Drawn(delegations[j]) <= schedules'[j].claimed_amount
  <2>1. schedules'[j].claimed_amount \in Nat
    <3>1. (schedules \in [Stored -> Schedule])'
      BY <1>1 DEF IInv, TypeOK
    <3>2. schedules'[j] \in Schedule
      BY <3>1
    <3> QED BY <3>2 DEF Schedule
  <2>2. CASE j \in Stored
    <3>1. schedules'[j].claimed_amount >= schedules[j].claimed_amount
      BY <1>1, <2>2, ClaimedGrows
    <3>2. Drawn(delegations[j]) <= schedules[j].claimed_amount
      BY <2>2 DEF DInv, DelegatedWithinClaimed, Drawn
    <3>3. Drawn(delegations[j]) \in Nat /\ schedules[j].claimed_amount \in Nat
      BY <1>1, <1>4, <2>2, DrawnNat, StoredFacts DEF DInv, DelegationTypeOK, Schedule
    <3> QED BY <2>1, <3>1, <3>2, <3>3
  <2>3. CASE j \notin Stored
    <3>1. j = count + 1 /\ j \in Ids
      BY <1>3, <1>4, <2>3
    <3>2. delegations[j] = <<>>
      BY <1>4, <3>1 DEF DInv
    <3>3. Drawn(delegations[j]) = 0
      BY <3>2, DrawnEmpty, Zenon
    <3> QED BY <2>1, <3>3
  <2> QED BY <2>2, <2>3
<1>9. DelegatedWithinClaimed'
  BY <1>2, <1>8 DEF DelegatedWithinClaimed, Drawn
<1> QED BY <1>1, <1>2, <1>5, <1>6, <1>7, <1>9 DEF DInv, DelegationTypeOK

\* There are no delegations at first.
LEMMA InitDInv == DelegationInit => DInv
<1> SUFFICES ASSUME DelegationInit PROVE DInv
  OBVIOUS
<1>1. IInv /\ Stored = {}
  BY InitIInv DEF DelegationInit, Init, Stored
<1>2. /\ \A id \in Ids : delegations[id] = <<>> /\ activeCount[id] = 0
      /\ DelegationTypeOK
  BY DEF DelegationInit, DelegationTypeOK
<1>3. \A id \in Ids : Open(id) = {}
  BY <1>2 DEF Open
<1>4. ActiveCountExact
  BY <1>2, <1>3, FS_EmptySet, DelegationAssumption DEF ActiveCountExact
<1>5. BudgetHolds /\ DelegatedWithinClaimed
  BY <1>1, <1>2 DEF BudgetHolds, DelegatedWithinClaimed
<1> QED BY <1>1, <1>2, <1>4, <1>5 DEF DInv

\* Every step keeps the invariant.
LEMMA NextDInv == DInv /\ [DelegationNext]_dvars => DInv'
<1> SUFFICES ASSUME DInv, [DelegationNext]_dvars PROVE DInv'
  OBVIOUS
<1>1. CASE Next /\ UNCHANGED delegationVars
  BY <1>1, VestingKeepsDelegations
<1>2. ASSUME NEW id \in Ids, DelegationStep(id) PROVE DInv'
  BY <1>2, CreateDelegationStep, RevokeDelegationStep, ClaimAsDelegateStep DEF DelegationStep
<1>3. CASE UNCHANGED dvars
  BY <1>3, VestingKeepsDelegations DEF dvars
<1> QED BY <1>1, <1>2, <1>3 DEF DelegationNext

-----------------------------------------------------------------------------
(* Delegation: theorems *)

\* The inductive invariant holds in every reachable state.
THEOREM DelegationInvariant == DelegationSpec => []DInv
BY InitDInv, NextDInv, PTL DEF DelegationSpec

\* The counter that create_delegation checks against the cap is the number of open
\* delegations, and never passes it.
THEOREM ActiveCountCorrect == DelegationSpec => []ActiveCountExact
<1>1. DInv => ActiveCountExact
  BY DEF DInv
<1> QED BY <1>1, DelegationInvariant, PTL

\* Over all of its claims no delegate draws more than its budget.
THEOREM BudgetsHold == DelegationSpec => []BudgetHolds
<1>1. DInv => BudgetHolds
  BY DEF DInv
<1> QED BY <1>1, DelegationInvariant, PTL

\* What delegates draw is part of the claimed amount, so it is not paid again.
THEOREM DelegatesPaidOnce == DelegationSpec => []DelegatedWithinClaimed
<1>1. DInv => DelegatedWithinClaimed
  BY DEF DInv
<1> QED BY <1>1, DelegationInvariant, PTL

\* Delegates and beneficiaries together never run ahead of the vesting curve, and
\* no schedule pays out more than its grant.
THEOREM DelegatedClaimsFollowVesting ==
  DelegationSpec => [](ClaimedWithinVested /\ PayoutsWithinGrant)
<1>1. DInv => IInv
  BY DEF DInv
<1>2. IInv => ClaimedWithinVested
  BY DEF IInv, ClaimedWithinVested, ScheduleInv
<1> QED BY <1>1, <1>2, InvariantBoundsPayouts, DelegationInvariant, PTL

-----------------------------------------------------------------------------
(* Merge: what the calls on schedules leave alone *)

\* A schedule keeps its kind, amount, start, cliff and lockup while it is stored,
\* and its duration only grows.
LEMMA TermsKept ==
  ASSUME IInv, [Next]_vars, NEW j \in Stored \cap Stored'
  PROVE  /\ schedules'[j].kind = schedules[j].kind
         /\ schedules'[j].total_amount = schedules[j].total_amount
         /\ schedules'[j].cliff_seconds = schedules[j].cliff_seconds
         /\ schedules'[j].lockup_duration = schedules[j].lockup_duration
         /\ schedules'[j].duration_seconds >= schedules[j].duration_seconds
<1> DEFINE same == /\ schedules'[j].kind = schedules[j].kind
                   /\ schedules'[j].total_amount = schedules[j].total_amount
                   /\ schedules'[j].cliff_seconds = schedules[j].cliff_seconds
                   /\ schedules'[j].lockup_duration = schedules[j].lockup_duration
<1>1. /\ schedules[j] \in Schedule /\ schedules[j].duration_seconds \in Nat
      /\ schedules \in [Stored -> Schedule]
  BY StoredFacts DEF Schedule, IInv, TypeOK
<1>2. ASSUME schedules'[j].duration_seconds = schedules[j].duration_seconds
      PROVE  schedules'[j].duration_seconds >= schedules[j].duration_seconds
  BY <1>1, <1>2
<1>3. CASE Create
  <2>1. schedules'[j] = schedules[j]
    BY <1>3, CreateKeepsSchedules
  <2> QED BY <1>2, <2>1
<1>4. ASSUME NEW id \in Ids, Operate(id)
      PROVE  same /\ schedules'[j].duration_seconds >= schedules[j].duration_seconds
  <2>1. CASE DestroySchedule(id)
    <3>1. schedules'[j] = schedules[j]
      BY <2>1 DEF DestroySchedule, Stored
    <3> QED BY <1>2, <3>1
  <2>2. CASE PauseSchedule(id)
    <3>1. same /\ schedules'[j].duration_seconds = schedules[j].duration_seconds
      BY <1>1, <2>2 DEF PauseSchedule, Schedule
    <3> QED BY <1>2, <3>1
  <2>3. CASE ResumeSchedule(id)
    <3>1. same /\ schedules'[j].duration_seconds = schedules[j].duration_seconds
      BY <1>1, <2>3 DEF ResumeSchedule, Schedule
    <3> QED BY <1>2, <3>1
  <2>4. CASE \E l \in MilestoneLists : EnablePerformanceMilestones(id, l)
    <3>1. same /\ schedules'[j].duration_seconds = schedules[j].duration_seconds
      BY <1>1, <2>4 DEF EnablePerformanceMilestones, Schedule
    <3> QED BY <1>2, <3>1
  <2>5. CASE \E i \in DOMAIN milestones[id] : AttestMilestone(id, i)
    BY <1>2, <2>5 DEF AttestMilestone
  <2>6. CASE Claim(id)
    <3>1. same /\ schedules'[j].duration_seconds = schedules[j].duration_seconds
      BY <1>1, <2>6 DEF Claim, Schedule
    <3> QED BY <1>2, <3>1
  <2>7. CASE Revoke(id)
    <3>1. same /\ schedules'[j].duration_seconds = schedules[j].duration_seconds
      BY <1>1, <2>7 DEF Revoke, Schedule
    <3> QED BY <1>2, <3>1
  <2>8. CASE \E a \in Accounts : TransferBeneficiary(id, a)
    <3>1. same /\ schedules'[j].duration_seconds = schedules[j].duration_seconds
      BY <1>1, <2>8 DEF TransferBeneficiary, Schedule
    <3> QED BY <1>2, <3>1
  <2>9. CASE \E a \in Accounts : TransferGrantor(id, a)
    <3>1. same /\ schedules'[j].duration_seconds = schedules[j].duration_seconds
      BY <1>1, <2>9 DEF TransferGrantor, Schedule
    <3> QED BY <1>2, <3>1
  <2>10. ASSUME NEW x \in ExtendBy, ExtendDuration(id, x)
         PROVE  same /\ schedules'[j].duration_seconds >= schedules[j].duration_seconds
    <3>1. x \in Nat
      BY BoundsAssumption
    <3>2. same
      BY <1>1, <2>10 DEF ExtendDuration, Schedule
    <3>3. schedules'[j].duration_seconds \in
             {schedules[j].duration_seconds, schedules[j].duration_seconds + x}
      BY <1>1, <2>10 DEF ExtendDuration, Schedule
    <3> QED BY <1>1, <3>1, <3>2, <3>3
  <2> QED
    BY <1>4, <2>1, <2>2, <2>3, <2>4, <2>5, <2>6, <2>7, <2>8, <2>9, <2>10 DEF Operate
<1>5. CASE Tick \/ InitializePerformanceOracle \/ UNCHANGED vars
  BY <1>2, <1>5 DEF Tick, InitializePerformanceOracle, vars
<1> QED BY <1>3, <1>4, <1>5 DEF Next

\* A schedule that enters storage is graded, or one of the offers accepted.
LEMMA NewTerms ==
  ASSUME IInv, [Next]_vars, NEW j \in Stored', j \notin Stored,
         schedules'[j].kind # "Graded"
  PROVE  \E o \in Offers :
            /\ o.duration >= MIN_DURATION /\ o.cliff <= o.duration /\ o.lockup >= o.cliff
            /\ schedules'[j].total_amount = o.total_amount
            /\ schedules'[j].duration_seconds = o.duration
            /\ schedules'[j].cliff_seconds = o.cliff
            /\ schedules'[j].lockup_duration = o.lockup
<1>1. CASE Create
  <2>1. PICK g \in Accounts, b \in Accounts, t \in Tokens :
            \/ \E o \in Offers : CreateSchedule(g, b, t, o)
            \/ \E o \in GradedOffers : CreateGradedSchedule(g, b, t, o)
    BY <1>1 DEF Create
  <2>2. ASSUME NEW o \in Offers, CreateSchedule(g, b, t, o)
        PROVE  schedules'[j] = PlainSchedule(g, b, t, o) /\ ValidTerms(g, b, o)
    BY <2>2 DEF CreateSchedule, FundSchedule, PersistFundedSchedule, Stored
  <2>3. ASSUME NEW o \in GradedOffers, CreateGradedSchedule(g, b, t, o)
        PROVE  schedules'[j].kind = "Graded"
    <3> DEFINE x == NewSchedule(g, b, t, o.total_amount, o.start_time,
                      Max({o.milestones[i].offset_secs : i \in DOMAIN o.milestones}),
                      0, o.lockup, "Graded", o.revocable, o.milestones)
    <3>1. PersistFundedSchedule(x) /\ x.kind = "Graded"
      BY <2>3 DEF CreateGradedSchedule, FundSchedule, NewSchedule
    <3> HIDE DEF x
    <3>2. schedules'[j] = x
      BY <3>1 DEF PersistFundedSchedule, Stored
    <3> QED BY <3>1, <3>2
  <2>4. PICK o \in Offers : CreateSchedule(g, b, t, o)
    BY <2>1, <2>3
  <2>5. schedules'[j] = PlainSchedule(g, b, t, o) /\ ValidTerms(g, b, o)
    BY <2>2, <2>4
  <2>6. /\ schedules'[j].total_amount = o.total_amount
        /\ schedules'[j].duration_seconds = o.duration
        /\ schedules'[j].cliff_seconds = o.cliff
        /\ schedules'[j].lockup_duration = o.lockup
    BY <2>5 DEF PlainSchedule, NewSchedule
  <2> QED BY <2>5, <2>6 DEF ValidTerms
<1>2. ASSUME ~Create PROVE FALSE
  <2>1. count' = count
    <3>1. ASSUME NEW id \in Ids, Operate(id) PROVE count' = count
      BY <3>1 DEF Operate, PauseSchedule, ResumeSchedule, EnablePerformanceMilestones,
                  AttestMilestone, Claim, Revoke, TransferBeneficiary, TransferGrantor,
                  ExtendDuration, DestroySchedule
    <3> QED BY <1>2, <3>1 DEF Next, Tick, InitializePerformanceOracle, vars
  <2> QED BY <2>1, StoredGrows
<1> QED BY <1>1, <1>2

-----------------------------------------------------------------------------
(* Merge: what a merge takes over *)

\* The sources of a merge are stored, not revoked, and of one grantor, beneficiary,
\* token and kind; what is paid and what remains of each is a natural number, and
\* with what it has claimed they add up to its grant.
LEMMA SourceFacts ==
  ASSUME IInv, NEW ids \in MergeLists, Mergeable(ids)
  PROVE  /\ DOMAIN ids = 1..Len(ids) /\ IsFiniteSet(DOMAIN ids) /\ 1 \in DOMAIN ids
         /\ Range(ids) = {ids[k] : k \in DOMAIN ids}
         /\ \A k \in DOMAIN ids :
               LET s == schedules[ids[k]]
               IN  /\ ids[k] \in Stored /\ ids[k] \in Ids /\ s \in Schedule /\ ~s.revoked
                   /\ s.grantor = schedules[ids[1]].grantor
                   /\ s.token = schedules[ids[1]].token
                   /\ s.kind = schedules[ids[1]].kind /\ s.kind # "Graded"
                   /\ ClaimableAt(s, now) \in Nat /\ Remaining(ids[k]) \in Nat
                   /\ s.claimed_amount \in Nat /\ s.total_amount \in Nat
                   /\ s.claimed_amount + ClaimableAt(s, now) + Remaining(ids[k])
                         = s.total_amount
<1>1. ids \in Seq(Nat)
  BY MergeAssumption
<1>2. DOMAIN ids = 1..Len(ids) /\ Len(ids) \in Nat
  BY <1>1, LenProperties
<1>3. Len(ids) >= 2
  <2>1. Len(ids) \in MIN_MERGE..MAX_MERGE
    BY DEF Mergeable
  <2>2. Len(ids) \in 2..20
    BY <2>1, Zenon DEF MIN_MERGE, MAX_MERGE
  <2> QED BY <1>2, <2>2
<1>4. 1 \in DOMAIN ids /\ IsFiniteSet(DOMAIN ids)
  BY <1>2, <1>3, FS_Interval
<1>5. Range(ids) = {ids[k] : k \in DOMAIN ids}
  BY DEF Range
<1>6. ASSUME NEW k \in DOMAIN ids
      PROVE  LET s == schedules[ids[k]]
             IN  /\ ids[k] \in Stored /\ ids[k] \in Ids /\ s \in Schedule /\ ~s.revoked
                 /\ s.grantor = schedules[ids[1]].grantor
                 /\ s.token = schedules[ids[1]].token
                 /\ s.kind = schedules[ids[1]].kind /\ s.kind # "Graded"
                 /\ ClaimableAt(s, now) \in Nat /\ Remaining(ids[k]) \in Nat
                 /\ s.claimed_amount \in Nat /\ s.total_amount \in Nat
                 /\ s.claimed_amount + ClaimableAt(s, now) + Remaining(ids[k])
                       = s.total_amount
  <2> DEFINE s == schedules[ids[k]]
  <2>1. /\ ids[k] \in Stored /\ ~s.revoked
        /\ s.grantor = schedules[ids[1]].grantor /\ s.token = schedules[ids[1]].token
        /\ s.kind = schedules[ids[1]].kind /\ s.kind # "Graded"
    BY <1>5 DEF Mergeable
  <2>2. /\ s \in Schedule /\ ids[k] \in Ids
        /\ ScheduleInv(s, books[ids[k]], now, ids[k] \in extended)
        /\ VestedAt(s, now) \in 0..s.total_amount
    BY <2>1, StoredFacts
  <2>3. /\ s.total_amount \in Nat /\ s.claimed_amount \in Nat
        /\ s.claimed_amount <= s.total_amount
    BY <2>2 DEF Schedule, ScheduleInv
  <2>4. /\ ClaimableAt(s, now) \in Nat
        /\ s.claimed_amount + ClaimableAt(s, now) <= s.total_amount
    BY <2>2, <2>3 DEF ClaimableAt, SaturatingSub
  <2>5. Remaining(ids[k]) = s.total_amount - s.claimed_amount - ClaimableAt(s, now)
    BY DEF Remaining
  <2> HIDE DEF s
  <2>6. /\ Remaining(ids[k]) \in Nat
        /\ s.claimed_amount + ClaimableAt(s, now) + Remaining(ids[k]) = s.total_amount
    BY <2>3, <2>4, <2>5
  <2> QED BY <2>1, <2>2, <2>3, <2>4, <2>6 DEF s
<1> QED BY <1>2, <1>4, <1>5, <1>6

\* What remains of the sources together.
LEMMA TotalRemainingNat ==
  ASSUME IInv, NEW ids \in MergeLists, Mergeable(ids)
  PROVE  /\ TotalRemaining(ids)
               = SumFunctionOnSet([k \in DOMAIN ids |-> Remaining(ids[k])], DOMAIN ids)
         /\ TotalRemaining(ids) \in Nat
<1> DEFINE w == [k \in DOMAIN ids |-> Remaining(ids[k])]
<1>1. DOMAIN w = DOMAIN ids
  OBVIOUS
<1>2. TotalRemaining(ids) = SumFunctionOnSet(w, DOMAIN ids)
  BY <1>1, Zenon DEF TotalRemaining, SumFunction
<1>3. IsFiniteSet(DOMAIN ids) /\ \A k \in DOMAIN ids : w[k] \in Nat
  BY SourceFacts
<1>4. SumFunctionOnSet(w, DOMAIN ids) \in Nat
  BY <1>3, SumNat
<1> QED BY <1>2, <1>4

\* A field of the sources, each weighted by what remains of it.
Weighted(field, ids) == [k \in DOMAIN ids |-> schedules[ids[k]][field] * Remaining(ids[k])]

\* The average of natural numbers is one.
LEMMA AverageNat ==
  ASSUME IInv, NEW ids \in MergeLists, Mergeable(ids), NEW field, NEW fallback \in Nat,
         \A k \in DOMAIN ids : schedules[ids[k]][field] \in Nat
  PROVE  /\ TotalRemaining(ids) > 0 =>
               /\ SumFunctionOnSet(Weighted(field, ids), DOMAIN ids) \in Nat
               /\ WeightedAverage(field, ids, fallback)
                     = SumFunctionOnSet(Weighted(field, ids), DOMAIN ids) \div TotalRemaining(ids)
         /\ WeightedAverage(field, ids, fallback) \in Nat
<1> DEFINE f == Weighted(field, ids)
<1>1. DOMAIN f = DOMAIN ids
  BY DEF Weighted
<1>2. SumFunction(f) = SumFunctionOnSet(f, DOMAIN ids)
  BY <1>1, Zenon DEF SumFunction
<1>3. IsFiniteSet(DOMAIN ids)
  BY SourceFacts
<1>4. \A k \in DOMAIN ids : f[k] \in Nat
  <2> TAKE k \in DOMAIN ids
  <2>1. schedules[ids[k]][field] \in Nat /\ Remaining(ids[k]) \in Nat
    BY SourceFacts
  <2>2. \A a, b \in Nat : a * b \in Nat
    OBVIOUS
  <2> QED BY <2>1, <2>2 DEF Weighted
<1>5. SumFunctionOnSet(f, DOMAIN ids) \in Nat
  BY <1>3, <1>4, SumNat
<1>6. TotalRemaining(ids) > 0 =>
        WeightedAverage(field, ids, fallback)
            = SumFunctionOnSet(f, DOMAIN ids) \div TotalRemaining(ids)
  BY <1>2 DEF WeightedAverage, Weighted
<1>7. TotalRemaining(ids) \in Nat
  BY TotalRemainingNat
<1>8. \A a, b \in Nat : b > 0 => a \div b \in Nat
  OBVIOUS
<1>9. CASE TotalRemaining(ids) > 0
  <2>1. SumFunctionOnSet(f, DOMAIN ids) \div TotalRemaining(ids) \in Nat
    BY <1>5, <1>7, <1>8, <1>9
  <2> QED BY <1>5, <1>6, <1>9, <2>1
<1>10. CASE ~(TotalRemaining(ids) > 0)
  BY <1>10 DEF WeightedAverage
<1> QED BY <1>9, <1>10

\* The average of the larger field is the larger one.
LEMMA AverageMonotone ==
  ASSUME IInv, NEW ids \in MergeLists, Mergeable(ids), NEW low, NEW high,
         NEW a \in Nat, NEW b \in Nat, a <= b,
         \A k \in DOMAIN ids :
            /\ schedules[ids[k]][low] \in Nat /\ schedules[ids[k]][high] \in Nat
            /\ schedules[ids[k]][low] <= schedules[ids[k]][high]
  PROVE  WeightedAverage(low, ids, a) <= WeightedAverage(high, ids, b)
<1> DEFINE f == Weighted(low, ids)
           g == Weighted(high, ids)
           W == TotalRemaining(ids)
<1>1. CASE ~(W > 0)
  BY <1>1 DEF WeightedAverage
<1>2. CASE W > 0
  <2>1. /\ SumFunctionOnSet(f, DOMAIN ids) \in Nat /\ SumFunctionOnSet(g, DOMAIN ids) \in Nat
        /\ WeightedAverage(low, ids, a) = SumFunctionOnSet(f, DOMAIN ids) \div W
        /\ WeightedAverage(high, ids, b) = SumFunctionOnSet(g, DOMAIN ids) \div W
    BY <1>2, AverageNat
  <2>2. \A k \in DOMAIN ids : f[k] \in Int /\ g[k] \in Int /\ f[k] <= g[k]
    <3> TAKE k \in DOMAIN ids
    <3>1. /\ schedules[ids[k]][low] \in Nat /\ schedules[ids[k]][high] \in Nat
          /\ schedules[ids[k]][low] <= schedules[ids[k]][high]
          /\ Remaining(ids[k]) \in Nat
      BY SourceFacts
    <3>2. \A x, y, z \in Nat : x <= y => x * z \in Int /\ y * z \in Int /\ x * z <= y * z
      BY TimesMonotone
    <3> QED BY <3>1, <3>2 DEF Weighted
  <2>3. IsFiniteSet(DOMAIN ids)
    BY SourceFacts
  <2> HIDE DEF f, g
  <2>4. SumFunctionOnSet(f, DOMAIN ids) <= SumFunctionOnSet(g, DOMAIN ids)
    BY <2>2, <2>3, SumMonotone
  <2>5. W \in Nat
    BY TotalRemainingNat
  <2> HIDE DEF W
  <2> QED BY <1>2, <2>1, <2>4, <2>5, DivMonotone
<1> QED BY <1>1, <1>2

\* The average of positive numbers is positive.
LEMMA AveragePositive ==
  ASSUME IInv, NEW ids \in MergeLists, Mergeable(ids), NEW field, NEW b \in Nat, b > 0,
         \A k \in DOMAIN ids : schedules[ids[k]][field] \in Nat /\ schedules[ids[k]][field] > 0
  PROVE  WeightedAverage(field, ids, b) > 0
<1> DEFINE f == [k \in DOMAIN ids |-> Remaining(ids[k])]
           g == Weighted(field, ids)
           W == TotalRemaining(ids)
<1>1. CASE ~(W > 0)
  BY <1>1 DEF WeightedAverage
<1>2. CASE W > 0
  <2>1. /\ SumFunctionOnSet(g, DOMAIN ids) \in Nat
        /\ WeightedAverage(field, ids, b) = SumFunctionOnSet(g, DOMAIN ids) \div W
    BY <1>2, AverageNat
  <2>2. \A k \in DOMAIN ids : f[k] \in Int /\ g[k] \in Int /\ f[k] <= g[k]
    <3> TAKE k \in DOMAIN ids
    <3>1. /\ schedules[ids[k]][field] \in Nat /\ schedules[ids[k]][field] > 0
          /\ Remaining(ids[k]) \in Nat
      BY SourceFacts
    <3>2. \A x, z \in Nat : x > 0 => x * z \in Int /\ z <= x * z
      <4>1. \A x, z \in Nat : 1 <= x => z * 1 <= z * x
        BY TimesMonotone
      <4> QED BY <4>1
    <3> QED BY <3>1, <3>2 DEF Weighted
  <2>3. IsFiniteSet(DOMAIN ids) /\ W = SumFunctionOnSet(f, DOMAIN ids) /\ W \in Nat
    BY SourceFacts, TotalRemainingNat
  <2> HIDE DEF f, g, W
  <2>4. W <= SumFunctionOnSet(g, DOMAIN ids)
    BY <2>2, <2>3, SumMonotone
  <2>5. \A x, y \in Nat : y > 0 /\ y <= x => x \div y > 0
    OBVIOUS
  <2>6. SumFunctionOnSet(g, DOMAIN ids) \div W > 0
    BY <1>2, <2>1, <2>3, <2>4, <2>5
  <2> QED BY <2>1, <2>6
<1> QED BY <1>1, <1>2

-----------------------------------------------------------------------------
(* Merge: the step *)

\* The merged schedule is one of the contract's, fresh, of the kind of its sources.
LEMMA MergedFresh ==
  ASSUME IInv, NEW ids \in MergeLists, Mergeable(ids)
  PROVE  LET m == MergedSchedule(ids)
         IN  /\ m \in Schedule /\ PlanAccepted(m) /\ m.kind # "Graded"
             /\ m.claimed_amount = 0 /\ m.vested_at_revoke = 0 /\ ~m.revoked
             /\ ~m.paused /\ m.paused_at = 0
             /\ m.grantor = schedules[ids[1]].grantor
             /\ m.token = schedules[ids[1]].token
             /\ m.total_amount = TotalRemaining(ids)
             /\ m.start_time = Start(ids) /\ m.duration_seconds = Duration(ids)
             /\ m.cliff_seconds = Cliff(ids) /\ m.lockup_duration = Lockup(ids)
<1> DEFINE m == MergedSchedule(ids)
           first == schedules[ids[1]]
<1>1. first \in Schedule /\ first.kind # "Graded"
  BY SourceFacts
<1>2. /\ first.grantor \in Accounts /\ first.beneficiary \in Accounts
      /\ first.token \in Tokens /\ first.kind \in VestingKinds
  BY <1>1 DEF Schedule
<1>3. \A k \in DOMAIN ids :
         /\ schedules[ids[k]]["start_time"] \in Nat
         /\ schedules[ids[k]]["duration_seconds"] \in Nat
         /\ schedules[ids[k]]["cliff_seconds"] \in Nat
         /\ schedules[ids[k]]["lockup_duration"] \in Nat
  <2> TAKE k \in DOMAIN ids
  <2>1. schedules[ids[k]] \in Schedule
    BY SourceFacts
  <2> QED BY <2>1 DEF Schedule
<1>4. now \in Nat
  BY BoundsAssumption DEF IInv, TypeOK
<1>5. Start(ids) \in Nat
  BY <1>3, <1>4, AverageNat DEF Start
<1>6. Duration(ids) \in Nat
  <2>1. 60 \in Nat
    OBVIOUS
  <2> QED BY <1>3, <2>1, AverageNat DEF Duration
<1>7. Cliff(ids) \in Nat /\ Lockup(ids) \in Nat
  <2>1. 0 \in Nat
    OBVIOUS
  <2> QED BY <1>3, <2>1, AverageNat DEF Cliff, Lockup
<1>8. TotalRemaining(ids) \in Nat
  BY TotalRemainingNat
<1>9. Timeline(ids)[1] = Start(ids) /\ Timeline(ids)[2] = Duration(ids)
      /\ Timeline(ids)[3] = Cliff(ids) /\ Timeline(ids)[4] = Lockup(ids)
  BY DEF Timeline
<1> DEFINE r == \A id \in Range(ids) : schedules[id].revocable
<1>10. m = NewSchedule(first.grantor, first.beneficiary, first.token, TotalRemaining(ids),
                       Start(ids), Duration(ids), Cliff(ids), Lockup(ids), first.kind,
                       r, <<>>)
  BY <1>9 DEF MergedSchedule
<1>11. <<>> \in Seq(Milestone) /\ r \in BOOLEAN
  OBVIOUS
<1> HIDE DEF m, first, r
<1>12. m \in Schedule
  BY <1>2, <1>5, <1>6, <1>7, <1>8, <1>10, <1>11 DEF NewSchedule, Schedule
<1>13. /\ m.kind # "Graded" /\ m.claimed_amount = 0 /\ m.vested_at_revoke = 0
       /\ ~m.revoked /\ ~m.paused /\ m.paused_at = 0
       /\ m.grantor = first.grantor /\ m.token = first.token
       /\ m.total_amount = TotalRemaining(ids)
       /\ m.start_time = Start(ids) /\ m.duration_seconds = Duration(ids)
       /\ m.cliff_seconds = Cliff(ids) /\ m.lockup_duration = Lockup(ids)
  BY <1>1, <1>10 DEF NewSchedule
<1> QED BY <1>12, <1>13 DEF m, first, PlanAccepted

\* Whatever is listed in the argument, and however often, a merge keeps the books:
\* each source has paid out what it keeps, and what remains funds the new schedule.
LEMMA MergeStep ==
  ASSUME IInv, NEW ids \in MergeLists, MergeSchedules(ids)
  PROVE  IInv'
<1> DEFINE id == count + 1
           m == MergedSchedule(ids)
           R == Range(ids)
<1>1. Mergeable(ids)
  BY DEF MergeSchedules
<1>2. /\ m \in Schedule /\ PlanAccepted(m) /\ m.claimed_amount = 0
      /\ m.vested_at_revoke = 0 /\ ~m.revoked /\ ~m.paused /\ m.paused_at = 0
      /\ m.grantor = schedules[ids[1]].grantor /\ m.token = schedules[ids[1]].token
      /\ m.total_amount \in Nat
  BY <1>1, MergedFresh, TotalRemainingNat
<1>3. \A i \in R :
         /\ i \in Stored /\ i \in Ids /\ ~schedules[i].revoked
         /\ schedules[i].grantor = m.grantor
         /\ ClaimableAt(schedules[i], now) \in Nat /\ Remaining(i) \in Nat
         /\ schedules[i].claimed_amount \in Nat
         /\ schedules[i].claimed_amount + ClaimableAt(schedules[i], now) + Remaining(i)
               = schedules[i].total_amount
  BY <1>1, <1>2, SourceFacts
<1>4. /\ count \in Nat /\ id \in Ids /\ id \notin Stored /\ Stored \subseteq 1..count
      /\ id \in 1..id /\ id \notin R /\ now \in Nat /\ now \in 1..MaxTime
      /\ schedules \in [Stored -> Schedule] /\ books \in [Ids -> Ledger]
      /\ byGrantor \in [Accounts -> SUBSET Ids] /\ byBeneficiary \in [Accounts -> SUBSET Ids]
      /\ escrow \in [Tokens -> Nat] /\ Stored \subseteq Ids
  <2>1. /\ count \in Nat /\ id \in Ids /\ id \notin Stored /\ Stored \subseteq 1..count
        /\ id \in 1..id /\ Stored \subseteq Ids
    <3>1. count < MaxSchedules
      BY DEF MergeSchedules
    <3>2. count \in 0..MaxSchedules /\ Stored \subseteq 1..count /\ MaxSchedules \in Nat
      BY BoundsAssumption DEF IInv, TypeOK
    <3> QED BY <3>1, <3>2 DEF Ids
  <2> QED BY <1>3, <2>1, BoundsAssumption DEF IInv, TypeOK
<1>5. \A i \in R : books[i].toGrantor = 0 /\ books[i].funded = schedules[i].total_amount
                   /\ books[i].toBeneficiary = schedules[i].claimed_amount
  BY <1>3, StoredFacts DEF ScheduleInv
<1> HIDE DEF m, R
<1>6. /\ count' = id
      /\ schedules' = [i \in (Stored \ R) \cup {id} |-> IF i = id THEN m ELSE schedules[i]]
      /\ byGrantor' = [byGrantor EXCEPT ![m.grantor] = (@ \ R) \cup {id}]
      /\ byBeneficiary' = [byBeneficiary EXCEPT ![m.beneficiary] = (@ \ R) \cup {id}]
      /\ escrow[m.token] >= Paid(ids)
      /\ escrow' = [escrow EXCEPT ![m.token] = @ - Paid(ids)]
      /\ books' = [i \in Ids |->
            IF i = id THEN [NoMoney EXCEPT !.funded = m.total_amount]
            ELSE IF i \in R
            THEN [books[i] EXCEPT !.funded = @ - Remaining(i),
                                  !.toBeneficiary = @ + ClaimableAt(schedules[i], now)]
            ELSE books[i]]
      /\ extended \subseteq extended' /\ extended' \subseteq extended \cup {id}
      /\ UNCHANGED <<now, oracleSet, milestones>>
  BY DEF MergeSchedules, EntryMoved, m, R
<1>7. /\ Stored' = (Stored \ R) \cup {id} /\ schedules'[id] = m
      /\ \A i \in Stored \ R : schedules'[i] = schedules[i]
  BY <1>4, <1>6 DEF Stored
<1>8. schedules' \in [Stored' -> Schedule]
  BY <1>2, <1>4, <1>6, <1>7
<1>9. /\ books'[id].funded = m.total_amount /\ books'[id].toBeneficiary = 0
      /\ books'[id].toGrantor = 0 /\ books'[id] \in Ledger
  <2>1. books'[id] = [NoMoney EXCEPT !.funded = m.total_amount]
    BY <1>4, <1>6
  <2> QED BY <1>2, <2>1 DEF NoMoney, Ledger
<1>10. ASSUME NEW i \in R
       PROVE  /\ books'[i] \in Ledger /\ books'[i].toGrantor = 0
              /\ books'[i].toBeneficiary = books'[i].funded
  <2> DEFINE x == books[i].funded - Remaining(i)
             y == books[i].toBeneficiary + ClaimableAt(schedules[i], now)
  <2>1. books'[i] = [books[i] EXCEPT !.funded = x, !.toBeneficiary = y]
    BY <1>3, <1>4, <1>6 DEF Ledger
  <2>2. x \in Nat /\ y \in Nat /\ x = y
    BY <1>3, <1>5
  <2>3. books[i] \in Ledger
    BY <1>3, <1>4
  <2> HIDE DEF x, y
  <2> QED BY <1>5, <2>1, <2>2, <2>3 DEF Ledger
<1>11. \A i \in Ids \ (R \cup {id}) : books'[i] = books[i]
  BY <1>6
<1>12. books' \in [Ids -> Ledger]
  <2>1. \A i \in Ids : books'[i] \in Ledger
    BY <1>4, <1>9, <1>10, <1>11
  <2> QED BY <1>6, <2>1
<1>13. escrow' \in [Tokens -> Nat]
  <2>1. m.token \in Tokens /\ escrow[m.token] \in Nat
    BY <1>2, <1>4 DEF Schedule
  <2>2. Paid(ids) \in Nat
    <3> DEFINE f == [k \in DOMAIN ids |-> ClaimableAt(schedules[ids[k]], now)]
    <3>1. IsFiniteSet(DOMAIN ids) /\ \A k \in DOMAIN ids : f[k] \in Nat
      BY <1>1, SourceFacts
    <3>2. SumFunctionOnSet(f, DOMAIN ids) \in Nat
      BY <3>1, SumNat
    <3>3. DOMAIN f = DOMAIN ids
      OBVIOUS
    <3>4. Paid(ids) = SumFunctionOnSet(f, DOMAIN ids)
      BY <3>3, Zenon DEF Paid, SumFunction
    <3> QED BY <3>2, <3>4
  <2>3. escrow[m.token] >= Paid(ids)
    BY <1>6
  <2>4. escrow[m.token] - Paid(ids) \in Nat
    BY <2>1, <2>2, <2>3
  <2> QED BY <1>4, <1>6, <2>1, <2>4
<1>14. TypeOK'
  <2>1. /\ now' \in 1..MaxTime /\ oracleSet' \in BOOLEAN
        /\ milestones' \in [Ids -> Seq(PerformanceMilestone)]
        /\ extended' \subseteq Ids
    BY <1>4, <1>6 DEF IInv, TypeOK
  <2>2. count' \in 0..MaxSchedules /\ Stored' \subseteq 1..count'
    <3>1. count' = id
      BY <1>6
    <3>2. id \in 0..MaxSchedules /\ 1..count \subseteq 1..id
      BY <1>4, BoundsAssumption DEF Ids
    <3> QED BY <1>4, <1>7, <3>1, <3>2
  <2>3. byGrantor' \in [Accounts -> SUBSET Ids] /\ byBeneficiary' \in [Accounts -> SUBSET Ids]
    <3>1. m.grantor \in Accounts /\ m.beneficiary \in Accounts
      BY <1>2 DEF Schedule
    <3> QED BY <1>4, <1>6, <3>1
  <2> QED BY <1>8, <1>12, <1>13, <2>1, <2>2, <2>3 DEF TypeOK
<1>15. GrantorIndexExact'
  <2>1. ASSUME NEW a \in Accounts
        PROVE  byGrantor'[a] = {i \in Stored' : schedules'[i].grantor = a}
    <3>1. byGrantor[a] = {i \in Stored : schedules[i].grantor = a}
      BY DEF IInv, GrantorIndexExact
    <3>2. CASE a = m.grantor
      <4>1. byGrantor'[a] = (byGrantor[a] \ R) \cup {id}
        BY <1>4, <1>6, <3>2
      <4> QED BY <1>7, <3>1, <3>2, <4>1
    <3>3. CASE a # m.grantor
      <4>1. byGrantor'[a] = byGrantor[a]
        BY <1>4, <1>6, <3>3
      <4> QED BY <1>3, <1>7, <3>1, <3>3, <4>1
    <3> QED BY <3>2, <3>3
  <2> QED BY <2>1 DEF GrantorIndexExact
<1>16. ASSUME NEW i \in Stored'
       PROVE  ScheduleInv(schedules'[i], books'[i], now', i \in extended')
  <2>1. CASE i = id
    <3>1. VestedAt(m, now) \in 0..m.total_amount
      BY <1>2, <1>4, VestedBounds
    <3>2. ScheduleInv(m, books'[id], now, id \in extended')
      BY <1>2, <1>4, <1>9, <3>1 DEF ScheduleInv
    <3> QED BY <1>6, <1>7, <2>1, <3>2
  <2>2. CASE i # id
    <3>1. i \in Stored \ R /\ i \in Ids
      BY <1>4, <1>7, <2>2
    <3>2. /\ schedules'[i] = schedules[i] /\ books'[i] = books[i] /\ now' = now
          /\ (i \in extended' <=> i \in extended)
      BY <1>6, <1>7, <1>11, <2>2, <3>1
    <3>3. ScheduleInv(schedules[i], books[i], now, i \in extended)
      BY <3>1 DEF IInv
    <3> QED BY <3>2, <3>3 DEF ScheduleInv
  <2> QED BY <2>1, <2>2
<1>17. ASSUME NEW i \in Ids \ Stored'
       PROVE  books'[i].toBeneficiary + books'[i].toGrantor = books'[i].funded
  <2>1. i # id
    BY <1>7
  <2>2. CASE i \in R
    <3>1. books'[i].toBeneficiary \in Nat
      BY <1>10, <2>2 DEF Ledger
    <3> QED BY <1>10, <2>2, <3>1
  <2>3. CASE i \notin R
    <3>1. i \in Ids \ Stored
      BY <1>7, <2>3
    <3> QED BY <1>11, <2>1, <2>3, <3>1 DEF IInv
  <2> QED BY <2>2, <2>3
<1>18. \A i \in Ids : i > count' => books'[i] = NoMoney
  <2> SUFFICES ASSUME NEW i \in Ids, i > count' PROVE books'[i] = NoMoney
    OBVIOUS
  <2>1. i > count /\ i # id /\ i \in Nat
    <3>1. count' = id
      BY <1>6
    <3> QED BY <1>4, <3>1 DEF Ids
  <2>2. i \notin R
    BY <1>3, <1>4, <2>1
  <2> QED BY <1>11, <2>1, <2>2 DEF IInv
<1> QED BY <1>14, <1>15, <1>16, <1>17, <1>18 DEF IInv

\* The calls on schedules keep timelines well-formed.
LEMMA WellFormedKept ==
  ASSUME IInv, MergedWellFormed, [Next]_vars
  PROVE  MergedWellFormed'
<1> SUFFICES ASSUME NEW j \in Stored', schedules'[j].kind # "Graded"
             PROVE  LET s == schedules'[j]
                    IN  /\ 0 < s.duration_seconds /\ s.cliff_seconds <= s.duration_seconds
                        /\ s.cliff_seconds <= s.lockup_duration
  BY DEF MergedWellFormed
<1>1. CASE j \in Stored
  <2> DEFINE s == schedules[j]
             r == schedules'[j]
  <2>1. /\ r.kind = s.kind /\ r.cliff_seconds = s.cliff_seconds
        /\ r.lockup_duration = s.lockup_duration /\ r.duration_seconds >= s.duration_seconds
    BY <1>1, TermsKept
  <2>2. /\ 0 < s.duration_seconds /\ s.cliff_seconds <= s.duration_seconds
        /\ s.cliff_seconds <= s.lockup_duration
    BY <1>1, <2>1 DEF MergedWellFormed
  <2>3. s.duration_seconds \in Nat /\ s.cliff_seconds \in Nat
    BY <1>1, StoredFacts DEF Schedule
  <2>4. r.duration_seconds \in Nat
    <3>1. (schedules \in [Stored -> Schedule])'
      BY NextIInv DEF IInv, TypeOK
    <3>2. r \in Schedule
      BY <3>1
    <3> QED BY <3>2 DEF Schedule
  <2> HIDE DEF r, s
  <2>5. /\ 0 < r.duration_seconds /\ r.cliff_seconds <= r.duration_seconds
        /\ r.cliff_seconds <= r.lockup_duration
    BY <2>1, <2>2, <2>3, <2>4
  <2> QED BY <2>5 DEF r
<1>2. CASE j \notin Stored
  <2>1. PICK o \in Offers :
            /\ o.duration >= MIN_DURATION /\ o.cliff <= o.duration /\ o.lockup >= o.cliff
            /\ schedules'[j].duration_seconds = o.duration
            /\ schedules'[j].cliff_seconds = o.cliff
            /\ schedules'[j].lockup_duration = o.lockup
    BY <1>2, NewTerms
  <2>2. /\ o.duration \in Nat /\ o.cliff \in Nat /\ o.lockup \in Nat
        /\ MIN_DURATION \in Nat /\ MIN_DURATION > 0
    BY BoundsAssumption DEF OfferType
  <2> QED BY <2>1, <2>2
<1> QED BY <1>1, <1>2

\* The merged timeline is well-formed like those it averages: each field is weighted
\* and rounded in the same way.
LEMMA WellFormedMerged ==
  ASSUME IInv, MergedWellFormed, NEW ids \in MergeLists, MergeSchedules(ids)
  PROVE  MergedWellFormed'
<1> DEFINE m == MergedSchedule(ids)
           id == count + 1
<1>1. Mergeable(ids)
  BY DEF MergeSchedules
<1>2. /\ m.duration_seconds = Duration(ids) /\ m.cliff_seconds = Cliff(ids)
      /\ m.lockup_duration = Lockup(ids)
  BY <1>1, MergedFresh
<1>3. \A k \in DOMAIN ids :
         LET s == schedules[ids[k]]
         IN  /\ s["duration_seconds"] \in Nat /\ s["cliff_seconds"] \in Nat
             /\ s["lockup_duration"] \in Nat
             /\ s["duration_seconds"] > 0
             /\ s["cliff_seconds"] <= s["duration_seconds"]
             /\ s["cliff_seconds"] <= s["lockup_duration"]
  <2> TAKE k \in DOMAIN ids
  <2>1. ids[k] \in Stored /\ schedules[ids[k]] \in Schedule /\ schedules[ids[k]].kind # "Graded"
    BY <1>1, SourceFacts
  <2>2. /\ 0 < schedules[ids[k]].duration_seconds
        /\ schedules[ids[k]].cliff_seconds <= schedules[ids[k]].duration_seconds
        /\ schedules[ids[k]].cliff_seconds <= schedules[ids[k]].lockup_duration
    BY <2>1 DEF MergedWellFormed
  <2>3. /\ schedules[ids[k]].duration_seconds \in Nat /\ schedules[ids[k]].cliff_seconds \in Nat
        /\ schedules[ids[k]].lockup_duration \in Nat
    BY <2>1 DEF Schedule
  <2> QED BY <2>2, <2>3
<1>4. Duration(ids) > 0
  <2>1. 60 \in Nat /\ 60 > 0
    OBVIOUS
  <2> QED BY <1>1, <1>3, <2>1, AveragePositive DEF Duration
<1>5. Cliff(ids) <= Duration(ids)
  <2>1. 0 \in Nat /\ 60 \in Nat /\ 0 <= 60
    OBVIOUS
  <2> QED BY <1>1, <1>3, <2>1, AverageMonotone DEF Cliff, Duration
<1>6. Cliff(ids) <= Lockup(ids)
  <2>1. 0 \in Nat /\ 0 <= 0
    OBVIOUS
  <2> QED BY <1>1, <1>3, <2>1, AverageMonotone DEF Cliff, Lockup
<1>7. m.duration_seconds \in Nat
  <2>1. m \in Schedule
    BY <1>1, MergedFresh
  <2> QED BY <2>1 DEF Schedule
<1> HIDE DEF m
<1>8. /\ Stored' = (Stored \ Range(ids)) \cup {id} /\ schedules'[id] = m
      /\ \A j \in Stored \ Range(ids) : j # id => schedules'[j] = schedules[j]
  <2>1. schedules' = [i \in (Stored \ Range(ids)) \cup {id} |->
                         IF i = id THEN m ELSE schedules[i]]
    BY DEF MergeSchedules, m
  <2> QED BY <2>1 DEF Stored
<1>9. /\ 0 < m.duration_seconds /\ m.cliff_seconds <= m.duration_seconds
      /\ m.cliff_seconds <= m.lockup_duration
  BY <1>2, <1>4, <1>5, <1>6, <1>7
<1>10. ASSUME NEW j \in Stored', schedules'[j].kind # "Graded"
       PROVE  /\ 0 < schedules'[j].duration_seconds
              /\ schedules'[j].cliff_seconds <= schedules'[j].duration_seconds
              /\ schedules'[j].cliff_seconds <= schedules'[j].lockup_duration
  <2>1. CASE j = id
    BY <1>8, <1>9, <2>1
  <2>2. CASE j # id
    <3>1. j \in Stored /\ schedules'[j] = schedules[j]
      BY <1>8, <2>2
    <3> QED BY <1>10, <3>1 DEF MergedWellFormed
  <2> QED BY <2>1, <2>2
<1> QED BY <1>10 DEF MergedWellFormed

\* No id stands twice in an argument.
NoneRepeated == \A l \in MergeLists : \A i, j \in DOMAIN l : l[i] = l[j] => i = j

\* A merge of different sources: what they had claimed, what it pays now and what
\* the merged schedule is granted are what they were granted.
LEMMA MergeAddsUp ==
  ASSUME NoneRepeated, IInv, NEW ids \in MergeLists, MergeSchedules(ids)
  PROVE  LET sources == Stored \ DOMAIN schedules'
             m       == schedules'[count']
             earlier == SumFunctionOnSet([i \in Stored |-> schedules[i].claimed_amount],
                                         sources)
         IN  earlier + (escrow[m.token] - escrow'[m.token]) + m.total_amount
               = SumFunctionOnSet([i \in Stored |-> schedules[i].total_amount], sources)
<1> DEFINE id == count + 1
           R == Range(ids)
           D == DOMAIN ids
           new == MergedSchedule(ids)
<1>1. Mergeable(ids) /\ count' = id
  BY DEF MergeSchedules
<1>2. /\ IsFiniteSet(D) /\ R = {ids[k] : k \in D}
      /\ \A k \in D :
            /\ ids[k] \in Stored /\ ClaimableAt(schedules[ids[k]], now) \in Nat
            /\ Remaining(ids[k]) \in Nat
            /\ schedules[ids[k]].claimed_amount \in Nat
            /\ schedules[ids[k]].total_amount \in Nat
            /\ schedules[ids[k]].claimed_amount + ClaimableAt(schedules[ids[k]], now)
                  + Remaining(ids[k]) = schedules[ids[k]].total_amount
  BY <1>1, SourceFacts
<1>3. id \notin Stored
  BY DEF IInv, TypeOK
<1>4. /\ new.total_amount = TotalRemaining(ids) /\ new.token \in Tokens
  <2>1. new \in Schedule
    BY <1>1, MergedFresh
  <2> QED BY <1>1, <2>1, MergedFresh DEF Schedule
<1> HIDE DEF new
<1>5. /\ schedules' = [i \in (Stored \ Range(ids)) \cup {id} |->
                         IF i = id THEN new ELSE schedules[i]]
      /\ escrow' = [escrow EXCEPT ![new.token] = @ - Paid(ids)]
  BY DEF MergeSchedules, new
<1>6. Stored \ DOMAIN schedules' = R /\ schedules'[count'] = new
  BY <1>1, <1>2, <1>3, <1>5
<1> DEFINE claimed == [i \in Stored |-> schedules[i].claimed_amount]
           granted == [i \in Stored |-> schedules[i].total_amount]
           claimedOf == [k \in D |-> schedules[ids[k]].claimed_amount]
           grantedOf == [k \in D |-> schedules[ids[k]].total_amount]
           paidOf == [k \in D |-> ClaimableAt(schedules[ids[k]], now)]
           restOf == [k \in D |-> Remaining(ids[k])]
           beforeOf == [k \in D |-> claimedOf[k] + paidOf[k]]
           Sum(f) == SumFunctionOnSet(f, D)
<1>7. /\ Paid(ids) = Sum(paidOf) /\ TotalRemaining(ids) = Sum(restOf)
  <2>1. DOMAIN paidOf = D
    OBVIOUS
  <2>2. Paid(ids) = Sum(paidOf)
    BY <2>1, Zenon DEF Paid, SumFunction
  <2> QED BY <1>1, <2>2, TotalRemainingNat
<1>8. IsFiniteSet(R)
  <2>1. R \subseteq Ids
    BY <1>2, StoredFacts
  <2>2. IsFiniteSet(Ids)
    BY BoundsAssumption, FS_Interval DEF Ids
  <2> QED BY <2>1, <2>2, FS_Subset
<1>9. \A r, s \in D : ids[r] = ids[s] => r = s
  BY DEF NoneRepeated
<1>10. \A u \in R : \E k \in D : ids[k] = u
  BY <1>2
<1>11. SumFunctionOnSet(claimed, R) = Sum(claimedOf)
  <2>1. \A k \in D : /\ ids[k] \in R /\ claimed[ids[k]] = claimedOf[k]
                     /\ claimedOf[k] \in Int
    BY <1>2
  <2> HIDE DEF claimed, claimedOf, R, D
  <2> QED BY <1>2, <1>8, <1>9, <1>10, <2>1, SumReindex
<1>12. SumFunctionOnSet(granted, R) = Sum(grantedOf)
  <2>1. \A k \in D : /\ ids[k] \in R /\ granted[ids[k]] = grantedOf[k]
                     /\ grantedOf[k] \in Int
    BY <1>2
  <2> HIDE DEF granted, grantedOf, R, D
  <2> QED BY <1>2, <1>8, <1>9, <1>10, <2>1, SumReindex
<1>13. \A k \in D : /\ claimedOf[k] \in Int /\ paidOf[k] \in Int /\ restOf[k] \in Int
                    /\ beforeOf[k] \in Int /\ beforeOf[k] = claimedOf[k] + paidOf[k]
                    /\ grantedOf[k] = beforeOf[k] + restOf[k]
  BY <1>2
<1> HIDE DEF claimed, granted, claimedOf, grantedOf, paidOf, restOf, beforeOf, D, R
<1>14. Sum(beforeOf) = Sum(claimedOf) + Sum(paidOf)
  BY <1>2, <1>13, SumPlus
<1>15. Sum(grantedOf) = Sum(beforeOf) + Sum(restOf)
  BY <1>2, <1>13, SumPlus
<1>16. Sum(claimedOf) \in Int /\ Sum(paidOf) \in Int /\ Sum(restOf) \in Int
  BY <1>2, <1>13, SumInt
<1>17. escrow[new.token] - escrow'[new.token] = Paid(ids)
  <2>1. escrow \in [Tokens -> Nat]
    BY DEF IInv, TypeOK
  <2>2. escrow'[new.token] = escrow[new.token] - Paid(ids) /\ escrow[new.token] \in Nat
    BY <1>4, <1>5, <2>1
  <2> QED BY <1>7, <1>16, <2>2
<1>18. SumFunctionOnSet(claimed, R) + (escrow[new.token] - escrow'[new.token])
          + new.total_amount = SumFunctionOnSet(granted, R)
  BY <1>4, <1>7, <1>11, <1>12, <1>14, <1>15, <1>16, <1>17
<1> QED BY <1>6, <1>18, Zenon DEF claimed, granted

-----------------------------------------------------------------------------
(* Merge: theorems *)

MInv == IInv /\ MergedWellFormed

\* Merging keeps the invariant of Vesting, and every timeline well-formed.
THEOREM MergeInvariant == MergeSpec => []MInv
<1>1. Init => MInv
  <2>1. Init => Stored = {}
    BY DEF Init, Stored
  <2> QED BY <2>1, InitIInv DEF MInv, MergedWellFormed
<1>2. ASSUME MInv, [MergeNext]_vars PROVE MInv'
  <2>1. CASE [Next]_vars
    BY <1>2, <2>1, NextIInv, WellFormedKept DEF MInv
  <2>2. ASSUME NEW ids \in MergeLists, MergeSchedules(ids) PROVE MInv'
    BY <1>2, <2>2, MergeStep, WellFormedMerged DEF MInv
  <2> QED BY <1>2, <2>1, <2>2 DEF MergeNext
<1> QED BY <1>1, <1>2, PTL DEF MergeSpec

\* "The merged schedule automatically satisfies the same invariants": the averages
\* keep the cliff within the duration and the lockup, and the duration positive.
THEOREM MergedTimelines == MergeSpec => []MergedWellFormed
<1>1. MInv => MergedWellFormed
  BY DEF MInv
<1> QED BY <1>1, MergeInvariant, PTL

\* The grantor index stays exact through merges, and no schedule, merged or not, runs
\* ahead of its curve, pays out more than its grant or leaves storage with money.
THEOREM MergedGrantsHold ==
  MergeSpec => [](GrantorIndexExact /\ ClaimedWithinVested /\ PayoutsWithinGrant
                     /\ NothingStranded)
<1>1. MInv => GrantorIndexExact /\ IInv /\ ClaimedWithinVested
  BY DEF MInv, IInv, ClaimedWithinVested, ScheduleInv
<1> QED BY <1>1, InvariantBoundsPayouts, InvariantStrandsNothing, MergeInvariant, PTL

\* When no id is listed twice, a merge neither loses nor makes up money.
THEOREM MergesConserve ==
  ASSUME NoneRepeated
  PROVE  MergeSpec => MergeConserves
<1>1. ASSUME MInv
      PROVE  \A ids \in MergeLists :
          MergeSchedules(ids) =>
              LET sources == Stored \ DOMAIN schedules'
                  m       == schedules'[count']
                  earlier == SumFunctionOnSet([i \in Stored |-> schedules[i].claimed_amount],
                                              sources)
              IN  earlier + (escrow[m.token] - escrow'[m.token]) + m.total_amount
                    = SumFunctionOnSet([i \in Stored |-> schedules[i].total_amount],
                                       sources)
  BY <1>1, MergeAddsUp DEF MInv
<1> QED BY <1>1, MergeInvariant, PTL DEF MergeSpec, MergeConserves

-----------------------------------------------------------------------------
(* Portfolio *)

\* No amount is so large that its product with a timestamp overflows.
OffersFit == \A o \in Offers : o.total_amount * MaxTime <= I128_MAX

AmountsFit ==
    \A id \in Stored : schedules[id].kind # "Graded" =>
        schedules[id].total_amount * MaxTime <= I128_MAX

\* An amount stays what it was when the schedule was created.
LEMMA AmountsFitKept ==
  ASSUME OffersFit, IInv, AmountsFit, [Next]_vars
  PROVE  AmountsFit'
<1>1. ASSUME NEW j \in Stored', schedules'[j].kind # "Graded"
      PROVE  schedules'[j].total_amount * MaxTime <= I128_MAX
  <2>1. CASE j \in Stored
    <3>1. /\ schedules'[j].kind = schedules[j].kind
          /\ schedules'[j].total_amount = schedules[j].total_amount
      BY <2>1, TermsKept
    <3> QED BY <1>1, <2>1, <3>1 DEF AmountsFit
  <2>2. CASE j \notin Stored
    <3>1. PICK o \in Offers : schedules'[j].total_amount = o.total_amount
      BY <1>1, <2>2, NewTerms
    <3> QED BY <3>1 DEF OffersFit
  <2> QED BY <2>1, <2>2
<1> QED BY <1>1 DEF AmountsFit

\* The browser counts the same seconds as the contract.
LEMMA SameElapsed ==
  ASSUME NEW s \in Schedule, NEW t \in 1..MaxTime, t >= s.start_time, s.paused_at <= t
  PROVE  EffectiveElapsed(TimelineRow(s), t) = Elapsed(s, t)
<1> DEFINE r == TimelineRow(s)
<1>1. /\ r.start_time = s.start_time /\ r.paused = s.paused /\ r.paused_at = s.paused_at
      /\ r.paused_duration = s.paused_duration
  BY DEF TimelineRow
<1>2. /\ s.start_time \in Nat /\ s.paused_duration \in Nat /\ s.paused_at \in Nat
      /\ t \in Nat
  BY BoundsAssumption DEF Schedule
<1> HIDE DEF r
<1>3. EffectiveElapsed(r, t) = Elapsed(s, t)
  <2>1. CASE s.paused /\ s.paused_at > 0
    BY <1>1, <1>2, <2>1 DEF EffectiveElapsed, Elapsed, SaturatingSub, Greatest
  <2>2. CASE ~(s.paused /\ s.paused_at > 0)
    BY <1>1, <1>2, <2>2 DEF EffectiveElapsed, Elapsed, SaturatingSub, Greatest
  <2> QED BY <2>1, <2>2
<1> QED BY <1>3 DEF r

\* Without an overflow the contract's division is the browser's.
LEMMA SameDivision ==
  ASSUME NEW a \in Nat, NEW e \in Nat, NEW d, e <= MaxTime, a * MaxTime <= I128_MAX
  PROVE  MulDivOr(a, e, d, a) = (a * e) \div d
<1>1. MaxTime \in Nat
  BY BoundsAssumption
<1>2. a * e \in Nat /\ a * MaxTime \in Nat /\ a * e <= a * MaxTime
  BY <1>1, TimesMonotone
<1>3. ~(a * e > I128_MAX)
  BY <1>2, I128Assumption
<1> QED BY <1>3, Zenon DEF MulDivOr

\* The browser draws the same curve.
LEMMA SameProjection ==
  ASSUME NEW s \in Schedule, s.kind # "Graded", s.total_amount * MaxTime <= I128_MAX,
         s.paused_at <= now, s.vested_at_revoke <= s.total_amount,
         NEW t \in 1..MaxTime, now \in Nat, now <= t
  PROVE  VestedForLeg(TimelineRow(s), t) = VestedAt(s, t)
<1> DEFINE r == TimelineRow(s)
<1>1. /\ r.start_time = s.start_time /\ r.revoked = s.revoked
      /\ r.vested_at_revoke = s.vested_at_revoke /\ r.total_amount = s.total_amount
      /\ r.kind = s.kind /\ r.duration = s.duration_seconds
      /\ r.cliff_duration = s.cliff_seconds
  BY DEF TimelineRow
<1>2. /\ s.start_time \in Nat /\ s.total_amount \in Nat /\ s.vested_at_revoke \in Nat
      /\ s.duration_seconds \in Nat /\ s.cliff_seconds \in Nat /\ s.paused_at \in Nat
      /\ t \in Nat /\ s.revoked \in BOOLEAN
  BY BoundsAssumption DEF Schedule
<1>3. CASE s.revoked
  BY <1>1, <1>2, <1>3 DEF VestedForLeg, VestedAt, Least
<1>4. CASE ~s.revoked /\ t < s.start_time
  BY <1>1, <1>2, <1>4 DEF VestedForLeg, VestedAt
<1>5. CASE ~s.revoked /\ ~(t < s.start_time)
  <2> DEFINE e == Elapsed(s, t)
             a == s.total_amount
             d == s.duration_seconds
             c == s.cliff_seconds
  <2>1. e \in Nat /\ e <= MaxTime /\ EffectiveElapsed(r, t) = e
    <3>1. t >= s.start_time /\ s.paused_at <= t
      BY <1>2, <1>5
    <3>2. e \in 0..MaxTime /\ MaxTime \in Nat
      BY <3>1, ElapsedBounds, BoundsAssumption
    <3>3. EffectiveElapsed(r, t) = e
      BY <3>1, SameElapsed
    <3> HIDE DEF e
    <3> QED BY <3>2, <3>3
  <2>2. VestedAt(s, t) = Curve(s, e)
    BY <1>5 DEF VestedAt
  <2>3. MulDivOr(a, e, d, a) = (a * e) \div d
    BY <1>2, <2>1, SameDivision
  <2>4. e >= c => MulDivOr(a, e - c, d - c, a) = (a * (e - c)) \div (d - c)
    <3>1. e >= c => e - c \in Nat /\ e - c <= MaxTime
      BY <1>2, <2>1, BoundsAssumption
    <3> HIDE DEF e, c
    <3> QED BY <1>2, <3>1, SameDivision
  <2> HIDE DEF e, a, d, c, r
  <2>5. VestedForLeg(r, t) = VestedAt(s, t)
    <3>1. CASE s.kind = "Cliff"
      BY <1>1, <1>5, <2>1, <2>2, <3>1 DEF VestedForLeg, Curve, CliffCurve, a, d, c
    <3>2. CASE s.kind = "Linear"
      BY <1>1, <1>5, <2>1, <2>2, <2>3, <3>2 DEF VestedForLeg, Curve, LinearCurve, a, d, c
    <3>3. CASE s.kind = "LinearWithCliff"
      <4>1. CASE e < c
        BY <1>1, <1>5, <2>1, <2>2, <3>3, <4>1
           DEF VestedForLeg, Curve, LinearWithCliffCurve, a, d, c
      <4>2. CASE e >= c /\ e >= d
        BY <1>1, <1>2, <1>5, <2>1, <2>2, <3>3, <4>2
           DEF VestedForLeg, Curve, LinearWithCliffCurve, a, d, c
      <4>3. CASE e >= c /\ ~(e >= d)
        BY <1>1, <1>2, <1>5, <2>1, <2>2, <2>4, <3>3, <4>3
           DEF VestedForLeg, Curve, LinearWithCliffCurve, a, d, c
      <4> QED BY <1>2, <2>1, <4>1, <4>2, <4>3 DEF c, d
    <3>4. s.kind \in {"Linear", "Cliff", "LinearWithCliff"}
      BY DEF Schedule, VestingKinds
    <3> QED BY <3>1, <3>2, <3>3, <3>4
  <2> QED BY <2>5 DEF r
<1> QED BY <1>3, <1>4, <1>5

\* The projection of a stored schedule at any cursor from now on.
LEMMA ProjectionAgrees == IInv /\ AmountsFit => TimelineAgrees
<1> SUFFICES ASSUME IInv, AmountsFit, NEW id \in Stored, NEW t \in now..MaxTime,
                    schedules[id].kind # "Graded"
             PROVE  TimelineClaimable(TimelineRow(schedules[id]), t)
                       = ClaimableAt(schedules[id], t)
  BY DEF TimelineAgrees
<1> DEFINE s == schedules[id]
           r == TimelineRow(s)
<1>1. /\ s \in Schedule /\ now \in Nat /\ now > 0
      /\ ScheduleInv(s, books[id], now, id \in extended)
  BY StoredFacts
<1>2. t \in 1..MaxTime /\ t \in Nat /\ now <= t
  BY <1>1, BoundsAssumption
<1>3. s.total_amount * MaxTime <= I128_MAX
  BY DEF AmountsFit
<1>4. /\ s.claimed_amount \in Nat /\ s.start_time \in Nat /\ s.lockup_duration \in Nat
      /\ s.total_amount \in Nat
  BY <1>1 DEF Schedule
<1>5. VestedForLeg(r, t) = VestedAt(s, t)
  BY <1>1, <1>2, <1>3, SameProjection DEF ScheduleInv
<1>6. VestedAt(s, t) \in Nat
  <2>1. VestedAt(s, t) \in 0..s.total_amount
    BY <1>1, <1>2, VestedBounds DEF ScheduleInv
  <2> QED BY <1>4, <2>1
<1>7. /\ r.start_time = s.start_time /\ r.lockup_duration = s.lockup_duration
      /\ r.claimed = s.claimed_amount
  BY DEF TimelineRow
<1> HIDE DEF r, s
<1>8. TimelineClaimable(r, t) = ClaimableAt(s, t)
  BY <1>2, <1>4, <1>5, <1>6, <1>7
     DEF TimelineClaimable, ClaimableAt, Greatest, SaturatingSub
<1> QED BY <1>8 DEF r, s

\* As long as no product overflows, what the browser projects of a schedule that is
\* not graded is what the contract would say, now and at every later cursor.
THEOREM ProjectionsAgree ==
  ASSUME OffersFit
  PROVE  Spec => []TimelineAgrees
<1>1. Init => AmountsFit
  BY DEF Init, AmountsFit, Stored
<1>2. IInv /\ AmountsFit /\ [Next]_vars => AmountsFit'
  BY AmountsFitKept
<1> QED BY <1>1, <1>2, ProjectionAgrees, Invariant, PTL DEF Spec

-----------------------------------------------------------------------------
(* Funding: what the calls on schedules leave alone *)

\* Funding is for good and a schedule keeps its fixed terms while it is stored.
KeepsGrants ==
    /\ count' \in Nat /\ count' >= count
    /\ \A id \in 1..count : books'[id].funded = books[id].funded
    /\ \A id \in 1..count : id \in Stored' =>
          id \in Stored /\ FixedTerms(schedules'[id]) = FixedTerms(schedules[id])

\* A call that replaces one record by one with the same terms keeps the grants.
LEMMA ReplacedRecord ==
  ASSUME IInv, NEW id \in Stored, NEW r,
         schedules' = [schedules EXCEPT ![id] = r], count' = count,
         FixedTerms(r) = FixedTerms(schedules[id]),
         \A i \in Ids : books'[i].funded = books[i].funded
  PROVE  KeepsGrants
<1>1. count \in Nat /\ 1..count \subseteq Ids
  BY BoundsAssumption DEF IInv, TypeOK, Ids
<1>2. Stored' = Stored
  BY DEF Stored
<1>3. \A i \in Stored : i # id => schedules'[i] = schedules[i]
  BY DEF Stored
<1>4. schedules'[id] = r
  BY DEF Stored
<1>5. QED
  BY <1>1, <1>2, <1>3, <1>4 DEF KeepsGrants

\* So does a call that leaves records, ids and books alone.
LEMMA SameRecords ==
  ASSUME IInv, schedules' = schedules, count' = count, books' = books
  PROVE  KeepsGrants
<1>1. count \in Nat
  BY BoundsAssumption DEF IInv, TypeOK
<1>2. QED
  BY <1>1 DEF KeepsGrants, Stored

\* Storing a schedule under the next id keeps the grants under the earlier ones.
LEMMA PersistKeeps ==
  ASSUME IInv, NEW s, PersistFundedSchedule(s)
  PROVE  KeepsGrants /\ count' = count + 1 /\ count' \in Ids
<1>1. /\ count \in Nat /\ count + 1 \in Ids /\ Stored \subseteq 1..count
      /\ count' = count + 1
  BY BoundsAssumption DEF PersistFundedSchedule, IInv, TypeOK, Ids
<1>2. /\ Stored' = Stored \cup {count + 1}
      /\ \A i \in Stored : schedules'[i] = schedules[i]
  BY <1>1 DEF PersistFundedSchedule, Stored
<1>3. \A i \in 1..count : books'[i] = books[i]
  BY <1>1 DEF PersistFundedSchedule, IInv, TypeOK
<1>4. \A i \in 1..count : i \in Stored' => i \in Stored
  BY <1>1, <1>2
<1>5. QED
  BY <1>1, <1>2, <1>3, <1>4 DEF KeepsGrants

\* Paying out never changes what was funded.
LEMMA PayOutKeepsFunding ==
  ASSUME IInv, NEW id \in Ids, NEW released, NEW refund, PayOut(id, released, refund)
  PROVE  \A i \in Ids : books'[i].funded = books[i].funded
<1>1. books \in [Ids -> Ledger]
  BY DEF IInv, TypeOK
<1>2. books' = [books EXCEPT ![id] = [books[id] EXCEPT
                   !.toBeneficiary = books[id].toBeneficiary + released,
                   !.toGrantor = books[id].toGrantor + refund]]
  BY <1>1 DEF PayOut, Ledger
<1>3. \A i \in Ids : i # id => books'[i] = books[i]
  BY <1>1, <1>2
<1>4. books'[id].funded = books[id].funded
  BY <1>1, <1>2 DEF Ledger
<1>5. QED
  BY <1>3, <1>4

\* Each call on a stored schedule keeps the grants.
LEMMA OperateKeeps ==
  ASSUME IInv, NEW id \in Ids, Operate(id)
  PROVE  KeepsGrants
<1> DEFINE s == schedules[id]
<1>1. ASSUME id \in Stored
      PROVE  /\ s \in Schedule /\ schedules \in [Stored -> Schedule]
  BY <1>1, StoredFacts DEF IInv, TypeOK
<1>2. CASE PauseSchedule(id)
  <2> DEFINE r == [s EXCEPT !.paused = TRUE, !.paused_at = now]
  <2>1. id \in Stored /\ schedules' = [schedules EXCEPT ![id] = r]
    BY <1>1, <1>2 DEF PauseSchedule
  <2>2. FixedTerms(r) = FixedTerms(s)
    BY <1>1, <2>1 DEF FixedTerms, Schedule
  <2> HIDE DEF r
  <2>3. count' = count /\ books' = books
    BY <1>2 DEF PauseSchedule
  <2>4. QED
    BY <2>1, <2>2, <2>3, ReplacedRecord
<1>3. CASE ResumeSchedule(id)
  <2> DEFINE r == [s EXCEPT !.paused_duration = PausedTotal(s), !.paused = FALSE, !.paused_at = 0]
  <2>1. id \in Stored /\ schedules' = [schedules EXCEPT ![id] = r]
    BY <1>1, <1>3 DEF ResumeSchedule
  <2>2. FixedTerms(r) = FixedTerms(s)
    BY <1>1, <2>1 DEF FixedTerms, Schedule
  <2> HIDE DEF r
  <2>3. count' = count /\ books' = books
    BY <1>3 DEF ResumeSchedule
  <2>4. QED
    BY <2>1, <2>2, <2>3, ReplacedRecord
<1>4. CASE \E l \in MilestoneLists : EnablePerformanceMilestones(id, l)
  <2> DEFINE r == [s EXCEPT !.requires_milestones = TRUE]
  <2>1. id \in Stored /\ schedules' = [schedules EXCEPT ![id] = r]
    BY <1>1, <1>4 DEF EnablePerformanceMilestones
  <2>2. FixedTerms(r) = FixedTerms(s)
    BY <1>1, <2>1 DEF FixedTerms, Schedule
  <2> HIDE DEF r
  <2>3. count' = count /\ books' = books
    BY <1>4 DEF EnablePerformanceMilestones
  <2>4. QED
    BY <2>1, <2>2, <2>3, ReplacedRecord
<1>5. CASE \E i \in DOMAIN milestones[id] : AttestMilestone(id, i)
  BY <1>5, SameRecords DEF AttestMilestone
<1>6. CASE Claim(id)
  <2> DEFINE r == [s EXCEPT !.claimed_amount = @ + Claimable(id)]
  <2>1. /\ id \in Stored /\ schedules' = [schedules EXCEPT ![id] = r]
        /\ PayOut(id, Claimable(id), 0) /\ count' = count
    BY <1>1, <1>6 DEF Claim
  <2>2. FixedTerms(r) = FixedTerms(s)
    BY <1>1, <2>1 DEF FixedTerms, Schedule
  <2> HIDE DEF r
  <2>3. \A i \in Ids : books'[i].funded = books[i].funded
    BY <2>1, PayOutKeepsFunding
  <2>4. QED
    BY <2>1, <2>2, <2>3, ReplacedRecord
<1>7. CASE Revoke(id)
  <2> DEFINE released == WithinMilestones(id, SaturatingSub(VestedAt(s, now), s.claimed_amount))
             r == [s EXCEPT !.revoked = TRUE, !.vested_at_revoke = VestedAt(s, now),
                            !.claimed_amount = @ + released]
  <2>1. /\ id \in Stored /\ schedules' = [schedules EXCEPT ![id] = r]
        /\ PayOut(id, released, UnvestedAt(s, now)) /\ count' = count
    BY <1>1, <1>7 DEF Revoke
  <2>2. FixedTerms(r) = FixedTerms(s)
    BY <1>1, <2>1 DEF FixedTerms, Schedule
  <2> HIDE DEF r, released
  <2>3. \A i \in Ids : books'[i].funded = books[i].funded
    BY <2>1, PayOutKeepsFunding
  <2>4. QED
    BY <2>1, <2>2, <2>3, ReplacedRecord
<1>8. CASE \E a \in Accounts : TransferBeneficiary(id, a) \/ TransferGrantor(id, a)
  <2>1. PICK a \in Accounts : TransferBeneficiary(id, a) \/ TransferGrantor(id, a)
    BY <1>8
  <2> DEFINE q == [s EXCEPT !.beneficiary = a]
             r == [s EXCEPT !.grantor = a]
  <2>2. /\ id \in Stored /\ count' = count /\ books' = books
        /\ \/ schedules' = [schedules EXCEPT ![id] = q]
           \/ schedules' = [schedules EXCEPT ![id] = r]
    BY <1>1, <2>1 DEF TransferBeneficiary, TransferGrantor
  <2>3. FixedTerms(q) = FixedTerms(s) /\ FixedTerms(r) = FixedTerms(s)
    BY <1>1, <2>2 DEF FixedTerms, Schedule
  <2> HIDE DEF q, r
  <2>4. QED
    BY <2>2, <2>3, ReplacedRecord
<1>9. CASE \E x \in ExtendBy : ExtendDuration(id, x)
  <2>1. PICK x \in ExtendBy : ExtendDuration(id, x)
    BY <1>9
  <2> DEFINE r == [s EXCEPT !.duration_seconds = @ + x]
  <2>2. /\ id \in Stored /\ schedules' = [schedules EXCEPT ![id] = r]
        /\ count' = count /\ books' = books
    BY <1>1, <2>1 DEF ExtendDuration
  <2>3. FixedTerms(r) = FixedTerms(s)
    BY <1>1, <2>2 DEF FixedTerms, Schedule
  <2> HIDE DEF r
  <2>4. QED
    BY <2>2, <2>3, ReplacedRecord
<1>10. CASE DestroySchedule(id)
  <2>1. /\ schedules' = [i \in Stored \ {id} |-> schedules[i]]
        /\ count' = count /\ books' = books /\ count \in Nat
    BY <1>10, BoundsAssumption DEF DestroySchedule, IInv, TypeOK
  <2>2. /\ Stored' = Stored \ {id}
        /\ \A i \in Stored' : schedules'[i] = schedules[i]
    BY <2>1 DEF Stored
  <2>3. QED
    BY <2>1, <2>2 DEF KeepsGrants
<1>11. QED
  BY <1>2, <1>3, <1>4, <1>5, <1>6, <1>7, <1>8, <1>9, <1>10 DEF Operate

\* Every step of Vesting keeps the grants.
LEMMA NextKeeps ==
  ASSUME IInv, Next
  PROVE  KeepsGrants
<1>1. CASE Tick
  BY <1>1, SameRecords DEF Tick
<1>2. CASE Create
  <2>1. PICK g \in Accounts, b \in Accounts, t \in Tokens :
            \/ \E o \in Offers : CreateSchedule(g, b, t, o)
            \/ \E o \in GradedOffers : CreateGradedSchedule(g, b, t, o)
    BY <1>2 DEF Create
  <2>2. ASSUME NEW o \in Offers, CreateSchedule(g, b, t, o)
        PROVE  KeepsGrants
    <3> DEFINE s == PlainSchedule(g, b, t, o)
    <3>1. PersistFundedSchedule(s)
      BY <2>2 DEF CreateSchedule, FundSchedule
    <3> HIDE DEF s
    <3>2. QED
      BY <3>1, PersistKeeps
  <2>3. ASSUME NEW o \in GradedOffers, CreateGradedSchedule(g, b, t, o)
        PROVE  KeepsGrants
    <3> DEFINE s == NewSchedule(g, b, t, o.total_amount, o.start_time,
                        Max({o.milestones[i].offset_secs : i \in DOMAIN o.milestones}),
                        0, o.lockup, "Graded", o.revocable, o.milestones)
    <3>1. PersistFundedSchedule(s)
      BY <2>3 DEF CreateGradedSchedule, FundSchedule
    <3> HIDE DEF s
    <3>2. QED
      BY <3>1, PersistKeeps
  <2>4. QED
    BY <2>1, <2>2, <2>3
<1>3. CASE InitializePerformanceOracle
  BY <1>3, SameRecords DEF InitializePerformanceOracle
<1>4. CASE \E id \in Ids : Operate(id)
  BY <1>4, OperateKeeps
<1>5. QED
  BY <1>1, <1>2, <1>3, <1>4 DEF Next

-----------------------------------------------------------------------------
(* Funding: the strengthened invariant *)

\* Proposals have been checked, carry ids handed out, and those activated stand
\* for what they promised.
PInv ==
    /\ ProposalTypeOK
    /\ \A i \in DOMAIN proposals :
          proposals[i].terms.total_amount > 0 /\ proposals[i].schedule \in 0..count
    /\ ActivatedAsProposed

FInv == IInv /\ PInv /\ BatchTypeOK

\* Replacing an element of a sequence leaves the others alone.
LEMMA ElementReplaced ==
  ASSUME NEW S, NEW q \in Seq(S), NEW i \in DOMAIN q, NEW r \in S
  PROVE  LET p == [q EXCEPT ![i] = r]
         IN  /\ p \in Seq(S) /\ DOMAIN p = DOMAIN q /\ p[i] = r
             /\ \A j \in DOMAIN q : j # i => p[j] = q[j]
<1>1. DOMAIN q = 1..Len(q)
  BY SeqFacts
<1>2. [q EXCEPT ![i] = r] \in Seq(S)
  BY <1>1, ExceptSeq
<1>3. QED
  BY <1>2

\* A call that leaves proposals alone and keeps the grants keeps their promises.
LEMMA PromisesKept ==
  ASSUME IInv, PInv, KeepsGrants, proposals' = proposals
  PROVE  PInv'
<1>1. ProposalTypeOK'
  BY DEF PInv, ProposalTypeOK
<1>2. \A i \in DOMAIN proposals :
          proposals[i].terms.total_amount > 0 /\ proposals[i].schedule \in 0..count'
  <2>1. count \in Nat /\ count' \in Nat /\ count <= count'
    BY BoundsAssumption DEF KeepsGrants, IInv, TypeOK
  <2>2. 0..count \subseteq 0..count' /\ 1..count \subseteq 1..count'
    BY <2>1
  <2>3. QED
    BY <2>2 DEF PInv
<1>3. ActivatedAsProposed'
  <2>1. count \in Nat /\ count' \in Nat /\ count <= count'
    BY BoundsAssumption DEF KeepsGrants, IInv, TypeOK
  <2>2. 1..count \subseteq 1..count'
    BY <2>1
  <2>3. QED
    BY <2>2 DEF PInv, ActivatedAsProposed, KeepsGrants, PlainSchedule, NewSchedule
<1>4. QED
  BY <1>1, <1>2, <1>3 DEF PInv

-----------------------------------------------------------------------------
(* Funding: proposals *)

\* Proposing moves no token and settles nothing.
LEMMA ProposeStep ==
  ASSUME IInv, PInv, NEW g \in Accounts, NEW b \in Accounts, NEW t \in Tokens,
         NEW o \in Offers, ProposeSchedule(g, b, t, o)
  PROVE  PInv'
<1> DEFINE p == [grantor |-> g, beneficiary |-> b, token |-> t, terms |-> o,
                 state |-> "Pending", schedule |-> 0, created_at_ledger |-> now]
<1>1. /\ count \in Nat /\ count' = count /\ books' = books /\ schedules' = schedules
      /\ proposals \in Seq(ScheduleProposal) /\ now \in Nat /\ o.total_amount > 0
  BY BoundsAssumption
     DEF ProposeSchedule, ValidTerms, vars, PInv, ProposalTypeOK, IInv, TypeOK
<1>2. p \in ScheduleProposal
  BY <1>1, BoundsAssumption DEF ScheduleProposal, ProposalState
<1>3. p.terms.total_amount > 0 /\ p.schedule = 0 /\ p.state = "Pending"
  BY <1>1
<1>4. proposals' = Append(proposals, p)
  BY DEF ProposeSchedule
<1> HIDE DEF p
<1>5. /\ proposals' \in Seq(ScheduleProposal)
      /\ DOMAIN proposals' = DOMAIN proposals \cup {Len(proposals) + 1}
      /\ \A i \in DOMAIN proposals : proposals'[i] = proposals[i]
      /\ proposals'[Len(proposals) + 1] = p
  <2>1. /\ proposals' \in Seq(ScheduleProposal)
        /\ Len(proposals') = Len(proposals) + 1
        /\ \A i \in 1..Len(proposals) : proposals'[i] = proposals[i]
        /\ proposals'[Len(proposals) + 1] = p
    BY <1>1, <1>2, <1>4, AppendProperties
  <2>2. /\ DOMAIN proposals' = 1..(Len(proposals) + 1) /\ Len(proposals) \in Nat
        /\ DOMAIN proposals = 1..Len(proposals)
    BY <1>1, <2>1, SeqFacts
  <2>3. QED
    BY <2>1, <2>2
<1>6. \A i \in DOMAIN proposals' :
          proposals'[i].terms.total_amount > 0 /\ proposals'[i].schedule \in 0..count'
  BY <1>1, <1>3, <1>5 DEF PInv
<1>7. Stored' = Stored
  BY <1>1 DEF Stored
<1>8. ActivatedAsProposed'
  BY <1>1, <1>3, <1>5, <1>7 DEF PInv, ActivatedAsProposed, PlainSchedule, NewSchedule
<1>9. QED
  BY <1>5, <1>6, <1>8 DEF PInv, ProposalTypeOK

\* Neither does acknowledging or expiring: only an unsettled proposal changes.
LEMMA MarkStep ==
  ASSUME IInv, PInv, NEW i \in DOMAIN proposals,
         AcknowledgeProposal(i) \/ ExpireProposal(i)
  PROVE  PInv'
<1>1. /\ count \in Nat /\ count' = count /\ books' = books /\ schedules' = schedules
      /\ proposals \in Seq(ScheduleProposal) /\ proposals[i] \in ScheduleProposal
  BY BoundsAssumption, SeqFacts
     DEF AcknowledgeProposal, ExpireProposal, vars, PInv, ProposalTypeOK, IInv, TypeOK
<1>2. PICK st \in {"Acknowledged", "Expired"} :
          proposals' = [proposals EXCEPT ![i] = [proposals[i] EXCEPT !.state = st]]
  BY <1>1 DEF AcknowledgeProposal, ExpireProposal
<1> DEFINE r == [proposals[i] EXCEPT !.state = st]
<1>3. /\ r \in ScheduleProposal /\ r.state # "Activated"
      /\ r.terms = proposals[i].terms /\ r.schedule = proposals[i].schedule
  BY <1>1 DEF ScheduleProposal, ProposalState
<1>4. proposals' = [proposals EXCEPT ![i] = r]
  BY <1>2
<1> HIDE DEF r
<1>5. /\ proposals' \in Seq(ScheduleProposal) /\ DOMAIN proposals' = DOMAIN proposals
      /\ proposals'[i] = r
      /\ \A j \in DOMAIN proposals : j # i => proposals'[j] = proposals[j]
  BY <1>1, <1>3, <1>4, ElementReplaced
<1>6. \A j \in DOMAIN proposals' : /\ proposals'[j].terms = proposals[j].terms
                                   /\ proposals'[j].schedule = proposals[j].schedule
  BY <1>3, <1>5
<1>7. \A j \in DOMAIN proposals' :
          proposals'[j].terms.total_amount > 0 /\ proposals'[j].schedule \in 0..count'
  BY <1>1, <1>5, <1>6 DEF PInv
<1>8. Stored' = Stored
  BY <1>1 DEF Stored
<1>9. ASSUME NEW k \in DOMAIN proposals', proposals'[k].state = "Activated"
      PROVE  /\ proposals'[k] = proposals[k]
             /\ \A j \in (DOMAIN proposals') \ {k} :
                    proposals'[j].schedule # proposals'[k].schedule
  BY <1>3, <1>5, <1>6, <1>9 DEF PInv, ActivatedAsProposed
<1>10. ActivatedAsProposed'
  BY <1>1, <1>5, <1>8, <1>9 DEF PInv, ActivatedAsProposed, PlainSchedule, NewSchedule
<1>11. QED
  BY <1>5, <1>7, <1>10 DEF PInv, ProposalTypeOK

\* Activating stores the promised schedule under an id of its own.
LEMMA ActivateStep ==
  ASSUME IInv, PInv, NEW i \in DOMAIN proposals, FundAndActivate(i)
  PROVE  IInv' /\ PInv'
<1> DEFINE p == proposals[i]
           s == PlainSchedule(p.grantor, p.beneficiary, p.token, p.terms)
           r == [p EXCEPT !.state = "Activated", !.schedule = count + 1]
<1>1. /\ proposals \in Seq(ScheduleProposal) /\ p \in ScheduleProposal
      /\ p.terms.total_amount > 0
  BY SeqFacts DEF PInv, ProposalTypeOK
<1>2. /\ p.grantor \in Accounts /\ p.beneficiary \in Accounts /\ p.token \in Tokens
      /\ p.terms \in OfferType
  BY <1>1, BoundsAssumption DEF ScheduleProposal
<1>3. FundSchedule(s) /\ PersistFundedSchedule(s)
  BY DEF FundAndActivate, Proposed, FundSchedule
<1>4. proposals' = [proposals EXCEPT ![i] = r]
  BY DEF FundAndActivate
<1>5. /\ s \in Schedule /\ PlanAccepted(s)
      /\ s.claimed_amount = 0 /\ s.vested_at_revoke = 0 /\ ~s.revoked
      /\ ~s.paused /\ s.paused_at = 0
  BY <1>1, <1>2, PlainScheduleFresh
<1>6. s.total_amount = p.terms.total_amount
  BY DEF PlainSchedule, NewSchedule
<1>7. IInv'
  <2> HIDE DEF s
  <2>1. QED
    BY <1>3, <1>5, FundStep
<1>8. KeepsGrants /\ count' = count + 1 /\ count' \in Ids /\ count \in Nat
  <2> HIDE DEF s
  <2>1. QED
    BY <1>3, PersistKeeps, BoundsAssumption DEF IInv, TypeOK
<1>9. schedules'[count'] = s /\ count' \in Stored'
  BY <1>3, <1>8 DEF PersistFundedSchedule, Stored
<1>10. books'[count'].funded = p.terms.total_amount
  <2>1. ScheduleInv(schedules'[count'], books'[count'], now', count' \in extended')
    BY <1>7, <1>9 DEF IInv
  <2> HIDE DEF s
  <2>2. QED
    BY <1>6, <1>9, <2>1 DEF ScheduleInv
<1>11. /\ r \in ScheduleProposal /\ r.terms = p.terms /\ r.schedule = count'
       /\ r.grantor = p.grantor /\ r.beneficiary = p.beneficiary /\ r.token = p.token
  <2>1. count + 1 \in 0..MaxSchedules /\ count' = count + 1
    BY <1>8, BoundsAssumption DEF Ids
  <2> HIDE DEF p
  <2>2. r \in ScheduleProposal
    BY <1>1, <2>1 DEF ScheduleProposal, ProposalState
  <2>3. /\ r.terms = p.terms /\ r.schedule = count + 1
        /\ r.grantor = p.grantor /\ r.beneficiary = p.beneficiary /\ r.token = p.token
    BY <1>1 DEF ScheduleProposal
  <2>4. QED
    BY <2>1, <2>2, <2>3
<1> HIDE DEF s, r
<1>12. /\ proposals' \in Seq(ScheduleProposal) /\ DOMAIN proposals' = DOMAIN proposals
       /\ proposals'[i] = r
       /\ \A j \in DOMAIN proposals : j # i => proposals'[j] = proposals[j]
  BY <1>1, <1>4, <1>11, ElementReplaced
<1>13. \A j \in DOMAIN proposals' :
          proposals'[j].terms.total_amount > 0 /\ proposals'[j].schedule \in 0..count'
  <2>1. 0..count \subseteq 0..count' /\ count' \in 0..count'
    BY <1>8
  <2>2. QED
    BY <1>1, <1>11, <1>12, <2>1 DEF PInv
<1>14. \A j \in DOMAIN proposals : j # i => proposals[j].schedule # count'
  BY <1>8 DEF PInv
<1>15. ActivatedAsProposed'
  <2> DEFINE Promised(k) ==
        LET q == proposals'[k]
        IN  /\ q.schedule \in 1..count'
            /\ books'[q.schedule].funded = q.terms.total_amount
            /\ q.schedule \in Stored' =>
                  FixedTerms(schedules'[q.schedule])
                      = FixedTerms(PlainSchedule(q.grantor, q.beneficiary, q.token, q.terms))
            /\ \A j \in (DOMAIN proposals') \ {k} : proposals'[j].schedule # q.schedule
  <2>1. Promised(i)
    <3>1. count' \in 1..count'
      BY <1>8
    <3>2. schedules'[count'] = PlainSchedule(r.grantor, r.beneficiary, r.token, r.terms)
      BY <1>9, <1>11 DEF s
    <3>3. QED
      BY <1>10, <1>11, <1>12, <1>14, <3>1, <3>2
  <2>2. ASSUME NEW k \in DOMAIN proposals', k # i, proposals'[k].state = "Activated"
        PROVE  Promised(k)
    <3>1. proposals'[k] = proposals[k] /\ k \in DOMAIN proposals
      BY <1>12, <2>2
    <3> DEFINE q == proposals[k]
    <3>2. /\ q.schedule \in 1..count
          /\ books[q.schedule].funded = q.terms.total_amount
          /\ q.schedule \in Stored =>
                FixedTerms(schedules[q.schedule])
                    = FixedTerms(PlainSchedule(q.grantor, q.beneficiary, q.token, q.terms))
          /\ \A j \in (DOMAIN proposals) \ {k} : proposals[j].schedule # q.schedule
      BY <2>2, <3>1 DEF PInv, ActivatedAsProposed
    <3>3. q.schedule \in 1..count' /\ q.schedule # count'
      BY <1>8, <3>2
    <3>4. /\ books'[q.schedule].funded = books[q.schedule].funded
          /\ q.schedule \in Stored' =>
                q.schedule \in Stored
                /\ FixedTerms(schedules'[q.schedule]) = FixedTerms(schedules[q.schedule])
      BY <1>8, <3>2 DEF KeepsGrants
    <3>5. \A j \in (DOMAIN proposals') \ {k} : proposals'[j].schedule # q.schedule
      BY <1>11, <1>12, <3>2, <3>3
    <3> HIDE DEF q
    <3>6. QED
      BY <3>1, <3>2, <3>3, <3>4, <3>5 DEF q
  <2> HIDE DEF Promised
  <2>3. \A k \in DOMAIN proposals' : proposals'[k].state = "Activated" => Promised(k)
    BY <2>1, <2>2
  <2>4. QED
    BY <2>3 DEF ActivatedAsProposed, Promised
<1>16. QED
  BY <1>7, <1>12, <1>13, <1>15 DEF PInv, ProposalTypeOK

-----------------------------------------------------------------------------
(* Funding: batches *)

\* Schedules do not depend on how much the contract holds.
LEMMA BalanceOnly ==
  ASSUME IInv, escrow' \in [Tokens -> Nat],
         UNCHANGED <<now, count, schedules, indices, oracleSet, milestones,
                     books, extended>>
  PROVE  IInv' /\ KeepsGrants
<1>1. TypeOK'
  BY DEF indices, IInv, TypeOK, Stored
<1>2. IInv'
  BY <1>1 DEF indices, IInv, GrantorIndexExact, Stored
<1>3. QED
  BY <1>2, SameRecords

\* Committing a batch takes its deposit in and keeps every schedule.
LEMMA CommitStep ==
  ASSUME IInv, BatchTypeOK, NEW g \in Accounts, NEW t \in Tokens,
         CommitScheduleBatch(g, t)
  PROVE  IInv' /\ KeepsGrants /\ BatchTypeOK'
<1> DEFINE b == batchCount + 1
           o == BatchOffers[b]
<1>1. /\ b \in DOMAIN BatchOffers /\ o \in BatchOffer /\ o.total_amount > 0
      /\ DOMAIN BatchOffers = 1..Len(BatchOffers) /\ Len(BatchOffers) \in Nat
  BY BatchAssumption, SeqFacts DEF CommitScheduleBatch
<1>2. escrow \in [Tokens -> Nat] /\ o.total_amount \in Nat /\ escrow[t] + o.total_amount \in Nat
  BY <1>1 DEF IInv, TypeOK, BatchOffer
<1> HIDE DEF o
<1>3. escrow' \in [Tokens -> Nat]
  BY <1>2 DEF CommitScheduleBatch, o
<1>4. IInv' /\ KeepsGrants
  BY <1>3, BalanceOnly DEF CommitScheduleBatch
<1>5. [root |-> o.root, token |-> t, grantor |-> g, remaining |-> o.total_amount,
       expiry |-> o.expiry_ledger] \in BatchRecord
  BY <1>1 DEF BatchOffer, BatchRecord
<1>6. /\ DOMAIN batches' = DOMAIN batches \cup {b}
      /\ batches' \in [DOMAIN batches' -> BatchRecord]
  <2>1. DOMAIN batches' = DOMAIN batches \cup {b}
    BY DEF CommitScheduleBatch
  <2>2. \A i \in DOMAIN batches : batches[i] \in BatchRecord
    BY DEF BatchTypeOK
  <2>3. QED
    BY <1>5, <2>1, <2>2 DEF CommitScheduleBatch, o
<1>7. batchCount' \in 0..Len(BatchOffers) /\ DOMAIN batches' \subseteq 1..batchCount'
  BY <1>1, <1>6 DEF CommitScheduleBatch, BatchTypeOK
<1>8. BatchTypeOK'
  BY <1>6, <1>7 DEF BatchTypeOK, CommitScheduleBatch
<1>9. QED
  BY <1>4, <1>8

\* A slot's schedule is one like any other, except that it moves no token.
LEMMA ClaimSlotStep ==
  ASSUME IInv, BatchTypeOK, NEW b \in DOMAIN batches, NEW slot \in batches[b].root,
         ClaimScheduleSlot(b, slot)
  PROVE  IInv' /\ KeepsGrants /\ BatchTypeOK'
<1> DEFINE s == PlainSchedule(batches[b].grantor, slot.beneficiary, batches[b].token,
                              SlotTerms(slot))
<1>1. batches[b] \in BatchRecord /\ slot \in Slot
  BY DEF BatchTypeOK, BatchRecord
<1>2. /\ batches[b].grantor \in Accounts /\ batches[b].token \in Tokens
      /\ slot.beneficiary \in Accounts
  BY <1>1 DEF BatchRecord, Slot
<1>3. SlotTerms(slot) \in OfferType /\ SlotTerms(slot).total_amount > 0
  BY <1>1 DEF ClaimScheduleSlot, SlotTerms, Slot, OfferType
<1>4. /\ s \in Schedule /\ PlanAccepted(s)
      /\ s.claimed_amount = 0 /\ s.vested_at_revoke = 0 /\ ~s.revoked
      /\ ~s.paused /\ s.paused_at = 0
  BY <1>2, <1>3, PlainScheduleFresh
<1>5. PersistFundedSchedule(s)
  BY DEF ClaimScheduleSlot
<1> HIDE DEF s
<1>6. escrow' \in [Tokens -> Nat]
  BY DEF ClaimScheduleSlot, IInv, TypeOK
<1>7. IInv' /\ KeepsGrants
  BY <1>4, <1>5, <1>6, PersistStep, PersistKeeps
<1>8. BatchTypeOK'
  <2> DEFINE left == Debited(b, slot)
             record == [batches[b] EXCEPT !.remaining = left]
  <2>1. left \in Int
    BY <1>1 DEF Debited, BatchRecord, Slot
  <2> HIDE DEF left
  <2>2. record \in BatchRecord
    BY <1>1, <2>1 DEF BatchRecord
  <2>3. batches' = [batches EXCEPT ![b] = record]
    BY DEF ClaimScheduleSlot, left
  <2> HIDE DEF record
  <2>4. DOMAIN batches' = DOMAIN batches /\ batches' \in [DOMAIN batches -> BatchRecord]
    BY <2>2, <2>3 DEF BatchTypeOK
  <2>5. batchCount' = batchCount /\ slotClaimed' \subseteq Slot
    BY <1>1 DEF ClaimScheduleSlot, BatchTypeOK
  <2>6. QED
    BY <2>4, <2>5 DEF BatchTypeOK
<1>9. QED
  BY <1>7, <1>8

\* Reclaiming a batch pays back what is left of it and keeps every schedule.
LEMMA ReclaimStep ==
  ASSUME IInv, BatchTypeOK, NEW b \in DOMAIN batches, ReclaimBatch(b)
  PROVE  IInv' /\ KeepsGrants /\ BatchTypeOK'
<1> DEFINE t == batches[b].token
           refund == Greatest(batches[b].remaining, 0)
<1>1. /\ t \in Tokens /\ refund \in Nat /\ escrow[t] >= refund
      /\ escrow \in [Tokens -> Nat]
      /\ escrow' = [escrow EXCEPT ![t] = escrow[t] - refund]
  BY DEF ReclaimBatch, BatchTypeOK, BatchRecord, Greatest, IInv, TypeOK
<1>2. escrow[t] - refund \in Nat
  BY <1>1
<1> HIDE DEF t, refund
<1>3. escrow' \in [Tokens -> Nat]
  BY <1>1, <1>2
<1>4. IInv' /\ KeepsGrants
  BY <1>3, BalanceOnly DEF ReclaimBatch
<1>5. BatchTypeOK'
  BY DEF ReclaimBatch, BatchTypeOK
<1>6. QED
  BY <1>4, <1>5

-----------------------------------------------------------------------------
(* Funding: what the schedules are owed *)

\* What each id is owed in token t, as a summand over all ids.
OwedIn(t) ==
    [id \in Ids |-> IF id \in Stored /\ schedules[id].token = t
                    THEN Owed(schedules[id]) ELSE 0]

OwedSum(t) == SumFunctionOnSet(OwedIn(t), Ids)

\* What a record is owed is an integer.
LEMMA OwedType ==
  ASSUME NEW s \in Schedule
  PROVE  Owed(s) \in Int
BY DEF Schedule, Owed

\* There are finitely many ids.
LEMMA IdsFinite == IsFiniteSet(Ids)
BY BoundsAssumption, FS_Interval DEF Ids

\* So is what each id is owed in a token, and what they are owed together.
LEMMA OwedInType ==
  ASSUME TypeOK, NEW t
  PROVE  /\ \A id \in Ids : OwedIn(t)[id] \in Int
         /\ OwedSum(t) \in Int
<1>1. \A id \in Stored : Owed(schedules[id]) \in Int
  BY OwedType DEF TypeOK
<1>2. \A id \in Ids : OwedIn(t)[id] \in Int
  BY <1>1 DEF OwedIn
<1> QED
  BY <1>2, IdsFinite, SumInt DEF OwedSum

\* The total moves by as much as the one id whose debt changes.
LEMMA OwedChange ==
  ASSUME TypeOK, TypeOK', NEW t, NEW id \in Ids, NEW d \in Int,
         OwedIn(t)'[id] = OwedIn(t)[id] + d,
         \A i \in Ids \ {id} : OwedIn(t)'[i] = OwedIn(t)[i]
  PROVE  OwedSum(t)' = OwedSum(t) + d
<1> DEFINE f == OwedIn(t)
           g == OwedIn(t)'
<1>1. \A i \in Ids : f[i] \in Int
  BY OwedInType
<1>2. /\ \A i \in Ids : f[i] \in Int
      /\ g[id] = f[id] + d /\ \A i \in Ids \ {id} : g[i] = f[i]
      /\ g[id] \in Int /\ f[id] \in Int
  BY <1>1
<1>3. OwedSum(t) = SumFunctionOnSet(f, Ids) /\ OwedSum(t)' = SumFunctionOnSet(g, Ids)
  BY DEF OwedSum
<1>4. OwedSum(t) \in Int
  BY OwedInType
<1> HIDE DEF f, g
<1>5. SumFunctionOnSet(g, Ids) = SumFunctionOnSet(f, Ids) - f[id] + g[id]
  BY <1>2, IdsFinite, SumUpdate
<1> QED
  BY <1>2, <1>3, <1>4, <1>5

\* Nothing changes when no record does.
LEMMA OwedSame ==
  ASSUME NEW t, schedules' = schedules
  PROVE  OwedSum(t)' = OwedSum(t)
<1>1. OwedIn(t)' = OwedIn(t)
  BY DEF OwedIn, Stored
<1> QED
  BY <1>1 DEF OwedSum

\* A call that writes one record changes the debt in its token by as much.
LEMMA OwedReplaced ==
  ASSUME TypeOK, TypeOK', NEW t, NEW id \in Stored, NEW r, NEW d \in Int,
         schedules' = [schedules EXCEPT ![id] = r],
         r.token = schedules[id].token,
         Owed(r) = Owed(schedules[id]) + d
  PROVE  OwedSum(t)' = OwedSum(t) + (IF schedules[id].token = t THEN d ELSE 0)
<1> DEFINE e == IF schedules[id].token = t THEN d ELSE 0
<1>1. Stored' = Stored /\ id \in Ids /\ e \in Int /\ schedules'[id] = r
  BY BoundsAssumption DEF TypeOK, Stored, Ids
<1>2. Owed(schedules[id]) \in Int
  BY OwedType DEF TypeOK
<1>3. OwedIn(t)'[id] = OwedIn(t)[id] + e
  BY <1>1, <1>2 DEF OwedIn
<1>4. \A i \in Ids \ {id} : OwedIn(t)'[i] = OwedIn(t)[i]
  BY <1>1 DEF OwedIn
<1> HIDE DEF e
<1>5. OwedSum(t)' = OwedSum(t) + e
  BY <1>1, <1>3, <1>4, OwedChange
<1> QED
  BY <1>5 DEF e

\* A new record is owed everything.
LEMMA OwedPersisted ==
  ASSUME TypeOK, TypeOK', NEW t, NEW s, PersistFundedSchedule(s),
         s.claimed_amount = 0, ~s.revoked, s.total_amount \in Int
  PROVE  OwedSum(t)' = OwedSum(t) + (IF s.token = t THEN s.total_amount ELSE 0)
<1> DEFINE e == IF s.token = t THEN s.total_amount ELSE 0
           id == count + 1
<1>1. /\ id \in Ids /\ id \notin Stored /\ e \in Int
      /\ Stored' = Stored \cup {id} /\ schedules'[id] = s
      /\ \A i \in Stored : schedules'[i] = schedules[i]
  BY BoundsAssumption DEF TypeOK, Stored, Ids, PersistFundedSchedule
<1>2. Owed(s) = s.total_amount
  BY DEF Owed
<1>3. OwedIn(t)'[id] = e /\ OwedIn(t)[id] = 0
  BY <1>1, <1>2 DEF OwedIn
<1>4. \A i \in Ids \ {id} : OwedIn(t)'[i] = OwedIn(t)[i]
  BY <1>1 DEF OwedIn
<1> HIDE DEF e, id
<1>5. OwedSum(t)' = OwedSum(t) + e
  BY <1>1, <1>3, <1>4, OwedChange
<1> QED
  BY <1>5 DEF e

\* What the balance holds beyond what the schedules are owed.
Surplus(t) == escrow[t] - OwedSum(t)

\* A call that leaves the balance and what every record is owed alone.
LEMMA SameSurplus ==
  ASSUME TypeOK, TypeOK', NEW t, escrow' = escrow,
         NEW id \in Stored, NEW r, schedules' = [schedules EXCEPT ![id] = r],
         r.token = schedules[id].token, Owed(r) = Owed(schedules[id])
  PROVE  Surplus(t)' = Surplus(t)
<1>1. Owed(schedules[id]) \in Int /\ OwedSum(t) \in Int
  BY OwedType, OwedInType DEF TypeOK
<1>2. OwedSum(t)' = OwedSum(t) + (IF schedules[id].token = t THEN 0 ELSE 0)
  <2>1. Owed(r) = Owed(schedules[id]) + 0 /\ 0 \in Int
    BY <1>1
  <2> QED
    BY <2>1, OwedReplaced
<1> QED
  BY <1>1, <1>2 DEF Surplus

\* A payout takes from the balance what the record is no longer owed.
LEMMA PayOutSurplus ==
  ASSUME TypeOK, TypeOK', NEW t \in Tokens, NEW id \in Stored,
         NEW m \in Nat, NEW n \in Nat, PayOut(id, m, n),
         NEW r, schedules' = [schedules EXCEPT ![id] = r],
         r.token = schedules[id].token, Owed(r) = Owed(schedules[id]) + (-(m + n))
  PROVE  Surplus(t)' = Surplus(t)
<1>1. /\ OwedSum(t) \in Int /\ escrow \in [Tokens -> Nat] /\ -(m + n) \in Int
  BY OwedInType DEF TypeOK
<1>2. OwedSum(t)' = OwedSum(t) + (IF schedules[id].token = t THEN -(m + n) ELSE 0)
  BY <1>1, OwedReplaced
<1>3. escrow'[t] = escrow[t] - (IF schedules[id].token = t THEN m + n ELSE 0)
  BY <1>1 DEF PayOut
<1>4. escrow[t] \in Int
  BY <1>1
<1>5. CASE schedules[id].token = t
  BY <1>1, <1>2, <1>3, <1>4, <1>5 DEF Surplus
<1>6. CASE schedules[id].token # t
  BY <1>1, <1>2, <1>3, <1>4, <1>6 DEF Surplus
<1> QED
  BY <1>5, <1>6

\* No call on a schedule but an extension changes the surplus: a claim and a
\* revocation pay out what they take off the debt, and a schedule that is
\* destroyed is owed nothing.
LEMMA OperateKeepsSurplus ==
  ASSUME IInv, IInv', NEW id \in Ids, Operate(id), extended' = {}, NEW t \in Tokens
  PROVE  Surplus(t)' = Surplus(t)
<1> DEFINE s == schedules[id]
<1>0. TypeOK /\ TypeOK' /\ schedules \in [Stored -> Schedule]
  BY DEF IInv, TypeOK
<1>1. ASSUME id \in Stored
      PROVE  /\ s \in Schedule
             /\ ScheduleInv(s, books[id], now, id \in extended)
             /\ VestedAt(s, now) \in 0..s.total_amount
             /\ now \in Nat
  BY <1>1, StoredFacts
<1>2. ASSUME NEW r, id \in Stored, escrow' = escrow,
             schedules' = [schedules EXCEPT ![id] = r],
             r.token = s.token, r.revoked = s.revoked,
             r.vested_at_revoke = s.vested_at_revoke, r.total_amount = s.total_amount,
             r.claimed_amount = s.claimed_amount
      PROVE  Surplus(t)' = Surplus(t)
  <2>1. Owed(r) = Owed(s)
    BY <1>2 DEF Owed
  <2> QED
    BY <1>0, <1>2, <2>1, SameSurplus
<1>3. CASE PauseSchedule(id)
  <2> DEFINE r == [s EXCEPT !.paused = TRUE, !.paused_at = now]
  <2>1. id \in Stored /\ schedules' = [schedules EXCEPT ![id] = r] /\ escrow' = escrow
    BY <1>0, <1>3 DEF PauseSchedule
  <2>2. /\ r.token = s.token /\ r.revoked = s.revoked
        /\ r.vested_at_revoke = s.vested_at_revoke /\ r.total_amount = s.total_amount
        /\ r.claimed_amount = s.claimed_amount
    BY <1>1, <2>1 DEF Schedule
  <2> HIDE DEF r
  <2> QED
    BY <1>2, <2>1, <2>2
<1>4. CASE ResumeSchedule(id)
  <2> DEFINE r == [s EXCEPT !.paused_duration = PausedTotal(s), !.paused = FALSE, !.paused_at = 0]
  <2>1. id \in Stored /\ schedules' = [schedules EXCEPT ![id] = r] /\ escrow' = escrow
    BY <1>0, <1>4 DEF ResumeSchedule
  <2>2. /\ r.token = s.token /\ r.revoked = s.revoked
        /\ r.vested_at_revoke = s.vested_at_revoke /\ r.total_amount = s.total_amount
        /\ r.claimed_amount = s.claimed_amount
    BY <1>1, <2>1 DEF Schedule
  <2> HIDE DEF r
  <2> QED
    BY <1>2, <2>1, <2>2
<1>5. CASE \E l \in MilestoneLists : EnablePerformanceMilestones(id, l)
  <2> DEFINE r == [s EXCEPT !.requires_milestones = TRUE]
  <2>1. id \in Stored /\ schedules' = [schedules EXCEPT ![id] = r] /\ escrow' = escrow
    BY <1>0, <1>5 DEF EnablePerformanceMilestones
  <2>2. /\ r.token = s.token /\ r.revoked = s.revoked
        /\ r.vested_at_revoke = s.vested_at_revoke /\ r.total_amount = s.total_amount
        /\ r.claimed_amount = s.claimed_amount
    BY <1>1, <2>1 DEF Schedule
  <2> HIDE DEF r
  <2> QED
    BY <1>2, <2>1, <2>2
<1>6. CASE \E i \in DOMAIN milestones[id] : AttestMilestone(id, i)
  BY <1>6, OwedSame DEF AttestMilestone, Surplus
<1>7. CASE Claim(id)
  <2> DEFINE c == Claimable(id)
             r == [s EXCEPT !.claimed_amount = s.claimed_amount + c]
  <2>1. id \in Stored /\ schedules' = [schedules EXCEPT ![id] = r] /\ PayOut(id, c, 0)
    BY <1>0, <1>7 DEF Claim
  <2>2. /\ s.claimed_amount \in Nat /\ s.total_amount \in Nat /\ s.vested_at_revoke \in Nat
    BY <1>1, <2>1 DEF Schedule
  <2>3. c \in Nat
    <3>1. ClaimableAt(s, now) \in Nat
      BY <1>1, <2>1, <2>2 DEF ClaimableAt, SaturatingSub
    <3>2. c \in 0..ClaimableAt(s, now)
      BY <2>1, <3>1, WithinBounds DEF Claimable
    <3> QED
      BY <3>1, <3>2
  <2>4. /\ r.token = s.token /\ r.revoked = s.revoked
        /\ r.vested_at_revoke = s.vested_at_revoke /\ r.total_amount = s.total_amount
        /\ r.claimed_amount = s.claimed_amount + c
    BY <1>1, <2>1 DEF Schedule
  <2> HIDE DEF c, r, s
  <2>5. Owed(r) = Owed(s) + (-(c + 0))
    BY <2>2, <2>3, <2>4 DEF Owed
  <2> QED
    BY <1>0, <2>1, <2>3, <2>4, <2>5, PayOutSurplus DEF s
<1>8. CASE Revoke(id)
  <2> DEFINE v == VestedAt(s, now)
             c == WithinMilestones(id, SaturatingSub(v, s.claimed_amount))
             n == UnvestedAt(s, now)
             r == [s EXCEPT !.revoked = TRUE, !.vested_at_revoke = v,
                            !.claimed_amount = s.claimed_amount + c]
  <2>1. /\ id \in Stored /\ schedules' = [schedules EXCEPT ![id] = r] /\ PayOut(id, c, n)
        /\ ~s.revoked
    BY <1>0, <1>8 DEF Revoke
  <2>2. /\ s.claimed_amount \in Nat /\ s.total_amount \in Nat /\ v \in 0..s.total_amount
    BY <1>1, <2>1 DEF Schedule
  <2>3. c \in Nat
    <3>1. SaturatingSub(v, s.claimed_amount) \in Nat
      BY <2>2 DEF SaturatingSub
    <3>2. c \in 0..SaturatingSub(v, s.claimed_amount)
      BY <2>1, <3>1, WithinBounds
    <3> QED
      BY <3>1, <3>2
  <2>4. n = s.total_amount - v /\ n \in Nat
    BY <2>2 DEF UnvestedAt
  <2>5. /\ r.token = s.token /\ r.revoked
        /\ r.vested_at_revoke = v /\ r.total_amount = s.total_amount
        /\ r.claimed_amount = s.claimed_amount + c
    BY <1>1, <2>1 DEF Schedule
  <2> HIDE DEF v, c, n, r, s
  <2>6. Owed(r) = Owed(s) + (-(c + n))
    BY <2>1, <2>2, <2>3, <2>4, <2>5 DEF Owed
  <2> QED
    BY <1>0, <2>1, <2>3, <2>4, <2>5, <2>6, PayOutSurplus DEF s
<1>9. ASSUME NEW a \in Accounts, TransferBeneficiary(id, a)
      PROVE  Surplus(t)' = Surplus(t)
  <2> DEFINE r == [s EXCEPT !.beneficiary = a]
  <2>1. id \in Stored /\ schedules' = [schedules EXCEPT ![id] = r] /\ escrow' = escrow
    BY <1>0, <1>9 DEF TransferBeneficiary
  <2>2. /\ r.token = s.token /\ r.revoked = s.revoked
        /\ r.vested_at_revoke = s.vested_at_revoke /\ r.total_amount = s.total_amount
        /\ r.claimed_amount = s.claimed_amount
    BY <1>1, <2>1 DEF Schedule
  <2> HIDE DEF r
  <2> QED
    BY <1>2, <2>1, <2>2
<1>10. ASSUME NEW a \in Accounts, TransferGrantor(id, a)
       PROVE  Surplus(t)' = Surplus(t)
  <2> DEFINE r == [s EXCEPT !.grantor = a]
  <2>1. id \in Stored /\ schedules' = [schedules EXCEPT ![id] = r] /\ escrow' = escrow
    BY <1>0, <1>10 DEF TransferGrantor
  <2>2. /\ r.token = s.token /\ r.revoked = s.revoked
        /\ r.vested_at_revoke = s.vested_at_revoke /\ r.total_amount = s.total_amount
        /\ r.claimed_amount = s.claimed_amount
    BY <1>1, <2>1 DEF Schedule
  <2> HIDE DEF r
  <2> QED
    BY <1>2, <2>1, <2>2
<1>11. ASSUME NEW x \in ExtendBy, ExtendDuration(id, x)
       PROVE  FALSE
  BY <1>11 DEF ExtendDuration
<1>12. CASE DestroySchedule(id)
  <2>1. /\ id \in Stored /\ ~s.revocable /\ s.claimed_amount = s.total_amount
        /\ escrow' = escrow /\ schedules' = [i \in Stored \ {id} |-> schedules[i]]
    BY <1>12 DEF DestroySchedule, FullyClaimed
  <2>2. ~s.revoked /\ s.total_amount \in Nat
    BY <1>1, <2>1 DEF ScheduleInv, Schedule
  <2>3. Owed(s) = 0
    BY <2>1, <2>2 DEF Owed
  <2>4. Stored' = Stored \ {id} /\ \A i \in Stored' : schedules'[i] = schedules[i]
    BY <2>1 DEF Stored
  <2>5. OwedIn(t)'[id] = 0 /\ OwedIn(t)[id] = 0
    BY <2>3, <2>4 DEF OwedIn
  <2>6. \A i \in Ids \ {id} : OwedIn(t)'[i] = OwedIn(t)[i]
    BY <2>4 DEF OwedIn
  <2>7. OwedSum(t)' = OwedSum(t) + 0
    BY <1>0, <2>5, <2>6, OwedChange
  <2>8. OwedSum(t) \in Int
    BY <1>0, OwedInType
  <2> QED
    BY <2>1, <2>7, <2>8 DEF Surplus
<1> HIDE DEF s
<1> QED
  BY <1>3, <1>4, <1>5, <1>6, <1>7, <1>8, <1>9, <1>10, <1>11, <1>12 DEF Operate

\* A schedule that is funded brings the tokens it is owed.
LEMMA FundKeepsSurplus ==
  ASSUME TypeOK, TypeOK', NEW s, FundSchedule(s), s.claimed_amount = 0, ~s.revoked,
         s.total_amount \in Int, NEW t \in Tokens
  PROVE  Surplus(t)' = Surplus(t)
<1>1. OwedSum(t) \in Int /\ escrow \in [Tokens -> Nat]
  BY OwedInType DEF TypeOK
<1>2. PersistFundedSchedule(s)
  BY DEF FundSchedule
<1>3. OwedSum(t)' = OwedSum(t) + (IF s.token = t THEN s.total_amount ELSE 0)
  BY <1>2, OwedPersisted
<1>4. escrow'[t] = escrow[t] + (IF s.token = t THEN s.total_amount ELSE 0)
  BY <1>1 DEF FundSchedule
<1>5. escrow[t] \in Int
  BY <1>1
<1> QED
  BY <1>1, <1>3, <1>4, <1>5 DEF Surplus

\* Nor does any other call of Vesting.
LEMMA NextKeepsSurplus ==
  ASSUME IInv, IInv', [Next]_vars, extended' = {}, NEW t \in Tokens
  PROVE  Surplus(t)' = Surplus(t)
<1>1. ASSUME schedules' = schedules, escrow' = escrow
      PROVE  Surplus(t)' = Surplus(t)
  BY <1>1, OwedSame DEF Surplus
<1>2. CASE Tick \/ InitializePerformanceOracle \/ UNCHANGED vars
  BY <1>1, <1>2 DEF Tick, InitializePerformanceOracle, vars
<1>3. ASSUME NEW g \in Accounts, NEW b \in Accounts, NEW k \in Tokens, NEW o \in Offers,
             CreateSchedule(g, b, k, o)
      PROVE  Surplus(t)' = Surplus(t)
  <2> DEFINE s == PlainSchedule(g, b, k, o)
  <2>1. o \in OfferType
    BY BoundsAssumption
  <2>2. s.claimed_amount = 0 /\ ~s.revoked /\ s.total_amount \in Int
    BY <2>1 DEF PlainSchedule, NewSchedule, OfferType
  <2>3. FundSchedule(s)
    BY <1>3 DEF CreateSchedule
  <2> HIDE DEF s
  <2> QED
    BY <2>2, <2>3, FundKeepsSurplus DEF IInv
<1>4. ASSUME NEW g \in Accounts, NEW b \in Accounts, NEW k \in Tokens, NEW o \in GradedOffers,
             CreateGradedSchedule(g, b, k, o)
      PROVE  Surplus(t)' = Surplus(t)
  <2> DEFINE s == NewSchedule(g, b, k, o.total_amount, o.start_time,
                      Max({o.milestones[i].offset_secs : i \in DOMAIN o.milestones}),
                      0, o.lockup, "Graded", o.revocable, o.milestones)
  <2>1. o.total_amount \in Int
    BY BoundsAssumption
  <2>2. s.claimed_amount = 0 /\ ~s.revoked /\ s.total_amount \in Int
    BY <2>1 DEF NewSchedule
  <2>3. FundSchedule(s)
    BY <1>4 DEF CreateGradedSchedule
  <2> HIDE DEF s
  <2> QED
    BY <2>2, <2>3, FundKeepsSurplus DEF IInv
<1>5. ASSUME NEW id \in Ids, Operate(id)
      PROVE  Surplus(t)' = Surplus(t)
  BY <1>5, OperateKeepsSurplus
<1> QED
  BY <1>2, <1>3, <1>4, <1>5 DEF Next, Create

-----------------------------------------------------------------------------
(* Funding: what is left of the batches *)

\* What the slots of a batch that can be claimed at all add up to.
Payable(b) == {slot \in BatchOffers[b].root : slot.total_amount > 0}

SlotAmount == [slot \in Slot |-> slot.total_amount]

\* Each batch is committed with the tokens its slots add up to, or more.
DepositsCover ==
    \A b \in DOMAIN BatchOffers :
        SumFunctionOnSet(SlotAmount, Payable(b)) <= BatchOffers[b].total_amount

\* No slot stands below the roots of two batches.
RootsDisjoint ==
    \A b, c \in DOMAIN BatchOffers :
        b # c => BatchOffers[b].root \cap BatchOffers[c].root = {}

\* What the open batches have left in token t, as a summand over all batches.
LeftIn(t) ==
    [b \in DOMAIN BatchOffers |-> IF b \in DOMAIN batches /\ batches[b].token = t
                                  THEN batches[b].remaining ELSE 0]

LeftSum(t) == SumFunctionOnSet(LeftIn(t), DOMAIN BatchOffers)

PaidSlots(b) == BatchOffers[b].root \cap slotClaimed

\* Open batches are the ones committed, claimed slots had an amount, and what a
\* batch has given up is no more than its claimed slots add up to: less when
\* another batch paid for one of them.
BInv ==
    /\ \A b \in DOMAIN batches :
          /\ batches[b].root = BatchOffers[b].root
          /\ batches[b].remaining >=
                BatchOffers[b].total_amount - SumFunctionOnSet(SlotAmount, PaidSlots(b))
    /\ \A slot \in slotClaimed : slot.total_amount > 0

\* Batches, their roots and the amounts of their slots.
LEMMA BatchFacts ==
  ASSUME BatchTypeOK
  PROVE  /\ IsFiniteSet(DOMAIN BatchOffers)
         /\ DOMAIN batches \subseteq DOMAIN BatchOffers
         /\ \A b \in DOMAIN BatchOffers :
               /\ BatchOffers[b].total_amount \in Int
               /\ BatchOffers[b].root \subseteq Slot /\ IsFiniteSet(BatchOffers[b].root)
         /\ \A b \in DOMAIN batches :
               /\ batches[b].token \in Tokens /\ batches[b].remaining \in Int
         /\ \A slot \in Slot : SlotAmount[slot] = slot.total_amount /\ slot.total_amount \in Int
<1>1. /\ DOMAIN BatchOffers = 1..Len(BatchOffers) /\ Len(BatchOffers) \in Nat
      /\ \A b \in DOMAIN BatchOffers : BatchOffers[b] \in BatchOffer
  BY BatchAssumption, SeqFacts
<1>2. DOMAIN batches \subseteq DOMAIN BatchOffers
  BY <1>1 DEF BatchTypeOK
<1>3. IsFiniteSet(DOMAIN BatchOffers)
  BY <1>1, FS_Interval
<1>4. \A b \in DOMAIN batches : batches[b] \in BatchRecord
  BY DEF BatchTypeOK
<1>5. \A b \in DOMAIN BatchOffers :
         /\ BatchOffers[b].total_amount \in Int
         /\ BatchOffers[b].root \subseteq Slot /\ IsFiniteSet(BatchOffers[b].root)
  BY <1>1, BatchAssumption DEF BatchOffer
<1>6. \A b \in DOMAIN batches :
         batches[b].token \in Tokens /\ batches[b].remaining \in Int
  BY <1>4 DEF BatchRecord
<1>7. \A slot \in Slot : SlotAmount[slot] = slot.total_amount /\ slot.total_amount \in Int
  BY DEF Slot, SlotAmount
<1> QED
  BY <1>2, <1>3, <1>5, <1>6, <1>7

\* What is left in a token is an integer, of each batch and together.
LEMMA LeftType ==
  ASSUME BatchTypeOK, NEW t
  PROVE  /\ \A b \in DOMAIN BatchOffers : LeftIn(t)[b] \in Int
         /\ LeftSum(t) \in Int
<1>1. \A b \in DOMAIN BatchOffers : LeftIn(t)[b] \in Int
  BY BatchFacts DEF LeftIn
<1> QED
  BY <1>1, BatchFacts, SumInt DEF LeftSum

\* The total moves by as much as the one batch that changes.
LEMMA LeftChange ==
  ASSUME BatchTypeOK, NEW t, NEW b \in DOMAIN BatchOffers, NEW d \in Int,
         LeftIn(t)'[b] = LeftIn(t)[b] + d,
         \A c \in DOMAIN BatchOffers \ {b} : LeftIn(t)'[c] = LeftIn(t)[c]
  PROVE  LeftSum(t)' = LeftSum(t) + d
<1> DEFINE f == LeftIn(t)
           g == LeftIn(t)'
           D == DOMAIN BatchOffers
<1>1. \A c \in D : f[c] \in Int
  BY LeftType
<1>2. /\ \A c \in D : f[c] \in Int
      /\ g[b] = f[b] + d /\ \A c \in D \ {b} : g[c] = f[c]
      /\ g[b] \in Int /\ f[b] \in Int /\ b \in D
  BY <1>1
<1>3. LeftSum(t) = SumFunctionOnSet(f, D) /\ LeftSum(t)' = SumFunctionOnSet(g, D)
  BY DEF LeftSum
<1>4. LeftSum(t) \in Int /\ IsFiniteSet(D)
  BY LeftType, BatchFacts
<1> HIDE DEF f, g, D
<1>5. SumFunctionOnSet(g, D) = SumFunctionOnSet(f, D) - f[b] + g[b]
  BY <1>2, <1>4, SumUpdate
<1> QED
  BY <1>2, <1>3, <1>4, <1>5

\* The slots a batch may still pay keep its remaining deposit from going below
\* zero, when the deposit covered them all.
LEMMA CoveredRemaining ==
  ASSUME DepositsCover, BatchTypeOK, BInv, NEW b \in DOMAIN batches
  PROVE  batches[b].remaining >= 0
<1> DEFINE P == PaidSlots(b)
           Q == Payable(b)
<1>1. /\ b \in DOMAIN BatchOffers /\ BatchOffers[b].root \subseteq Slot
      /\ IsFiniteSet(BatchOffers[b].root) /\ BatchOffers[b].total_amount \in Int
      /\ batches[b].remaining \in Int
  BY BatchFacts
<1>2. P \in SUBSET Q /\ IsFiniteSet(Q)
  <2>1. P \subseteq Q
    BY DEF BInv, PaidSlots, Payable
  <2>2. Q \subseteq BatchOffers[b].root
    BY DEF Payable
  <2> QED
    BY <1>1, <2>1, <2>2, FS_Subset
<1>3. \A slot \in Q : SlotAmount[slot] \in Nat
  BY <1>1, BatchFacts DEF Payable
<1>4. SumFunctionOnSet(SlotAmount, Q) <= BatchOffers[b].total_amount
  BY <1>1 DEF DepositsCover
<1>5. batches[b].remaining >= BatchOffers[b].total_amount - SumFunctionOnSet(SlotAmount, P)
  BY DEF BInv
<1> HIDE DEF P, Q
<1>6. SumFunctionOnSet(SlotAmount, P) <= SumFunctionOnSet(SlotAmount, Q)
  BY <1>2, <1>3, SumOfPart
<1>7. SumFunctionOnSet(SlotAmount, Q) \in Nat /\ SumFunctionOnSet(SlotAmount, P) \in Nat
  <2>1. IsFiniteSet(P) /\ \A slot \in P : SlotAmount[slot] \in Nat
    BY <1>2, <1>3, FS_Subset
  <2> QED
    BY <1>2, <1>3, <2>1, SumNat
<1> QED
  BY <1>1, <1>4, <1>5, <1>6, <1>7

\* One slot more is claimed: the sum over the claimed slots of every batch it
\* stands in grows by its amount.
LEMMA PaidSlotsStep ==
  ASSUME BatchTypeOK, NEW slot \in Slot, slot \notin slotClaimed,
         slotClaimed' = slotClaimed \cup {slot}, NEW c \in DOMAIN BatchOffers
  PROVE  /\ SumFunctionOnSet(SlotAmount, PaidSlots(c)) \in Int
         /\ SumFunctionOnSet(SlotAmount, PaidSlots(c)') =
              SumFunctionOnSet(SlotAmount, PaidSlots(c))
                + (IF slot \in BatchOffers[c].root THEN slot.total_amount ELSE 0)
<1> DEFINE P == PaidSlots(c)
<1>1. IsFiniteSet(P) /\ P \subseteq Slot /\ slot \notin P
  <2>1. P \subseteq BatchOffers[c].root
    BY DEF PaidSlots
  <2> QED
    BY <2>1, BatchFacts, FS_Subset DEF PaidSlots
<1>2. \A x \in P \cup {slot} : SlotAmount[x] \in Int
  BY <1>1, BatchFacts
<1>3. SumFunctionOnSet(SlotAmount, P) \in Int
  <2> HIDE DEF P
  <2> QED
    BY <1>1, <1>2, SumInt
<1>4. CASE slot \in BatchOffers[c].root
  <2>1. PaidSlots(c)' = P \cup {slot}
    BY <1>4 DEF PaidSlots
  <2> HIDE DEF P
  <2>2. SumFunctionOnSet(SlotAmount, P \cup {slot})
          = SumFunctionOnSet(SlotAmount, P) + SlotAmount[slot]
    BY <1>1, <1>2, SumAdd
  <2>3. SumFunctionOnSet(SlotAmount, PaidSlots(c)')
          = SumFunctionOnSet(SlotAmount, P \cup {slot})
    BY <2>1, Zenon
  <2> QED
    BY <1>3, <1>4, <2>2, <2>3, BatchFacts DEF P
<1>5. CASE slot \notin BatchOffers[c].root
  <2>1. PaidSlots(c)' = PaidSlots(c)
    BY <1>5 DEF PaidSlots
  <2>2. SumFunctionOnSet(SlotAmount, PaidSlots(c)') = SumFunctionOnSet(SlotAmount, PaidSlots(c))
    BY <2>1, Zenon
  <2> QED
    BY <1>3, <1>5, <2>2
<1> QED
  BY <1>4, <1>5

\* Claimed slots add up to a natural number.
LEMMA PaidNat ==
  ASSUME BatchTypeOK, BInv, NEW c \in DOMAIN BatchOffers
  PROVE  SumFunctionOnSet(SlotAmount, PaidSlots(c)) \in Nat
<1> DEFINE P == PaidSlots(c)
<1>1. IsFiniteSet(P) /\ P \subseteq Slot /\ P \subseteq slotClaimed
  <2>1. P \subseteq BatchOffers[c].root
    BY DEF PaidSlots
  <2> QED
    BY <2>1, BatchFacts, FS_Subset DEF PaidSlots
<1>2. \A x \in P : SlotAmount[x] \in Nat
  BY <1>1, BatchFacts DEF BInv
<1> HIDE DEF P
<1>3. SumFunctionOnSet(SlotAmount, P) \in Nat
  BY <1>1, <1>2, SumNat
<1> QED
  BY <1>3 DEF P

\* A commitment adds its deposit to the balance and to what is left of batches.
LEMMA CommitBalance ==
  ASSUME TypeOK, BatchTypeOK, BInv, NEW g \in Accounts, NEW k \in Tokens,
         CommitScheduleBatch(g, k)
  PROVE  /\ BInv'
         /\ \A t \in Tokens : Surplus(t)' - LeftSum(t)' = Surplus(t) - LeftSum(t)
<1> DEFINE b == batchCount + 1
           o == BatchOffers[b]
<1>1. /\ b \in DOMAIN BatchOffers /\ o.total_amount \in Int
      /\ b \notin DOMAIN batches /\ batchCount \in Nat
  BY BatchFacts DEF CommitScheduleBatch, BatchTypeOK
<1>2. /\ DOMAIN batches' = DOMAIN batches \cup {b}
      /\ batches'[b].root = o.root /\ batches'[b].remaining = o.total_amount
      /\ batches'[b].token = k
      /\ \A i \in DOMAIN batches : batches'[i] = batches[i]
      /\ slotClaimed' = slotClaimed /\ schedules' = schedules
      /\ escrow' = [escrow EXCEPT ![k] = @ + o.total_amount]
  BY <1>1 DEF CommitScheduleBatch
<1>3. BInv'
  <2>1. \A c : PaidSlots(c)' = PaidSlots(c)
    BY <1>2 DEF PaidSlots
  <2>2. SumFunctionOnSet(SlotAmount, PaidSlots(b)) \in Nat
    BY <1>1, PaidNat
  <2>3. o.total_amount >= o.total_amount - SumFunctionOnSet(SlotAmount, PaidSlots(b))
    BY <1>1, <2>2
  <2> HIDE DEF b
  <2> QED
    BY <1>2, <2>1, <2>3 DEF BInv
<1>4. ASSUME NEW t \in Tokens
      PROVE  Surplus(t)' - LeftSum(t)' = Surplus(t) - LeftSum(t)
  <2> DEFINE d == IF k = t THEN o.total_amount ELSE 0
  <2>1. d \in Int
    BY <1>1
  <2>2. LeftIn(t)'[b] = LeftIn(t)[b] + d
    BY <1>1, <1>2 DEF LeftIn
  <2>3. \A c \in DOMAIN BatchOffers \ {b} : LeftIn(t)'[c] = LeftIn(t)[c]
    BY <1>1, <1>2 DEF LeftIn
  <2>4. escrow'[t] = escrow[t] + d /\ escrow[t] \in Int
    BY <1>2 DEF TypeOK
  <2> HIDE DEF d, b
  <2>5. LeftSum(t)' = LeftSum(t) + d /\ LeftSum(t) \in Int
    BY <1>1, <2>1, <2>2, <2>3, LeftChange, LeftType
  <2>6. OwedSum(t)' = OwedSum(t) /\ OwedSum(t) \in Int
    BY <1>2, OwedSame, OwedInType
  <2> QED
    BY <2>1, <2>4, <2>5, <2>6 DEF Surplus
<1> QED
  BY <1>3, <1>4

\* A claimed slot moves its amount from the batch to a schedule.
LEMMA ClaimSlotBalance ==
  ASSUME TypeOK, TypeOK', BatchTypeOK, BInv, NEW b \in DOMAIN batches,
         NEW slot \in batches[b].root, ClaimScheduleSlot(b, slot)
  PROVE  /\ BInv'
         /\ \A t \in Tokens : Surplus(t)' - LeftSum(t)' = Surplus(t) - LeftSum(t)
<1> DEFINE s == PlainSchedule(batches[b].grantor, slot.beneficiary, batches[b].token,
                              SlotTerms(slot))
<1>1. /\ b \in DOMAIN BatchOffers /\ slot \in Slot /\ slot.total_amount \in Int
      /\ slot \in BatchOffers[b].root /\ batches[b].remaining \in Int
      /\ slot.total_amount > 0 /\ slot \notin slotClaimed
      /\ slotClaimed' = slotClaimed \cup {slot}
  BY BatchFacts DEF ClaimScheduleSlot, SlotClaimable, BInv
<1>2. /\ DOMAIN batches' = DOMAIN batches
      /\ batches'[b].root = batches[b].root /\ batches'[b].token = batches[b].token
      /\ batches'[b].remaining = batches[b].remaining - slot.total_amount
      /\ \A i \in DOMAIN batches : i # b => batches'[i] = batches[i]
      /\ escrow' = escrow
  <2>1. batches[b] \in BatchRecord
    BY DEF BatchTypeOK
  <2> QED
    BY <2>1 DEF ClaimScheduleSlot, Debited, BatchRecord
<1>3. /\ s.claimed_amount = 0 /\ ~s.revoked /\ s.total_amount = slot.total_amount
      /\ s.token = batches[b].token
  BY DEF PlainSchedule, NewSchedule, SlotTerms
<1>4. PersistFundedSchedule(s)
  BY DEF ClaimScheduleSlot
<1> HIDE DEF s
<1>5. BInv'
  <2>1. ASSUME NEW c \in DOMAIN batches
        PROVE  /\ batches'[c].root = BatchOffers[c].root
               /\ batches'[c].remaining >=
                    BatchOffers[c].total_amount - SumFunctionOnSet(SlotAmount, PaidSlots(c)')
    <3>1. /\ c \in DOMAIN BatchOffers /\ BatchOffers[c].total_amount \in Int
          /\ batches[c].remaining \in Int
      BY BatchFacts
    <3>2. /\ SumFunctionOnSet(SlotAmount, PaidSlots(c)) \in Int
          /\ SumFunctionOnSet(SlotAmount, PaidSlots(c)') =
               SumFunctionOnSet(SlotAmount, PaidSlots(c))
                 + (IF slot \in BatchOffers[c].root THEN slot.total_amount ELSE 0)
      BY <1>1, <3>1, PaidSlotsStep
    <3>3. batches[c].remaining >=
            BatchOffers[c].total_amount - SumFunctionOnSet(SlotAmount, PaidSlots(c))
      BY DEF BInv
    <3>4. CASE c = b
      BY <1>1, <1>2, <3>1, <3>2, <3>3, <3>4 DEF BInv
    <3>5. CASE c # b
      BY <1>1, <1>2, <3>1, <3>2, <3>3, <3>5 DEF BInv
    <3> QED
      BY <3>4, <3>5
  <2>2. \A x \in slotClaimed' : x.total_amount > 0
    BY <1>1 DEF BInv
  <2> QED
    BY <1>2, <2>1, <2>2 DEF BInv
<1>6. ASSUME NEW t \in Tokens
      PROVE  Surplus(t)' - LeftSum(t)' = Surplus(t) - LeftSum(t)
  <2> DEFINE d == IF batches[b].token = t THEN slot.total_amount ELSE 0
  <2>1. d \in Int /\ -d \in Int
    BY <1>1
  <2>2. LeftIn(t)'[b] = LeftIn(t)[b] + (-d)
    BY <1>1, <1>2 DEF LeftIn
  <2>3. \A c \in DOMAIN BatchOffers \ {b} : LeftIn(t)'[c] = LeftIn(t)[c]
    BY <1>2 DEF LeftIn
  <2>4. OwedSum(t)' = OwedSum(t) + d
    BY <1>1, <1>3, <1>4, OwedPersisted
  <2>5. escrow[t] \in Int /\ OwedSum(t) \in Int
    BY OwedInType DEF TypeOK
  <2> HIDE DEF d
  <2>6. LeftSum(t)' = LeftSum(t) + (-d) /\ LeftSum(t) \in Int
    BY <1>1, <2>1, <2>2, <2>3, LeftChange, LeftType
  <2> QED
    BY <1>2, <2>1, <2>4, <2>5, <2>6 DEF Surplus
<1> QED
  BY <1>5, <1>6

\* A reclaim returns what is left, when that is not a shortfall.
LEMMA ReclaimBalance ==
  ASSUME TypeOK, BatchTypeOK, BInv, NEW b \in DOMAIN batches, ReclaimBatch(b)
  PROVE  /\ BInv'
         /\ batches[b].remaining >= 0 =>
               \A t \in Tokens : Surplus(t)' - LeftSum(t)' = Surplus(t) - LeftSum(t)
<1>1. /\ b \in DOMAIN BatchOffers /\ batches[b].remaining \in Int
      /\ DOMAIN batches' = DOMAIN batches \ {b}
      /\ \A i \in DOMAIN batches : i # b => batches'[i] = batches[i]
      /\ slotClaimed' = slotClaimed /\ schedules' = schedules
      /\ escrow' = [escrow EXCEPT ![batches[b].token] = @ - Greatest(batches[b].remaining, 0)]
  BY BatchFacts DEF ReclaimBatch
<1>2. BInv'
  <2>1. \A c : PaidSlots(c)' = PaidSlots(c)
    BY <1>1 DEF PaidSlots
  <2> QED
    BY <1>1, <2>1 DEF BInv
<1>3. ASSUME NEW t \in Tokens, batches[b].remaining >= 0
      PROVE  Surplus(t)' - LeftSum(t)' = Surplus(t) - LeftSum(t)
  <2> DEFINE d == IF batches[b].token = t THEN batches[b].remaining ELSE 0
  <2>1. d \in Int /\ -d \in Int
    BY <1>1
  <2>2. LeftIn(t)'[b] = LeftIn(t)[b] + (-d)
    BY <1>1 DEF LeftIn
  <2>3. \A c \in DOMAIN BatchOffers \ {b} : LeftIn(t)'[c] = LeftIn(t)[c]
    BY <1>1 DEF LeftIn
  <2>4. escrow[t] \in Int /\ OwedSum(t) \in Int
    BY OwedInType DEF TypeOK
  <2>5. escrow'[t] = escrow[t] - d
    BY <1>1, <1>3, <2>4 DEF Greatest, TypeOK
  <2>6. OwedSum(t)' = OwedSum(t)
    BY <1>1, OwedSame
  <2> HIDE DEF d
  <2>7. LeftSum(t)' = LeftSum(t) + (-d) /\ LeftSum(t) \in Int
    BY <1>1, <2>1, <2>2, <2>3, LeftChange, LeftType
  <2> QED
    BY <2>1, <2>4, <2>5, <2>6, <2>7 DEF Surplus
<1> QED
  BY <1>2, <1>3

\* Nothing changes when neither the batches nor the claimed slots do.
LEMMA BatchesSame ==
  ASSUME BInv, batches' = batches, slotClaimed' = slotClaimed
  PROVE  BInv' /\ \A t : LeftSum(t)' = LeftSum(t)
<1>1. \A c : PaidSlots(c)' = PaidSlots(c)
  BY DEF PaidSlots
<1>2. BInv'
  BY <1>1 DEF BInv
<1>3. ASSUME NEW t PROVE LeftSum(t)' = LeftSum(t)
  <2>1. LeftIn(t)' = LeftIn(t)
    BY DEF LeftIn
  <2> QED
    BY <2>1 DEF LeftSum
<1> QED
  BY <1>2, <1>3

\* No step forgets that a duration was extended.
LEMMA ExtendedGrows ==
  ASSUME [FundingNext]_fundingVars
  PROVE  extended \subseteq extended'
<1>1. CASE Next
  <2>1. CASE Create
    <3>1. \E x : PersistFundedSchedule(x)
      BY <2>1, CreatePersists
    <3> QED
      BY <3>1 DEF PersistFundedSchedule
  <2>2. CASE Tick \/ InitializePerformanceOracle
    BY <2>2 DEF Tick, InitializePerformanceOracle
  <2>3. ASSUME NEW id \in Ids, Operate(id) PROVE extended \subseteq extended'
    BY <2>3 DEF Operate, PauseSchedule, ResumeSchedule, EnablePerformanceMilestones,
       AttestMilestone, Claim, Revoke, TransferBeneficiary, TransferGrantor,
       ExtendDuration, DestroySchedule
  <2> QED
    BY <1>1, <2>1, <2>2, <2>3 DEF Next
<1>2. CASE ProposalStep
  BY <1>2 DEF ProposalStep, ProposeSchedule, AcknowledgeProposal, ExpireProposal, vars,
     FundAndActivate, FundSchedule, PersistFundedSchedule
<1>3. CASE BatchStep
  BY <1>3 DEF BatchStep, CommitScheduleBatch, ClaimScheduleSlot, ReclaimBatch,
     PersistFundedSchedule
<1> QED
  BY <1>1, <1>2, <1>3 DEF FundingNext, fundingVars, vars

\* The balance is what the schedules are owed and what is left of the batches.
EInv == extended = {} => \A t \in Tokens : Surplus(t) = LeftSum(t)

\* The two sides of EInv are integers.
BalanceTyped == \A t \in Tokens : Surplus(t) \in Int /\ LeftSum(t) \in Int

\* Both sides are numbers in every state of the invariant.
LEMMA BalanceType == FInv => BalanceTyped
BY OwedInType, LeftType DEF Surplus, TypeOK, FInv, IInv, BalanceTyped

\* A step keeps BInv, and EInv as long as a deposit covers its slots.
LEMMA BalanceStep ==
  ASSUME FInv, FInv', BInv, [FundingNext]_fundingVars
  PROVE  BInv' /\ (DepositsCover /\ EInv => EInv')
<1>0. IInv /\ IInv' /\ TypeOK /\ TypeOK' /\ PInv /\ BatchTypeOK
  BY DEF FInv, IInv
<1>1. extended' = {} => extended = {}
  BY ExtendedGrows
<1>2. \A t \in Tokens : Surplus(t) \in Int /\ LeftSum(t) \in Int
  BY <1>0, OwedInType, LeftType DEF Surplus, TypeOK
<1>3. ASSUME \A t \in Tokens : Surplus(t)' = Surplus(t),
             UNCHANGED batchVars
      PROVE  BInv' /\ (EInv => EInv')
  BY <1>1, <1>3, BatchesSame DEF EInv, batchVars
<1>4. ASSUME \A t \in Tokens : Surplus(t)' - LeftSum(t)' = Surplus(t) - LeftSum(t)
      PROVE  EInv => EInv'
  <2>1. \A t \in Tokens : Surplus(t)' \in Int /\ LeftSum(t)' \in Int
    <3>1. FInv' => BalanceTyped'
      BY BalanceType, PTL
    <3> QED
      BY <3>1 DEF BalanceTyped
  <2> QED
    BY <1>1, <1>2, <1>4, <2>1 DEF EInv
<1>5. CASE UNCHANGED fundingVars
  BY <1>3, <1>5, OwedSame DEF fundingVars, vars, Surplus
<1>6. CASE Next /\ UNCHANGED <<proposals, batchVars>>
  <2>1. extended' = {} => \A t \in Tokens : Surplus(t)' = Surplus(t)
    BY <1>0, <1>6, NextKeepsSurplus
  <2> QED
    BY <1>1, <1>6, <2>1, BatchesSame DEF EInv, batchVars
<1>7. CASE ProposalStep /\ UNCHANGED batchVars
  <2>1. CASE UNCHANGED vars
    BY <1>3, <1>7, <2>1, OwedSame DEF vars, Surplus
  <2>2. ASSUME NEW i \in DOMAIN proposals, FundAndActivate(i)
        PROVE  \A t \in Tokens : Surplus(t)' = Surplus(t)
    <3> DEFINE p == proposals[i]
               s == PlainSchedule(p.grantor, p.beneficiary, p.token, p.terms)
    <3>1. p \in ScheduleProposal
      BY <1>0, SeqFacts DEF PInv, ProposalTypeOK
    <3>2. p.terms \in OfferType
      BY <3>1, BoundsAssumption DEF ScheduleProposal
    <3>3. s.claimed_amount = 0 /\ ~s.revoked /\ s.total_amount \in Int
      BY <3>2 DEF PlainSchedule, NewSchedule, OfferType
    <3>4. FundSchedule(s)
      BY <2>2 DEF FundAndActivate, Proposed
    <3> HIDE DEF p, s
    <3> QED
      BY <1>0, <3>3, <3>4, FundKeepsSurplus
  <2> QED
    BY <1>3, <1>7, <2>1, <2>2 DEF ProposalStep, ProposeSchedule, AcknowledgeProposal,
       ExpireProposal
<1>8. CASE BatchStep
  <2>1. ASSUME NEW g \in Accounts, NEW k \in Tokens, CommitScheduleBatch(g, k)
        PROVE  BInv' /\ (EInv => EInv')
    BY <1>0, <1>4, <2>1, CommitBalance
  <2>2. ASSUME NEW b \in DOMAIN batches, NEW slot \in batches[b].root,
               ClaimScheduleSlot(b, slot)
        PROVE  BInv' /\ (EInv => EInv')
    BY <1>0, <1>4, <2>2, ClaimSlotBalance
  <2>3. ASSUME NEW b \in DOMAIN batches, ReclaimBatch(b)
        PROVE  BInv' /\ (DepositsCover /\ EInv => EInv')
    BY <1>0, <1>4, <2>3, ReclaimBalance, CoveredRemaining
  <2> QED
    BY <1>8, <2>1, <2>2, <2>3 DEF BatchStep
<1> QED
  BY <1>5, <1>6, <1>7, <1>8 DEF FundingNext

\* The sums over all ids and all batches are those over the ones in storage.
LEMMA BalanceMeaning ==
  ASSUME FInv, EInv
  PROVE  EscrowExact
<1>1. SUFFICES ASSUME extended = {}, NEW t \in Tokens
               PROVE  escrow[t] =
                  SumFunctionOnSet([id \in Stored |-> Owed(schedules[id])],
                                   {id \in Stored : schedules[id].token = t})
                  + SumFunctionOnSet([b \in DOMAIN batches |-> batches[b].remaining],
                                     {b \in DOMAIN batches : batches[b].token = t})
  BY DEF EscrowExact
<1>2. TypeOK /\ BatchTypeOK /\ escrow[t] \in Int
  BY DEF FInv, IInv, TypeOK
<1> DEFINE S == {id \in Stored : schedules[id].token = t}
           B == {b \in DOMAIN batches : batches[b].token = t}
           f == [id \in Stored |-> Owed(schedules[id])]
           h == [b \in DOMAIN batches |-> batches[b].remaining]
<1>3. SumFunctionOnSet(f, S) = OwedSum(t)
  <2>1. S \in SUBSET Ids
    <3>1. Stored \subseteq Ids
      BY <1>2, BoundsAssumption DEF TypeOK, Ids
    <3> QED
      BY <3>1
  <2>2. \A id \in S : f[id] = OwedIn(t)[id]
    BY <2>1 DEF OwedIn
  <2>3. \A id \in Ids \ S : OwedIn(t)[id] = 0
    BY DEF OwedIn
  <2> HIDE DEF S, f
  <2>4. IsFiniteSet(S)
    BY <2>1, IdsFinite, FS_Subset
  <2>5. SumFunctionOnSet(f, S) = SumFunctionOnSet(OwedIn(t), S)
    BY <2>2, <2>4, SumAgrees
  <2>6. \A id \in Ids : OwedIn(t)[id] \in Int
    BY <1>2, OwedInType
  <2>7. SumFunctionOnSet(OwedIn(t), Ids) = SumFunctionOnSet(OwedIn(t), S)
    BY <2>1, <2>3, <2>6, IdsFinite, SumIgnoresZeros
  <2> QED
    BY <2>5, <2>7 DEF OwedSum
<1>4. SumFunctionOnSet(h, B) = LeftSum(t)
  <2>1. B \in SUBSET DOMAIN BatchOffers /\ IsFiniteSet(DOMAIN BatchOffers)
    BY <1>2, BatchFacts
  <2>2. \A b \in B : h[b] = LeftIn(t)[b]
    BY <2>1 DEF LeftIn
  <2>3. \A b \in DOMAIN BatchOffers \ B : LeftIn(t)[b] = 0
    BY DEF LeftIn
  <2> HIDE DEF B, h
  <2>4. IsFiniteSet(B)
    BY <2>1, FS_Subset
  <2>5. SumFunctionOnSet(h, B) = SumFunctionOnSet(LeftIn(t), B)
    BY <2>2, <2>4, SumAgrees
  <2>6. \A b \in DOMAIN BatchOffers : LeftIn(t)[b] \in Int
    BY <1>2, LeftType
  <2>7. SumFunctionOnSet(LeftIn(t), DOMAIN BatchOffers) = SumFunctionOnSet(LeftIn(t), B)
    BY <2>1, <2>3, <2>6, SumIgnoresZeros
  <2> QED
    BY <2>5, <2>7 DEF LeftSum
<1>5. OwedSum(t) \in Int /\ LeftSum(t) \in Int /\ escrow[t] - OwedSum(t) = LeftSum(t)
  BY <1>1, <1>2, OwedInType, LeftType DEF EInv, Surplus
<1> HIDE DEF S, B, f, h
<1>6. escrow[t] = SumFunctionOnSet(f, S) + SumFunctionOnSet(h, B)
  BY <1>2, <1>3, <1>4, <1>5
<1> QED
  BY <1>6 DEF S, B, f, h

\* An empty contract owes nothing and holds nothing.
LEMMA InitBalance == FundingInit => BInv /\ EInv
<1> SUFFICES ASSUME FundingInit PROVE BInv /\ EInv
  OBVIOUS
<1>1. /\ DOMAIN batches = {} /\ slotClaimed = {} /\ Stored = {}
      /\ \A t \in Tokens : escrow[t] = 0
  BY DEF FundingInit, BatchInit, ProposalInit, Init, Stored
<1>2. BInv
  BY <1>1 DEF BInv
<1>3. ASSUME NEW t \in Tokens PROVE Surplus(t) = LeftSum(t)
  <2>1. \A id \in Ids : OwedIn(t)[id] = 0
    BY <1>1 DEF OwedIn
  <2>2. \A b \in DOMAIN BatchOffers : LeftIn(t)[b] = 0
    BY <1>1 DEF LeftIn
  <2>3. OwedSum(t) = 0
    BY <2>1, IdsFinite, SumZero DEF OwedSum
  <2>4. IsFiniteSet(DOMAIN BatchOffers)
    BY BatchAssumption, SeqFacts, FS_Interval
  <2>5. LeftSum(t) = 0
    BY <2>2, <2>4, SumZero DEF LeftSum
  <2> QED
    BY <1>1, <2>3, <2>5 DEF Surplus
<1> QED
  BY <1>2, <1>3 DEF EInv

-----------------------------------------------------------------------------
(* Funding: which batch paid for a slot *)

\* Claimed slots stand below a root that was committed, and each open batch has
\* given up exactly what its claimed slots add up to.
SInv ==
    /\ \A slot \in slotClaimed : \E b \in 1..batchCount : slot \in BatchOffers[b].root
    /\ \A b \in DOMAIN batches :
          batches[b].remaining =
              BatchOffers[b].total_amount - SumFunctionOnSet(SlotAmount, PaidSlots(b))

\* While no slot stands in two batches, only its own batch pays for a slot.
LEMMA SlotStep ==
  ASSUME RootsDisjoint, FInv, BInv, SInv, [FundingNext]_fundingVars
  PROVE  SInv'
<1>0. TypeOK /\ BatchTypeOK
  BY DEF FInv, IInv
<1>1. ASSUME UNCHANGED batchVars
      PROVE  SInv'
  <2>1. \A c : PaidSlots(c)' = PaidSlots(c)
    BY <1>1 DEF batchVars, PaidSlots
  <2> QED
    BY <1>1, <2>1 DEF SInv, batchVars
<1>2. ASSUME NEW g \in Accounts, NEW k \in Tokens, CommitScheduleBatch(g, k)
      PROVE  SInv'
  <2> DEFINE b == batchCount + 1
             o == BatchOffers[b]
  <2>1. /\ b \in DOMAIN BatchOffers /\ o.total_amount \in Int
        /\ b \notin DOMAIN batches /\ batchCount \in Nat
        /\ 1..batchCount \subseteq DOMAIN BatchOffers
    BY <1>0, <1>2, BatchFacts, BatchAssumption, SeqFacts DEF CommitScheduleBatch, BatchTypeOK
  <2>2. /\ DOMAIN batches' = DOMAIN batches \cup {b}
        /\ batches'[b].remaining = o.total_amount
        /\ \A i \in DOMAIN batches : batches'[i] = batches[i]
        /\ slotClaimed' = slotClaimed /\ batchCount' = b
    BY <1>2, <2>1 DEF CommitScheduleBatch
  <2>3. PaidSlots(b) = {}
    <3>1. SUFFICES ASSUME NEW slot \in slotClaimed, slot \in BatchOffers[b].root
                   PROVE  FALSE
      BY DEF PaidSlots
    <3>2. PICK c \in 1..batchCount : slot \in BatchOffers[c].root
      BY DEF SInv
    <3>3. c # b /\ c \in DOMAIN BatchOffers
      BY <2>1
    <3> QED
      BY <2>1, <3>1, <3>2, <3>3 DEF RootsDisjoint
  <2>4. \A c : PaidSlots(c)' = PaidSlots(c)
    BY <2>2 DEF PaidSlots
  <2>5. SumFunctionOnSet(SlotAmount, PaidSlots(b)) = 0
    <3>1. SumFunctionOnSet(SlotAmount, PaidSlots(b)) = SumFunctionOnSet(SlotAmount, {})
      BY <2>3, Zenon
    <3> QED
      BY <3>1, SumEmpty
  <2>6. 1..batchCount \subseteq 1..batchCount'
    BY <2>1, <2>2
  <2>7. o.total_amount = o.total_amount - SumFunctionOnSet(SlotAmount, PaidSlots(b))
    BY <2>1, <2>5
  <2> HIDE DEF b
  <2>8. \A slot \in slotClaimed' : \E c \in 1..batchCount' : slot \in BatchOffers[c].root
    BY <2>2, <2>6 DEF SInv
  <2>9. \A c \in DOMAIN batches' :
           batches'[c].remaining =
             BatchOffers[c].total_amount - SumFunctionOnSet(SlotAmount, PaidSlots(c)')
    BY <2>2, <2>4, <2>7 DEF SInv
  <2> QED
    BY <2>8, <2>9 DEF SInv
<1>3. ASSUME NEW b \in DOMAIN batches, NEW slot \in batches[b].root, ClaimScheduleSlot(b, slot)
      PROVE  SInv'
  <2>1. /\ b \in DOMAIN BatchOffers /\ slot \in Slot /\ slot.total_amount \in Int
        /\ slot \in BatchOffers[b].root /\ slot \notin slotClaimed
        /\ slotClaimed' = slotClaimed \cup {slot}
        /\ b \in 1..batchCount /\ batchCount' = batchCount
    BY <1>0, <1>3, BatchFacts DEF ClaimScheduleSlot, SlotClaimable, BInv, BatchTypeOK
  <2>2. /\ DOMAIN batches' = DOMAIN batches
        /\ batches'[b].remaining = batches[b].remaining - slot.total_amount
        /\ \A i \in DOMAIN batches : i # b => batches'[i] = batches[i]
    <3>1. batches[b] \in BatchRecord
      BY <1>0 DEF BatchTypeOK
    <3> QED
      BY <1>3, <3>1 DEF ClaimScheduleSlot, Debited, BatchRecord
  <2>3. ASSUME NEW c \in DOMAIN batches
        PROVE  batches'[c].remaining =
                 BatchOffers[c].total_amount - SumFunctionOnSet(SlotAmount, PaidSlots(c)')
    <3>1. /\ c \in DOMAIN BatchOffers /\ BatchOffers[c].total_amount \in Int
          /\ batches[c].remaining \in Int
      BY <1>0, BatchFacts
    <3>2. /\ SumFunctionOnSet(SlotAmount, PaidSlots(c)) \in Int
          /\ SumFunctionOnSet(SlotAmount, PaidSlots(c)') =
               SumFunctionOnSet(SlotAmount, PaidSlots(c))
                 + (IF slot \in BatchOffers[c].root THEN slot.total_amount ELSE 0)
      BY <1>0, <2>1, <3>1, PaidSlotsStep
    <3>3. batches[c].remaining =
            BatchOffers[c].total_amount - SumFunctionOnSet(SlotAmount, PaidSlots(c))
      BY DEF SInv
    <3>4. CASE c = b
      BY <2>1, <2>2, <3>1, <3>2, <3>3, <3>4
    <3>5. CASE c # b
      <4>1. slot \notin BatchOffers[c].root
        BY <2>1, <3>1, <3>5 DEF RootsDisjoint
      <4> QED
        BY <2>2, <3>1, <3>2, <3>3, <3>5, <4>1
    <3> QED
      BY <3>4, <3>5
  <2> QED
    BY <2>1, <2>2, <2>3 DEF SInv
<1>4. ASSUME NEW b \in DOMAIN batches, ReclaimBatch(b)
      PROVE  SInv'
  <2>1. /\ DOMAIN batches' = DOMAIN batches \ {b} /\ batchCount' = batchCount
        /\ \A i \in DOMAIN batches : i # b => batches'[i] = batches[i]
        /\ slotClaimed' = slotClaimed
    BY <1>4 DEF ReclaimBatch
  <2>2. \A c : PaidSlots(c)' = PaidSlots(c)
    BY <2>1 DEF PaidSlots
  <2> QED
    BY <2>1, <2>2 DEF SInv
<1> QED
  BY <1>1, <1>2, <1>3, <1>4 DEF FundingNext, BatchStep, fundingVars

\* Sums over a batch's claimed slots, as SlotsPaidByTheirBatch writes them.
LEMMA SlotMeaning ==
  ASSUME BatchTypeOK, BInv, SInv
  PROVE  SlotsPaidByTheirBatch
<1> DEFINE f == [slot \in slotClaimed |-> slot.total_amount]
<1>1. SUFFICES ASSUME NEW b \in DOMAIN batches
               PROVE  batches[b].remaining = BatchOffers[b].total_amount
                         - SumFunctionOnSet(f, batches[b].root \cap slotClaimed)
  BY DEF SlotsPaidByTheirBatch
<1>2. batches[b].root \cap slotClaimed = PaidSlots(b)
  BY DEF BInv, PaidSlots
<1>3. IsFiniteSet(PaidSlots(b)) /\ PaidSlots(b) \subseteq Slot
  <2>1. PaidSlots(b) \subseteq BatchOffers[b].root
    BY DEF PaidSlots
  <2> QED
    BY <2>1, BatchFacts, FS_Subset
<1>4. \A slot \in PaidSlots(b) : f[slot] = SlotAmount[slot]
  BY <1>3, BatchFacts DEF PaidSlots
<1> HIDE DEF f
<1>5. SumFunctionOnSet(f, PaidSlots(b)) = SumFunctionOnSet(SlotAmount, PaidSlots(b))
  BY <1>3, <1>4, SumAgrees
<1>6. SumFunctionOnSet(f, batches[b].root \cap slotClaimed) = SumFunctionOnSet(f, PaidSlots(b))
  BY <1>2, Zenon
<1> QED
  BY <1>5, <1>6 DEF SInv

-----------------------------------------------------------------------------
(* Funding: theorems *)

\* A step that changes no variable keeps the invariant.
LEMMA FundingStutter ==
  ASSUME FInv, UNCHANGED fundingVars
  PROVE  FInv'
<1>1. IInv'
  BY StutterStep DEF FInv, fundingVars
<1>2. PInv'
  BY PromisesKept, SameRecords DEF FInv, fundingVars, vars
<1>3. BatchTypeOK'
  BY DEF FInv, fundingVars, batchVars, BatchTypeOK
<1>4. QED
  BY <1>1, <1>2, <1>3 DEF FInv

\* It holds initially, when nothing is stored.
LEMMA FundingInitFInv == FundingInit => FInv
<1> SUFFICES ASSUME FundingInit PROVE FInv
  OBVIOUS
<1>1. IInv
  BY InitIInv DEF FundingInit, BatchInit
<1>2. proposals = <<>> /\ proposals \in Seq(ScheduleProposal) /\ DOMAIN proposals = {}
  <2>1. proposals = <<>>
    BY DEF FundingInit, ProposalInit
  <2>2. QED
    BY <2>1
<1>3. PInv
  BY <1>2 DEF PInv, ProposalTypeOK, ActivatedAsProposed
<1>4. DOMAIN batches = {} /\ batchCount = 0 /\ slotClaimed = {}
  BY DEF FundingInit, BatchInit
<1>5. Len(BatchOffers) \in Nat
  BY BatchAssumption, SeqFacts
<1>6. BatchTypeOK
  BY <1>4, <1>5 DEF FundingInit, BatchInit, BatchTypeOK
<1>7. QED
  BY <1>1, <1>3, <1>6 DEF FInv

\* Batches leave proposals alone, so keeping the grants is all they owe to them.
LEMMA FundingNextFInv == FInv /\ [FundingNext]_fundingVars => FInv'
<1> SUFFICES ASSUME FInv, [FundingNext]_fundingVars PROVE FInv'
  OBVIOUS
<1>0. IInv /\ PInv /\ BatchTypeOK
  BY DEF FInv
<1>1. CASE Next /\ UNCHANGED <<proposals, batchVars>>
  <2>1. IInv'
    BY <1>0, <1>1, NextIInv
  <2>2. PInv'
    BY <1>0, <1>1, NextKeeps, PromisesKept
  <2>3. BatchTypeOK'
    BY <1>0, <1>1 DEF batchVars, BatchTypeOK
  <2>4. QED
    BY <2>1, <2>2, <2>3 DEF FInv
<1>2. CASE ProposalStep /\ UNCHANGED batchVars
  <2>1. BatchTypeOK'
    BY <1>0, <1>2 DEF batchVars, BatchTypeOK
  <2>2. ASSUME NEW g \in Accounts, NEW b \in Accounts, NEW t \in Tokens, NEW o \in Offers,
               ProposeSchedule(g, b, t, o)
        PROVE  IInv' /\ PInv'
    <3>1. IInv'
      BY <1>0, <2>2, StutterStep DEF ProposeSchedule
    <3>2. QED
      BY <1>0, <2>2, <3>1, ProposeStep
  <2>3. ASSUME NEW i \in DOMAIN proposals, AcknowledgeProposal(i) \/ ExpireProposal(i)
        PROVE  IInv' /\ PInv'
    <3>1. IInv'
      BY <1>0, <2>3, StutterStep DEF AcknowledgeProposal, ExpireProposal
    <3>2. QED
      BY <1>0, <2>3, <3>1, MarkStep
  <2>4. IInv' /\ PInv'
    BY <1>0, <1>2, <2>2, <2>3, ActivateStep DEF ProposalStep
  <2>5. QED
    BY <2>1, <2>4 DEF FInv
<1>3. CASE BatchStep /\ UNCHANGED proposals
  <2>1. IInv' /\ KeepsGrants /\ BatchTypeOK'
    BY <1>0, <1>3, CommitStep, ClaimSlotStep, ReclaimStep DEF BatchStep
  <2>2. PInv'
    BY <1>0, <1>3, <2>1, PromisesKept
  <2>3. QED
    BY <2>1, <2>2 DEF FInv
<1>4. CASE UNCHANGED fundingVars
  BY <1>4, FundingStutter
<1>5. QED
  BY <1>1, <1>2, <1>3, <1>4 DEF FundingNext

\* The inductive invariant holds in every reachable state.
THEOREM FundingInvariant == FundingSpec => []FInv
BY FundingInitFInv, FundingNextFInv, PTL DEF FundingSpec

\* Every variable keeps its type, the contract's balance included.
THEOREM FundingTypeCorrect ==
  FundingSpec => [](TypeOK /\ ProposalTypeOK /\ BatchTypeOK)
<1>1. FInv => TypeOK /\ ProposalTypeOK /\ BatchTypeOK
  BY DEF FInv, PInv, IInv
<1>2. QED
  BY <1>1, FundingInvariant, PTL

\* Payouts stay within the grant however a schedule came to be: a grant out of a
\* batch or a proposal is bounded like one that was funded directly.
THEOREM FundedPayoutsBounded == FundingSpec => []PayoutsWithinGrant
<1>1. FInv => PayoutsWithinGrant
  BY InvariantBoundsPayouts DEF FInv
<1>2. QED
  BY <1>1, FundingInvariant, PTL

\* The grantor index is exact and only settled schedules are removed, also with
\* ids handed out to proposals and slots.
THEOREM FundedIndexCorrect == FundingSpec => [](GrantorIndexExact /\ NothingStranded)
<1>1. FInv => GrantorIndexExact /\ NothingStranded
  BY InvariantStrandsNothing DEF FInv, IInv
<1>2. QED
  BY <1>1, FundingInvariant, PTL

\* An activated proposal stands for a schedule of its own, funded and kept as
\* proposed through every later call.
THEOREM ActivationsAsProposed == FundingSpec => []ActivatedAsProposed
<1>1. FInv => ActivatedAsProposed
  BY DEF FInv, PInv
<1>2. QED
  BY <1>1, FundingInvariant, PTL

\* A funded or expired proposal is never funded, expired or acknowledged again.
THEOREM SettledOnce == FundingSpec => SettledIsFinal
<1>1. ASSUME FInv, [FundingNext]_fundingVars
      PROVE  [\A i \in DOMAIN proposals :
                 proposals[i].state \in {"Activated", "Expired"}
                     => proposals'[i] = proposals[i]]_pvars
  <2>1. proposals \in Seq(ScheduleProposal)
    BY <1>1 DEF FInv, PInv, ProposalTypeOK
  <2>2. ASSUME NEW i \in DOMAIN proposals,
               proposals[i].state \in {"Activated", "Expired"}
        PROVE  proposals'[i] = proposals[i]
    <3>1. CASE UNCHANGED proposals
      BY <3>1
    <3>2. ASSUME NEW g \in Accounts, NEW b \in Accounts, NEW t \in Tokens,
                 NEW o \in Offers, ProposeSchedule(g, b, t, o)
          PROVE  proposals'[i] = proposals[i]
      BY <2>1, <3>2, SeqFacts DEF ProposeSchedule
    <3>3. ASSUME NEW j \in DOMAIN proposals,
                 AcknowledgeProposal(j) \/ FundAndActivate(j) \/ ExpireProposal(j)
          PROVE  proposals'[i] = proposals[i]
      <4>1. i # j
        BY <2>2, <3>3 DEF AcknowledgeProposal, FundAndActivate, ExpireProposal, Unsettled
      <4>2. QED
        BY <3>3, <4>1 DEF AcknowledgeProposal, FundAndActivate, ExpireProposal
    <3>4. QED
      BY <1>1, <3>1, <3>2, <3>3 DEF FundingNext, ProposalStep, fundingVars
  <2>3. QED
    BY <2>2
<1>2. QED
  BY <1>1, FundingInvariant, PTL DEF FundingSpec, SettledIsFinal

\* When every deposit covers the slots it is committed with, the balance of each
\* token is exactly what the schedules are owed and what is left of the open
\* batches, in every reachable state without an extended duration.
THEOREM BalanceExact ==
  ASSUME DepositsCover
  PROVE  FundingSpec => []EscrowExact
<1>1. FInv /\ FInv' /\ BInv /\ EInv /\ [FundingNext]_fundingVars => BInv' /\ EInv'
  BY BalanceStep
<1>2. FInv /\ EInv => EscrowExact
  BY BalanceMeaning
<1> QED
  BY <1>1, <1>2, InitBalance, FundingInvariant, PTL DEF FundingSpec

\* Such a batch never hands out more than its deposit.
THEOREM DepositsSuffice ==
  ASSUME DepositsCover
  PROVE  FundingSpec => []FundedFromDeposit
<1>1. FInv /\ FInv' /\ BInv /\ [FundingNext]_fundingVars => BInv'
  BY BalanceStep
<1>2. FInv /\ BInv => FundedFromDeposit
  BY CoveredRemaining DEF FundedFromDeposit, FInv
<1> QED
  BY <1>1, <1>2, InitBalance, FundingInvariant, PTL DEF FundingSpec

\* When no slot stands below two roots, a slot of an open batch counts as claimed
\* exactly when this batch's deposit has paid for it.
THEOREM SlotsPaidOnce ==
  ASSUME RootsDisjoint
  PROVE  FundingSpec => []SlotsPaidByTheirBatch
<1>1. FundingInit => BInv /\ SInv
  BY InitBalance DEF FundingInit, BatchInit, SInv
<1>2. FInv /\ FInv' /\ BInv /\ SInv /\ [FundingNext]_fundingVars => BInv' /\ SInv'
  BY BalanceStep, SlotStep
<1>3. FInv /\ BInv /\ SInv => SlotsPaidByTheirBatch
  BY SlotMeaning DEF FInv
<1> QED
  BY <1>1, <1>2, <1>3, FundingInvariant, PTL DEF FundingSpec
=============================================================================
