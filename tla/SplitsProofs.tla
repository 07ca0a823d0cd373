---------------------------- MODULE SplitsProofs ----------------------------
(***************************************************************************)
(* Proofs about the upgrade authority, multi-token schedules and splits,   *)
(* which share one clock and, the last two, one balance: the notice of an  *)
(* upgrade, the weights of a configuration, the balance behind what is     *)
(* owed, and the rounding of a multi-token grant.                          *)
(***************************************************************************)
EXTENDS Splits, SumTheorems, SequenceTheorems, TLAPS

-----------------------------------------------------------------------------
(* Upgrades *)

\* A pending build has been on display for all of its timelock that is over.
NoticeInv ==
    /\ now \in Nat
    /\ notice \in Nat
    /\ pending # None =>
          /\ pending.executable_at \in Int
          /\ notice >= now + UPGRADE_TIMELOCK_SECONDS - pending.executable_at

\* Every step keeps it.
LEMMA NoticeKept == NoticeInv /\ [SplitsNext]_svars => NoticeInv'
<1> SUFFICES ASSUME NoticeInv, [SplitsNext]_svars
             PROVE  NoticeInv'
  OBVIOUS
<1> USE UpgradeAssumption DEF NoticeInv
<1>1. CASE UNCHANGED <<now, upgradeVars>>
  BY <1>1 DEF upgradeVars
<1>2. CASE Tick
  BY <1>2 DEF Tick
<1>3. ASSUME NEW a \in Authorities,
             InitializeUpgradeAuthority(a) \/ TransferUpgradeAuthority(a)
      PROVE  NoticeInv'
  BY <1>3 DEF InitializeUpgradeAuthority, TransferUpgradeAuthority
<1>4. ASSUME NEW h \in Builds, AnnounceUpgrade(h)
      PROVE  NoticeInv'
  <2>1. /\ pending'.executable_at = now + UPGRADE_TIMELOCK_SECONDS
        /\ now' = now /\ notice' \in Nat
    BY <1>4 DEF AnnounceUpgrade, Announcement
  <2> QED
    BY <2>1
<1>5. CASE CancelUpgrade
  BY <1>5 DEF CancelUpgrade
<1>6. CASE ExecuteUpgrade
  BY <1>6 DEF ExecuteUpgrade
<1> QED
  BY <1>1, <1>2, <1>3, <1>4, <1>5, <1>6
  DEF SplitsNext, UpgradeStep, svars, MultiTokenStep, CreateMultiTokenSchedule,
      ClaimMultiToken

\* Whatever was announced, cancelled and handed over before, the build that is
\* put in place has been on display for the whole timelock (announce_upgrade,
\* execute_upgrade).
THEOREM NoticeKeptByAll == SplitsSpec => NoticeGiven
<1>1. SplitsInit => NoticeInv
  BY DEF SplitsInit, MultiTokenInit, UpgradeInit, NoticeInv
<1>2. NoticeInv /\ [SplitsNext]_svars
         => [code' # code =>
                /\ pending # None
                /\ code' = pending.wasm_hash
                /\ notice >= UPGRADE_TIMELOCK_SECONDS]_<<now, upgradeVars>>
  <2> SUFFICES ASSUME NoticeInv, [SplitsNext]_svars, code' # code
               PROVE  /\ pending # None
                      /\ code' = pending.wasm_hash
                      /\ notice >= UPGRADE_TIMELOCK_SECONDS
    OBVIOUS
  <2>1. ExecuteUpgrade
    BY DEF SplitsNext, UpgradeStep, svars, upgradeVars, Tick, AnnounceUpgrade,
           InitializeUpgradeAuthority, TransferUpgradeAuthority, CancelUpgrade
  <2> QED
    BY <2>1, UpgradeAssumption DEF ExecuteUpgrade, NoticeInv
<1> QED
  BY <1>1, <1>2, NoticeKept, PTL DEF SplitsSpec, NoticeGiven

-----------------------------------------------------------------------------
(* Weights *)

\* The receivers of a list as numbers, for sums.
WeightsOf(rs) == [i \in DOMAIN rs |-> rs[i].weight]

\* The weights of a list add up to an integer, taken over its positions.
LEMMA WeightFacts ==
  ASSUME NEW rs, NEW n \in Nat, DOMAIN rs = 1..n, \A i \in 1..n : rs[i].weight \in Int
  PROVE  /\ IsFiniteSet(1..n)
         /\ \A i \in 1..n : WeightsOf(rs)[i] = rs[i].weight
         /\ WeightOf(rs) = SumFunctionOnSet(WeightsOf(rs), 1..n)
         /\ WeightOf(rs) \in Int
<1>1. IsFiniteSet(1..n)
  BY FS_Interval
<1>2. DOMAIN WeightsOf(rs) = 1..n /\ \A i \in 1..n : WeightsOf(rs)[i] = rs[i].weight
  BY DEF WeightsOf
<1>3. WeightOf(rs) = SumFunctionOnSet(WeightsOf(rs), 1..n)
  BY <1>2, Zenon DEF WeightOf, WeightsOf, SumFunction
<1>4. SumFunctionOnSet(WeightsOf(rs), 1..n) \in Int
  BY <1>1, <1>2, SumInt
<1> QED
  BY <1>1, <1>2, <1>3, <1>4

\* What a division leaves.
LEMMA DivFacts ==
  ASSUME NEW a \in Nat, NEW d \in Nat, d > 0
  PROVE  /\ a \div d \in Nat /\ a % d \in Nat
         /\ d * (a \div d) + (a % d) = a
         /\ a % d <= d - 1
OBVIOUS

\* Shares by weight never add up to more than the amount, nor to less than it by
\* as much as the number of receivers.
LEMMA ShareSum ==
  ASSUME NEW n \in Nat, n > 0, NEW w, \A i \in 1..n : w[i] \in Nat,
         NEW amount \in Nat, NEW S, S = SumFunctionOnSet(w, 1..n), S > 0,
         NEW sh, \A i \in 1..n : sh[i] = (amount * w[i]) \div S
  PROVE  /\ \A i \in 1..n : sh[i] \in Nat
         /\ SumFunctionOnSet(sh, 1..n) \in 0..amount
         /\ amount - SumFunctionOnSet(sh, 1..n) <= n - 1
<1> DEFINE P    == 1..n
           rem  == [i \in P |-> (amount * w[i]) % S]
           all  == [i \in P |-> amount * w[i]]
           part == [i \in P |-> S * sh[i]]
           top  == [i \in P |-> S - 1]
           out  == SumFunctionOnSet(sh, P)
           left == SumFunctionOnSet(rem, P)
<1>1. IsFiniteSet(P) /\ Cardinality(P) = n
  BY FS_Interval
<1>2. S \in Nat
  BY <1>1, SumNat
<1>3. \A i \in P : amount * w[i] \in Nat
  OBVIOUS
<1>4. \A i \in P : /\ sh[i] \in Nat /\ (amount * w[i]) % S \in Nat
                   /\ S * sh[i] + ((amount * w[i]) % S) = amount * w[i]
                   /\ (amount * w[i]) % S <= S - 1
  <2> SUFFICES ASSUME NEW i \in P
               PROVE  /\ sh[i] \in Nat /\ (amount * w[i]) % S \in Nat
                      /\ S * sh[i] + ((amount * w[i]) % S) = amount * w[i]
                      /\ (amount * w[i]) % S <= S - 1
    OBVIOUS
  <2>1. PICK a \in Nat : a = amount * w[i]
    BY <1>3
  <2>2. sh[i] = a \div S
    BY <2>1
  <2> QED
    BY ZenonT(30), <2>1, <2>2, <1>2, DivFacts
<1>5. SumFunctionOnSet(all, P) = amount * S
  <2>1. \A i \in P : w[i] \in Int /\ all[i] = amount * w[i]
    OBVIOUS
  <2> HIDE DEF all
  <2> QED
    BY <2>1, <1>1, SumTimes
<1>6. SumFunctionOnSet(part, P) = S * out
  <2>1. \A i \in P : sh[i] \in Int /\ part[i] = S * sh[i]
    BY <1>4
  <2>2. S \in Int
    BY <1>2
  <2> HIDE DEF part
  <2> QED
    BY <2>1, <2>2, <1>1, SumTimes
<1>7. SumFunctionOnSet(all, P) = SumFunctionOnSet(part, P) + left
  <2>1. \A i \in P : part[i] \in Int /\ rem[i] \in Int /\ all[i] = part[i] + rem[i]
    BY <1>2, <1>4
  <2> HIDE DEF part, rem, all
  <2> QED
    BY <2>1, <1>1, SumPlus
<1>8. left \in Nat /\ left <= (S - 1) * n
  <2>1. \A i \in P : rem[i] \in Nat /\ top[i] = S - 1 /\ rem[i] <= top[i]
    BY <1>2, <1>4
  <2>2. S - 1 \in Int
    BY <1>2
  <2> HIDE DEF rem, top
  <2>3. left \in Nat
    BY <2>1, <1>1, SumNat
  <2>4. SumFunctionOnSet(top, P) = (S - 1) * n
    BY <2>1, <2>2, <1>1, SumConst
  <2>5. \A i \in P : rem[i] \in Int /\ top[i] \in Int /\ rem[i] <= top[i]
    BY <2>1, <2>2
  <2>6. left <= SumFunctionOnSet(top, P)
    BY <2>5, <1>1, SumMonotone
  <2> QED
    BY <2>3, <2>4, <2>6
<1>9. out \in Nat
  BY <1>4, <1>1, SumNat
<1>10. S * out + left = amount * S
  BY <1>5, <1>6, <1>7
<1> HIDE DEF out, left
<1>11. out <= amount
  <2> SUFFICES ASSUME out >= amount + 1
               PROVE  FALSE
    BY <1>9
  <2>1. S * out >= S * (amount + 1)
    BY <1>2, <1>9
  <2>2. S * (amount + 1) = amount * S + S
    BY <1>2
  <2> QED
    BY <2>1, <2>2, <1>2, <1>8, <1>9, <1>10
<1>12. amount - out <= n - 1
  <2> SUFFICES ASSUME amount - out >= n
               PROVE  FALSE
    BY <1>9
  <2>1. PICK d \in Nat : d = amount - out
    BY <1>9, <1>11
  <2>2. S * d = amount * S - S * out
    BY <2>1, <1>2, <1>9
  <2>3. S * d >= S * n
    BY <2>1, <1>2
  <2>4. (S - 1) * n = S * n - n /\ S * n \in Int /\ S * d \in Int
    BY <1>2, <2>1
  <2>5. amount * S \in Int /\ S * out \in Int
    BY <1>2, <1>9
  <2>6. S * d = left
    BY <2>2, <2>5, <1>8, <1>10
  <2> QED
    BY <2>3, <2>4, <2>6, <1>8
<1> QED
  BY <1>4, <1>9, <1>11, <1>12 DEF out

\* The last summand of a list may be split off.
LEMMA SumLast ==
  ASSUME NEW n \in Nat, NEW f, \A i \in 1..(n + 1) : f[i] \in Int
  PROVE  SumFunctionOnSet(f, 1..(n + 1)) = SumFunctionOnSet(f, 1..n) + f[n + 1]
<1>1. IsFiniteSet(1..n)
  BY FS_Interval
<1>2. n + 1 \notin 1..n
  OBVIOUS
<1>3. 1..(n + 1) = (1..n) \cup {n + 1}
  OBVIOUS
<1>4. \A i \in (1..n) \cup {n + 1} : f[i] \in Int
  BY <1>3
<1>5. PICK last : last = n + 1
  OBVIOUS
<1>6. SumFunctionOnSet(f, (1..n) \cup {last}) = SumFunctionOnSet(f, 1..n) + f[last]
  BY <1>1, <1>2, <1>4, <1>5, SumAdd
<1>7. 1..(n + 1) = (1..n) \cup {last}
  BY <1>3, <1>5
<1>8. SumFunctionOnSet(f, 1..(n + 1)) = SumFunctionOnSet(f, (1..n) \cup {last})
  BY <1>7, Zenon
<1> QED
  BY <1>5, <1>6, <1>8

\* So may any other.
LEMMA SumWithout ==
  ASSUME NEW n \in Nat, NEW f, \A i \in 1..n : f[i] \in Int, NEW at \in 1..n
  PROVE  SumFunctionOnSet(f, 1..n) = f[at] + SumFunctionOnSet(f, (1..n) \ {at})
<1>1. IsFiniteSet(1..n)
  BY FS_Interval
<1> QED
  BY <1>1, SumRemove

\* Positive numbers, one at least, have a positive sum.
LEMMA SumPositive ==
  ASSUME NEW n \in Nat, n > 0, NEW f, \A i \in 1..n : f[i] \in Nat /\ f[i] > 0
  PROVE  SumFunctionOnSet(f, 1..n) > 0
<1>1. IsFiniteSet(1..n)
  BY FS_Interval
<1>2. 1 \in 1..n /\ \A i \in 1..n : f[i] \in Int
  OBVIOUS
<1>3. SumFunctionOnSet(f, 1..n) = f[1] + SumFunctionOnSet(f, (1..n) \ {1})
  BY <1>2, SumWithout
<1>4. IsFiniteSet((1..n) \ {1})
  BY <1>1, FS_RemoveElement
<1>5. SumFunctionOnSet(f, (1..n) \ {1}) \in Nat
  BY <1>4, SumNat
<1> QED
  BY <1>2, <1>3, <1>5

\* A configuration as it is stored.
Configuration ==
    {rs \in Seq(SplitReceiver) :
        /\ \A i \in DOMAIN rs : rs[i].weight > 0
        /\ WeightOf(rs) <= TOTAL_SPLITS_WEIGHT}

\* An account's configuration.
WeightInv == splits \in [Accounts -> Configuration]

\* A list is a sequence of receivers over its positions.
LEMMA ListFacts ==
  ASSUME NEW rs \in Seq(SplitReceiver)
  PROVE  /\ Len(rs) \in Nat /\ DOMAIN rs = 1..Len(rs)
         /\ \A i \in 1..Len(rs) : rs[i] \in SplitReceiver /\ rs[i].weight \in Nat
         /\ WeightOf(rs) = SumFunctionOnSet(WeightsOf(rs), 1..Len(rs))
         /\ WeightOf(rs) \in Nat
<1>1. Len(rs) \in Nat /\ DOMAIN rs = 1..Len(rs)
  BY LenProperties
<1>2. \A i \in 1..Len(rs) : rs[i] \in SplitReceiver
  BY <1>1, ElementOfSeq
<1>3. \A i \in 1..Len(rs) : rs[i].weight \in Nat
  BY <1>2 DEF SplitReceiver
<1>4. /\ IsFiniteSet(1..Len(rs))
      /\ \A i \in 1..Len(rs) : WeightsOf(rs)[i] = rs[i].weight
      /\ WeightOf(rs) = SumFunctionOnSet(WeightsOf(rs), 1..Len(rs))
  <2>1. \A i \in 1..Len(rs) : rs[i].weight \in Int
    BY <1>3
  <2> QED
    BY <1>1, <2>1, WeightFacts
<1>5. WeightOf(rs) \in Nat
  BY <1>3, <1>4, SumNat
<1> QED
  BY <1>1, <1>2, <1>3, <1>4, <1>5

\* A receiver whose weight is changed is still one.
LEMMA Reweighed ==
  ASSUME NEW r \in SplitReceiver, NEW w \in Nat
  PROVE  [r EXCEPT !.weight = w] \in SplitReceiver /\ [r EXCEPT !.weight = w].weight = w
BY DEF SplitReceiver

\* set_splits stores nothing but an empty list or one that makes up the whole.
LEMMA SetSplitsStep ==
  ASSUME WeightInv, NEW a \in Accounts, NEW rs \in Lists, SetSplits(a, rs)
  PROVE  WeightInv'
<1>1. rs \in Seq(SplitReceiver) /\ TOTAL_SPLITS_WEIGHT \in Nat
  BY SplitsAssumption
<1>2. /\ \A i \in DOMAIN rs : rs[i].weight > 0
      /\ splits' = [splits EXCEPT ![a] = rs]
  BY <1>1 DEF SetSplits
<1>3. WeightOf(rs) <= TOTAL_SPLITS_WEIGHT
  <2>1. CASE rs = <<>>
    <3>1. WeightOf(rs) = SumFunctionOnSet(WeightsOf(rs), 1..Len(rs))
      BY <1>1, ListFacts
    <3>2. 1..Len(rs) = {}
      BY <2>1
    <3>3. SumFunctionOnSet(WeightsOf(rs), 1..Len(rs)) = 0
      BY <3>2, SumEmpty
    <3> QED
      BY <3>1, <3>3, <1>1
  <2> QED
    BY <1>1, <2>1 DEF SetSplits
<1> QED
  BY <1>1, <1>2, <1>3 DEF WeightInv, Configuration

\* add_splits_receiver scales the others down to the room the newcomer leaves.
LEMMA AddSplitsReceiverStep ==
  ASSUME WeightInv, NEW a \in Accounts, NEW r \in Receivers, NEW weight,
         AddSplitsReceiver(a, r, weight)
  PROVE  WeightInv'
<1> DEFINE old    == splits[a]
           n      == Len(old)
           down   == [i \in 1..n |-> (old[i].weight * Room(weight)) \div WeightOf(old)]
           scaled == [i \in DOMAIN old |->
                         [old[i] EXCEPT !.weight = (@ * Room(weight)) \div WeightOf(old)]]
           new    == Append(scaled, [receiver |-> r, weight |-> weight])
<1>1. /\ TOTAL_SPLITS_WEIGHT \in Nat
      /\ old \in Seq(SplitReceiver) /\ \A i \in DOMAIN old : old[i].weight > 0
  BY SplitsAssumption DEF WeightInv, Configuration
<1>2. /\ n \in Nat /\ DOMAIN old = 1..n
      /\ \A i \in 1..n : old[i] \in SplitReceiver /\ old[i].weight \in Nat
      /\ WeightOf(old) = SumFunctionOnSet(WeightsOf(old), 1..n)
      /\ WeightOf(old) \in Nat
  BY <1>1, ListFacts
<1>3. /\ weight \in 1..TOTAL_SPLITS_WEIGHT
      /\ \A i \in DOMAIN scaled : scaled[i].weight > 0
      /\ splits' = [splits EXCEPT ![a] = new]
  BY DEF AddSplitsReceiver
<1>4. Room(weight) \in Nat /\ Room(weight) = TOTAL_SPLITS_WEIGHT - weight
  BY <1>1, <1>3 DEF Room
<1> HIDE DEF n
<1>5. /\ \A i \in 1..n : down[i] \in Nat
      /\ SumFunctionOnSet(down, 1..n) \in 0..Room(weight)
  <2>1. CASE n = 0
    <3>1. 1..n = {}
      BY <2>1
    <3>2. SumFunctionOnSet(down, 1..n) = 0
      BY <3>1, SumEmpty
    <3> QED
      BY <3>1, <3>2, <1>4
  <2>2. CASE n > 0
    <3>1. \A i \in 1..n : WeightsOf(old)[i] = old[i].weight
      BY <1>2 DEF WeightsOf
    <3>2. WeightOf(old) > 0
      <4>1. \A i \in 1..n : WeightsOf(old)[i] \in Nat /\ WeightsOf(old)[i] > 0
        BY <1>1, <1>2, <3>1
      <4> QED
        BY <1>2, <2>2, <4>1, SumPositive
    <3>3. \A i \in 1..n : down[i] = (Room(weight) * WeightsOf(old)[i]) \div WeightOf(old)
      BY <1>2, <1>4, <3>1
    <3>4. \A i \in 1..n : WeightsOf(old)[i] \in Nat
      BY <1>2, <3>1
    <3> HIDE DEF down
    <3> QED
      BY ZenonT(30), <1>2, <1>4, <2>2, <3>2, <3>3, <3>4, ShareSum
  <2> QED
    BY <1>2, <2>1, <2>2
<1>6. /\ scaled \in Seq(SplitReceiver) /\ Len(scaled) = n
      /\ \A i \in 1..n : scaled[i].weight = down[i]
  <2>1. \A i \in 1..n : /\ scaled[i] \in SplitReceiver
                        /\ scaled[i].weight = down[i]
    <3> SUFFICES ASSUME NEW i \in 1..n
                 PROVE  scaled[i] \in SplitReceiver /\ scaled[i].weight = down[i]
      OBVIOUS
    <3>1. scaled[i] = [old[i] EXCEPT !.weight = down[i]]
      BY <1>2
    <3>2. down[i] \in Nat /\ old[i] \in SplitReceiver
      BY <1>2, <1>5
    <3> HIDE DEF scaled, down
    <3> QED
      BY <3>1, <3>2, Reweighed
  <2>2. scaled = [i \in 1..n |-> scaled[i]]
    BY <1>2
  <2> HIDE DEF scaled
  <2>3. scaled \in [1..n -> SplitReceiver]
    BY <2>1, <2>2
  <2> QED
    BY <1>2, <2>1, <2>3, SeqDef, LenProperties, IsASeq
<1>7. [receiver |-> r, weight |-> weight] \in SplitReceiver
  BY <1>3 DEF SplitReceiver
<1> HIDE DEF scaled
<1>8. /\ new \in Seq(SplitReceiver) /\ Len(new) = n + 1
      /\ \A i \in 1..n : new[i] = scaled[i]
      /\ new[n + 1] = [receiver |-> r, weight |-> weight]
  BY <1>6, <1>7, AppendProperties
<1> HIDE DEF new
<1>9. \A i \in DOMAIN new : new[i].weight > 0
  <2>1. DOMAIN new = 1..(n + 1) /\ DOMAIN scaled = 1..n
    BY <1>6, <1>8, LenProperties
  <2>2. \A i \in 1..(n + 1) : i \in 1..n \/ i = n + 1
    BY <1>2
  <2>3. new[n + 1].weight = weight
    BY <1>8
  <2> QED
    BY <1>3, <1>8, <2>1, <2>2, <2>3
<1>10. WeightOf(new) = SumFunctionOnSet(down, 1..n) + weight
  <2>1. /\ WeightOf(new) = SumFunctionOnSet(WeightsOf(new), 1..(n + 1))
        /\ DOMAIN new = 1..(n + 1)
        /\ \A i \in 1..(n + 1) : new[i].weight \in Int
    BY <1>8, ListFacts
  <2>2. \A i \in 1..(n + 1) : WeightsOf(new)[i] = new[i].weight
    BY <2>1 DEF WeightsOf
  <2>3. n + 1 \in 1..(n + 1) /\ \A i \in 1..n : i \in 1..(n + 1)
    BY <1>2
  <2>4. SumFunctionOnSet(WeightsOf(new), 1..(n + 1))
           = SumFunctionOnSet(WeightsOf(new), 1..n) + WeightsOf(new)[n + 1]
    BY <1>2, <2>1, <2>2, SumLast
  <2>5. SumFunctionOnSet(WeightsOf(new), 1..n) = SumFunctionOnSet(down, 1..n)
    <3>1. \A i \in 1..n : WeightsOf(new)[i] = down[i]
      BY <1>6, <1>8, <2>2, <2>3
    <3>2. IsFiniteSet(1..n)
      BY <1>2, FS_Interval
    <3> HIDE DEF down
    <3> QED
      BY <3>1, <3>2, SumAgrees
  <2>6. WeightsOf(new)[n + 1] = weight
    BY <1>8, <2>2, <2>3
  <2> QED
    BY <2>1, <2>4, <2>5, <2>6
<1>11. WeightOf(new) <= TOTAL_SPLITS_WEIGHT
  BY <1>1, <1>3, <1>4, <1>5, <1>10
<1> QED
  BY <1>3, <1>8, <1>9, <1>11 DEF WeightInv, Configuration

\* An address appears in a list here, and not before.
FirstAt(s, r, i) ==
    s[i].receiver = r /\ \A j \in 1..(i - 1) : s[j].receiver # r

\* One that appears at all does so for a first time.
LEMMA FirstAppearance ==
  ASSUME NEW n \in Nat, NEW s, NEW r, \E i \in 1..n : s[i].receiver = r
  PROVE  \E i \in 1..n : FirstAt(s, r, i)
<1> DEFINE B == {T \in SUBSET (1..n) : \E i \in 1..n : T = 1..i /\ s[i].receiver = r}
<1>1. IsFiniteSet(1..n)
  BY FS_Interval
<1>2. B # {} /\ B \subseteq SUBSET (1..n)
  <2>1. PICK i \in 1..n : s[i].receiver = r
    OBVIOUS
  <2>2. 1..i \in B
    BY <2>1
  <2> QED
    BY <2>2
<1>3. PICK T \in B : \A U \in B : U \subseteq T => U = T
  <2>1. PICK S : S = 1..n
    OBVIOUS
  <2> HIDE DEF B
  <2>2. IsFiniteSet(S) /\ B \subseteq SUBSET S /\ B # {}
    BY <1>1, <1>2, <2>1
  <2> QED
    BY <2>2, MinimalSubset
<1>4. PICK i \in 1..n : T = 1..i /\ s[i].receiver = r
  OBVIOUS
<1>5. ASSUME NEW j \in 1..(i - 1), s[j].receiver = r
      PROVE  FALSE
  <2>1. 1..j \in B /\ 1..j \subseteq T
    BY <1>4, <1>5
  <2>2. 1..j = T
    BY <1>3, <2>1
  <2>3. i \in 1..i /\ i \notin 1..j
    OBVIOUS
  <2> QED
    BY <1>4, <2>2, <2>3
<1> QED
  BY <1>4, <1>5 DEF FirstAt

\* What is left when one position of a list is taken out.
LEMMA RemoveAtFacts ==
  ASSUME NEW S, NEW s \in Seq(S), NEW at \in 1..Len(s)
  PROVE  /\ RemoveAt(s, at) \in Seq(S)
         /\ Len(RemoveAt(s, at)) = Len(s) - 1
         /\ \A i \in 1..(Len(s) - 1) :
               RemoveAt(s, at)[i] = IF i < at THEN s[i] ELSE s[i + 1]
<1> DEFINE a == SubSeq(s, 1, at - 1)
           b == SubSeq(s, at + 1, Len(s))
<1>1. /\ Len(s) \in Nat /\ \A i \in 1..Len(s) : s[i] \in S
      /\ at \in Int /\ 1 \in Int /\ at - 1 \in Int /\ at + 1 \in Int /\ Len(s) \in Int
  BY LenProperties, ElementOfSeq
<1>2. /\ a \in Seq(S) /\ Len(a) = at - 1
      /\ \A i \in 1..(at - 1) : a[i] = s[i]
  <2>1. \A i \in 1..(at - 1) : s[i] \in S
    BY <1>1
  <2>2. /\ a \in Seq(S) /\ Len(a) = IF 1 <= at - 1 THEN (at - 1) - 1 + 1 ELSE 0
        /\ \A i \in 1..((at - 1) - 1 + 1) : a[i] = s[1 + i - 1]
    BY <1>1, <2>1, SubSeqProperties
  <2> HIDE DEF a
  <2> QED
    BY <1>1, <2>2
<1>3. /\ b \in Seq(S) /\ Len(b) = Len(s) - at
      /\ \A i \in 1..(Len(s) - at) : b[i] = s[at + i]
  <2>1. \A i \in (at + 1)..Len(s) : s[i] \in S
    BY <1>1
  <2>2. /\ b \in Seq(S)
        /\ Len(b) = IF at + 1 <= Len(s) THEN Len(s) - (at + 1) + 1 ELSE 0
        /\ \A i \in 1..(Len(s) - (at + 1) + 1) : b[i] = s[(at + 1) + i - 1]
    BY <1>1, <2>1, SubSeqProperties
  <2> HIDE DEF b
  <2> QED
    BY <1>1, <2>2
<1>4. RemoveAt(s, at) = a \o b
  BY DEF RemoveAt
<1> HIDE DEF a, b
<1>5. /\ a \o b \in Seq(S) /\ Len(a \o b) = Len(a) + Len(b)
      /\ \A i \in 1..(Len(a) + Len(b)) :
            (a \o b)[i] = IF i <= Len(a) THEN a[i] ELSE b[i - Len(a)]
  BY <1>2, <1>3, ConcatProperties
<1>6. \A i \in 1..(Len(s) - 1) : (a \o b)[i] = IF i < at THEN s[i] ELSE s[i + 1]
  <2> SUFFICES ASSUME NEW i \in 1..(Len(s) - 1)
               PROVE  (a \o b)[i] = IF i < at THEN s[i] ELSE s[i + 1]
    OBVIOUS
  <2>1. (a \o b)[i] = IF i <= at - 1 THEN a[i] ELSE b[i - (at - 1)]
    <3>1. Len(a) + Len(b) = Len(s) - 1 /\ Len(a) = at - 1
      BY <1>1, <1>2, <1>3
    <3>2. i \in 1..(Len(a) + Len(b))
      BY <3>1
    <3>3. (a \o b)[i] = IF i <= Len(a) THEN a[i] ELSE b[i - Len(a)]
      BY <1>5, <3>2
    <3> QED
      BY <3>1, <3>3
  <2>2. CASE i < at
    <3>1. i \in 1..(at - 1) /\ i <= at - 1
      BY <1>1, <2>2
    <3>2. a[i] = s[i]
      BY <1>2, <3>1
    <3> QED
      BY <2>1, <2>2, <3>1, <3>2
  <2>3. CASE i >= at
    <3>1. i - (at - 1) \in 1..(Len(s) - at) /\ at + (i - (at - 1)) = i + 1
      BY <1>1, <2>3
    <3>2. b[i - (at - 1)] = s[i + 1]
      BY <1>3, <3>1
    <3>3. ~(i <= at - 1) /\ ~(i < at)
      BY <1>1, <2>3
    <3> QED
      BY <2>1, <3>2, <3>3
  <2>4. i < at \/ i >= at
    BY <1>1
  <2> QED
    BY <2>2, <2>3, <2>4
<1> QED
  BY <1>1, <1>2, <1>3, <1>4, <1>5, <1>6

\* remove_splits_receiver shares the weight that becomes free among those left.
LEMMA RemoveSplitsReceiverStep ==
  ASSUME WeightInv, NEW a \in Accounts, NEW r, RemoveSplitsReceiver(a, r)
  PROVE  WeightInv'
<1> DEFINE old   == splits[a]
           n     == Len(old)
           first == CHOOSE i \in DOMAIN old :
                       old[i].receiver = r /\ \A j \in 1..(i - 1) : old[j].receiver # r
           left  == RemoveAt(old, first)
           grown == [i \in DOMAIN left |->
                        [left[i] EXCEPT !.weight =
                            @ + old[first].weight \div Len(left)
                              + (IF i = 1 THEN old[first].weight % Len(left) ELSE 0)]]
<1>1. /\ TOTAL_SPLITS_WEIGHT \in Nat
      /\ old \in Seq(SplitReceiver) /\ \A i \in DOMAIN old : old[i].weight > 0
      /\ WeightOf(old) <= TOTAL_SPLITS_WEIGHT
  BY SplitsAssumption DEF WeightInv, Configuration
<1>2. /\ n \in Nat /\ DOMAIN old = 1..n
      /\ \A i \in 1..n : old[i] \in SplitReceiver /\ old[i].weight \in Nat
      /\ WeightOf(old) = SumFunctionOnSet(WeightsOf(old), 1..n)
      /\ WeightOf(old) \in Nat
  BY <1>1, ListFacts
<1>3. /\ \E i \in DOMAIN old : old[i].receiver = r
      /\ splits' = [splits EXCEPT ![a] = grown]
  BY DEF RemoveSplitsReceiver
<1> HIDE DEF n
<1>4. first \in 1..n
  <2>1. \E i \in 1..n : old[i].receiver = r
    BY <1>2, <1>3
  <2>2. n \in Nat
    BY <1>2
  <2> HIDE DEF old
  <2>3. PICK i \in 1..n : FirstAt(old, r, i)
    BY <2>1, <2>2, FirstAppearance
  <2> QED
    BY <1>2, <2>3 DEF FirstAt
<1> HIDE DEF first
<1>5. /\ left \in Seq(SplitReceiver) /\ Len(left) = n - 1
      /\ \A i \in 1..(n - 1) : left[i] = IF i < first THEN old[i] ELSE old[i + 1]
  BY <1>1, <1>4, RemoveAtFacts DEF n
<1> HIDE DEF left
<1> DEFINE m    == n - 1
           free == old[first].weight
           add  == [i \in 1..m |-> free \div m + (IF i = 1 THEN free % m ELSE 0)]
<1>6. /\ m \in Nat /\ DOMAIN left = 1..m /\ free \in Nat
      /\ \A i \in 1..m : left[i] \in SplitReceiver /\ left[i].weight \in Nat
  BY <1>2, <1>4, <1>5, ListFacts
<1> HIDE DEF m
<1>7. \A i \in 1..m : left[i].weight > 0
  <2> SUFFICES ASSUME NEW i \in 1..m
               PROVE  left[i].weight > 0
    OBVIOUS
  <2>1. i \in 1..n /\ i + 1 \in 1..n
    BY <1>2 DEF m
  <2> QED
    BY <1>1, <1>2, <1>5, <2>1 DEF m
<1>8. WeightOf(old) = free + SumFunctionOnSet(WeightsOf(left), 1..m)
  <2> DEFINE at == [i \in 1..m |-> IF i < first THEN i ELSE i + 1]
             U  == (1..n) \ {first}
  <2>1. IsFiniteSet(1..n) /\ IsFiniteSet(1..m) /\ IsFiniteSet(U)
    <3>1. IsFiniteSet(1..n)
      <4>1. n \in Nat
        BY <1>2
      <4> HIDE DEF old
      <4> QED
        BY <4>1, FS_Interval
    <3>2. IsFiniteSet(1..m)
      BY <1>6, FS_Interval
    <3> QED
      BY <3>1, <3>2, FS_RemoveElement
  <2>2. \A i \in 1..n : WeightsOf(old)[i] = old[i].weight /\ WeightsOf(old)[i] \in Int
    BY <1>2 DEF WeightsOf
  <2>3. SumFunctionOnSet(WeightsOf(old), 1..n)
           = WeightsOf(old)[first] + SumFunctionOnSet(WeightsOf(old), U)
    BY <1>2, <1>4, <2>2, SumWithout DEF U
  <2>4. \A i \in 1..m : /\ at[i] \in U
                        /\ WeightsOf(old)[at[i]] = WeightsOf(left)[i]
                        /\ WeightsOf(left)[i] \in Int
    <3> SUFFICES ASSUME NEW i \in 1..m
                 PROVE  /\ at[i] \in U
                        /\ WeightsOf(old)[at[i]] = WeightsOf(left)[i]
                        /\ WeightsOf(left)[i] \in Int
      OBVIOUS
    <3>1. at[i] \in U
      BY <1>2, <1>4 DEF m
    <3>2. left[i] = old[at[i]]
      BY <1>5 DEF m
    <3>3. WeightsOf(left)[i] = left[i].weight
      BY <1>6 DEF WeightsOf
    <3> HIDE DEF at
    <3> QED
      BY <1>6, <2>2, <3>1, <3>2, <3>3
  <2>5. \A i, j \in 1..m : at[i] = at[j] => i = j
    BY <1>2, <1>4 DEF m
  <2>6. \A u \in U : \E i \in 1..m : at[i] = u
    <3> SUFFICES ASSUME NEW u \in U
                 PROVE  \E i \in 1..m : at[i] = u
      OBVIOUS
    <3>1. CASE u < first
      <4>1. u \in 1..m /\ at[u] = u
        BY <1>2, <1>4, <3>1 DEF m
      <4> QED
        BY <4>1
    <3>2. CASE u > first
      <4>1. u - 1 \in 1..m /\ at[u - 1] = u
        BY <1>2, <1>4, <3>2 DEF m
      <4> QED
        BY <4>1
    <3> QED
      BY <1>2, <1>4, <3>1, <3>2
  <2> HIDE DEF at, U
  <2>7. SumFunctionOnSet(WeightsOf(old), U) = SumFunctionOnSet(WeightsOf(left), 1..m)
    <3>1. PICK P : P = 1..m
      OBVIOUS
    <3>2. \A i \in P : /\ at[i] \in U /\ WeightsOf(old)[at[i]] = WeightsOf(left)[i]
                       /\ WeightsOf(left)[i] \in Int
      BY <2>4, <3>1
    <3>3. /\ \A i, j \in P : at[i] = at[j] => i = j
          /\ \A u \in U : \E i \in P : at[i] = u
          /\ IsFiniteSet(P) /\ IsFiniteSet(U)
      BY <2>1, <2>5, <2>6, <3>1
    <3>4. SumFunctionOnSet(WeightsOf(old), U) = SumFunctionOnSet(WeightsOf(left), P)
      BY <3>2, <3>3, SumReindex
    <3> QED
      BY <3>1, <3>4
  <2> QED
    BY <1>2, <1>4, <2>2, <2>3, <2>7
<1>9. /\ \A i \in 1..m : add[i] \in Nat
      /\ m > 0 => SumFunctionOnSet(add, 1..m) = free
  <2>1. CASE m = 0
    BY <2>1
  <2>2. CASE m > 0
    <3> DEFINE q     == free \div m
               rem   == free % m
               even  == [i \in 1..m |-> q]
               extra == [i \in 1..m |-> IF i = 1 THEN rem ELSE 0]
    <3>1. q \in Nat /\ rem \in Nat /\ m * q + rem = free
      BY <1>6, <2>2, DivFacts
    <3>2. IsFiniteSet(1..m) /\ Cardinality(1..m) = m /\ 1 \in 1..m
      BY <1>6, <2>2, FS_Interval
    <3>3. \A i \in 1..m : add[i] = even[i] + extra[i]
      OBVIOUS
    <3> HIDE DEF q, rem, add
    <3>4. \A i \in 1..m : even[i] = q /\ even[i] \in Int /\ extra[i] \in Nat
      BY <3>1
    <3>5. extra[1] = rem /\ \A i \in (1..m) \ {1} : extra[i] = 0
      BY <3>2
    <3> HIDE DEF even, extra
    <3>6. SumFunctionOnSet(even, 1..m) = q * m
      <4>1. q \in Int
        BY <3>1
      <4> QED
        BY <3>2, <3>4, <4>1, SumConst
    <3>7. SumFunctionOnSet(extra, 1..m) = rem
      <4>1. \A i \in 1..m : extra[i] \in Int
        BY <3>4
      <4>2. SumFunctionOnSet(extra, 1..m)
               = extra[1] + SumFunctionOnSet(extra, (1..m) \ {1})
        BY <1>6, <3>2, <4>1, SumWithout
      <4>3. IsFiniteSet((1..m) \ {1})
        BY <3>2, FS_RemoveElement
      <4>4. SumFunctionOnSet(extra, (1..m) \ {1}) = 0
        BY <3>5, <4>3, SumZero
      <4> QED
        BY <3>1, <3>5, <4>2, <4>4
    <3>8. \A i \in 1..m : /\ even[i] \in Int /\ extra[i] \in Int
                          /\ add[i] = even[i] + extra[i]
      BY <3>3, <3>4
    <3>9. SumFunctionOnSet(add, 1..m)
             = SumFunctionOnSet(even, 1..m) + SumFunctionOnSet(extra, 1..m)
      BY <1>6, <3>2, <3>8, SumPlus
    <3>10. q * m = m * q
      BY <1>6, <3>1
    <3>11. \A i \in 1..m : add[i] \in Nat
      BY <3>1, <3>3, <3>4
    <3> QED
      BY <3>1, <3>6, <3>7, <3>9, <3>10, <3>11
  <2> QED
    BY <1>6, <2>1, <2>2
<1>10. DOMAIN grown = 1..m /\ \A i \in 1..m :
          grown[i] \in SplitReceiver /\ grown[i].weight = left[i].weight + add[i]
  <2>1. DOMAIN grown = 1..m
    BY <1>6
  <2> SUFFICES ASSUME NEW i \in 1..m
               PROVE  /\ grown[i] \in SplitReceiver
                      /\ grown[i].weight = left[i].weight + add[i]
    BY <2>1
  <2>2. Len(left) = m
    BY <1>5 DEF m
  <2>3. grown[i] = [left[i] EXCEPT !.weight =
                       left[i].weight + free \div m + (IF i = 1 THEN free % m ELSE 0)]
    BY <1>6, <2>2
  <2>4. left[i].weight + free \div m + (IF i = 1 THEN free % m ELSE 0)
           = left[i].weight + add[i]
    <3>1. m > 0
      BY <1>6
    <3>2. free \div m \in Nat /\ free % m \in Nat
      BY <3>1, <1>6, DivFacts
    <3>3. add[i] = free \div m + (IF i = 1 THEN free % m ELSE 0)
      OBVIOUS
    <3> HIDE DEF free, add
    <3> QED
      BY <1>6, <3>2, <3>3
  <2>5. left[i].weight + add[i] \in Nat /\ left[i] \in SplitReceiver
    <3> HIDE DEF add
    <3> QED
      BY <1>6, <1>9
  <2>6. grown[i] = [left[i] EXCEPT !.weight = left[i].weight + add[i]]
    BY <2>3, <2>4
  <2> HIDE DEF grown, add
  <2> QED
    BY <2>5, <2>6, Reweighed
<1>11. grown \in Seq(SplitReceiver) /\ Len(grown) = m
  <2>1. grown = [i \in 1..m |-> grown[i]]
    BY <1>6
  <2> HIDE DEF grown
  <2>2. grown \in [1..m -> SplitReceiver]
    BY <1>10, <2>1
  <2> QED
    BY <1>6, <1>10, <2>2, SeqDef, LenProperties, IsASeq
<1> HIDE DEF grown, add, free
<1>12. \A i \in DOMAIN grown : grown[i].weight > 0
  <2> SUFFICES ASSUME NEW i \in 1..m
               PROVE  grown[i].weight > 0
    BY <1>10
  <2>1. left[i].weight \in Nat /\ left[i].weight > 0 /\ add[i] \in Nat
    BY <1>6, <1>7, <1>9
  <2> QED
    BY <1>10, <2>1
<1>13. WeightOf(grown) <= WeightOf(old)
  <2>1. WeightOf(grown) = SumFunctionOnSet(WeightsOf(grown), 1..m)
    BY <1>11, ListFacts
  <2>2. IsFiniteSet(1..m)
    BY <1>6, FS_Interval
  <2>3. CASE m = 0
    <3>1. 1..m = {}
      BY <2>3
    <3>2. SumFunctionOnSet(WeightsOf(grown), 1..m) = 0
      BY <3>1, SumEmpty
    <3> QED
      BY <2>1, <3>2, <1>2
  <2>4. CASE m > 0
    <3>1. \A i \in 1..m : /\ WeightsOf(left)[i] \in Int /\ add[i] \in Int
                          /\ WeightsOf(grown)[i] = WeightsOf(left)[i] + add[i]
      BY <1>6, <1>9, <1>10 DEF WeightsOf
    <3>2. SumFunctionOnSet(WeightsOf(grown), 1..m)
             = SumFunctionOnSet(WeightsOf(left), 1..m) + SumFunctionOnSet(add, 1..m)
      BY <1>6, <2>2, <3>1, SumPlus
    <3>3. SumFunctionOnSet(WeightsOf(left), 1..m) \in Int
      BY <2>2, <3>1, SumInt
    <3> QED
      BY <1>2, <1>6, <1>8, <1>9, <2>1, <2>4, <3>2, <3>3
  <2> QED
    BY <1>6, <2>3, <2>4
<1>14. WeightOf(grown) \in Nat
  BY <1>11, ListFacts
<1>15. WeightOf(grown) <= TOTAL_SPLITS_WEIGHT
  BY <1>1, <1>2, <1>13, <1>14
<1> QED
  BY <1>3, <1>11, <1>12, <1>15 DEF WeightInv, Configuration

\* Configurations stay sound in every step.
LEMMA WeightKept == WeightInv /\ [SplitsNext]_svars => WeightInv'
<1> SUFFICES ASSUME WeightInv, [SplitsNext]_svars
             PROVE  WeightInv'
  OBVIOUS
<1>1. CASE UNCHANGED splits
  BY <1>1 DEF WeightInv
<1>2. ASSUME NEW a \in Accounts, NEW rs \in Lists, SetSplits(a, rs)
      PROVE  WeightInv'
  BY <1>2, SetSplitsStep
<1>3. ASSUME NEW a \in Accounts, NEW r \in Receivers, NEW w \in Weights,
             AddSplitsReceiver(a, r, w)
      PROVE  WeightInv'
  BY <1>3, AddSplitsReceiverStep
<1>4. ASSUME NEW a \in Accounts, NEW r \in Receivers, RemoveSplitsReceiver(a, r)
      PROVE  WeightInv'
  BY <1>4, RemoveSplitsReceiverStep
<1>5. ASSUME NEW a \in Accounts, NEW t \in Tokens, NEW n \in Amounts, Split(a, t, n)
      PROVE  UNCHANGED splits
  BY <1>5 DEF Split
<1>6. ASSUME NEW nft \in Nfts, NEW o \in Receivers \cup {None}, NftMoves(nft, o)
      PROVE  UNCHANGED splits
  BY <1>6 DEF NftMoves
<1> QED
  BY <1>1, <1>2, <1>3, <1>4, <1>5, <1>6 DEF SplitsNext, SplitsStep, svars, splitVars

\* Every account starts without a configuration.
LEMMA InitWeights == SplitsInit => WeightInv
<1> SUFFICES ASSUME SplitsInit
             PROVE  WeightInv
  OBVIOUS
<1>1. TOTAL_SPLITS_WEIGHT \in Nat
  BY SplitsAssumption
<1>2. << >> \in Seq(SplitReceiver) /\ DOMAIN << >> = 1..0 /\ 1..0 = {}
  BY EmptySeq
<1>3. WeightOf(<< >>) = 0
  <2>1. DOMAIN [i \in DOMAIN << >> |-> (<< >>)[i].weight] = {}
    BY <1>2
  <2>2. WeightOf(<< >>)
           = SumFunctionOnSet([i \in DOMAIN << >> |-> (<< >>)[i].weight], {})
    BY <2>1, Zenon DEF WeightOf, SumFunction
  <2> QED
    BY <2>2, SumEmpty
<1>4. << >> \in Configuration
  BY <1>1, <1>2, <1>3 DEF Configuration
<1> QED
  BY <1>4 DEF SplitsInit, WeightInv

\* However a configuration was set, grown and shrunk, its weights are positive and
\* stay within the whole (set_splits, add_splits_receiver,
\* remove_splits_receiver).
THEOREM WeightsStayWithin == SplitsSpec => []WeightsWithinWhole
<1>1. WeightInv => WeightsWithinWhole
  BY DEF WeightInv, WeightsWithinWhole, Configuration
<1> QED
  BY <1>1, InitWeights, WeightKept, PTL DEF SplitsSpec

-----------------------------------------------------------------------------
(* Multi-token schedules *)

\* The schedules a call stores.
StoredSchedule ==
    {s \in MultiTokenSchedule :
        /\ s.duration_seconds > 0
        /\ s.cliff_seconds <= s.duration_seconds
        /\ \A i \in DOMAIN s.tokens : s.tokens[i].total_amount > 0}

\* A finite plan unlocks a number of basis points, more of them later.
LEMMA BpsFacts ==
  ASSUME NEW plan \in Seq([offset_secs : Nat, bps : Nat]), NEW e \in Nat, NEW f \in Nat,
         e <= f
  PROVE  VestedBps(plan, e) \in Nat /\ VestedBps(plan, e) <= VestedBps(plan, f)
<1>1. /\ DOMAIN plan = 1..Len(plan) /\ Len(plan) \in Nat
      /\ \A i \in DOMAIN plan : plan[i] \in [offset_secs : Nat, bps : Nat]
  BY LenProperties, ElementOfSeq
<1>2. IsFiniteSet(DOMAIN plan)
  BY <1>1, FS_Interval
<1>3. \A i \in DOMAIN plan : Bps(plan)[i] \in Nat /\ plan[i].offset_secs \in Nat
  BY <1>1 DEF Bps
<1>4. /\ Reached(plan, e) \subseteq Reached(plan, f)
      /\ Reached(plan, f) \subseteq DOMAIN plan
  BY <1>3 DEF Reached
<1>5. IsFiniteSet(Reached(plan, f)) /\ IsFiniteSet(Reached(plan, e))
  BY <1>2, <1>4, FS_Subset
<1>6. \A i \in Reached(plan, f) : Bps(plan)[i] \in Nat
  BY <1>3, <1>4
<1>7. SumFunctionOnSet(Bps(plan), Reached(plan, e)) \in Nat
  BY <1>4, <1>5, <1>6, SumNat
<1>8. SumFunctionOnSet(Bps(plan), Reached(plan, e))
         <= SumFunctionOnSet(Bps(plan), Reached(plan, f))
  BY <1>4, <1>5, <1>6, SumOfPart
<1> QED
  BY <1>7, <1>8 DEF VestedBps

\* A fraction of a whole, rounded down.
Part(t, x, d) == (t * x) \div d

\* It is within the whole, and grows with its numerator.
LEMMA PartFacts ==
  ASSUME NEW t \in Nat, NEW x \in Nat, NEW y \in Nat, NEW d \in Nat,
         d > 0, x <= y, y <= d
  PROVE  /\ Part(t, x, d) \in 0..t /\ Part(t, y, d) \in 0..t
         /\ Part(t, x, d) <= Part(t, y, d)
<1>1. t * x \in Nat /\ t * y \in Nat /\ t * d \in Nat
  OBVIOUS
<1>2. t * x <= t * y /\ t * y <= t * d
  OBVIOUS
<1>3. PICK a, b, c \in Nat : a = t * x /\ b = t * y /\ c = t * d
  BY <1>1
<1>4. c \div d = t
  BY <1>3
<1>5. a \div d <= b \div d /\ b \div d <= c \div d /\ a \div d >= 0
  BY <1>2, <1>3
<1> QED
  BY <1>3, <1>4, <1>5 DEF Part

\* A percentage after the start, kind by kind.
LEMMA PercentageIs ==
  ASSUME NEW s \in StoredSchedule, NEW x \in Nat, NEW g \in Nat, x = s.start_time + g
  PROVE  VestedPercentageAt(s, x) =
            CASE s.kind = "Graded" -> Least(VestedBps(s.milestones, g), FULL_BPS)
              [] s.kind = "Cliff" -> IF g >= s.cliff_seconds THEN FULL_BPS ELSE 0
              [] s.kind = "Linear" ->
                   IF g >= s.duration_seconds THEN FULL_BPS
                   ELSE Part(FULL_BPS, g, s.duration_seconds)
              [] s.kind = "LinearWithCliff" ->
                   IF g < s.cliff_seconds THEN 0
                   ELSE IF g >= s.duration_seconds THEN FULL_BPS
                   ELSE Part(FULL_BPS, g - s.cliff_seconds,
                             s.duration_seconds - s.cliff_seconds)
<1>1. s.start_time \in Nat
  BY DEF StoredSchedule, MultiTokenSchedule
<1>2. x - s.start_time = g /\ ~(x < s.start_time)
  BY <1>1
<1> QED
  BY <1>2 DEF VestedPercentageAt, CliffPercentage, Part

\* The percentage of a schedule is one, and never falls.
LEMMA PercentageFacts ==
  ASSUME NEW s \in StoredSchedule, NEW t \in Nat, NEW u \in Nat, t <= u
  PROVE  /\ VestedPercentageAt(s, t) \in 0..FULL_BPS
         /\ VestedPercentageAt(s, u) \in 0..FULL_BPS
         /\ VestedPercentageAt(s, t) <= VestedPercentageAt(s, u)
<1> DEFINE d == s.duration_seconds
           c == s.cliff_seconds
           VP(x) == VestedPercentageAt(s, x)
<1>1. /\ s.start_time \in Nat /\ d \in Nat /\ c \in Nat /\ d > 0 /\ c <= d
      /\ s.kind \in VestingKinds
      /\ s.milestones \in Seq([offset_secs : Nat, bps : Nat])
      /\ FULL_BPS \in Nat /\ FULL_BPS > 0
  BY BpsAssumption DEF StoredSchedule, MultiTokenSchedule
<1>2. ASSUME NEW x \in Nat, x < s.start_time
      PROVE  VP(x) = 0
  BY <1>2 DEF VestedPercentageAt
<1> HIDE DEF d, c, VP
<1>3. ASSUME NEW x \in Nat, NEW y \in Nat, x >= s.start_time, x <= y
      PROVE  VP(x) \in 0..FULL_BPS /\ VP(y) \in 0..FULL_BPS /\ VP(x) <= VP(y)
  <2>1. PICK e, f \in Nat : /\ e <= f /\ x = s.start_time + e
                            /\ y = s.start_time + f
    <3>1. PICK e \in Nat : x = s.start_time + e
      <4>1. x - s.start_time \in Nat /\ x = s.start_time + (x - s.start_time)
        BY <1>1, <1>3
      <4> QED
        BY <4>1
    <3>2. PICK f \in Nat : y = s.start_time + f
      <4>1. y - s.start_time \in Nat /\ y = s.start_time + (y - s.start_time)
        BY <1>1, <1>3
      <4> QED
        BY <4>1
    <3>3. e <= f
      BY <1>1, <1>3, <3>1, <3>2
    <3> QED
      BY <3>1, <3>2, <3>3
  <2>2. CASE s.kind = "Graded"
    <3>1. /\ VP(x) = Least(VestedBps(s.milestones, e), FULL_BPS)
          /\ VP(y) = Least(VestedBps(s.milestones, f), FULL_BPS)
      BY <2>1, <2>2, PercentageIs DEF VP
    <3>2. /\ VestedBps(s.milestones, e) \in Nat
          /\ VestedBps(s.milestones, e) <= VestedBps(s.milestones, f)
      BY <1>1, <2>1, BpsFacts
    <3>3. f <= f
      BY <2>1
    <3>4. VestedBps(s.milestones, f) \in Nat
      BY <1>1, <3>3, BpsFacts
    <3> QED
      BY <1>1, <3>1, <3>2, <3>4 DEF Least
  <2>3. CASE s.kind = "Cliff"
    <3>1. /\ VP(x) = IF e >= c THEN FULL_BPS ELSE 0
          /\ VP(y) = IF f >= c THEN FULL_BPS ELSE 0
      BY <2>1, <2>3, PercentageIs DEF VP, c
    <3> QED
      BY <1>1, <2>1, <3>1
  <2>4. CASE s.kind = "Linear"
    <3>1. /\ VP(x) = IF e >= d THEN FULL_BPS ELSE Part(FULL_BPS, e, d)
          /\ VP(y) = IF f >= d THEN FULL_BPS ELSE Part(FULL_BPS, f, d)
      BY <2>1, <2>4, PercentageIs DEF VP, d
    <3>2. e <= d => Part(FULL_BPS, e, d) \in 0..FULL_BPS
      BY SMTT(30), <1>1, PartFacts
    <3>3. f <= d => /\ Part(FULL_BPS, f, d) \in 0..FULL_BPS
                    /\ Part(FULL_BPS, e, d) <= Part(FULL_BPS, f, d)
      BY <1>1, <2>1, PartFacts
    <3> QED
      BY <1>1, <2>1, <3>1, <3>2, <3>3
  <2>5. CASE s.kind = "LinearWithCliff"
    <3>1. /\ VP(x) = IF e < c THEN 0 ELSE IF e >= d THEN FULL_BPS
                     ELSE Part(FULL_BPS, e - c, d - c)
          /\ VP(y) = IF f < c THEN 0 ELSE IF f >= d THEN FULL_BPS
                     ELSE Part(FULL_BPS, f - c, d - c)
      BY <2>1, <2>5, PercentageIs DEF VP, d, c
    <3>2. e >= c /\ e < d => Part(FULL_BPS, e - c, d - c) \in 0..FULL_BPS
      <4> SUFFICES ASSUME e >= c, e < d
                   PROVE  Part(FULL_BPS, e - c, d - c) \in 0..FULL_BPS
        OBVIOUS
      <4>1. e - c \in Nat /\ d - c \in Nat /\ d - c > 0 /\ e - c <= d - c
        BY <1>1
      <4> QED
        BY SMTT(30), <1>1, <4>1, PartFacts
    <3>3. f >= c /\ f < d
             => /\ Part(FULL_BPS, f - c, d - c) \in 0..FULL_BPS
                /\ e >= c => Part(FULL_BPS, e - c, d - c) <= Part(FULL_BPS, f - c, d - c)
      <4> SUFFICES ASSUME f >= c, f < d
                   PROVE  /\ Part(FULL_BPS, f - c, d - c) \in 0..FULL_BPS
                          /\ e >= c => Part(FULL_BPS, e - c, d - c)
                                          <= Part(FULL_BPS, f - c, d - c)
        OBVIOUS
      <4>1. f - c \in Nat /\ d - c \in Nat /\ d - c > 0 /\ f - c <= d - c
        BY <1>1
      <4>2. e >= c => e - c \in Nat /\ e - c <= f - c
        BY <1>1, <2>1
      <4>3. Part(FULL_BPS, f - c, d - c) \in 0..FULL_BPS
        BY SMTT(30), <1>1, <4>1, PartFacts
      <4>4. e >= c => Part(FULL_BPS, e - c, d - c) <= Part(FULL_BPS, f - c, d - c)
        BY <1>1, <4>1, <4>2, PartFacts
      <4> QED
        BY <4>3, <4>4
    <3>4. VP(x) \in 0..FULL_BPS
      BY <1>1, <2>1, <3>1, <3>2
    <3>5. VP(y) \in 0..FULL_BPS
      BY <1>1, <2>1, <3>1, <3>3
    <3>6. VP(x) <= VP(y)
      <4>1. CASE e < c \/ f >= d
        BY <1>1, <2>1, <3>1, <3>4, <3>5, <4>1
      <4>2. CASE e >= c /\ f < d
        <5>1. f >= c /\ e < d
          BY <1>1, <2>1, <4>2
        <5> QED
          BY <1>1, <2>1, <3>1, <3>3, <4>2, <5>1
      <4> QED
        BY <1>1, <2>1, <4>1, <4>2
    <3> QED
      BY <3>4, <3>5, <3>6
  <2> QED
    BY <1>1, <2>2, <2>3, <2>4, <2>5 DEF VestingKinds
<1>4. CASE t >= s.start_time
  BY <1>3, <1>4 DEF VP
<1>5. CASE t < s.start_time /\ u >= s.start_time
  <2>1. VP(u) \in 0..FULL_BPS
    BY <1>3, <1>5
  <2> QED
    BY <1>1, <1>2, <1>5, <2>1 DEF VP
<1>6. CASE t < s.start_time /\ u < s.start_time
  BY <1>1, <1>2, <1>6 DEF VP
<1> QED
  BY <1>1, <1>4, <1>5, <1>6

\* Grants start unclaimed: the contract keeps a tranche as the caller gives it and
\* does not look at its claimed_amount.
StartUnclaimed ==
    \A o \in MultiOffers : \A i \in DOMAIN o.tokens : o.tokens[i].claimed_amount = 0

\* What has vested of a tranche by percentage is within it and grows with the
\* percentage; an overflow counts as all of it, which it stays.
LEMMA TrancheFacts ==
  ASSUME NEW r \in Tranche, r.total_amount > 0,
         NEW p \in 0..FULL_BPS, NEW q \in 0..FULL_BPS, p <= q
  PROVE  /\ TrancheVested(r, p) \in 0..r.total_amount
         /\ TrancheVested(r, q) \in 0..r.total_amount
         /\ TrancheVested(r, p) <= TrancheVested(r, q)
<1> DEFINE t == r.total_amount
<1>1. /\ t \in Nat /\ FULL_BPS \in Nat /\ FULL_BPS > 0 /\ I128_MAX \in Nat
      /\ p \in Nat /\ q \in Nat /\ q <= FULL_BPS
  BY BpsAssumption, I128Assumption DEF Tranche
<1>2. TrancheVested(r, p)
         = Least(IF t * p > I128_MAX THEN t ELSE Part(t, p, FULL_BPS), t)
  BY DEF TrancheVested, MulDivOr, Part
<1>3. TrancheVested(r, q)
         = Least(IF t * q > I128_MAX THEN t ELSE Part(t, q, FULL_BPS), t)
  BY DEF TrancheVested, MulDivOr, Part
<1> HIDE DEF t
<1>4. /\ Part(t, p, FULL_BPS) \in 0..t /\ Part(t, q, FULL_BPS) \in 0..t
      /\ Part(t, p, FULL_BPS) <= Part(t, q, FULL_BPS)
  BY <1>1, PartFacts
<1>5. t * p \in Nat /\ t * q \in Nat /\ t * p <= t * q
  BY <1>1
<1>6. PICK a, b \in Nat : a = t * p /\ b = t * q
  BY <1>5
<1> QED
  BY <1>1, <1>2, <1>3, <1>4, <1>5, <1>6 DEF Least, t

\* What a stored schedule is made of.
LEMMA StoredFacts ==
  ASSUME NEW s \in StoredSchedule
  PROVE  /\ s.tokens \in Seq(Tranche)
         /\ Len(s.tokens) \in Nat /\ DOMAIN s.tokens = 1..Len(s.tokens)
         /\ IsFiniteSet(DOMAIN s.tokens)
         /\ \A i \in DOMAIN s.tokens :
               /\ s.tokens[i] \in Tranche
               /\ s.tokens[i].total_amount \in Nat /\ s.tokens[i].total_amount > 0
               /\ s.tokens[i].claimed_amount \in Nat
<1>1. s.tokens \in Seq(Tranche)
  BY DEF StoredSchedule, MultiTokenSchedule
<1>2. Len(s.tokens) \in Nat /\ DOMAIN s.tokens = 1..Len(s.tokens)
  BY <1>1, LenProperties
<1>3. \A i \in DOMAIN s.tokens : s.tokens[i] \in Tranche
  BY <1>1, <1>2, ElementOfSeq
<1>4. IsFiniteSet(DOMAIN s.tokens)
  BY <1>2, FS_Interval
<1> QED
  BY <1>1, <1>2, <1>3, <1>4 DEF StoredSchedule, Tranche

\* A claim pays each tranche up to what has vested of it, and changes nothing else.
LEMMA ClaimFacts ==
  ASSUME NEW s \in StoredSchedule, now \in Nat
  PROVE  /\ DOMAIN Claimable(s) = DOMAIN s.tokens
         /\ AfterClaim(s) \in Seq(Tranche)
         /\ Len(AfterClaim(s)) = Len(s.tokens) /\ DOMAIN AfterClaim(s) = DOMAIN s.tokens
         /\ \A i \in DOMAIN s.tokens :
               LET old == s.tokens[i]
                   new == AfterClaim(s)[i]
                   due == TrancheVested(old, VestedPercentageAt(s, now))
               IN  /\ Claimable(s)[i] \in Nat
                   /\ new \in Tranche
                   /\ new.token = old.token /\ new.total_amount = old.total_amount
                   /\ new.claimed_amount = old.claimed_amount + Claimable(s)[i]
                   /\ due \in Nat
                   /\ old.claimed_amount <= due => new.claimed_amount = due
<1> DEFINE n == Len(s.tokens)
<1>1. /\ s.tokens \in Seq(Tranche) /\ n \in Nat /\ DOMAIN s.tokens = 1..n
      /\ \A i \in 1..n : /\ s.tokens[i] \in Tranche
                         /\ s.tokens[i].total_amount \in Nat
                         /\ s.tokens[i].total_amount > 0
                         /\ s.tokens[i].claimed_amount \in Nat
  BY StoredFacts
<1>2. DOMAIN Claimable(s) = 1..n
  BY <1>1 DEF Claimable
<1>3. DOMAIN AfterClaim(s) = 1..n
  BY <1>1 DEF AfterClaim
<1> HIDE DEF n
<1>4. ASSUME NEW i \in 1..n
      PROVE  LET old == s.tokens[i]
                 new == AfterClaim(s)[i]
                 due == TrancheVested(old, VestedPercentageAt(s, now))
             IN  /\ Claimable(s)[i] \in Nat
                 /\ new \in Tranche
                 /\ new.token = old.token /\ new.total_amount = old.total_amount
                 /\ new.claimed_amount = old.claimed_amount + Claimable(s)[i]
                 /\ due \in Nat
                 /\ old.claimed_amount <= due => new.claimed_amount = due
  <2> DEFINE old == s.tokens[i]
             new == AfterClaim(s)[i]
             due == TrancheVested(old, VestedPercentageAt(s, now))
             pay == Claimable(s)[i]
  <2>1. VestedPercentageAt(s, now) \in 0..FULL_BPS
    <3>1. now <= now
      OBVIOUS
    <3> QED
      BY <3>1, PercentageFacts
  <2>2. due \in Nat
    <3>1. VestedPercentageAt(s, now) <= VestedPercentageAt(s, now)
      BY <2>1, BpsAssumption
    <3>2. due \in 0..old.total_amount
      BY <1>1, <2>1, <3>1, TrancheFacts
    <3> QED
      BY <1>1, <3>2
  <2>3. pay = Greatest(0, due - old.claimed_amount)
    BY <1>1, Zenon DEF Claimable
  <2>4. new = [old EXCEPT !.claimed_amount = old.claimed_amount + pay]
    BY <1>1, Zenon DEF AfterClaim
  <2>5. old \in Tranche /\ old.claimed_amount \in Nat
    BY <1>1
  <2> HIDE DEF old, new, due, pay
  <2>6. /\ pay \in Nat
        /\ old.claimed_amount <= due => old.claimed_amount + pay = due
    BY <2>2, <2>3, <2>5 DEF Greatest
  <2>7. /\ new \in Tranche /\ new.token = old.token
        /\ new.total_amount = old.total_amount
        /\ new.claimed_amount = old.claimed_amount + pay
    <3>1. PICK c \in Nat : c = old.claimed_amount + pay
      BY <2>5, <2>6
    <3> QED
      BY <2>4, <2>5, <3>1 DEF Tranche
  <2> QED
    BY <2>2, <2>6, <2>7 DEF old, new, due, pay
<1>5. AfterClaim(s) \in Seq(Tranche) /\ Len(AfterClaim(s)) = n
  <2>1. AfterClaim(s) = [i \in 1..n |-> AfterClaim(s)[i]]
    BY <1>1 DEF AfterClaim
  <2>2. \A i \in 1..n : AfterClaim(s)[i] \in Tranche
    BY <1>4
  <2>3. AfterClaim(s) \in [1..n -> Tranche]
    BY <2>1, <2>2
  <2> QED
    BY <1>1, <1>3, <2>3, SeqDef, LenProperties, IsASeq
<1> QED
  BY <1>1, <1>2, <1>3, <1>4, <1>5 DEF n

\* What a schedule owes in a token.
OwedBy(s, t) == OfToken(s.tokens, t, Unclaimed(s.tokens))

\* A sum over the tranches in one token.
LEMMA OfTokenFacts ==
  ASSUME NEW tokens, IsFiniteSet(DOMAIN tokens), NEW t, NEW f,
         \A i \in DOMAIN tokens : f[i] \in Int
  PROVE  /\ IsFiniteSet({i \in DOMAIN tokens : tokens[i].token = t})
         /\ OfToken(tokens, t, f) \in Int
<1> DEFINE T == {i \in DOMAIN tokens : tokens[i].token = t}
<1>1. IsFiniteSet(T)
  <2>1. T \subseteq DOMAIN tokens
    OBVIOUS
  <2> HIDE DEF T
  <2> QED
    BY <2>1, FS_Subset
<1>2. \A i \in T : f[i] \in Int
  OBVIOUS
<1>3. OfToken(tokens, t, f) = SumFunctionOnSet(f, T)
  BY DEF OfToken
<1> HIDE DEF T
<1>4. SumFunctionOnSet(f, T) \in Int
  BY <1>1, <1>2, SumInt
<1> QED
  BY <1>1, <1>3, <1>4 DEF T

\* A stored schedule owes a number, and a claim makes it less by what it pays.
LEMMA OwedFacts ==
  ASSUME NEW s \in StoredSchedule, now \in Nat, NEW t
  PROVE  /\ OwedBy(s, t) \in Int
         /\ OfToken(s.tokens, t, Claimable(s)) \in Int
         /\ OfToken(AfterClaim(s), t, Unclaimed(AfterClaim(s)))
               = OwedBy(s, t) - OfToken(s.tokens, t, Claimable(s))
<1> DEFINE before == Unclaimed(s.tokens)
           after  == Unclaimed(AfterClaim(s))
           paid   == Claimable(s)
           T      == {i \in DOMAIN s.tokens : s.tokens[i].token = t}
<1>1. /\ IsFiniteSet(DOMAIN s.tokens)
      /\ \A i \in DOMAIN s.tokens : /\ s.tokens[i].total_amount \in Nat
                                    /\ s.tokens[i].claimed_amount \in Nat
  BY StoredFacts
<1>2. /\ DOMAIN AfterClaim(s) = DOMAIN s.tokens
      /\ \A i \in DOMAIN s.tokens :
            /\ paid[i] \in Nat
            /\ AfterClaim(s)[i].token = s.tokens[i].token
            /\ AfterClaim(s)[i].total_amount = s.tokens[i].total_amount
            /\ AfterClaim(s)[i].claimed_amount = s.tokens[i].claimed_amount + paid[i]
  BY ClaimFacts
<1>3. \A i \in DOMAIN s.tokens : before[i] \in Int /\ paid[i] \in Int
  BY <1>1, <1>2 DEF Unclaimed
<1>4. \A i \in DOMAIN s.tokens : after[i] \in Int /\ before[i] = after[i] + paid[i]
  BY <1>1, <1>2 DEF Unclaimed
<1>5. {i \in DOMAIN AfterClaim(s) : AfterClaim(s)[i].token = t} = T
  BY <1>2
<1>6. OfToken(AfterClaim(s), t, after) = SumFunctionOnSet(after, T)
  BY <1>5, Zenon DEF OfToken
<1>7. OfToken(s.tokens, t, before) = SumFunctionOnSet(before, T)
  BY DEF OfToken
<1>8. OfToken(s.tokens, t, paid) = SumFunctionOnSet(paid, T)
  BY DEF OfToken
<1> HIDE DEF before, after, paid
<1>9. /\ IsFiniteSet(T)
      /\ OfToken(s.tokens, t, before) \in Int /\ OfToken(s.tokens, t, paid) \in Int
  BY <1>1, <1>3, OfTokenFacts
<1>10. \A i \in T : after[i] \in Int /\ paid[i] \in Int /\ before[i] = after[i] + paid[i]
  BY <1>3, <1>4
<1> HIDE DEF T
<1>11. SumFunctionOnSet(before, T)
          = SumFunctionOnSet(after, T) + SumFunctionOnSet(paid, T)
  BY <1>9, <1>10, SumPlus
<1>12. SumFunctionOnSet(after, T) \in Int
  BY <1>9, <1>10, SumInt
<1> QED
  BY <1>6, <1>7, <1>8, <1>9, <1>11, <1>12 DEF OwedBy, before, after, paid

-----------------------------------------------------------------------------
(* The balance behind what is owed *)

\* Every stored schedule is one a call stores, and has claimed no more of a
\* tranche than has vested of it.
MultiInv ==
    /\ now \in Nat
    /\ multiSchedules \in Seq(StoredSchedule)
    /\ \A id \in DOMAIN multiSchedules : \A i \in DOMAIN multiSchedules[id].tokens :
          LET s == multiSchedules[id]
          IN  s.tokens[i].claimed_amount
                 <= TrancheVested(s.tokens[i], VestedPercentageAt(s, now))

\* The stored schedules over their ids.
LEMMA MultiFacts ==
  ASSUME MultiInv
  PROVE  /\ Len(multiSchedules) \in Nat
         /\ DOMAIN multiSchedules = 1..Len(multiSchedules)
         /\ IsFiniteSet(DOMAIN multiSchedules)
         /\ \A id \in DOMAIN multiSchedules : multiSchedules[id] \in StoredSchedule
<1>1. multiSchedules \in Seq(StoredSchedule)
  BY DEF MultiInv
<1>2. Len(multiSchedules) \in Nat /\ DOMAIN multiSchedules = 1..Len(multiSchedules)
  BY <1>1, LenProperties
<1> QED
  BY <1>1, <1>2, ElementOfSeq, FS_Interval

\* What a claim does to the list.
LEMMA ClaimIs ==
  ASSUME MultiInv, NEW id \in DOMAIN multiSchedules, ClaimMultiToken(id)
  PROVE  LET s == multiSchedules[id]
             r == [s EXCEPT !.tokens = AfterClaim(s)]
         IN  /\ r \in StoredSchedule /\ r.tokens = AfterClaim(s)
             /\ VestedPercentageAt(r, now) = VestedPercentageAt(s, now)
             /\ multiSchedules' = [multiSchedules EXCEPT ![id] = r]
             /\ multiSchedules' \in Seq(StoredSchedule)
             /\ DOMAIN multiSchedules' = DOMAIN multiSchedules
             /\ multiSchedules'[id] = r
             /\ \A j \in DOMAIN multiSchedules \ {id} :
                   multiSchedules'[j] = multiSchedules[j]
             /\ held' = [t \in Tokens |-> held[t] - OfToken(s.tokens, t, Claimable(s))]
<1> DEFINE s == multiSchedules[id]
           r == [s EXCEPT !.tokens = AfterClaim(s)]
<1>1. /\ s \in StoredSchedule /\ now \in Nat
      /\ multiSchedules \in Seq(StoredSchedule)
      /\ DOMAIN multiSchedules = 1..Len(multiSchedules)
  BY MultiFacts DEF MultiInv
<1>2. /\ AfterClaim(s) \in Seq(Tranche)
      /\ DOMAIN AfterClaim(s) = DOMAIN s.tokens
      /\ \A i \in DOMAIN s.tokens :
            AfterClaim(s)[i].total_amount = s.tokens[i].total_amount
  BY <1>1, ClaimFacts
<1>3. /\ multiSchedules' = [multiSchedules EXCEPT ![id] = r]
      /\ held' = [t \in Tokens |-> held[t] - OfToken(s.tokens, t, Claimable(s))]
  BY DEF ClaimMultiToken
<1>4. /\ r \in MultiTokenSchedule /\ r.tokens = AfterClaim(s)
      /\ r.duration_seconds = s.duration_seconds /\ r.cliff_seconds = s.cliff_seconds
      /\ r.start_time = s.start_time /\ r.kind = s.kind /\ r.milestones = s.milestones
  BY <1>1, <1>2 DEF StoredSchedule, MultiTokenSchedule
<1>5. r \in StoredSchedule
  BY <1>1, <1>2, <1>4 DEF StoredSchedule
<1> HIDE DEF r
<1>6. VestedPercentageAt(r, now) = VestedPercentageAt(s, now)
  <2>1. CliffPercentage(r, now - r.start_time) = CliffPercentage(s, now - s.start_time)
    BY <1>4 DEF CliffPercentage
  <2> QED
    BY <1>4, <2>1 DEF VestedPercentageAt
<1>7. multiSchedules' \in Seq(StoredSchedule) /\ Len(multiSchedules') = Len(multiSchedules)
  BY <1>1, <1>3, <1>5, ExceptSeq
<1>8. DOMAIN multiSchedules' = DOMAIN multiSchedules
  BY <1>1, <1>3
<1>9. /\ multiSchedules'[id] = r
      /\ \A j \in DOMAIN multiSchedules \ {id} : multiSchedules'[j] = multiSchedules[j]
  BY <1>1, <1>3
<1> QED
  BY <1>3, <1>4, <1>5, <1>6, <1>7, <1>8, <1>9 DEF r

\* What a new schedule does to the list.
LEMMA CreateIs ==
  ASSUME MultiInv, StartUnclaimed, NEW o \in MultiOffers, CreateMultiTokenSchedule(o)
  PROVE  /\ o \in StoredSchedule
         /\ \A i \in DOMAIN o.tokens : o.tokens[i].claimed_amount = 0
         /\ multiSchedules' = Append(multiSchedules, o)
         /\ multiSchedules' \in Seq(StoredSchedule)
         /\ Len(multiSchedules) \in Nat
         /\ DOMAIN multiSchedules' = 1..(Len(multiSchedules) + 1)
         /\ \A j \in 1..Len(multiSchedules) : multiSchedules'[j] = multiSchedules[j]
         /\ multiSchedules'[Len(multiSchedules) + 1] = o
<1>1. multiSchedules \in Seq(StoredSchedule) /\ Len(multiSchedules) \in Nat
  BY MultiFacts DEF MultiInv
<1>2. o \in StoredSchedule
  BY MultiAssumption DEF CreateMultiTokenSchedule, StoredSchedule
<1>3. multiSchedules' = Append(multiSchedules, o)
  BY DEF CreateMultiTokenSchedule
<1>4. /\ Append(multiSchedules, o) \in Seq(StoredSchedule)
      /\ Len(Append(multiSchedules, o)) = Len(multiSchedules) + 1
      /\ \A j \in 1..Len(multiSchedules) :
            Append(multiSchedules, o)[j] = multiSchedules[j]
      /\ Append(multiSchedules, o)[Len(multiSchedules) + 1] = o
  BY <1>1, <1>2, AppendProperties
<1>5. DOMAIN multiSchedules' = 1..(Len(multiSchedules) + 1)
  BY <1>3, <1>4, LenProperties
<1> QED
  BY <1>1, <1>2, <1>3, <1>4, <1>5 DEF StartUnclaimed

\* Time only lets more vest.
LEMMA MultiTick == MultiInv /\ now' \in Nat /\ now <= now' /\ UNCHANGED multiSchedules => MultiInv'
<1> SUFFICES ASSUME MultiInv, now' \in Nat, now <= now', UNCHANGED multiSchedules
             PROVE  MultiInv'
  OBVIOUS
<1>1. ASSUME NEW id \in DOMAIN multiSchedules, NEW i \in DOMAIN multiSchedules[id].tokens
      PROVE  LET s == multiSchedules[id]
             IN  s.tokens[i].claimed_amount
                    <= TrancheVested(s.tokens[i], VestedPercentageAt(s, now'))
  <2> DEFINE s == multiSchedules[id]
             p == VestedPercentageAt(s, now)
             q == VestedPercentageAt(s, now')
             r == s.tokens[i]
  <2>1. s \in StoredSchedule /\ now \in Nat
    BY MultiFacts DEF MultiInv
  <2>2. r \in Tranche /\ r.total_amount \in Nat /\ r.total_amount > 0
        /\ r.claimed_amount \in Nat
    BY <2>1, StoredFacts
  <2>3. p \in 0..FULL_BPS /\ q \in 0..FULL_BPS /\ p <= q
    BY <2>1, PercentageFacts
  <2>4. r.claimed_amount <= TrancheVested(r, p)
    BY DEF MultiInv
  <2> HIDE DEF p, q, r
  <2>5. /\ TrancheVested(r, p) \in 0..r.total_amount
        /\ TrancheVested(r, q) \in 0..r.total_amount
        /\ TrancheVested(r, p) <= TrancheVested(r, q)
    BY <2>2, <2>3, TrancheFacts
  <2>6. r.claimed_amount <= TrancheVested(r, q)
    BY <2>2, <2>4, <2>5
  <2> QED
    BY <2>6 DEF p, q, r
<1> QED
  BY <1>1 DEF MultiInv

\* A claim brings every tranche up to what has vested.
LEMMA MultiClaim ==
  ASSUME MultiInv, NEW id \in DOMAIN multiSchedules, ClaimMultiToken(id), now' = now
  PROVE  MultiInv'
<1> DEFINE s == multiSchedules[id]
           r == [s EXCEPT !.tokens = AfterClaim(s)]
<1>1. /\ r.tokens = AfterClaim(s)
      /\ VestedPercentageAt(r, now) = VestedPercentageAt(s, now)
      /\ multiSchedules' \in Seq(StoredSchedule)
      /\ DOMAIN multiSchedules' = DOMAIN multiSchedules
      /\ multiSchedules'[id] = r
      /\ \A j \in DOMAIN multiSchedules \ {id} : multiSchedules'[j] = multiSchedules[j]
  BY ClaimIs
<1>2. s \in StoredSchedule /\ now \in Nat
  BY MultiFacts DEF MultiInv
<1>3. /\ DOMAIN AfterClaim(s) = DOMAIN s.tokens
      /\ \A i \in DOMAIN s.tokens :
            LET old == s.tokens[i]
                new == AfterClaim(s)[i]
                due == TrancheVested(old, VestedPercentageAt(s, now))
            IN  /\ new.total_amount = old.total_amount /\ due \in Nat
                /\ old.claimed_amount <= due => new.claimed_amount = due
  BY <1>2, ClaimFacts
<1> HIDE DEF r
<1>4. ASSUME NEW i \in DOMAIN r.tokens
      PROVE  r.tokens[i].claimed_amount
                <= TrancheVested(r.tokens[i], VestedPercentageAt(r, now))
  <2> DEFINE p == VestedPercentageAt(s, now)
  <2>1. s.tokens[i].claimed_amount <= TrancheVested(s.tokens[i], p)
    BY <1>1, <1>3, <1>4 DEF MultiInv
  <2>2. r.tokens[i].claimed_amount = TrancheVested(s.tokens[i], p)
    BY <1>1, <1>3, <1>4, <2>1
  <2>3. TrancheVested(r.tokens[i], p) = TrancheVested(s.tokens[i], p)
    BY <1>1, <1>3, <1>4 DEF TrancheVested
  <2>4. TrancheVested(s.tokens[i], p) \in Nat
    BY <1>1, <1>3, <1>4
  <2> QED
    BY <1>1, <2>2, <2>3, <2>4
<1>5. ASSUME NEW j \in DOMAIN multiSchedules', NEW i \in DOMAIN multiSchedules'[j].tokens
      PROVE  multiSchedules'[j].tokens[i].claimed_amount
                <= TrancheVested(multiSchedules'[j].tokens[i],
                                 VestedPercentageAt(multiSchedules'[j], now))
  <2>1. CASE j = id
    BY <1>1, <1>4, <1>5, <2>1
  <2>2. CASE j # id
    BY <1>1, <1>5, <2>2 DEF MultiInv
  <2> QED
    BY <2>1, <2>2
<1> QED
  BY <1>1, <1>2, <1>5 DEF MultiInv

\* A new grant has claimed nothing.
LEMMA MultiCreate ==
  ASSUME MultiInv, StartUnclaimed, NEW o \in MultiOffers, CreateMultiTokenSchedule(o),
         now' = now
  PROVE  MultiInv'
<1>1. /\ o \in StoredSchedule
      /\ \A i \in DOMAIN o.tokens : o.tokens[i].claimed_amount = 0
      /\ multiSchedules' \in Seq(StoredSchedule)
      /\ Len(multiSchedules) \in Nat
      /\ DOMAIN multiSchedules' = 1..(Len(multiSchedules) + 1)
      /\ \A j \in 1..Len(multiSchedules) : multiSchedules'[j] = multiSchedules[j]
      /\ multiSchedules'[Len(multiSchedules) + 1] = o
  BY CreateIs
<1>2. now \in Nat /\ DOMAIN multiSchedules = 1..Len(multiSchedules)
  BY MultiFacts DEF MultiInv
<1>3. ASSUME NEW i \in DOMAIN o.tokens
      PROVE  o.tokens[i].claimed_amount
                <= TrancheVested(o.tokens[i], VestedPercentageAt(o, now))
  <2>1. TrancheVested(o.tokens[i], VestedPercentageAt(o, now)) \in Nat
    BY <1>1, <1>2, ClaimFacts
  <2> QED
    BY <1>1, <2>1
<1>4. ASSUME NEW j \in DOMAIN multiSchedules', NEW i \in DOMAIN multiSchedules'[j].tokens
      PROVE  multiSchedules'[j].tokens[i].claimed_amount
                <= TrancheVested(multiSchedules'[j].tokens[i],
                                 VestedPercentageAt(multiSchedules'[j], now))
  <2>1. CASE j = Len(multiSchedules) + 1
    BY <1>1, <1>3, <1>4, <2>1
  <2>2. CASE j \in 1..Len(multiSchedules)
    BY <1>1, <1>2, <1>4, <2>2 DEF MultiInv
  <2>3. j \in 1..(Len(multiSchedules) + 1)
    BY <1>1
  <2> QED
    BY <1>1, <2>1, <2>2, <2>3
<1> QED
  BY <1>1, <1>2, <1>4 DEF MultiInv

\* What each schedule owes in a token.
OwedEach(list, t) == [id \in DOMAIN list |-> OwedBy(list[id], t)]

\* Their sum is a number, taken over the ids.
LEMMA OwedTotal ==
  ASSUME NEW list \in Seq(StoredSchedule), now \in Nat, NEW t
  PROVE  /\ Len(list) \in Nat /\ DOMAIN list = 1..Len(list)
         /\ \A id \in 1..Len(list) : /\ list[id] \in StoredSchedule
                                     /\ OwedEach(list, t)[id] = OwedBy(list[id], t)
                                     /\ OwedEach(list, t)[id] \in Int
         /\ SumFunction(OwedEach(list, t))
               = SumFunctionOnSet(OwedEach(list, t), 1..Len(list))
         /\ SumFunction(OwedEach(list, t)) \in Int
<1>1. Len(list) \in Nat /\ DOMAIN list = 1..Len(list)
  BY LenProperties
<1>2. \A id \in 1..Len(list) : list[id] \in StoredSchedule
  BY <1>1, ElementOfSeq
<1>3. \A id \in 1..Len(list) : OwedEach(list, t)[id] = OwedBy(list[id], t)
  BY <1>1 DEF OwedEach
<1>4. \A id \in 1..Len(list) : OwedEach(list, t)[id] \in Int
  BY <1>2, <1>3, OwedFacts
<1>5. DOMAIN OwedEach(list, t) = 1..Len(list)
  BY <1>1 DEF OwedEach
<1>6. SumFunction(OwedEach(list, t)) = SumFunctionOnSet(OwedEach(list, t), 1..Len(list))
  BY <1>5, Zenon DEF SumFunction
<1>7. IsFiniteSet(1..Len(list))
  BY <1>1, FS_Interval
<1>8. SumFunctionOnSet(OwedEach(list, t), 1..Len(list)) \in Int
  BY <1>4, <1>7, SumInt
<1> QED
  BY <1>1, <1>2, <1>3, <1>4, <1>6, <1>8

\* What the contract holds beyond what it owes.
Gaps == [t \in Tokens |-> held[t] - Owed(t)]

\* The balance is backed, and the state it is taken over is sound.
HoldInv ==
    /\ MultiInv
    /\ WeightInv
    /\ held \in [Tokens -> Int]
    /\ shaved \in Nat
    /\ HoldingsBacked

\* The balance and what is owed in a token, as numbers.
LEMMA HoldFacts ==
  ASSUME HoldInv
  PROVE  /\ IsFiniteSet(Tokens)
         /\ \A t \in Tokens : /\ held[t] \in Int /\ Owed(t) \in Int
                              /\ Owed(t) = SumFunction(OwedEach(multiSchedules, t))
                              /\ Gaps[t] = held[t] - Owed(t) /\ Gaps[t] \in Nat
         /\ SumFunctionOnSet(Gaps, Tokens) <= shaved
         /\ SumFunctionOnSet(Gaps, Tokens) \in Nat
<1>1. IsFiniteSet(Tokens)
  BY MultiAssumption
<1>2. multiSchedules \in Seq(StoredSchedule) /\ now \in Nat
  BY DEF HoldInv, MultiInv
<1>3. ASSUME NEW t \in Tokens
      PROVE  /\ held[t] \in Int /\ Owed(t) \in Int
             /\ Owed(t) = SumFunction(OwedEach(multiSchedules, t))
             /\ Gaps[t] = held[t] - Owed(t) /\ Gaps[t] \in Nat
  <2>1. Owed(t) = SumFunction(OwedEach(multiSchedules, t))
    BY DEF Owed, OwedEach, OwedBy
  <2>2. Owed(t) \in Int
    BY <1>2, <2>1, OwedTotal
  <2>3. held[t] \in Int /\ held[t] >= Owed(t)
    BY DEF HoldInv, HoldingsBacked
  <2>4. Gaps[t] = held[t] - Owed(t)
    BY DEF Gaps
  <2> QED
    BY <2>1, <2>2, <2>3, <2>4
<1>4. SumFunctionOnSet(Gaps, Tokens) <= shaved
  <2>1. DOMAIN Gaps = Tokens
    BY DEF Gaps
  <2>2. SumFunction(Gaps) = SumFunctionOnSet(Gaps, Tokens)
    BY <2>1, Zenon DEF SumFunction
  <2> QED
    BY <2>2 DEF HoldInv, HoldingsBacked, Gaps
<1>5. SumFunctionOnSet(Gaps, Tokens) \in Nat
  BY <1>1, <1>3, SumNat
<1> QED
  BY <1>1, <1>3, <1>4, <1>5

\* When the balance moves with what is owed, and no split is made, it stays backed.
LEMMA GapKept ==
  ASSUME HoldInv, UNCHANGED shaved,
         \A t \in Tokens : held'[t] - Owed(t)' = held[t] - Owed(t),
         \A t \in Tokens : held'[t] \in Int /\ Owed(t)' \in Int
  PROVE  HoldingsBacked'
<1>1. \A t \in Tokens : held'[t] >= Owed(t)'
  BY HoldFacts
<1>2. Gaps' = Gaps
  BY DEF Gaps
<1>3. SumFunction(Gaps) <= shaved
  BY DEF HoldInv, HoldingsBacked, Gaps
<1>4. SumFunction(Gaps') <= shaved'
  BY <1>2, <1>3
<1>5. SumFunction([t \in Tokens |-> held'[t] - Owed(t)']) <= shaved'
  BY <1>4 DEF Gaps
<1> QED
  BY <1>1, <1>5 DEF HoldingsBacked

\* A new grant is paid in as it is owed.
LEMMA CreateBacked ==
  ASSUME HoldInv, StartUnclaimed, NEW o \in MultiOffers, CreateMultiTokenSchedule(o),
         UNCHANGED <<now, splitVars>>
  PROVE  HoldInv'
<1> DEFINE n == Len(multiSchedules)
<1>1. MultiInv /\ WeightInv /\ held \in [Tokens -> Int] /\ shaved \in Nat /\ now \in Nat
  BY DEF HoldInv, MultiInv
<1>2. MultiInv'
  BY <1>1, MultiCreate
<1>3. /\ o \in StoredSchedule
      /\ \A i \in DOMAIN o.tokens : o.tokens[i].claimed_amount = 0
      /\ multiSchedules' \in Seq(StoredSchedule)
      /\ n \in Nat /\ DOMAIN multiSchedules' = 1..(n + 1)
      /\ \A j \in 1..n : multiSchedules'[j] = multiSchedules[j]
      /\ multiSchedules'[n + 1] = o
  BY <1>1, CreateIs
<1>4. multiSchedules \in Seq(StoredSchedule)
  BY <1>1 DEF MultiInv
<1> HIDE DEF n
<1>5. ASSUME NEW t \in Tokens
      PROVE  /\ held'[t] = held[t] + OwedBy(o, t) /\ OwedBy(o, t) \in Int
             /\ Owed(t)' = Owed(t) + OwedBy(o, t) /\ Owed(t) \in Int /\ held[t] \in Int
  <2> DEFINE totals == [i \in DOMAIN o.tokens |-> o.tokens[i].total_amount]
  <2>1. Unclaimed(o.tokens) = totals
    <3>1. \A i \in DOMAIN o.tokens : o.tokens[i].total_amount \in Nat
      BY <1>3, StoredFacts
    <3> QED
      BY <1>3, <3>1 DEF Unclaimed
  <2>2. held'[t] = held[t] + OfToken(o.tokens, t, totals)
    BY DEF CreateMultiTokenSchedule
  <2>3. OfToken(o.tokens, t, totals) = OwedBy(o, t)
    BY <2>1, Zenon DEF OwedBy
  <2>4. OwedBy(o, t) \in Int
    BY <1>1, <1>3, OwedFacts
  <2>5. /\ Owed(t) = SumFunction(OwedEach(multiSchedules, t))
        /\ Owed(t)' = SumFunction(OwedEach(multiSchedules', t))
    BY DEF Owed, OwedEach, OwedBy
  <2>6. /\ SumFunction(OwedEach(multiSchedules, t))
              = SumFunctionOnSet(OwedEach(multiSchedules, t), 1..n)
        /\ SumFunction(OwedEach(multiSchedules, t)) \in Int
        /\ \A id \in 1..n : /\ OwedEach(multiSchedules, t)[id] = OwedBy(multiSchedules[id], t)
                            /\ OwedEach(multiSchedules, t)[id] \in Int
    BY <1>1, <1>4, OwedTotal DEF n
  <2>7. Len(multiSchedules') = n + 1
    <3>1. /\ Len(multiSchedules') \in Nat
          /\ 1..Len(multiSchedules') = 1..(n + 1)
      BY <1>3, LenProperties
    <3> QED
      BY <1>3, LenProperties
  <2>8. /\ SumFunction(OwedEach(multiSchedules', t))
              = SumFunctionOnSet(OwedEach(multiSchedules', t), 1..(n + 1))
        /\ \A id \in 1..(n + 1) :
              /\ OwedEach(multiSchedules', t)[id] = OwedBy(multiSchedules'[id], t)
              /\ OwedEach(multiSchedules', t)[id] \in Int
    BY <1>1, <1>3, <2>7, OwedTotal
  <2>9. SumFunctionOnSet(OwedEach(multiSchedules', t), 1..(n + 1))
           = SumFunctionOnSet(OwedEach(multiSchedules', t), 1..n)
                + OwedEach(multiSchedules', t)[n + 1]
    BY <1>3, <2>8, SumLast
  <2>10. OwedEach(multiSchedules', t)[n + 1] = OwedBy(o, t)
    BY <1>3, <2>8
  <2>11. SumFunctionOnSet(OwedEach(multiSchedules', t), 1..n)
            = SumFunctionOnSet(OwedEach(multiSchedules, t), 1..n)
    <3>1. \A id \in 1..n :
             OwedEach(multiSchedules', t)[id] = OwedEach(multiSchedules, t)[id]
      BY <1>3, <2>6, <2>8
    <3>2. IsFiniteSet(1..n)
      BY <1>3, FS_Interval
    <3> QED
      BY <1>3, <3>1, <3>2, SumAgrees
  <2>12. held[t] \in Int
    BY <1>1
  <2> HIDE DEF totals
  <2> QED
    BY <2>2, <2>3, <2>4, <2>5, <2>6, <2>8, <2>9, <2>10, <2>11, <2>12
<1>6. held' \in [Tokens -> Int]
  <2>1. held' = [t \in Tokens |-> held'[t]]
    BY DEF CreateMultiTokenSchedule
  <2>2. \A t \in Tokens : held'[t] \in Int
    BY <1>5
  <2> QED
    BY <2>1, <2>2
<1>7. HoldingsBacked'
  <2>1. UNCHANGED shaved
    BY DEF splitVars
  <2>2. \A t \in Tokens : held'[t] \in Int /\ Owed(t)' \in Int
    BY <1>5
  <2>3. \A t \in Tokens : held'[t] - Owed(t)' = held[t] - Owed(t)
    BY <1>5
  <2> QED
    BY <2>1, <2>2, <2>3, GapKept
<1> QED
  BY <1>1, <1>2, <1>6, <1>7 DEF HoldInv, WeightInv, splitVars

\* A claim pays out of what is owed.
LEMMA ClaimBacked ==
  ASSUME HoldInv, NEW id \in DOMAIN multiSchedules, ClaimMultiToken(id),
         UNCHANGED <<now, splitVars>>
  PROVE  HoldInv'
<1> DEFINE n == Len(multiSchedules)
           s == multiSchedules[id]
           r == [s EXCEPT !.tokens = AfterClaim(s)]
<1>1. MultiInv /\ WeightInv /\ held \in [Tokens -> Int] /\ shaved \in Nat /\ now \in Nat
  BY DEF HoldInv, MultiInv
<1>2. MultiInv'
  BY <1>1, MultiClaim
<1>3. /\ r \in StoredSchedule /\ r.tokens = AfterClaim(s)
      /\ multiSchedules' \in Seq(StoredSchedule)
      /\ DOMAIN multiSchedules' = DOMAIN multiSchedules
      /\ multiSchedules'[id] = r
      /\ \A j \in DOMAIN multiSchedules \ {id} : multiSchedules'[j] = multiSchedules[j]
      /\ held' = [t \in Tokens |-> held[t] - OfToken(s.tokens, t, Claimable(s))]
  BY <1>1, ClaimIs
<1>4. /\ multiSchedules \in Seq(StoredSchedule) /\ n \in Nat
      /\ DOMAIN multiSchedules = 1..n /\ id \in 1..n /\ s \in StoredSchedule
  BY <1>1, MultiFacts DEF MultiInv
<1> HIDE DEF n, r
<1>5. ASSUME NEW t \in Tokens
      PROVE  LET paid == OfToken(s.tokens, t, Claimable(s))
             IN  /\ held'[t] = held[t] - paid /\ paid \in Int
                 /\ Owed(t)' = Owed(t) - paid /\ Owed(t) \in Int /\ held[t] \in Int
  <2> DEFINE paid == OfToken(s.tokens, t, Claimable(s))
             f    == OwedEach(multiSchedules, t)
             g    == OwedEach(multiSchedules', t)
  <2>1. /\ OwedBy(s, t) \in Int /\ paid \in Int
        /\ OwedBy(r, t) = OwedBy(s, t) - paid
    BY <1>1, <1>3, <1>4, OwedFacts DEF OwedBy
  <2>2. Owed(t) = SumFunction(f) /\ Owed(t)' = SumFunction(g)
    BY DEF Owed, OwedEach, OwedBy
  <2>3. /\ SumFunction(f) = SumFunctionOnSet(f, 1..n) /\ SumFunction(f) \in Int
        /\ \A j \in 1..n : f[j] = OwedBy(multiSchedules[j], t) /\ f[j] \in Int
    BY <1>1, <1>4, OwedTotal DEF n
  <2>4. Len(multiSchedules') = n
    BY <1>3, <1>4, LenProperties
  <2>5. /\ SumFunction(g) = SumFunctionOnSet(g, 1..n)
        /\ \A j \in 1..n : g[j] = OwedBy(multiSchedules'[j], t) /\ g[j] \in Int
    BY <1>1, <1>3, <2>4, OwedTotal
  <2> HIDE DEF f, g
  <2>6. g[id] = OwedBy(r, t) /\ f[id] = OwedBy(s, t)
    BY <1>3, <1>4, <2>3, <2>5
  <2>7. \A j \in (1..n) \ {id} : g[j] = f[j]
    BY <1>3, <1>4, <2>3, <2>5
  <2>8. SumFunctionOnSet(g, 1..n) = SumFunctionOnSet(f, 1..n) - f[id] + g[id]
    <3>1. PICK P : P = 1..n
      OBVIOUS
    <3>2. IsFiniteSet(P)
      BY <1>4, <3>1, FS_Interval
    <3>3. /\ id \in P /\ g[id] \in Int /\ \A j \in P : f[j] \in Int
          /\ \A j \in P \ {id} : g[j] = f[j]
      BY <1>4, <2>3, <2>5, <2>7, <3>1
    <3>4. SumFunctionOnSet(g, P) = SumFunctionOnSet(f, P) - f[id] + g[id]
      BY <3>2, <3>3, SumUpdate
    <3> QED
      BY <3>1, <3>4
  <2>9. held'[t] = held[t] - paid /\ held[t] \in Int
    BY <1>1, <1>3
  <2> HIDE DEF paid
  <2>10. Owed(t)' = Owed(t) - paid /\ Owed(t) \in Int
    BY <2>1, <2>2, <2>3, <2>5, <2>6, <2>8
  <2> QED
    BY <2>1, <2>9, <2>10 DEF paid
<1>6. held' \in [Tokens -> Int]
  <2>1. held' = [t \in Tokens |-> held'[t]]
    BY <1>3
  <2>2. \A t \in Tokens : held'[t] \in Int
    BY <1>5
  <2> QED
    BY <2>1, <2>2
<1>7. HoldingsBacked'
  <2>1. UNCHANGED shaved
    BY DEF splitVars
  <2>2. \A t \in Tokens : held'[t] \in Int /\ Owed(t)' \in Int
    BY <1>5
  <2>3. \A t \in Tokens : held'[t] - Owed(t)' = held[t] - Owed(t)
    BY <1>5
  <2> QED
    BY <2>1, <2>2, <2>3, GapKept
<1> QED
  BY <1>1, <1>2, <1>6, <1>7 DEF HoldInv, WeightInv, splitVars

\* What a split pays out is the amount but for less than a unit for each receiver but
\* one.
LEMMA SharesFacts ==
  ASSUME NEW rs \in Configuration, rs # << >>, NEW amount \in Nat
  PROVE  LET out == SumFunction([i \in DOMAIN rs |-> Share(rs, i, amount)])
         IN  /\ out \in Int /\ out <= amount /\ amount - out <= Len(rs) - 1
             /\ Len(rs) \in Nat /\ Len(rs) > 0
<1> DEFINE n  == Len(rs)
           sh == [i \in DOMAIN rs |-> Share(rs, i, amount)]
           w  == WeightsOf(rs)
           S  == WeightOf(rs)
<1>1. rs \in Seq(SplitReceiver) /\ \A i \in DOMAIN rs : rs[i].weight > 0
  BY DEF Configuration
<1>2. /\ n \in Nat /\ DOMAIN rs = 1..n
      /\ \A i \in 1..n : rs[i].weight \in Nat
      /\ S = SumFunctionOnSet(w, 1..n)
  BY <1>1, ListFacts
<1>3. n > 0
  BY <1>1, <1>2, EmptySeq
<1>4. \A i \in 1..n : w[i] = rs[i].weight
  BY <1>2 DEF WeightsOf
<1>5. \A i \in 1..n : w[i] \in Nat /\ w[i] > 0
  BY <1>1, <1>2, <1>4
<1>6. \A i \in 1..n : sh[i] = (amount * w[i]) \div S
  BY <1>2, <1>4 DEF Share
<1>7. DOMAIN sh = 1..n
  BY <1>2
<1> HIDE DEF sh, w, S, n
<1>8. S > 0
  BY <1>2, <1>3, <1>5, SumPositive
<1>9. /\ SumFunctionOnSet(sh, 1..n) \in 0..amount
      /\ amount - SumFunctionOnSet(sh, 1..n) <= n - 1
  BY <1>2, <1>3, <1>5, <1>6, <1>8, ShareSum
<1>10. SumFunction(sh) = SumFunctionOnSet(sh, 1..n)
  BY <1>7, Zenon DEF SumFunction
<1>11. /\ SumFunction(sh) \in Int /\ SumFunction(sh) <= amount
       /\ amount - SumFunction(sh) <= n - 1
  BY <1>9, <1>10
<1> QED
  BY <1>2, <1>3, <1>11 DEF n, sh

\* A split leaves behind what rounding kept back.
LEMMA SplitBacked ==
  ASSUME HoldInv, NEW a \in Accounts, NEW t \in Tokens, NEW amount \in Amounts,
         Split(a, t, amount), UNCHANGED <<now, multiSchedules>>
  PROVE  HoldInv'
<1> DEFINE rs  == splits[a]
           out == SumFunction([i \in DOMAIN rs |-> Share(rs, i, amount)])
           n   == Len(rs)
           kept == amount - out
<1>1. /\ MultiInv /\ WeightInv /\ held \in [Tokens -> Int] /\ shaved \in Nat
      /\ rs \in Configuration
  BY DEF HoldInv, WeightInv
<1>2. /\ amount > 0 /\ rs # << >>
      /\ held' = [held EXCEPT ![t] = @ + amount - out]
      /\ shaved' = shaved + n - 1 /\ splits' = splits
  BY DEF Split
<1>3. amount \in Nat
  BY <1>2, SplitsAssumption
<1>4. out \in Int /\ out <= amount /\ kept <= n - 1 /\ n \in Nat /\ n > 0
  BY <1>1, <1>2, <1>3, SharesFacts
<1> HIDE DEF out, n, rs
<1>5. kept \in Nat
  BY <1>3, <1>4
<1>6. /\ held'[t] = held[t] + kept /\ held[t] \in Int
      /\ \A u \in Tokens \ {t} : held'[u] = held[u]
      /\ held' \in [Tokens -> Int]
  <2>1. held[t] \in Int
    BY <1>1
  <2>2. held[t] + amount - out = held[t] + kept /\ held[t] + kept \in Int
    BY <1>3, <1>4, <2>1
  <2>3. held' = [held EXCEPT ![t] = held[t] + kept]
    BY <1>2, <2>2
  <2> HIDE DEF kept
  <2> QED
    BY <1>1, <2>1, <2>2, <2>3
<1> HIDE DEF kept
<1>7. \A u \in Tokens : Owed(u)' = Owed(u)
  BY DEF Owed
<1>8. /\ IsFiniteSet(Tokens)
      /\ \A u \in Tokens : /\ held[u] \in Int /\ Owed(u) \in Int
                           /\ Gaps[u] = held[u] - Owed(u) /\ Gaps[u] \in Nat
      /\ SumFunctionOnSet(Gaps, Tokens) <= shaved
      /\ SumFunctionOnSet(Gaps, Tokens) \in Nat
  BY HoldFacts
<1>9. \A u \in Tokens : Gaps'[u] = held'[u] - Owed(u)
  BY <1>7 DEF Gaps
<1>10. Gaps'[t] = Gaps[t] + kept
  BY <1>5, <1>6, <1>8, <1>9
<1>11. \A u \in Tokens \ {t} : Gaps'[u] = Gaps[u]
  BY <1>6, <1>8, <1>9
<1>12. SumFunctionOnSet(Gaps', Tokens)
          = SumFunctionOnSet(Gaps, Tokens) - Gaps[t] + Gaps'[t]
  <2>1. \A u \in Tokens : Gaps[u] \in Int
    BY <1>8
  <2>2. Gaps'[t] \in Int
    BY <1>5, <1>10, <2>1
  <2> QED
    BY <1>8, <1>11, <2>1, <2>2, SumUpdate
<1>13. SumFunctionOnSet(Gaps', Tokens) <= shaved'
  BY <1>1, <1>2, <1>4, <1>5, <1>8, <1>10, <1>12
<1>14. HoldingsBacked'
  <2>1. \A u \in Tokens : held'[u] >= Owed(u)'
    <3> SUFFICES ASSUME NEW u \in Tokens
                 PROVE  held'[u] >= Owed(u)
      BY <1>7
    <3>1. CASE u = t
      BY <1>5, <1>6, <1>8, <3>1
    <3>2. CASE u # t
      BY <1>6, <1>8, <3>2
    <3> QED
      BY <3>1, <3>2
  <2>2. SumFunction(Gaps') = SumFunctionOnSet(Gaps', Tokens)
    <3>1. DOMAIN Gaps' = Tokens
      BY DEF Gaps
    <3> QED
      BY <3>1, Zenon DEF SumFunction
  <2>3. SumFunction(Gaps') <= shaved'
    BY <1>13, <2>2
  <2>4. SumFunction([u \in Tokens |-> held'[u] - Owed(u)']) <= shaved'
    BY <2>3 DEF Gaps
  <2> QED
    BY <2>1, <2>4 DEF HoldingsBacked
<1>15. MultiInv'
  BY <1>1 DEF MultiInv
<1>16. WeightInv'
  BY <1>1, <1>2 DEF WeightInv
<1>17. shaved' \in Nat
  BY <1>1, <1>2, <1>4
<1> QED
  BY <1>6, <1>14, <1>15, <1>16, <1>17 DEF HoldInv

\* A step that moves no amount and no schedule keeps the balance backed.
LEMMA SameBacked ==
  ASSUME HoldInv, MultiInv', WeightInv', UNCHANGED <<multiSchedules, held, shaved>>
  PROVE  HoldInv'
<1>1. \A t \in Tokens : Owed(t)' = Owed(t)
  BY DEF Owed
<1>2. \A t \in Tokens : held[t] \in Int /\ Owed(t) \in Int
  BY HoldFacts
<1>3. /\ \A t \in Tokens : held'[t] - Owed(t)' = held[t] - Owed(t)
      /\ \A t \in Tokens : held'[t] \in Int /\ Owed(t)' \in Int
      /\ UNCHANGED shaved
  BY <1>1, <1>2
<1>4. HoldingsBacked'
  BY <1>3, GapKept
<1> QED
  BY <1>4 DEF HoldInv

\* Every step keeps the balance backed.
LEMMA HoldKept ==
  ASSUME StartUnclaimed, HoldInv, [SplitsNext]_svars
  PROVE  HoldInv'
<1>1. MultiInv /\ WeightInv /\ now \in Nat
  BY DEF HoldInv, MultiInv
<1>2. WeightInv'
  BY <1>1, WeightKept
<1>3. ASSUME now' \in Nat, now <= now', UNCHANGED <<multiSchedules, held, shaved>>
      PROVE  HoldInv'
  BY <1>1, <1>2, <1>3, MultiTick, SameBacked
<1>4. CASE UNCHANGED svars
  BY <1>1, <1>3, <1>4 DEF svars, multiVars, splitVars
<1>5. CASE UpgradeStep /\ UNCHANGED <<multiVars, splitVars>>
  <2>1. now' = now
    BY <1>5 DEF UpgradeStep, InitializeUpgradeAuthority, TransferUpgradeAuthority,
                AnnounceUpgrade, CancelUpgrade, ExecuteUpgrade
  <2> QED
    BY <1>1, <1>3, <1>5, <2>1 DEF multiVars, splitVars
<1>6. CASE Tick /\ UNCHANGED <<multiVars, splitVars>>
  BY <1>1, <1>3, <1>6 DEF Tick, multiVars, splitVars
<1>7. CASE MultiTokenStep /\ UNCHANGED <<now, upgradeVars, splitVars>>
  <2>1. ASSUME NEW o \in MultiOffers, CreateMultiTokenSchedule(o)
        PROVE  HoldInv'
    BY <1>7, <2>1, CreateBacked
  <2>2. ASSUME NEW id \in DOMAIN multiSchedules, ClaimMultiToken(id)
        PROVE  HoldInv'
    BY <1>7, <2>2, ClaimBacked
  <2> QED
    BY <1>7, <2>1, <2>2 DEF MultiTokenStep
<1>8. CASE SplitsStep /\ UNCHANGED <<now, upgradeVars, multiSchedules>>
  <2>1. ASSUME UNCHANGED <<held, shaved>>
        PROVE  HoldInv'
    BY <1>1, <1>3, <1>8, <2>1
  <2>2. ASSUME NEW a \in Accounts, NEW rs \in Lists, SetSplits(a, rs)
        PROVE  HoldInv'
    BY <2>1, <2>2 DEF SetSplits
  <2>3. ASSUME NEW a \in Accounts, NEW r \in Receivers, NEW w \in Weights,
               AddSplitsReceiver(a, r, w)
        PROVE  HoldInv'
    BY <2>1, <2>3 DEF AddSplitsReceiver
  <2>4. ASSUME NEW a \in Accounts, NEW r \in Receivers, RemoveSplitsReceiver(a, r)
        PROVE  HoldInv'
    BY <2>1, <2>4 DEF RemoveSplitsReceiver
  <2>5. ASSUME NEW a \in Accounts, NEW t \in Tokens, NEW n \in Amounts, Split(a, t, n)
        PROVE  HoldInv'
    BY <1>8, <2>5, SplitBacked
  <2>6. ASSUME NEW nft \in Nfts, NEW o \in Receivers \cup {None}, NftMoves(nft, o)
        PROVE  HoldInv'
    BY <2>1, <2>6 DEF NftMoves
  <2> QED
    BY <1>8, <2>2, <2>3, <2>4, <2>5, <2>6 DEF SplitsStep
<1> QED
  BY <1>4, <1>5, <1>6, <1>7, <1>8 DEF SplitsNext

\* At first nothing is held and nothing owed.
LEMMA InitHold == SplitsInit => HoldInv
<1> SUFFICES ASSUME SplitsInit
             PROVE  HoldInv
  OBVIOUS
<1>1. /\ now = 0 /\ multiSchedules = << >> /\ held = [t \in Tokens |-> 0] /\ shaved = 0
  BY DEF SplitsInit, MultiTokenInit, UpgradeInit
<1>2. << >> \in Seq(StoredSchedule) /\ DOMAIN multiSchedules = {}
  BY <1>1, EmptySeq
<1>3. MultiInv
  BY <1>1, <1>2 DEF MultiInv
<1>4. \A t \in Tokens : Owed(t) = 0
  <2> SUFFICES ASSUME NEW t \in Tokens
               PROVE  Owed(t) = 0
    OBVIOUS
  <2>1. Owed(t) = SumFunction(OwedEach(multiSchedules, t))
    BY DEF Owed, OwedEach, OwedBy
  <2>2. DOMAIN OwedEach(multiSchedules, t) = {}
    BY <1>2 DEF OwedEach
  <2>3. SumFunction(OwedEach(multiSchedules, t))
           = SumFunctionOnSet(OwedEach(multiSchedules, t), {})
    BY <2>2, Zenon DEF SumFunction
  <2> QED
    BY <2>1, <2>3, SumEmpty
<1>5. HoldingsBacked
  <2>1. IsFiniteSet(Tokens)
    BY MultiAssumption
  <2>2. DOMAIN Gaps = Tokens /\ \A t \in Tokens : Gaps[t] = 0
    BY <1>1, <1>4 DEF Gaps
  <2>3. SumFunction(Gaps) = SumFunctionOnSet(Gaps, Tokens)
    BY <2>2, Zenon DEF SumFunction
  <2>4. SumFunctionOnSet(Gaps, Tokens) = 0
    BY <2>1, <2>2, SumZero
  <2>5. SumFunction([t \in Tokens |-> held[t] - Owed(t)]) <= shaved
    BY <1>1, <2>3, <2>4 DEF Gaps
  <2> QED
    BY <1>1, <1>4, <2>5 DEF HoldingsBacked
<1>6. WeightInv
  BY InitWeights
<1> QED
  BY <1>1, <1>3, <1>5, <1>6 DEF HoldInv

\* The balance splits and multi-token schedules share covers what the schedules owe,
\* and beyond that holds only what rounding kept back in splits, provided that
\* grants start unclaimed (create_multi_token_schedule, claim_multi_token, split).
THEOREM HoldingsStayBacked ==
  ASSUME StartUnclaimed
  PROVE  SplitsSpec => []HoldingsBacked
<1>1. HoldInv /\ [SplitsNext]_svars => HoldInv'
  BY HoldKept
<1>2. HoldInv => HoldingsBacked
  BY DEF HoldInv
<1> QED
  BY <1>1, <1>2, InitHold, PTL DEF SplitsSpec

-----------------------------------------------------------------------------
(* Rounding twice *)

\* A positive factor may be cancelled.
LEMMA Cancel ==
  ASSUME NEW a \in Int, NEW b \in Int, NEW d \in Nat, d > 0, d * a <= d * b
  PROVE  a <= b
<1> SUFFICES ASSUME a >= b + 1
             PROVE  FALSE
  OBVIOUS
<1>1. d * a >= d * (b + 1)
  OBVIOUS
<1>2. d * (b + 1) = d * b + d
  OBVIOUS
<1> QED
  BY <1>1, <1>2

\* The order of the integers is transitive.
LEMMA LeqTransitive == \A a, b, c \in Int : a <= b /\ b <= c => a <= c
OBVIOUS

\* A quotient lies between its multiple and the next.
LEMMA PartBounds ==
  ASSUME NEW t \in Nat, NEW x \in Nat, NEW d \in Nat, d > 0
  PROVE  /\ Part(t, x, d) \in Nat
         /\ d * Part(t, x, d) <= t * x
         /\ t * x + 1 <= d * Part(t, x, d) + d
<1>1. PICK a \in Nat : a = t * x
  OBVIOUS
<1>2. Part(t, x, d) = a \div d
  BY <1>1 DEF Part
<1>3. /\ a \div d \in Nat /\ a % d \in Nat /\ d * (a \div d) + (a % d) = a
      /\ a % d <= d - 1
  BY DivFacts
<1> QED
  BY <1>1, <1>2, <1>3

\* Rounding to basis points first and to units then gives no more than rounding once,
\* and less by at most a basis point of the whole and a unit.
LEMMA RoundedTwice ==
  ASSUME NEW t \in Nat, NEW F \in Nat, NEW x \in Nat, NEW d \in Nat, F > 0, d > 0
  PROVE  LET once  == Part(t, x, d)
             twice == Part(t, Part(F, x, d), F)
         IN  once - twice \in 0..(t \div F + 1)
<1> DEFINE p == Part(F, x, d)
           y == Part(t, x, d)
           z == Part(t, p, F)
           q == t \div F
<1>1. p \in Nat /\ d * p <= F * x /\ F * x + 1 <= d * p + d
  BY PartBounds
<1>2. y \in Nat /\ d * y <= t * x /\ t * x + 1 <= d * y + d
  BY PartBounds
<1> HIDE DEF p
<1>3. z \in Nat /\ F * z <= t * p /\ t * p + 1 <= F * z + F
  BY <1>1, PartBounds
<1>4. q \in Nat /\ t <= F * q + F - 1
  <2>1. t % F \in Nat /\ F * q + (t % F) = t /\ t % F <= F - 1 /\ q \in Nat
    BY DivFacts
  <2> QED
    BY <2>1
<1> HIDE DEF y, z, q
<1>5. z <= y
  <2> SUFFICES ASSUME z >= y + 1
               PROVE  FALSE
    BY <1>2, <1>3
  <2>1. d * (F * z) <= d * (t * p)
    BY <1>1, <1>3
  <2>2. t * (d * p) <= t * (F * x)
    BY <1>1
  <2>3. d * (t * p) = t * (d * p) /\ t * (F * x) = F * (t * x)
    BY <1>1
  <2>4. F * (t * x) + F <= F * (d * y + d)
    <3>1. F * (t * x + 1) <= F * (d * y + d)
      BY <1>2
    <3>2. F * (t * x + 1) = F * (t * x) + F
      OBVIOUS
    <3> QED
      BY <3>1, <3>2
  <2>5. F * (d * y + d) = d * (F * (y + 1))
    BY <1>2
  <2>6. d * (F * (y + 1)) <= d * (F * z)
    <3>1. F * (y + 1) <= F * z
      BY <1>2, <1>3
    <3> QED
      BY <3>1, <1>2, <1>3
  <2>7. /\ d * (F * z) \in Int /\ d * (t * p) \in Int /\ F * (t * x) \in Int
        /\ F * (d * y + d) \in Int
    BY <1>1, <1>2, <1>3
  <2>8. d * (F * z) <= F * (t * x)
    <3>1. d * (t * p) <= F * (t * x)
      BY <2>2, <2>3, Zenon
    <3> QED
      BY <2>1, <2>7, <3>1, LeqTransitive, Zenon
  <2>9. F * (t * x) + F <= d * (F * z)
    <3>1. F * (d * y + d) <= d * (F * z)
      BY <2>5, <2>6, Zenon
    <3>2. F * (t * x) + F \in Int
      BY <2>7
    <3> QED
      BY <2>4, <2>7, <3>1, <3>2, LeqTransitive, Zenon
  <2> QED
    BY <2>7, <2>8, <2>9
<1>6. y <= z + q + 1
  <2>1. F * y <= t * p + t
    <3>1. F * (d * y) <= F * (t * x)
      BY <1>2
    <3>2. t * (F * x) <= t * (d * p + d)
      BY <1>1
    <3>3. F * (d * y) = d * (F * y) /\ F * (t * x) = t * (F * x)
      BY <1>2
    <3>4. t * (d * p + d) = d * (t * p + t)
      BY <1>1
    <3>5. d * (F * y) <= d * (t * p + t)
      <4>1. d * (F * y) <= t * (F * x) /\ t * (F * x) <= d * (t * p + t)
        BY <3>1, <3>2, <3>3, <3>4, Zenon
      <4>2. /\ d * (F * y) \in Int /\ t * (F * x) \in Int
            /\ d * (t * p + t) \in Int
        BY <1>1, <1>2
      <4> QED
        BY <4>1, <4>2, LeqTransitive, Zenon
    <3>6. F * y \in Int /\ t * p + t \in Int
      BY <1>1, <1>2
    <3> QED
      BY <3>5, <3>6, Cancel
  <2>2. t * p + t <= F * z + F - 1 + F * q + F - 1
    BY <1>1, <1>3, <1>4
  <2>3. F * z + F * q + F + F = F * (z + q + 2)
    BY <1>3, <1>4
  <2> SUFFICES ASSUME y >= z + q + 2
               PROVE  FALSE
    BY <1>2, <1>3, <1>4
  <2>4. F * y >= F * (z + q + 2)
    BY <1>2, <1>3, <1>4
  <2>5. /\ F * y \in Int /\ F * z \in Int /\ F * q \in Int /\ t * p \in Int
        /\ F * (z + q + 2) \in Int
    BY <1>1, <1>2, <1>3, <1>4
  <2> QED
    BY <2>1, <2>2, <2>3, <2>4, <2>5
<1>7. y - z \in 0..(q + 1)
  BY <1>2, <1>3, <1>4, <1>5, <1>6
<1> QED
  BY <1>7 DEF p, y, z, q

\* A product that is an i128.
Small(a, b) == a * b <= I128_MAX

\* No product of an amount with a percentage or a time overflows.
Fits(s) ==
    \A i \in DOMAIN s.tokens :
       /\ Small(s.tokens[i].total_amount, FULL_BPS)
       /\ Small(s.tokens[i].total_amount, s.duration_seconds)

\* So it is for every grant that is made.
AmountsFit == \A o \in MultiOffers : Fits(o)

\* A product that fits is divided as it is.
LEMMA MulDivFits ==
  ASSUME NEW t \in Nat, NEW x \in Nat, NEW d \in Nat, d > 0, NEW m \in Nat, x <= m,
         Small(t, m), NEW fallback
  PROVE  MulDivOr(t, x, d, fallback) = Part(t, x, d)
<1>1. t * x <= t * m
  OBVIOUS
<1>2. t * x \in Int /\ t * m \in Int /\ I128_MAX \in Int
  BY I128Assumption
<1>3. ~(t * x > I128_MAX)
  BY <1>1, <1>2 DEF Small
<1> QED
  BY <1>3 DEF MulDivOr, Part

\* All of an amount, and none of it.
LEMMA PartEnds ==
  ASSUME NEW t \in Nat, NEW d \in Nat, d > 0
  PROVE  Part(t, d, d) = t /\ Part(t, 0, d) = 0
<1>1. /\ d * Part(t, d, d) <= t * d /\ t * d + 1 <= d * Part(t, d, d) + d
      /\ Part(t, d, d) \in Nat
  BY PartBounds
<1>2. Part(t, d, d) = t
  <2>1. t * d = d * t /\ d * t \in Int /\ d * Part(t, d, d) \in Int
    BY <1>1
  <2>2. Part(t, d, d) <= t
    BY <1>1, <2>1, Cancel
  <2>3. d * t <= d * (Part(t, d, d) + 1) - 1
    BY <1>1, <2>1
  <2>4. ~(Part(t, d, d) + 1 <= t)
    <3> SUFFICES ASSUME Part(t, d, d) + 1 <= t
                 PROVE  FALSE
      OBVIOUS
    <3>1. d * (Part(t, d, d) + 1) <= d * t
      BY <1>1
    <3> QED
      BY <1>1, <2>1, <2>3, <3>1
  <2> QED
    BY <1>1, <2>2, <2>4
<1>3. Part(t, 0, d) = 0
  <2>1. t * 0 = 0
    OBVIOUS
  <2>2. 0 \div d = 0
    OBVIOUS
  <2> QED
    BY <2>1, <2>2 DEF Part
<1> QED
  BY <1>2, <1>3

\* The single-token schedule on the same terms, kind by kind.
LEMMA SingleIs ==
  ASSUME NEW s \in StoredSchedule, NEW i \in DOMAIN s.tokens, NEW x \in Nat, NEW g \in Nat,
         x = s.start_time + g
  PROVE  LET t == s.tokens[i].total_amount
         IN  VestedAt(AsSingle(s, i), x) =
                CASE s.kind = "Graded" -> GradedCurve(t, s.milestones, g)
                  [] s.kind = "Cliff" -> IF g >= s.cliff_seconds THEN t ELSE 0
                  [] s.kind = "Linear" ->
                       IF g >= s.duration_seconds THEN t
                       ELSE MulDivOr(t, g, s.duration_seconds, t)
                  [] s.kind = "LinearWithCliff" ->
                       IF g < s.cliff_seconds THEN 0
                       ELSE IF g >= s.duration_seconds THEN t
                       ELSE MulDivOr(t, g - s.cliff_seconds,
                                     s.duration_seconds - s.cliff_seconds, t)
<1> DEFINE o == AsSingle(s, i)
<1>1. s.start_time \in Nat /\ s.kind \in VestingKinds
  BY DEF StoredSchedule, MultiTokenSchedule
<1>2. /\ o.kind = s.kind /\ o.start_time = s.start_time
      /\ o.duration_seconds = s.duration_seconds /\ o.cliff_seconds = s.cliff_seconds
      /\ o.milestones = s.milestones /\ o.total_amount = s.tokens[i].total_amount
      /\ o.revoked = FALSE /\ o.paused = FALSE /\ o.paused_duration = 0
  BY DEF AsSingle
<1> HIDE DEF o
<1>3. ~(x < o.start_time) /\ x - o.start_time = g
  BY <1>1, <1>2
<1>4. Elapsed(o, x) = g
  BY <1>2, <1>3 DEF Elapsed, SaturatingSub
<1>5. VestedAt(o, x) = Curve(o, g)
  BY <1>2, <1>3, <1>4 DEF VestedAt
<1>6. Curve(o, g) =
        CASE s.kind = "Graded" -> GradedCurve(s.tokens[i].total_amount, s.milestones, g)
          [] s.kind = "Cliff" ->
               IF g >= s.cliff_seconds THEN s.tokens[i].total_amount ELSE 0
          [] s.kind = "Linear" ->
               IF g >= s.duration_seconds THEN s.tokens[i].total_amount
               ELSE MulDivOr(s.tokens[i].total_amount, g, s.duration_seconds,
                             s.tokens[i].total_amount)
          [] s.kind = "LinearWithCliff" ->
               IF g < s.cliff_seconds THEN 0
               ELSE IF g >= s.duration_seconds THEN s.tokens[i].total_amount
               ELSE MulDivOr(s.tokens[i].total_amount, g - s.cliff_seconds,
                             s.duration_seconds - s.cliff_seconds,
                             s.tokens[i].total_amount)
  BY <1>1, <1>2 DEF Curve, LinearCurve, CliffCurve, LinearWithCliffCurve, VestingKinds
<1> QED
  BY <1>5, <1>6 DEF o

\* A tranche vests no more than its single-token schedule, and less by at most a basis
\* point and a unit.
LEMMA CloseToSingle ==
  ASSUME NEW s \in StoredSchedule, Fits(s), NEW x \in Nat, NEW i \in DOMAIN s.tokens
  PROVE  VestedAt(AsSingle(s, i), x)
            - TrancheVested(s.tokens[i], VestedPercentageAt(s, x))
               \in 0..(s.tokens[i].total_amount \div FULL_BPS + 1)
<1> DEFINE r == s.tokens[i]
           t == r.total_amount
           d == s.duration_seconds
           c == s.cliff_seconds
           p == VestedPercentageAt(s, x)
           single == VestedAt(AsSingle(s, i), x)
           due    == TrancheVested(r, p)
           slack  == t \div FULL_BPS + 1
<1>1. /\ s.start_time \in Nat /\ d \in Nat /\ c \in Nat /\ d > 0 /\ c <= d
      /\ s.kind \in VestingKinds
      /\ s.milestones \in Seq([offset_secs : Nat, bps : Nat])
      /\ FULL_BPS \in Nat /\ FULL_BPS > 0 /\ I128_MAX \in Nat
  BY BpsAssumption, I128Assumption DEF StoredSchedule, MultiTokenSchedule
<1>2. t \in Nat /\ t > 0 /\ Small(t, FULL_BPS) /\ Small(t, d)
  BY StoredFacts DEF Fits
<1>3. p \in 0..FULL_BPS
  <2>1. x <= x
    OBVIOUS
  <2> QED
    BY <2>1, PercentageFacts
<1>4. due = Part(t, p, FULL_BPS) /\ due \in 0..t
  <2>1. due = Least(MulDivOr(t, p, FULL_BPS, t), t)
    BY DEF TrancheVested
  <2>2. p \in Nat /\ p <= FULL_BPS
    BY <1>1, <1>3
  <2> HIDE DEF t, p, due
  <2>3. MulDivOr(t, p, FULL_BPS, t) = Part(t, p, FULL_BPS)
    BY <1>1, <1>2, <2>2, MulDivFits
  <2>4. Part(t, p, FULL_BPS) \in 0..t
    <3>1. p <= p
      BY <2>2
    <3> QED
      BY <1>1, <1>2, <2>2, <3>1, PartFacts
  <2> QED
    BY <1>2, <2>1, <2>3, <2>4 DEF Least
<1>5. slack \in Nat
  <2> HIDE DEF t
  <2>1. t \div FULL_BPS \in Nat
    BY <1>1, <1>2, DivFacts
  <2> QED
    BY <2>1
<1>6. (p = 0 => due = 0) /\ (p = FULL_BPS => due = t)
  <2> HIDE DEF t, p, due
  <2>1. Part(t, FULL_BPS, FULL_BPS) = t /\ Part(t, 0, FULL_BPS) = 0
    BY <1>1, <1>2, PartEnds
  <2> QED
    BY <1>4, <2>1
<1> HIDE DEF r, d, c
<1>7. CASE x < s.start_time
  <2>1. single = 0
    BY <1>7 DEF VestedAt, AsSingle
  <2>2. p = 0
    BY <1>7 DEF VestedPercentageAt
  <2> HIDE DEF t, p, due, single, slack
  <2>3. single - due = 0
    BY <1>6, <2>1, <2>2
  <2> QED
    BY <1>5, <2>3 DEF single, due, slack, t, r, p
<1>8. CASE x >= s.start_time
  <2>1. PICK g \in Nat : x = s.start_time + g
    <3>1. x - s.start_time \in Nat /\ x = s.start_time + (x - s.start_time)
      BY <1>1, <1>8
    <3> QED
      BY <3>1
  <2>2. CASE s.kind = "Graded"
    <3> DEFINE v == VestedBps(s.milestones, g)
    <3>1. v \in Nat
      <4>1. g <= g
        BY <2>1
      <4> QED
        BY <1>1, <2>1, <4>1, BpsFacts
    <3>2. p = Least(v, FULL_BPS)
      BY <2>1, <2>2, PercentageIs
    <3>3. single = Least(MulDivOr(t, v, FULL_BPS, t), t)
      BY <2>1, <2>2, SingleIs DEF GradedCurve, r
    <3> HIDE DEF v, t, p, due, single
    <3>4. CASE v <= FULL_BPS
      <4>1. MulDivOr(t, v, FULL_BPS, t) = Part(t, v, FULL_BPS) /\ p = v
        BY <1>1, <1>2, <3>1, <3>2, <3>4, MulDivFits DEF Least
      <4>2. single = due
        BY <1>2, <1>4, <3>3, <4>1 DEF Least
      <4> QED
        BY <1>4, <1>5, <4>2 DEF single, due, slack, t, r, p
    <3>5. CASE v > FULL_BPS
      <4>1. p = FULL_BPS
        BY <1>1, <3>1, <3>2, <3>5 DEF Least
      <4>2. due = t
        BY <1>6, <4>1
      <4>3. single = t
        <5>1. MulDivOr(t, v, FULL_BPS, t) \in Int /\ MulDivOr(t, v, FULL_BPS, t) >= t
          <6>1. CASE t * v > I128_MAX
            BY <1>2, <6>1 DEF MulDivOr
          <6>2. CASE ~(t * v > I128_MAX)
            <7>1. MulDivOr(t, v, FULL_BPS, t) = Part(t, v, FULL_BPS)
              BY <6>2 DEF MulDivOr, Part
            <7>2. /\ Part(t, v, FULL_BPS) \in Nat
                  /\ t * v + 1 <= FULL_BPS * Part(t, v, FULL_BPS) + FULL_BPS
              BY <1>1, <1>2, <3>1, PartBounds
            <7>3. PICK w \in Nat : w = Part(t, v, FULL_BPS)
              BY <7>2
            <7>4. FULL_BPS * t <= t * v
              <8>1. t * FULL_BPS <= t * v
                BY <1>1, <1>2, <3>1, <3>5
              <8> QED
                BY <8>1, <1>1, <1>2
            <7>5. t <= w
              <8> SUFFICES ASSUME w + 1 <= t
                           PROVE  FALSE
                BY <1>2
              <8>1. FULL_BPS * (w + 1) <= FULL_BPS * t
                BY <1>1, <1>2
              <8>2. FULL_BPS * (w + 1) = FULL_BPS * w + FULL_BPS
                BY <1>1
              <8>3. t * v + 1 <= FULL_BPS * w + FULL_BPS
                BY <7>2, <7>3, Zenon
              <8>4. FULL_BPS * w \in Int /\ FULL_BPS * t \in Int /\ t * v \in Int
                BY <1>1, <1>2, <3>1
              <8> QED
                BY <1>1, <7>4, <8>1, <8>2, <8>3, <8>4
            <7> QED
              BY <1>2, <7>1, <7>3, <7>5
          <6> QED
            BY <6>1, <6>2
        <5> QED
          BY <1>2, <3>3, <5>1 DEF Least
      <4> QED
        BY <1>2, <1>5, <4>2, <4>3 DEF single, due, slack, t, r, p
    <3> QED
      BY <1>1, <3>1, <3>4, <3>5
  <2>3. CASE s.kind = "Cliff"
    <3>1. p = IF g >= c THEN FULL_BPS ELSE 0
      BY <2>1, <2>3, PercentageIs DEF c
    <3>2. single = IF g >= c THEN t ELSE 0
      BY <2>1, <2>3, SingleIs DEF r, c
    <3> HIDE DEF t, p, due, single, slack
    <3>3. single - due = 0
      BY <1>2, <1>6, <3>1, <3>2
    <3> QED
      BY <1>5, <3>3 DEF single, due, slack, t, r, p
  <2>4. CASE s.kind = "Linear"
    <3>1. p = IF g >= d THEN FULL_BPS ELSE Part(FULL_BPS, g, d)
      BY <2>1, <2>4, PercentageIs DEF d
    <3>2. single = IF g >= d THEN t ELSE MulDivOr(t, g, d, t)
      BY <2>1, <2>4, SingleIs DEF r, d
    <3> HIDE DEF t, p, due, single
    <3>3. CASE g >= d
      <4>1. single - due = 0
        BY <1>2, <1>6, <3>1, <3>2, <3>3
      <4> QED
        BY <1>5, <4>1 DEF single, due, slack, t, r, p
    <3>4. CASE g < d
      <4>1. MulDivOr(t, g, d, t) = Part(t, g, d)
        BY <1>1, <1>2, <2>1, <3>4, MulDivFits
      <4>2. Part(t, g, d) - Part(t, Part(FULL_BPS, g, d), FULL_BPS) \in 0..slack
        BY <1>1, <1>2, <2>1, RoundedTwice
      <4>3. single = Part(t, g, d) /\ due = Part(t, Part(FULL_BPS, g, d), FULL_BPS)
        BY <1>1, <1>4, <2>1, <3>1, <3>2, <3>4, <4>1
      <4>4. single - due \in 0..slack
        BY <4>2, <4>3
      <4> QED
        BY <4>4 DEF single, due, t, r, p
    <3> QED
      BY <1>1, <2>1, <3>3, <3>4
  <2>5. CASE s.kind = "LinearWithCliff"
    <3>1. p = IF g < c THEN 0 ELSE IF g >= d THEN FULL_BPS
              ELSE Part(FULL_BPS, g - c, d - c)
      BY <2>1, <2>5, PercentageIs DEF d, c
    <3>2. single = IF g < c THEN 0 ELSE IF g >= d THEN t
                   ELSE MulDivOr(t, g - c, d - c, t)
      BY <2>1, <2>5, SingleIs DEF r, d, c
    <3> HIDE DEF t, p, due, single
    <3>3. CASE g < c \/ g >= d
      <4>1. single - due = 0
        BY <1>1, <1>2, <1>6, <2>1, <3>1, <3>2, <3>3
      <4> QED
        BY <1>5, <4>1 DEF single, due, slack, t, r, p
    <3>4. CASE g >= c /\ g < d
      <4>1. PICK m, n \in Nat : m = g - c /\ n = d - c /\ n > 0 /\ m <= n /\ m <= d
        <5>1. g - c \in Nat /\ d - c \in Nat
          BY <1>1, <2>1, <3>4
        <5> QED
          BY <1>1, <2>1, <3>4, <5>1
      <4>2. MulDivOr(t, m, n, t) = Part(t, m, n)
        BY <1>1, <1>2, <4>1, MulDivFits
      <4>3. Part(t, m, n) - Part(t, Part(FULL_BPS, m, n), FULL_BPS) \in 0..slack
        BY <1>1, <1>2, <4>1, RoundedTwice
      <4>4. ~(g < c) /\ ~(g >= d)
        BY <1>1, <2>1, <3>4
      <4>5. p = Part(FULL_BPS, m, n) /\ single = Part(t, m, n)
        BY <3>1, <3>2, <4>1, <4>2, <4>4
      <4>6. due = Part(t, Part(FULL_BPS, m, n), FULL_BPS)
        BY <1>4, <4>5
      <4>7. single - due \in 0..slack
        BY <4>3, <4>5, <4>6
      <4> QED
        BY <4>7 DEF single, due, t, r, p
    <3> QED
      BY <1>1, <2>1, <3>3, <3>4
  <2> QED
    BY <1>1, <2>2, <2>3, <2>4, <2>5 DEF VestingKinds
<1> QED
  BY <1>1, <1>7, <1>8

\* Sound schedules whose products fit.
RoundInv == MultiInv /\ \A id \in DOMAIN multiSchedules : Fits(multiSchedules[id])

\* Every step keeps them so.
LEMMA RoundKept ==
  ASSUME StartUnclaimed, AmountsFit, RoundInv, [SplitsNext]_svars
  PROVE  RoundInv'
<1>1. MultiInv /\ now \in Nat
  BY DEF RoundInv, MultiInv
<1>2. ASSUME UNCHANGED multiSchedules, now' \in Nat, now <= now'
      PROVE  RoundInv'
  BY <1>1, <1>2, MultiTick DEF RoundInv, Fits, Small
<1>3. ASSUME NEW o \in MultiOffers, CreateMultiTokenSchedule(o), now' = now
      PROVE  RoundInv'
  <2>1. MultiInv'
    BY <1>1, <1>3, MultiCreate
  <2>2. /\ Len(multiSchedules) \in Nat
        /\ DOMAIN multiSchedules' = 1..(Len(multiSchedules) + 1)
        /\ \A j \in 1..Len(multiSchedules) : multiSchedules'[j] = multiSchedules[j]
        /\ multiSchedules'[Len(multiSchedules) + 1] = o
    BY <1>1, <1>3, CreateIs
  <2>3. DOMAIN multiSchedules = 1..Len(multiSchedules)
    BY <1>1, MultiFacts
  <2>4. Fits(o)
    BY DEF AmountsFit
  <2>5. ASSUME NEW j \in DOMAIN multiSchedules'
        PROVE  Fits(multiSchedules'[j])
    <3>1. CASE j = Len(multiSchedules) + 1
      BY <2>2, <2>4, <3>1
    <3>2. CASE j \in 1..Len(multiSchedules)
      BY <2>2, <2>3, <3>2 DEF RoundInv
    <3>3. j \in 1..(Len(multiSchedules) + 1)
      BY <2>2
    <3> QED
      BY <2>2, <3>1, <3>2, <3>3
  <2> QED
    BY <2>1, <2>5 DEF RoundInv, Fits, Small
<1>4. ASSUME NEW id \in DOMAIN multiSchedules, ClaimMultiToken(id), now' = now
      PROVE  RoundInv'
  <2> DEFINE s == multiSchedules[id]
             r == [s EXCEPT !.tokens = AfterClaim(s)]
  <2>1. MultiInv'
    BY <1>1, <1>4, MultiClaim
  <2>2. /\ r.tokens = AfterClaim(s)
        /\ DOMAIN multiSchedules' = DOMAIN multiSchedules
        /\ multiSchedules'[id] = r
        /\ \A j \in DOMAIN multiSchedules \ {id} :
              multiSchedules'[j] = multiSchedules[j]
    BY <1>1, <1>4, ClaimIs
  <2>3. s \in StoredSchedule
    BY <1>1, <1>4, MultiFacts
  <2>4. r.duration_seconds = s.duration_seconds
    BY <2>3 DEF StoredSchedule, MultiTokenSchedule
  <2>5. /\ DOMAIN AfterClaim(s) = DOMAIN s.tokens
        /\ \A i \in DOMAIN s.tokens :
              AfterClaim(s)[i].total_amount = s.tokens[i].total_amount
    BY <1>1, <2>3, ClaimFacts
  <2> HIDE DEF r
  <2>6. Fits(r)
    <3>1. Fits(s)
      BY <1>4 DEF RoundInv
    <3> QED
      BY <2>2, <2>4, <2>5, <3>1 DEF Fits
  <2>7. \A j \in DOMAIN multiSchedules' : Fits(multiSchedules'[j])
    BY <2>2, <2>6 DEF RoundInv
  <2> QED
    BY <2>1, <2>7 DEF RoundInv, Fits, Small
<1>5. CASE UNCHANGED svars
  BY <1>1, <1>2, <1>5 DEF svars, multiVars
<1>6. CASE UpgradeStep /\ UNCHANGED <<multiVars, splitVars>>
  <2>1. now' = now
    BY <1>6 DEF UpgradeStep, InitializeUpgradeAuthority, TransferUpgradeAuthority,
                AnnounceUpgrade, CancelUpgrade, ExecuteUpgrade
  <2> QED
    BY <1>1, <1>2, <1>6, <2>1 DEF multiVars
<1>7. CASE Tick /\ UNCHANGED <<multiVars, splitVars>>
  BY <1>1, <1>2, <1>7 DEF Tick, multiVars
<1>8. CASE MultiTokenStep /\ UNCHANGED <<now, upgradeVars, splitVars>>
  BY <1>3, <1>4, <1>8 DEF MultiTokenStep
<1>9. CASE SplitsStep /\ UNCHANGED <<now, upgradeVars, multiSchedules>>
  BY <1>1, <1>2, <1>9
<1> QED
  BY <1>5, <1>6, <1>7, <1>8, <1>9 DEF SplitsNext

\* What was claimed has vested on the single-token curve too.
LEMMA RoundSound == RoundInv => WithinABasisPoint
<1> SUFFICES ASSUME RoundInv, NEW id \in DOMAIN multiSchedules,
                    NEW i \in DOMAIN multiSchedules[id].tokens
             PROVE  LET s       == multiSchedules[id]
                        tranche == s.tokens[i]
                        single  == VestedAt(AsSingle(s, i), now)
                    IN  /\ tranche.claimed_amount <= single
                        /\ single - TrancheVested(tranche, VestedPercentageAt(s, now))
                              \in 0..(tranche.total_amount \div FULL_BPS + 1)
  BY DEF WithinABasisPoint
<1> DEFINE s       == multiSchedules[id]
           tranche == s.tokens[i]
           single  == VestedAt(AsSingle(s, i), now)
           due     == TrancheVested(tranche, VestedPercentageAt(s, now))
<1>1. s \in StoredSchedule /\ Fits(s) /\ now \in Nat
  BY MultiFacts DEF RoundInv, MultiInv
<1>2. single - due \in 0..(tranche.total_amount \div FULL_BPS + 1)
  BY <1>1, CloseToSingle
<1>3. tranche.claimed_amount <= due /\ tranche.claimed_amount \in Nat /\ due \in Nat
  BY <1>1, StoredFacts, ClaimFacts DEF RoundInv, MultiInv
<1>4. single \in Int
  <2>1. ASSUME NEW g \in Nat, now = s.start_time + g
        PROVE  single \in Int
    <3> DEFINE t == tranche.total_amount
               d == s.duration_seconds
               c == s.cliff_seconds
    <3>1. /\ t \in Nat /\ d \in Nat /\ d > 0 /\ c \in Nat /\ c <= d
          /\ FULL_BPS \in Nat /\ FULL_BPS > 0 /\ s.kind \in VestingKinds
          /\ s.milestones \in Seq([offset_secs : Nat, bps : Nat])
      <4>1. t \in Nat
        BY <1>1, StoredFacts
      <4>2. /\ d \in Nat /\ d > 0 /\ c \in Nat /\ c <= d /\ s.kind \in VestingKinds
            /\ s.milestones \in Seq([offset_secs : Nat, bps : Nat])
        BY <1>1 DEF StoredSchedule, MultiTokenSchedule
      <4> QED
        BY <4>1, <4>2, BpsAssumption
    <3>2. ASSUME NEW a \in Nat, NEW b \in Nat, b > 0
          PROVE  MulDivOr(t, a, b, t) \in Int
      <4>1. Part(t, a, b) \in Nat
        BY <3>1, <3>2, PartBounds
      <4> QED
        BY <3>1, <4>1 DEF MulDivOr, Part
    <3>3. CASE s.kind = "Graded"
      <4>1. g <= g
        BY <2>1
      <4>2. VestedBps(s.milestones, g) \in Nat
        BY <3>1, <4>1, BpsFacts
      <4>3. MulDivOr(t, VestedBps(s.milestones, g), FULL_BPS, t) \in Int
        BY <3>1, <3>2, <4>2
      <4>4. single = Least(MulDivOr(t, VestedBps(s.milestones, g), FULL_BPS, t), t)
        BY <1>1, <2>1, <3>3, SingleIs DEF GradedCurve
      <4> QED
        BY <3>1, <4>3, <4>4 DEF Least
    <3>4. CASE s.kind = "Cliff"
      <4>1. single = IF g >= c THEN t ELSE 0
        BY <1>1, <2>1, <3>4, SingleIs
      <4> QED
        BY <3>1, <4>1
    <3>5. CASE s.kind = "Linear"
      <4>1. single = IF g >= d THEN t ELSE MulDivOr(t, g, d, t)
        BY <1>1, <2>1, <3>5, SingleIs
      <4>2. MulDivOr(t, g, d, t) \in Int
        BY <2>1, <3>1, <3>2
      <4> QED
        BY <3>1, <4>1, <4>2
    <3>6. CASE s.kind = "LinearWithCliff"
      <4>1. single = IF g < c THEN 0 ELSE IF g >= d THEN t
                     ELSE MulDivOr(t, g - c, d - c, t)
        BY <1>1, <2>1, <3>6, SingleIs
      <4>2. CASE g >= c /\ g < d
        <5>1. g - c \in Nat /\ d - c \in Nat /\ d - c > 0
          BY <3>1, <4>2
        <5>2. MulDivOr(t, g - c, d - c, t) \in Int
          BY <3>2, <5>1
        <5> QED
          BY <3>1, <4>1, <5>2
      <4> QED
        BY <3>1, <4>1, <4>2
    <3> QED
      BY <3>1, <3>3, <3>4, <3>5, <3>6 DEF VestingKinds
  <2>2. CASE now < s.start_time
    BY <2>2 DEF VestedAt, AsSingle
  <2>3. CASE now >= s.start_time
    <3>1. s.start_time \in Nat
      BY <1>1 DEF StoredSchedule, MultiTokenSchedule
    <3>2. now - s.start_time \in Nat /\ now = s.start_time + (now - s.start_time)
      BY <1>1, <2>3, <3>1
    <3> QED
      BY <2>1, <3>2
  <2>4. s.start_time \in Nat
    BY <1>1 DEF StoredSchedule, MultiTokenSchedule
  <2> QED
    BY <1>1, <2>2, <2>3, <2>4
<1> HIDE DEF single, due
<1>5. single - due >= 0
  BY <1>2, <1>3, <1>4
<1>6. tranche.claimed_amount <= single
  BY <1>3, <1>4, <1>5
<1> QED
  BY <1>2, <1>6 DEF single, due

\* Rounding to basis points first never puts the beneficiary of a tranche ahead of a
\* single-token schedule on the same terms, and keeps it behind by at most a basis
\* point and a unit, provided that grants start unclaimed and no product overflows
\* (vested_percentage_at, claim_multi_token).
THEOREM RoundingWithinABasisPoint ==
  ASSUME StartUnclaimed, AmountsFit
  PROVE  SplitsSpec => []WithinABasisPoint
<1>1. RoundInv /\ [SplitsNext]_svars => RoundInv'
  BY RoundKept
<1>2. SplitsInit => RoundInv
  <2> SUFFICES ASSUME SplitsInit
               PROVE  RoundInv
    OBVIOUS
  <2>1. MultiInv
    BY InitHold DEF HoldInv
  <2>2. DOMAIN multiSchedules = {}
    BY EmptySeq DEF SplitsInit, MultiTokenInit
  <2> QED
    BY <2>1, <2>2 DEF RoundInv
<1> QED
  BY <1>1, <1>2, RoundSound, PTL DEF SplitsSpec
=============================================================================
