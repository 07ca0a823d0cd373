------------------------------- MODULE Splits -------------------------------
(***************************************************************************)
(* Splits of the VestFlow contract: an account configures receivers with   *)
(* weights, and every amount it splits passes through the contract to them *)
(* by weight.  A receiver is an address, or whoever owns an NFT when the   *)
(* split is made.  Composed with multi-token schedules, whose balance the  *)
(* amounts pass through, and with the upgrade authority.                   *)
(*                                                                         *)
(* split_collect and set_stream_and_splits belong to streams and are left  *)
(* out.                                                                    *)
(***************************************************************************)
EXTENDS MultiToken

CONSTANTS
    TOTAL_SPLITS_WEIGHT,
    Accounts,      \* accounts that configure and make splits
    Receivers,     \* addresses that receive
    Nfts,          \* NFTs, each a contract and a token id
    Lists,         \* bound: the lists set_splits is called with
    Weights,       \* bound: the weights a receiver is added with
    Amounts,       \* bound: the amounts that are split
    MaxSplits      \* bound: splits made

SplitReceiver == [receiver : Receivers \cup Nfts, weight : Nat]

ASSUME SplitsAssumption ==
    /\ TOTAL_SPLITS_WEIGHT \in Nat \ {0}
    /\ Lists \subseteq Seq(SplitReceiver)
    /\ Amounts \subseteq Int

VARIABLES
    splits,        \* DataKey::Splits(account), <<>> when there is none
    nftOwner,      \* external: what owner_of answers, None when it fails
    splitsMade,    \* counts the splits
    shaved         \* history: receivers but one of every split, summed up

splitVars == <<splits, nftOwner, splitsMade, shaved>>
svars == <<now, upgradeVars, multiVars, splitVars>>

SplitsInit ==
    /\ MultiTokenInit
    /\ splits = [a \in Accounts |-> <<>>]
    /\ nftOwner \in [Nfts -> Receivers]
    /\ splitsMade = 0
    /\ shaved = 0

WeightOf(rs) == SumFunction([i \in DOMAIN rs |-> rs[i].weight])

-----------------------------------------------------------------------------
\* An empty list clears the configuration; duplicates and long lists pass.
SetSplits(a, rs) ==
    /\ \A i \in DOMAIN rs : rs[i].weight \in 1..TOTAL_SPLITS_WEIGHT
    /\ rs = <<>> \/ WeightOf(rs) = TOTAL_SPLITS_WEIGHT
    /\ splits' = [splits EXCEPT ![a] = rs]
    /\ UNCHANGED <<held, nftOwner, splitsMade, shaved>>

\* Mutant: the others are not made smaller for the newcomer.
RoomKept(weight) == TOTAL_SPLITS_WEIGHT

\* What the others share when a receiver joins.
Room(weight) == TOTAL_SPLITS_WEIGHT - weight

\* The others are scaled down to the room left, each rounded down, and none to
\* zero; the first receiver of an empty configuration may have any weight.
AddSplitsReceiver(a, r, weight) ==
    LET old    == splits[a]
        scaled == [i \in DOMAIN old |->
                      [old[i] EXCEPT !.weight = (@ * Room(weight)) \div WeightOf(old)]]
    IN  /\ weight \in 1..TOTAL_SPLITS_WEIGHT
        /\ \A i \in DOMAIN old : old[i].receiver # r
        /\ old # <<>> => weight < TOTAL_SPLITS_WEIGHT
        /\ \A i \in DOMAIN scaled : scaled[i].weight > 0
        /\ splits' = [splits EXCEPT ![a] = Append(scaled, [receiver |-> r, weight |-> weight])]
        /\ UNCHANGED <<held, nftOwner, splitsMade, shaved>>

\* The weight that becomes free is shared equally, the remainder goes to the
\* first of those left; no weight may pass the whole.
RemoveSplitsReceiver(a, r) ==
    LET old   == splits[a]
        at    == CHOOSE i \in DOMAIN old :
                    old[i].receiver = r /\ \A j \in 1..(i - 1) : old[j].receiver # r
        left  == RemoveAt(old, at)
        grown == [i \in DOMAIN left |->
                     [left[i] EXCEPT !.weight =
                         @ + old[at].weight \div Len(left)
                           + (IF i = 1 THEN old[at].weight % Len(left) ELSE 0)]]
    IN  /\ r \in Receivers
        /\ \E i \in DOMAIN old : old[i].receiver = r
        /\ \A i \in DOMAIN grown : grown[i].weight <= TOTAL_SPLITS_WEIGHT
        /\ splits' = [splits EXCEPT ![a] = grown]
        /\ UNCHANGED <<held, nftOwner, splitsMade, shaved>>

\* Mutant: shares are parts of the nominal whole, which weights may fall short of.
ShareOfNominal(rs, i, amount) == (amount * rs[i].weight) \div TOTAL_SPLITS_WEIGHT

Share(rs, i, amount) == (amount * rs[i].weight) \div WeightOf(rs)

\* The amount comes in, the shares go out; what rounding keeps back stays in the
\* contract.  One NFT without an owner fails the whole call.
Split(a, t, amount) ==
    LET rs == splits[a]
        out == SumFunction([i \in DOMAIN rs |-> Share(rs, i, amount)])
    IN  /\ splitsMade < MaxSplits
        /\ amount > 0
        /\ rs # <<>>
        /\ \A i \in DOMAIN rs : rs[i].receiver \in Nfts => nftOwner[rs[i].receiver] # None
        /\ held' = [held EXCEPT ![t] = @ + amount - out]
        /\ splitsMade' = splitsMade + 1
        /\ shaved' = shaved + Len(rs) - 1
        /\ UNCHANGED <<splits, nftOwner>>

\* An NFT changes hands or is burned.
NftMoves(nft, owner) ==
    /\ nftOwner' = [nftOwner EXCEPT ![nft] = owner]
    /\ UNCHANGED <<held, splits, splitsMade, shaved>>

SplitsStep ==
    \/ \E a \in Accounts :
          \/ \E rs \in Lists : SetSplits(a, rs)
          \/ \E r \in Receivers, w \in Weights : AddSplitsReceiver(a, r, w)
          \/ \E r \in Receivers : RemoveSplitsReceiver(a, r)
          \/ \E t \in Tokens, n \in Amounts : Split(a, t, n)
    \/ \E nft \in Nfts, o \in Receivers \cup {None} : NftMoves(nft, o)

SplitsNext ==
    \/ UpgradeStep /\ UNCHANGED <<multiVars, splitVars>>
    \/ Tick /\ UNCHANGED <<multiVars, splitVars>>
    \/ MultiTokenStep /\ UNCHANGED <<now, upgradeVars, splitVars>>
    \/ SplitsStep /\ UNCHANGED <<now, upgradeVars, multiSchedules>>

SplitsSpec == SplitsInit /\ [][SplitsNext]_svars

-----------------------------------------------------------------------------
(* Properties *)

\* However a configuration was set, grown and shrunk, its weights are positive
\* and stay within the whole: scaling rounds each one down without losing it and
\* redistributing never passes the whole (add_splits_receiver,
\* remove_splits_receiver).
WeightsWithinWhole ==
    \A a \in Accounts :
       /\ \A i \in DOMAIN splits[a] : splits[a][i].weight > 0
       /\ WeightOf(splits[a]) <= TOTAL_SPLITS_WEIGHT

\* The balance splits and schedules share covers what the schedules owe, and
\* beyond that holds only what rounding kept back: less than one unit for each
\* receiver but one of every split ever made (split, claim_multi_token).
HoldingsBacked ==
    /\ \A t \in Tokens : held[t] >= Owed(t)
    /\ SumFunction([t \in Tokens |-> held[t] - Owed(t)]) <= shaved
=============================================================================
