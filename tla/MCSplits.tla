------------------------------ MODULE MCSplits ------------------------------
(* Small instances of Splits, MultiToken and Upgrade under one clock. *)
EXTENDS Splits, TLC

CONSTANTS r1, r2, xlm, usdc, nft, g1, g2, v1, v2

Symmetry == Permutations(Builds) \cup Permutations(Authorities)

Grant(kind, amounts, cliff, lockup, plan) ==
    [tokens |-> [i \in DOMAIN amounts |->
                    [token |-> amounts[i][1], total_amount |-> amounts[i][2],
                     claimed_amount |-> 0]],
     start_time |-> 0, duration_seconds |-> 3, cliff_seconds |-> cliff,
     lockup_duration |-> lockup, kind |-> kind, milestones |-> plan]

\* Every kind; one token in two tranches; more units than basis points; graded
\* milestones that pass the whole, which nothing rejects.
SomeGrants ==
    {Grant("Linear", <<<<xlm, 9>>, <<usdc, 2>>>>, 0, 1, <<>>),
     Grant("LinearWithCliff", <<<<xlm, 5>>, <<xlm, 7>>>>, 1, 1, <<>>),
     Grant("Cliff", <<<<usdc, 1>>>>, 2, 2, <<>>),
     Grant("Graded", <<<<usdc, 5>>>>, 0, 0,
           <<[offset_secs |-> 0, bps |-> 1], [offset_secs |-> 2, bps |-> 4]>>)}

To(r, weight) == [receiver |-> r, weight |-> weight]

\* With a remainder for every receiver, an NFT, and one address twice.
SomeLists ==
    {<<>>, <<To(r1, 3), To(nft, 3)>>, <<To(r2, 1), To(r2, 2), To(r1, 3)>>}
=============================================================================
