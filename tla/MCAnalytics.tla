---------------------------- MODULE MCAnalytics ----------------------------
(* Small instances of Analytics. *)
EXTENDS Analytics

Created(s, h, amount, start, duration, cliff, kind) ==
    [type |-> "schedule_created", schedule |-> s, hour |-> h, amount |-> amount,
     start |-> start, duration |-> duration, cliff |-> cliff, kind |-> kind]
Claimed(s, h, n) == [type |-> "claimed", schedule |-> s, hour |-> h, amount |-> n]
Revoked(s, h, n) == [type |-> "revoked", schedule |-> s, hour |-> h, amount |-> n]

\* A linear grant that is claimed on the next day and then revoked, and one with a
\* cliff that vests while it is not touched.
TwoGrants ==
    << Created(1, 0, 6, 0, 6, 0, "Linear"), Created(2, 1, 4, 0, 4, 2, "LinearWithCliff"),
       Claimed(1, 2, 2), Revoked(1, 4, 2) >>

FourEvents == 1..4
=============================================================================
