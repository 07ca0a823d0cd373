----------------------------- MODULE MCIndexer -----------------------------
(* Small instances of Indexer. *)
EXTENDS Indexer

CONSTANTS a1, a2

Created(id)     == [type |-> "schedule_created", by |-> a1, to |-> a2, schedule |-> id]
Collected(n)    == [type |-> "collected", to |-> a2, amount |-> n]
Squeezed        == [type |-> "squeezed", by |-> a1, to |-> a2, hash |-> 1]
Streams(x, y)   == [type |-> "stream_set", by |-> a1,
                    rates |-> [a \in Accounts |-> IF a = a1 THEN x ELSE y]]

\* A ledger longer than a page, a configuration that closes a stream, and one
\* squeeze seen in two ledgers.
MixedChain ==
    << <<Streams(0, 1)>>,
       <<Squeezed, Collected(2), Streams(1, 0)>>,
       <<Squeezed>> >>
====
