------------------------------ MODULE EventLog ------------------------------
(***************************************************************************)
(* What the indexer promises of the events of the chain, whatever stores   *)
(* them and however often they arrive: an event enters the log at most     *)
(* once, never beside one with the same content, and only the step that    *)
(* enters it may announce it to the webhooks, once.  Nothing leaves.       *)
(***************************************************************************)
EXTENDS Naturals

CONSTANTS
    Events,    \* event ids
    Content    \* Content[e]: everything but the id, the ledger included

VARIABLES
    log,        \* the events recorded
    announced   \* how often each was announced

logVars == <<log, announced>>

LogInit == log = {} /\ announced = [e \in Events |-> 0]

Known(e) == \E f \in log : Content[f] = Content[e]

Enter(e) ==
    /\ ~Known(e)
    /\ log' = log \cup {e}
    /\ announced' \in {announced, [announced EXCEPT ![e] = 1]}

LogNext == \E e \in Events : Enter(e)

LogSpec == LogInit /\ [][LogNext]_logVars
=============================================================================
