---------------------------- MODULE MCAgentLoop ----------------------------
(* A small instance of AgentLoop for TLC. *)
EXTENDS AgentLoop

CONSTANTS candidates, aggregate, ledger, abstain, bank, movement, entry

\* The candidate list may be truncated before the row it would show.
MCObserves ==
    [t \in Tool |-> CASE t = candidates -> {{bank}, {}}
                     [] t = aggregate -> {{movement}}
                     [] t = ledger -> {{entry}}
                     [] OTHER -> {{}}]
=============================================================================
