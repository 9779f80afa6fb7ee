-------------------------- MODULE MCInvestigation --------------------------
(* A small instance of Investigation for TLC. *)
EXTENDS Investigation

CONSTANTS b1, s1, s2, x, y

MCEligible == {<<b1, s1>>, <<b1, s2>>}

\* Both settlements can only be supported by the row x, unless it is taken.
MCUniqueCandidate == [k \in Key |-> {x}]

\* y is the row the base result of the batch rests on.
MCDeterministic == [b \in Batch |-> {y}]
=============================================================================
