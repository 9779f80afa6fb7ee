-------------------------- MODULE AcceptedEvidence --------------------------
(***************************************************************************)
(* What accepting an investigation promises: a settlement is accepted at   *)
(* most once and for good, on one bank row that neither the deterministic  *)
(* result nor any other accepted settlement of the batch rests on.         *)
(* Investigation implements it.                                            *)
(***************************************************************************)
CONSTANTS
    Batch, Settlement, Bank,
    NoBank,             \* a settlement with no accepted investigation
    Deterministic       \* Deterministic[b]: rows the base result of b rests on

VARIABLE evidence       \* the bank row each settlement was accepted on

Init == evidence = [k \in Batch \X Settlement |-> NoBank]

Accept(b, s, x) ==
    /\ evidence[<<b, s>>] = NoBank
    /\ x \notin Deterministic[b]
    /\ \A t \in Settlement : evidence[<<b, t>>] # x
    /\ evidence' = [evidence EXCEPT ![<<b, s>>] = x]

Next == \E b \in Batch, s \in Settlement, x \in Bank : Accept(b, s, x)

Spec == Init /\ [][Next]_evidence
=============================================================================
