---------------------------- MODULE BankMatching ----------------------------
(***************************************************************************)
(* match_bank of backend/app/application/bank_matching.py: the controls a  *)
(* bank row must pass to prove a settlement, and the row that is accepted. *)
(* "a" is a settlement aggregate of SourceRows, "b" a bank record, and     *)
(* consumed holds the rows accepted for earlier settlements.  Scores and   *)
(* signal texts decide nothing and are left out.                           *)
(***************************************************************************)
EXTENDS SourceRows

CONSTANTS
    Tolerance,          \* amount_tolerance_subunits
    Sla                 \* max_age_hours of standard_domestic

NoBank == 0

HasUtr(a) == a.utrs # {}
UtrConflict(a) == Cardinality(a.utrs) > 1
SameUtr(a, b) == b.utr \in a.utrs

AmountOk(a, b) ==
    a.net > 0 /\ b.amount - a.net \in -Tolerance .. Tolerance

\* A control that reads an account that is not the settlement's as unknown.
AnyAccount(a, b) == TRUE

AccountOk(a, b) == a.account \in {NoAccount, b.account}
TimingOk(a, b) == a.at < b.at /\ b.at <= a.at + Sla

\* Every control but the reference.
ControlsOk(a, b, clock) ==
    /\ b.credit
    /\ AmountOk(a, b)
    /\ AccountOk(a, b)
    /\ TimingOk(a, b)
    /\ b.at <= clock

\* Matching that forgets which rows earlier settlements rest on.
UsableAgain(b, consumed) == TRUE

Usable(b, consumed) == b.id \notin consumed

UsableExact(a, rows, clock, consumed) ==
    {b \in rows : SameUtr(a, b) /\ ControlsOk(a, b, clock)
                    /\ Usable(b, consumed)}

PlausibleFallback(a, rows, clock, consumed) ==
    {b \in rows : ~SameUtr(a, b) /\ ControlsOk(a, b, clock)
                    /\ Usable(b, consumed)}

Relevant(a, b) == SameUtr(a, b) \/ AmountOk(a, b) \/ b.narrated

\* A row that names another reference and would fit otherwise.
ConflictingReference(a, b) ==
    /\ HasUtr(a) /\ b.utr # NoUtr /\ ~SameUtr(a, b)
    /\ AmountOk(a, b) /\ TimingOk(a, b) /\ AccountOk(a, b)

\* rejection_reasons of a candidate; one that passes every control was not
\* selected for a reason of the whole match.
CandidateReasons(a, b, clock, consumed, accepted) ==
    LET failed == UNION {
            Given("conflicting_reference", ConflictingReference(a, b)),
            Given("wrong_direction", ~b.credit),
            Given("amount_mismatch", ~AmountOk(a, b)),
            Given("balance_account_conflict", ~AccountOk(a, b)),
            Given("outside_timing_window", ~TimingOk(a, b) \/ b.at > clock),
            Given("record_already_consumed", b.id \in consumed)}
    IN IF b.id = accepted THEN {}
       ELSE IF failed # {} THEN failed
       ELSE {IF accepted # NoBank THEN "stronger_candidate_selected"
             ELSE IF ~HasUtr(a) THEN "utr_missing"
             ELSE "insufficient_uniqueness"}

Accepted(a, exact) ==
    IF Cardinality(exact) = 1 /\ ~UtrConflict(a)
    THEN (CHOOSE b \in exact : TRUE).id
    ELSE NoBank

\* Reasons that leave a lone fallback row beside a reference without one.
ReasonsUnlessFallback(a, exact, fallback) ==
    (IF UtrConflict(a) THEN {"utr_conflicting_or_malformed"}
     ELSE IF ~HasUtr(a) THEN {"utr_missing"} ELSE {})
    \cup
    (IF Accepted(a, exact) # NoBank THEN {"exact_evidence_verified"}
     ELSE IF exact \cup fallback # {} THEN {}
     ELSE {"missing_bank_credit"})

MatchReasons(a, exact, fallback) ==
    (IF UtrConflict(a) THEN {"utr_conflicting_or_malformed"}
     ELSE IF ~HasUtr(a) THEN {"utr_missing"} ELSE {})
    \cup
    (IF Accepted(a, exact) # NoBank THEN {"exact_evidence_verified"}
     ELSE IF Cardinality(exact) > 1 \/ Cardinality(fallback) > 1
          THEN {"insufficient_uniqueness", "bank_candidate_ambiguity"}
     ELSE IF ~HasUtr(a) /\ fallback # {} THEN {"insufficient_uniqueness"}
     ELSE {"missing_bank_credit"})

\* The deadline that leaves its own instant out of both halves.
WithinSlaStrictly(a, clock) == clock < a.at + Sla

WithinSla(a, clock) == clock <= a.at + Sla
Overdue(a, clock) == clock > a.at + Sla

Match(a, rows, clock, consumed) ==
    LET exact == UsableExact(a, rows, clock, consumed)
        fallback == PlausibleFallback(a, rows, clock, consumed)
        accepted == Accepted(a, exact)
    IN [accepted |-> accepted,
        candidates |->
            {[bank |-> b.id,
              reasons |-> CandidateReasons(a, b, clock, consumed, accepted)] :
                b \in {c \in rows : Relevant(a, c)}},
        reasons |-> MatchReasons(a, exact, fallback),
        within |-> WithinSla(a, clock),
        overdue |-> Overdue(a, clock)]
=============================================================================
