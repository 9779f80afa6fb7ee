--------------------------- MODULE LedgerControls ---------------------------
(***************************************************************************)
(* assess_ledger of backend/app/application/ledger_controls.py: the lines  *)
(* that can prove a movement, the reasons against it, and the controls of  *)
(* a whole settlement.  "m" is a movement, "lines" the ledger records of   *)
(* its settlement, "dups" the lines refused for a repeated line_id, and    *)
(* "used" the lines given to earlier movements.  A line carries the role   *)
(* its account code is mapped to, "unknown" for a code the policy does not *)
(* map.                                                                    *)
(***************************************************************************)
EXTENDS SourceRows

Size(l) == l.debit + l.credit
IsClearing(l) == l.role = "razorpay_clearing"

\* Debited for the whole amount, or credited for it.
OnSide(l, amount, debited) ==
    IF debited THEN l.debit = amount /\ l.credit = 0
               ELSE l.debit = 0 /\ l.credit = amount

ExpectedRole(m) ==
    CASE m.type = "payment" -> "sales_revenue"
      [] m.type = "refund" -> "refunds"
      [] m.type \notin {"payment", "refund"} /\ m.fee > 0
            -> "gateway_fee_expense"
      [] m.type \notin {"payment", "refund"} /\ m.fee = 0 /\ m.tax > 0
            -> "input_gst"
      [] OTHER -> "other"

Positive(m) == m.credit > m.debit

Named(m, lines) == {l \in lines : m.refs \cap l.refs # {}}
Fitting(m, lines) ==
    {l \in lines : /\ l.role \in {ExpectedRole(m), "razorpay_clearing"}
                   /\ Size(l) = Amount(m)}

\* Of the lines of one id, the last one stays: those that fit come last.  Within
\* a journal the code goes by source_record_id, a hash; the row number stands for
\* its order, which no property depends on.
StaysOver(l, q, fitting) ==
    \/ l \in fitting /\ q \notin fitting
    \/ /\ l \in fitting <=> q \in fitting
       /\ q.journal < l.journal
            \/ (q.journal = l.journal /\ q.number < l.number)

\* Payments match by identifier; other movements by role and amount too.
MovementLines(m, lines) ==
    LET fitting == Fitting(m, lines)
        either == Named(m, lines) \cup fitting
    IN IF m.type = "payment" THEN Named(m, lines)
       ELSE {l \in either : \A q \in either \ {l} :
                q.id = l.id => StaysOver(l, q, fitting)}

Clearing(m, lines) ==
    {l \in MovementLines(m, lines) :
        IsClearing(l) /\ OnSide(l, Amount(m), Positive(m))}

Counterpart(m, lines) ==
    {l \in MovementLines(m, lines) :
        l.role = ExpectedRole(m) /\ OnSide(l, Amount(m), ~Positive(m))}

SameJournal(L, M) == {p \in L \X M : p[1].journal = p[2].journal}

\* evidence_pairs, each as the set of its two lines.
Pairs(m, lines) ==
    {{p[1], p[2]} : p \in SameJournal(Clearing(m, lines), Counterpart(m, lines))}

\* Assignment that does not look at the lines already given away.
FreeOrNot(pairs, used) == pairs

Free(pairs, used) == {p \in pairs : p \cap used = {}}

\* A count that begins to be several too late.
MoreThanTwo(pairs) == Cardinality(pairs) > 2

Several(pairs) == Cardinality(pairs) > 1

\* A pair is assigned when it is the only one left.
OnlyOne(pairs) ==
    IF pairs = {} \/ Several(pairs) THEN {} ELSE CHOOSE p \in pairs : TRUE

-----------------------------------------------------------------------------
(***************************************************************************)
(* What is wrong with a movement's evidence                                *)
(***************************************************************************)
Balanced(lines) ==
    MapThenSumSet(LAMBDA l : l.debit, lines)
        = MapThenSumSet(LAMBDA l : l.credit, lines)

Journal(lines, j) == {l \in lines : l.journal = j}
Journals(lines) == {l.journal : l \in lines}
Unbalanced(lines) ==
    {j \in Journals(lines) : ~Balanced(Journal(lines, j))}

\* candidate_related: lines of the movement's journals that could belong to it.
Candidates(m, lines, dups) ==
    {l \in lines \cup dups :
        /\ l.journal \in Journals(MovementLines(m, lines)
                                    \cup MovementLines(m, dups))
        /\ Size(l) = Amount(m) \/ l.cites}

CandidatePairs(m, lines, dups) ==
    LET fit == {l \in Candidates(m, lines, dups) : Size(l) = Amount(m)}
    IN SameJournal({l \in fit : IsClearing(l)}, {l \in fit : ~IsClearing(l)})

RoleFits(m, p) == p[2].role = ExpectedRole(m)
DirectionFits(m, p) ==
    /\ OnSide(p[1], Amount(m), Positive(m))
    /\ OnSide(p[2], Amount(m), ~Positive(m))

Duplicated(m, dups) == Clearing(m, dups) \cup Counterpart(m, dups) # {}

\* missing_entities: nothing free, and neither reuse nor a duplicate says why.
\* A charge whose candidates do not pair counts as missing in any case.
Missing(m, lines, dups, used) ==
    /\ Free(Pairs(m, lines), used) = {}
    /\ \/ Pairs(m, lines) = {} /\ ~Duplicated(m, dups)
       \/ m.fee > 0 /\ CandidatePairs(m, lines, dups) # {}

Charged(m, field, lines, dups, used) ==
    /\ field > 0
    /\ Free(Pairs(m, lines), used) = {}
    /\ CandidatePairs(m, lines, dups) # {}

\* movement_reasons of one turn of the loop.
MovementReasons(m, lines, dups, used) ==
    LET pairs == Pairs(m, lines)
        free == Free(pairs, used)
        near == CandidatePairs(m, lines, dups)
        related == Candidates(m, lines, dups)
    IN UNION {
        Given("ledger_evidence_ambiguous", Several(free)),
        Given("ledger_evidence_reused", free = {} /\ pairs # {}),
        Given("ledger_line_duplicated", Duplicated(m, dups)),
        Given("journal_unbalanced",
            Journals(related) \cap Unbalanced(lines \cup dups) # {}),
        Given("ledger_account_role_mismatch",
            near # {} /\ ~\E p \in near : RoleFits(m, p)),
        Given("ledger_direction_mismatch",
            near # {} /\ ~\E p \in near : DirectionFits(m, p)),
        Given("ledger_line_missing", Missing(m, lines, dups, used)),
        Given("amount_mismatch",
            /\ pairs = {} /\ ~Duplicated(m, dups)
            /\ related # {} /\ ~\E l \in related : Size(l) = Amount(m)),
        Given("fee_booking_mismatch", Charged(m, m.fee, lines, dups, used)),
        Given("tax_booking_mismatch", Charged(m, m.tax, lines, dups, used))
       }

\* A fee or tax movement without a pair spoils the booking of the settlement,
\* whether or not any candidate is near it.
FeeUnbooked(m, lines, dups, used) ==
    \/ Charged(m, m.fee, lines, dups, used)
    \/ /\ m.fee > 0 /\ Free(Pairs(m, lines), used) = {}
       /\ ExpectedRole(m) = "gateway_fee_expense"
TaxUnbooked(m, lines, dups, used) ==
    \/ Charged(m, m.tax, lines, dups, used)
    \/ /\ m.tax > 0 /\ Free(Pairs(m, lines), used) = {}
       /\ ExpectedRole(m) = "input_gst"

-----------------------------------------------------------------------------
(***************************************************************************)
(* Charges that only the payments describe                                 *)
(***************************************************************************)
DescriptiveFee(ms) ==
    MapThenSumSet(LAMBDA m : m.fee, {m \in ms : ~IsAdjustment(m)})
DescriptiveTax(ms) ==
    MapThenSumSet(LAMBDA m : m.tax, {m \in ms : ~IsAdjustment(m)})

Unproven(authoritative, descriptive) == descriptive # 0 /\ authoritative = 0
Conflict(authoritative, descriptive) ==
    authoritative # 0 /\ descriptive # 0 /\ authoritative # descriptive

\* _charge_pairs: a balanced posting of the total, with its clearing line.
ChargePairs(lines, dups, role, amount) ==
    {{p[1], p[2]} : p \in {q \in SameJournal(
            {l \in lines : l.role = role /\ OnSide(l, amount, TRUE)},
            {l \in lines : IsClearing(l) /\ OnSide(l, amount, FALSE)}) :
        Balanced(Journal(lines \cup dups, q[1].journal))}}

\* The lines a descriptive charge takes, {} when it is not proven.
ChargeLines(authoritative, descriptive, role, lines, dups, used) ==
    IF Unproven(authoritative, descriptive)
    THEN OnlyOne(Free(ChargePairs(lines, dups, role, descriptive), used))
    ELSE {}

ChargeAmbiguous(authoritative, descriptive, role, lines, dups, used) ==
    /\ Unproven(authoritative, descriptive)
    /\ Several(Free(ChargePairs(lines, dups, role, descriptive), used))

\* The movements a booking mismatch is charged to.
ToBlame(m, field, authoritative, descriptive) ==
    /\ field > 0
    /\ \/ Unproven(authoritative, descriptive) /\ ~IsAdjustment(m)
       \/ Conflict(authoritative, descriptive) /\ IsAdjustment(m)

-----------------------------------------------------------------------------
(***************************************************************************)
(* Controls of the settlement                                              *)
(***************************************************************************)
Signed(l) == l.debit - l.credit

PostedIn(lines, net) ==
    /\ Balanced(lines)
    /\ \E l \in lines : l.role = "bank" /\ Signed(l) = net
    /\ \E l \in lines : IsClearing(l) /\ Signed(l) = -net

SettlementPosted(lines, net) ==
    \E j \in Journals(lines) : PostedIn(Journal(lines, j), net)

ClearingResidual(lines) ==
    MapThenSumSet(Signed, {l \in lines : IsClearing(l)})

\* reasons of the settlement besides those of its movements: "all" are its
\* lines and duplicates, "repeated" says that a line_id of it was refused.
SettlementReasons(all, net, verified, repeated, missing, feeBad, taxBad) ==
    UNION {
        Given("ledger_line_duplicated", repeated),
        Given("ledger_line_missing", missing),
        Given("journal_unbalanced", Unbalanced(all) # {}),
        Given("unknown_account_role", \E l \in all : l.role = "unknown"),
        Given("fee_booking_mismatch", feeBad),
        Given("tax_booking_mismatch", taxBad),
        Given("required_ledger_evidence_missing",
            verified /\ ~SettlementPosted(all, net)),
        Given("clearing_residual",
            /\ ClearingResidual(all) # 0 /\ verified
            /\ ~repeated /\ Unbalanced(all) = {} /\ ~missing)
       }
=============================================================================
