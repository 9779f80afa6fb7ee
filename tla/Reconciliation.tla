--------------------------- MODULE Reconciliation ---------------------------
(***************************************************************************)
(* The deterministic engine: ReconciliationService.reconcile of            *)
(* backend/app/application/reconciliation.py, over the operators of        *)
(* SourceRows, BankMatching and LedgerControls.                            *)
(*                                                                         *)
(* The engine reads one book (three sources and a clock), and then works   *)
(* in a fixed order, because what one step takes the next may not take     *)
(* again: settlements one after another, for each the bank match, its      *)
(* movements one after another, its charges, its decision; then the        *)
(* refused rows and the close.  A step raises, and fails the whole batch,  *)
(* where the code raises.                                                  *)
(***************************************************************************)
EXTENDS BankMatching, LedgerControls

CONSTANTS
    Books,              \* the inputs the engine is given
    Key, BankId,        \* the aggregates and bank rows they hold
    MaterialAbsolute,   \* materiality_absolute_subunits
    MaterialBps,        \* materiality_relative_bps, -1 for none
    MaxTime             \* datetime.max

VARIABLES
    book,       \* the input of the batch
    read,       \* what ingestion and aggregation made of it
    phase,      \* what the engine does next
    todo,       \* aggregates not yet decided
    current,    \* the aggregate being decided
    match,      \* its BankMatch
    links,      \* settlement_to_bank links: the row accepted for each aggregate
    pending,    \* movements of current not yet assigned
    used,       \* used_line_ids of current
    assigned,   \* movement_assignments of current
    control,    \* the flags and reasons assess_ledger has gathered
    results,    \* settlement results
    exceptions, \* all_exceptions
    excluded,   \* excluded records
    close       \* the close assessment

working == <<match, pending, used, assigned, control>>
input == <<book, read>>
vars == <<input, phase, todo, current, links, working, results, exceptions,
          excluded, close>>

NoKey == <<0, 0>>
NoMatch == [accepted |-> NoBank, candidates |-> {}, reasons |-> {},
            within |-> FALSE, overdue |-> FALSE]
NoControl == [reasons |-> {}, missing |-> FALSE, fee |-> FALSE, tax |-> FALSE]
NoClose == [readiness |-> "none", blocking |-> {}, permitted |-> {}]

State == {"auto_cleared", "cleared_with_explanation", "pending_within_sla",
          "needs_review", "critical_exception"}
Cleared == {"auto_cleared", "cleared_with_explanation"}

\* The four ingest_ functions and aggregate_gateway.
Read(b) ==
    [movements |-> Movements(b),
     bank |-> BankRecords(b.bank),
     lines |-> LedgerRecords(b.ledger),
     dups |-> LedgerDuplicates(b.ledger),
     refused |-> RejectedRows(b)]

\* The rows the controls of an aggregate look at: ledger lines are chosen by
\* settlement id alone, whatever the balance account, refused ones by its text.
Ms(k) == {m \in read.movements : KeyOf(m) = k}
Lines(k) == {l \in read.lines : l.settlement = k[1]}
Dups(k) == {l \in read.dups : l.settlement = k[1]}
RepeatedLine(k) ==
    \E x \in read.refused :
        /\ x.kind = "ledger" /\ x.reason = "duplicate_business_identifier"
        /\ x.row.raw.settlement = k[1]
Agg(k) == Aggregate(Ms(k), k)

AllKeys == {KeyOf(m) : m \in read.movements}

Init ==
    /\ book \in Books
    /\ read = Read(book)
    /\ phase = "group"
    /\ todo = {}
    /\ current = NoKey
    /\ match = NoMatch
    /\ links = [k \in Key |-> NoBank]
    /\ pending = {} /\ used = {} /\ assigned = {}
    /\ control = NoControl
    /\ results = {} /\ exceptions = {} /\ excluded = {}
    /\ close = NoClose

\* Sources are finite and have no row in common; aggregates and bank rows are
\* among those of the batch, and a policy names real accounts.
ASSUME InputAssumption ==
    /\ Key \subseteq Nat \X Nat /\ NoBank \notin BankId
    /\ Sla \in Int /\ MaxTime \in Int
    /\ \A b \in Books :
          /\ IsFiniteSet(b.gateway) /\ IsFiniteSet(b.bank)
          /\ IsFiniteSet(b.ledger)
          /\ b.gateway \cap (b.bank \cup b.ledger) = {}
          /\ b.bank \cap b.ledger = {}
          /\ b.clock \in Int /\ NoAccount \notin b.accounts
          /\ \A m \in Movements(b) :
                KeyOf(m) \in Key /\ m.id \in Nat /\ m.at \in Int
          /\ \A r \in BankRecords(b.bank) : r.id \in BankId

-----------------------------------------------------------------------------
\* A loop over the aggregates that is entered once more at its end.
OnwardOnceMore(keys) == "match"

\* Where the engine goes when there are, or are no, aggregates left.
Onward(keys) == IF keys = {} THEN "rows" ELSE "match"

Group ==
    /\ phase = "group"
    /\ IF Unsortable(AllKeys) \/ BadUtr(read.movements)
       THEN phase' = "failed" /\ UNCHANGED <<todo, excluded>>
       ELSE /\ phase' = Onward(AllKeys)
            /\ todo' = AllKeys
            /\ excluded' = OutOfScope(book)
    /\ UNCHANGED <<input, current, links, working, results, exceptions, close>>

\* consumed: the rows accepted so far.
Consumed == {links[k] : k \in DOMAIN links} \ {NoBank}

\* The deadline of an aggregate is a time that can be told.
HasDeadline(k) == Agg(k).at + Sla <= MaxTime

\* match_bank begins with the deadline; one past datetime.max raises.
DeadlineOverflows ==
    /\ phase = "match" /\ ~HasDeadline(FirstKey(todo))
    /\ phase' = "failed"
    /\ UNCHANGED <<input, todo, current, links, working, results, exceptions,
                   excluded, close>>

MatchBank ==
    /\ phase = "match" /\ HasDeadline(FirstKey(todo))
    /\ current' = FirstKey(todo)
    /\ match' = Match(Agg(current'), read.bank, book.clock, Consumed)
    /\ links' = [links EXCEPT ![current'] = match'.accepted]
    /\ pending' = Ms(current')
    /\ used' = {} /\ assigned' = {} /\ control' = NoControl
    /\ phase' = "assign"
    /\ UNCHANGED <<input, todo, results, exceptions, excluded, close>>

-----------------------------------------------------------------------------
\* One turn of the loop over the movements, in the order of their entity ids.
Assign ==
    LET m == FirstMember(pending)
        lines == Lines(current)
        dups == Dups(current)
        why == MovementReasons(m, lines, dups, used)
        pair == OnlyOne(Free(Pairs(m, lines), used))
    IN
    /\ phase = "assign" /\ pending # {}
    /\ pending' = pending \ {m}
    /\ used' = used \cup pair
    /\ assigned' = assigned \cup
           {[movement |-> m, lines |-> pair, reasons |-> why]}
    /\ control' = [reasons |-> control.reasons \cup why,
                   missing |-> control.missing \/ Missing(m, lines, dups, used),
                   fee |-> control.fee \/ FeeUnbooked(m, lines, dups, used),
                   tax |-> control.tax \/ TaxUnbooked(m, lines, dups, used)]
    /\ UNCHANGED <<input, phase, todo, current, match, links, results,
                   exceptions, excluded, close>>

\* The charges: first the fee, then the tax from the lines that are left.
\* A mismatch is written back to the movements that describe the charge.
BookCharges ==
    LET ms == Ms(current)
        lines == Lines(current)
        dups == Dups(current)
        aFee == AuthoritativeFee(ms)    dFee == DescriptiveFee(ms)
        aTax == AuthoritativeTax(ms)    dTax == DescriptiveTax(ms)
        feeLines == ChargeLines(aFee, dFee, "gateway_fee_expense", lines, dups,
                                used)
        taxLines == ChargeLines(aTax, dTax, "input_gst", lines, dups,
                                used \cup feeLines)
        feeBad == \/ control.fee \/ Conflict(aFee, dFee)
                  \/ Unproven(aFee, dFee) /\ feeLines = {}
        taxBad == \/ control.tax \/ Conflict(aTax, dTax)
                  \/ Unproven(aTax, dTax) /\ taxLines = {}
        ambiguous ==
            \/ ChargeAmbiguous(aFee, dFee, "gateway_fee_expense", lines, dups,
                               used)
            \/ ChargeAmbiguous(aTax, dTax, "input_gst", lines, dups,
                               used \cup feeLines)
        Blamed(m) ==
            Given("fee_booking_mismatch",
                  feeBad /\ ToBlame(m, m.fee, aFee, dFee))
            \cup Given("tax_booking_mismatch",
                       taxBad /\ ToBlame(m, m.tax, aTax, dTax))
    IN
    /\ phase = "assign" /\ pending = {}
    /\ used' = used \cup feeLines \cup taxLines
    /\ assigned' = {[x EXCEPT !.reasons = @ \cup Blamed(x.movement)] :
                        x \in assigned}
    /\ control' = [control EXCEPT
           !.reasons = @ \cup Given("ledger_evidence_ambiguous", ambiguous),
           !.fee = feeBad,
           !.tax = taxBad]
    /\ phase' = "decide"
    /\ UNCHANGED <<input, todo, current, match, links, pending, results,
                   exceptions, excluded, close>>

-----------------------------------------------------------------------------
\* control.reasons as assess_ledger returns them.
LedgerReasons ==
    control.reasons \cup
        SettlementReasons(Lines(current) \cup Dups(current), Agg(current).net,
                          match.accepted # NoBank, RepeatedLine(current),
                          control.missing, control.fee, control.tax)

Verified(x) == x.lines # {} /\ x.reasons = {}
AllVerified(xs) == \A x \in xs : Verified(x)

Refunded(ms) == \E m \in ms : m.type = "refund"
Charging(ms) == TotalFee(ms) > 0 \/ TotalTax(ms) > 0

\* The reasons of the settlement, given those of its ledger.
Reasons(ledger) ==
    LET unbanked ==
            match.accepted = NoBank /\ "missing_bank_credit" \in match.reasons
        disputed == \/ UtrConflict(Agg(current))
                    \/ \E c \in match.candidates :
                          "conflicting_reference" \in c.reasons
    IN UNION {match.reasons, ledger,
        Given("required_ledger_evidence_missing",
            ~AllVerified(assigned) /\ ledger = {}),
        Given("fee_tax_netted",
            Charging(Ms(current)) /\ ~(control.fee \/ control.tax)),
        Given("refund_netted", Refunded(Ms(current))),
        Given("overdue_bank_credit_missing", unbanked /\ match.overdue),
        Given("pending_within_sla", unbanked /\ match.within),
        Given("utr_conflicting_or_malformed", disputed)}

Integrity(ledger, reasons) ==
    ledger \cup (reasons \cap {"utr_conflicting_or_malformed",
                               "overdue_bank_credit_missing",
                               "required_ledger_evidence_missing"})

\* A precedence that looks at the bank row before the ledger.
ResolutionBankFirst(integrity, reasons) ==
    IF match.accepted # NoBank
    THEN IF "refund_netted" \in reasons THEN "cleared_with_explanation"
         ELSE "auto_cleared"
    ELSE IF integrity # {} THEN "critical_exception"
    ELSE IF "pending_within_sla" \in reasons THEN "pending_within_sla"
    ELSE "needs_review"

\* resolution_state_precedence.
Resolution(integrity, reasons) ==
    IF integrity # {} THEN "critical_exception"
    ELSE IF match.accepted = NoBank
    THEN IF "pending_within_sla" \in reasons THEN "pending_within_sla"
         ELSE "needs_review"
    ELSE IF "refund_netted" \in reasons THEN "cleared_with_explanation"
         ELSE "auto_cleared"

Abs(n) == IF n < 0 THEN -n ELSE n
TotalOf(ms) ==
    MapThenSumSet(LAMBDA k : Abs(Aggregate({m \in ms : KeyOf(m) = k}, k).net),
                  {KeyOf(m) : m \in ms})
BatchTotal == TotalOf(read.movements)

\* is_material of close_policy.py.
IsMaterial(net) ==
    \/ Abs(net) >= MaterialAbsolute
    \/ MaterialBps >= 0 /\ Abs(net) * 10000 >= BatchTotal * MaterialBps

BlockingState(state, net) ==
    \/ state = "critical_exception"
    \/ state = "needs_review" /\ IsMaterial(net)

\* What an exception record is about.
SettlementSource(k) == <<"settlement", k[1], k[2]>>
RowSource(x) == <<x.kind, x.row.number>>

\* A cleared settlement has no exceptions, any other one for every reason that
\* is not an explanation.
SettlementExceptions(k, state, reasons) ==
    LET blocking == BlockingState(state, Agg(k).net) IN
    IF state \in Cleared THEN {}
    ELSE {[source |-> SettlementSource(k), reason |-> reason,
           blocking |-> blocking] :
            reason \in reasons \ {"exact_evidence_verified", "fee_tax_netted",
                                  "refund_netted"}}

\* The SettlementResult; complete is its CompleteEvidenceProof.
Result(ledger, reasons, state) ==
    [key |-> current, state |-> state, reasons |-> reasons,
     assigned |-> assigned, candidates |-> match.candidates,
     complete |-> match.accepted # NoBank /\ ledger = {} /\ AllVerified(assigned)]

Decide ==
    LET ledger == LedgerReasons
        reasons == Reasons(ledger)
        state == Resolution(Integrity(ledger, reasons), reasons)
    IN
    /\ phase = "decide"
    /\ results' = results \cup {Result(ledger, reasons, state)}
    /\ exceptions' = exceptions \cup SettlementExceptions(current, state, reasons)
    /\ todo' = todo \ {current}
    /\ phase' = Onward(todo')
    /\ UNCHANGED <<input, current, links, working, excluded, close>>

-----------------------------------------------------------------------------
Considered == {c.bank : c \in UNION {r.candidates : r \in results}}

\* Bank rows that no settlement considered and no account leaves out.
Unrelated ==
    {<<"bank", b>> : b \in
        {q \in read.bank : <<"bank", q>> \notin excluded /\ q.id \notin Considered}}

\* An exception record for every refused row; one whose settlement_id cannot
\* be an identifier is itself refused, and nothing catches that.
RejectRows ==
    /\ phase = "rows"
    /\ excluded' = excluded \cup Unrelated
    /\ IF \E x \in read.refused : x.settlement \in Unfit
       THEN phase' = "failed" /\ UNCHANGED exceptions
       ELSE /\ phase' = "close"
            /\ exceptions' = exceptions \cup
                   {[source |-> RowSource(x), reason |-> x.reason,
                     blocking |-> ~ProvablyOutOfScope(x, book)] : x \in read.refused}
    /\ UNCHANGED <<input, todo, current, links, working, results, close>>

ValueOf(states) ==
    MapThenSumSet(LAMBDA x : Abs(Agg(x.key).net),
                  {x \in results : x.state \in states})

RowReason == {"malformed_source_record", "duplicate_business_identifier"}

\* A close that looks at the values only.
ReadyByValue(blocking, permitted) ==
    IF blocking # {} THEN "BLOCKED"
    ELSE IF ValueOf({"pending_within_sla"}) > 0
         THEN "READY_WITH_EXCEPTIONS" ELSE "READY"

Readiness(blocking, permitted) ==
    IF blocking # {} THEN "BLOCKED"
    ELSE IF ValueOf({"pending_within_sla"}) > 0 \/ permitted # {}
         THEN "READY_WITH_EXCEPTIONS" ELSE "READY"

Close ==
    LET blocking == {e \in exceptions : e.blocking}
        permitted == {e \in exceptions : ~e.blocking /\ e.reason \notin RowReason}
    IN
    /\ phase = "close"
    /\ close' = [readiness |-> Readiness(blocking, permitted),
                 blocking |-> blocking, permitted |-> permitted]
    /\ phase' = "done"
    /\ UNCHANGED <<input, todo, current, links, working, results, exceptions,
                   excluded>>

Next ==
    \/ Group \/ DeadlineOverflows \/ MatchBank \/ Assign \/ BookCharges \/ Decide
    \/ RejectRows \/ Close

Spec == Init /\ [][Next]_vars

-----------------------------------------------------------------------------
(***************************************************************************)
(* Properties                                                              *)
(***************************************************************************)
\* The engine's working state and results have the shapes the code gives them;
\* what is decided, in hand and still to do are parts of the same settlements.
TypeOK ==
    /\ phase \in {"group", "match", "assign", "decide", "rows", "close", "done",
                  "failed"}
    /\ todo \subseteq AllKeys
    /\ phase \in {"assign", "decide"} => current \in todo
    /\ phase = "match" => todo # {}
    /\ match.accepted \in BankId \cup {NoBank}
    /\ links \in [Key -> BankId \cup {NoBank}]
    /\ pending \subseteq Ms(current) /\ used \subseteq Lines(current)
    /\ \A x \in assigned : x.movement \in Ms(current) \ pending
    /\ \A r \in results : r.key \in AllKeys \ todo /\ r.state \in State

\* One line of the ledger proves one movement of a settlement, cleared or not.
LinesProveOneMovement ==
    \A r \in results : \A x, y \in r.assigned :
        x.movement # y.movement => x.lines \cap y.lines = {}

\* The evaluation's incompatible_record_reuse gate: across all settlements of a
\* batch, no ledger line is in two verified links.
NoIncompatibleReuse ==
    \A r, s \in results : \A x \in r.assigned, y \in s.assigned :
        Verified(x) /\ Verified(y) /\ x.movement # y.movement
            => x.lines \cap y.lines = {}

\* Ways to give every movement of a settlement a pair of its own.
Assignments(k) ==
    {f \in [Ms(k) -> UNION {Pairs(m, Lines(k)) : m \in Ms(k)}] :
        /\ \A m \in Ms(k) : f[m] \in Pairs(m, Lines(k))
        /\ \A m, n \in Ms(k) : m # n => f[m] \cap f[n] = {}}

\* The greedy loop takes movements in the order of their entity ids, and an
\* earlier one may take what a later one could use.  A settlement is cleared on
\* its assignment only if the lines admit no other one.
ClearedEvidenceIsForced ==
    \A r \in results : r.state \in Cleared =>
        \A f \in Assignments(r.key) :
            \A x \in r.assigned : f[x.movement] = x.lines

\* A cleared settlement rests on one bank row that passes every control and on
\* its only reference, has every movement verified, and its ledger is balanced,
\* posted and leaves nothing in clearing: no state precedence hides a failure.
ClearedIsProven ==
    \A r \in results : r.state \in Cleared =>
        LET k == r.key  all == Lines(k) \cup Dups(k) IN
        /\ \E b \in read.bank :
              /\ links[k] = b.id
              /\ Agg(k).utrs = {b.utr}
              /\ ControlsOk(Agg(k), b, book.clock)
        /\ {x.movement : x \in r.assigned} = Ms(k)
        /\ AllVerified(r.assigned)
        /\ Unbalanced(all) = {}
        /\ SettlementPosted(all, Agg(k).net)
        /\ ClearingResidual(all) = 0

\* A credit that is missing is pending until the deadline, its last instant
\* included, unless something else is wrong, and critical from then on: it is
\* never left to a review.
MissingCreditIsTimed ==
    \A r \in results : "missing_bank_credit" \in r.reasons =>
        /\ r.state \in {"pending_within_sla", "critical_exception"}
        /\ book.clock > Agg(r.key).at + Sla => r.state = "critical_exception"

\* A settlement that is not cleared is named by some exception, one that is
\* cleared by none: the reasons an exception is made of never run out.  A
\* critical one blocks the close, a pending one does not.
UnclearedIsNamed ==
    \A r \in results :
        LET of == {e \in exceptions : e.source = SettlementSource(r.key)} IN
        /\ r.state \in Cleared <=> of = {}
        /\ r.state = "critical_exception" => \E e \in of : e.blocking
        /\ r.state = "pending_within_sla" => \A e \in of : ~e.blocking

\* READY closes only what is cleared, and anything short of BLOCKED leaves open
\* only settlements that are pending or immaterial, and refused rows of other
\* accounts.
ReadyMeansCleared ==
    /\ close.readiness = "READY" =>
          AllKeys = {r.key : r \in {s \in results : s.state \in Cleared}}
    /\ close.readiness \in {"READY", "READY_WITH_EXCEPTIONS"} =>
          /\ \A r \in results :
                /\ r.state # "critical_exception"
                /\ r.state = "needs_review" => ~IsMaterial(Agg(r.key).net)
          /\ \A x \in read.refused :
                /\ x.kind \in {"gateway", "bank"}
                /\ x.row.raw.account \notin book.accounts \cup {NoAccount}

\* A row nothing in its source disputes: it is well-formed and not refused, no
\* other well-formed row has its identifier, and no two rows have that for text.
Undisputed(e, kind, rows, sound) ==
    /\ e \in sound
    /\ \A q \in sound : q.id = e.id => q = e
    /\ \A p, q \in rows : p.raw.id = e.id /\ q.raw.id = e.id => p = q
    /\ \A x \in read.refused : x.kind = kind => x.row # e

\* A settlement rests on undisputed rows only: its movements, the lines that are
\* assigned to them and the bank row it is linked to.
RefusedRowsProveNothing ==
    \A r \in results :
        /\ \A x \in r.assigned :
              /\ Undisputed(x.movement, "gateway", book.gateway,
                            GatewayRows(book.gateway))
              /\ \A l \in x.lines :
                    Undisputed(l, "ledger", book.ledger, LedgerRows(book.ledger))
        /\ \A b \in BankRows(book.bank) : b.id = links[r.key] =>
              Undisputed(b, "bank", book.bank, BankRows(book.bank))

\* In a finished batch every gateway and bank row was refused, excluded, or had
\* its part in a settlement, and none that was excluded is evidence of one.
EveryRowIsAccounted ==
    phase = "done" =>
        LET Refused(kind) == {x.row : x \in {y \in read.refused : y.kind = kind}}
            Excluded(kind) == {x[2] : x \in {y \in excluded : y[1] = kind}}
        IN
        /\ \A m \in book.gateway \ (Refused("gateway") \cup Excluded("gateway")) :
              \E r \in results : \E x \in r.assigned : x.movement = m
        /\ \A b \in book.bank \ (Refused("bank") \cup Excluded("bank")) :
              b.id \in Considered
        /\ \A b \in Excluded("bank") : \A k \in DOMAIN links : links[k] # b.id
        /\ \A m \in Excluded("gateway") : \A r \in results :
              \A x \in r.assigned : x.movement # m

\* Matching settlements to bank rows one after another implements the promise
\* that accepted investigations keep too: a settlement rests for good on one
\* row, which no other settlement rests on.
Evidence == [k \in {"batch"} \X Key |-> links[k[2]]]

Promise == INSTANCE AcceptedEvidence WITH
    Batch <- {"batch"}, Settlement <- Key, Bank <- BankId,
    Deterministic <- [b \in {"batch"} |-> {}], evidence <- Evidence

ImplementsAcceptedEvidence == Promise!Spec
=============================================================================
