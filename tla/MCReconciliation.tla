-------------------------- MODULE MCReconciliation --------------------------
(***************************************************************************)
(* Books for model checking Reconciliation: families that vary the bank    *)
(* rows, the ledger lines, or the rows that are refused, each against      *)
(* sources that are otherwise in order.                                    *)
(***************************************************************************)
EXTENDS Reconciliation

\* Gateway rows, settled at 1, of settlement s and account a.
Movement(n, s, a, type, debit, credit, utr) ==
    [number |-> n, id |-> n, parses |-> TRUE, type |-> type, debit |-> debit,
     credit |-> credit, fee |-> 0, tax |-> 0, settled |-> TRUE,
     settlement |-> s, account |-> a, utr |-> utr, at |-> 1, refs |-> {n},
     raw |-> [id |-> n, settlement |-> s, account |-> a]]
Payment(n, s, a, amount, utr) == Movement(n, s, a, "payment", 0, amount, utr)
Refund(n, s, a, amount) == Movement(n, s, a, "refund", amount, 0, 0)

Row(n, utr, amount, at) ==
    [number |-> n, id |-> n, parses |-> TRUE, utr |-> utr, amount |-> amount,
     credit |-> TRUE, at |-> at, account |-> 1, narrated |-> FALSE,
     raw |-> [id |-> n, settlement |-> NoSettlement, account |-> 1]]

Line(n, j, role, debit, credit, s, refs) ==
    [number |-> n, id |-> n, parses |-> TRUE, journal |-> j, role |-> role,
     debit |-> debit, credit |-> credit, settlement |-> s, cites |-> FALSE,
     refs |-> refs, raw |-> [id |-> n, settlement |-> s, account |-> NoAccount]]
Clears(n, j, debit, credit, s, refs) ==
    Line(n, j, "razorpay_clearing", debit, credit, s, refs)

\* A row under another identifier, spelt as another text, or of another account.
WithId(r, i) == [r EXCEPT !.id = i, !.raw.id = i]
Spelt(r, i) == [r EXCEPT !.raw.id = i]
InAccount(r, a) == [r EXCEPT !.account = a, !.raw.account = a]

\* Journals: a sale, a refund, a charge, and the posting of the net.
Sale(j, amount, s, refs) ==
    {Clears(10 * j, j, amount, 0, s, refs),
     Line(10 * j + 1, j, "sales_revenue", 0, amount, s, refs)}
RefundBooking(j, amount, s, refs) ==
    {Clears(10 * j, j, 0, amount, s, refs),
     Line(10 * j + 1, j, "refunds", amount, 0, s, refs)}
Charge(j, role, amount, s) ==
    {Clears(10 * j, j, 0, amount, s, {}), Line(10 * j + 1, j, role, amount, 0, s, {})}
Posting(j, net, s) ==
    {Clears(10 * j, j, 0, net, s, {}), Line(10 * j + 1, j, "bank", net, 0, s, {})}

Book(gateway, bank, ledger, accounts, clock) ==
    [gateway |-> gateway, bank |-> bank, ledger |-> ledger,
     accounts |-> accounts, clock |-> clock]

-----------------------------------------------------------------------------
\* Two settlements, the second with the same, another or no reference, the
\* first perhaps with two; every choice of six bank rows; the clock before, at
\* and after the deadline.
TwoSettlements ==
    {{Payment(1, 1, 1, 10, 7), Payment(2, 2, 1, 10, u)} : u \in {0, 7, 8}}
    \cup {{Payment(1, 1, 1, 6, 7), Payment(3, 1, 1, 4, 8), Payment(2, 2, 1, 10, 7)}}

BankPool == {Row(1, 7, 10, 2), Row(2, 7, 11, 3), Row(3, 8, 10, 3),
             [Row(4, 0, 10, 2) EXCEPT !.narrated = TRUE], Row(5, 7, 10, 4),
             [Row(6, 7, 10, 3) EXCEPT !.credit = FALSE]}

SaleBooks == Sale(1, 10, 1, {1}) \cup Sale(2, 10, 2, {2})
                \cup Posting(3, 10, 1) \cup Posting(4, 10, 2)

BankBooks ==
    {Book(g, b, SaleBooks, {1}, c) :
        g \in TwoSettlements, b \in SUBSET BankPool \ {{}}, c \in {2, 3, 4}}

\* A large settlement in order and a small one that no bank row, or several,
\* could prove, one of them of another account.
ReviewBooks ==
    {Book({Payment(1, 1, 1, 10, 7), Payment(2, 2, 1, 4, u)}, {Row(1, 7, 10, 2)} \cup b,
          Sale(1, 10, 1, {1}) \cup Sale(2, 4, 2, {2})
              \cup Posting(3, 10, 1) \cup Posting(4, 4, 2), {1}, c) :
        u \in {0, 8}, c \in {2, 3, 4},
        b \in SUBSET {Row(2, 0, 4, 2), Row(3, 0, 4, 3), Row(4, 8, 4, 2),
                     InAccount(Row(5, 8, 4, 3), 3)}}

-----------------------------------------------------------------------------
\* One settlement with two sales of one amount and lines that name one, the
\* other or both of them, in up to three journals.
SharedRefs == {{}, {1}, {2}, {1, 2}}

PairBooks ==
    {Book({Payment(1, 1, 1, 10, 7), Payment(2, 1, 1, 10, 7)}, {Row(1, 7, 20, 2)},
          UNION {Sale(j, 10, 1, refs[j]) : j \in DOMAIN refs} \cup Posting(5, 20, 1),
          {}, 3) :
        refs \in UNION {[1 .. n -> SharedRefs] : n \in 1 .. 3}}

\* One settlement with a sale, two refunds of one amount, and a fee and tax that
\* the sale describes or adjustments carry; journals in order, or in one of the
\* ways they can be wrong.
Fee(n) == [Movement(n, 1, 1, "adjustment", 1, 0, 7) EXCEPT !.fee = 1]
Tax(n) == [Movement(n, 1, 1, "adjustment", 1, 0, 7) EXCEPT !.tax = 1]

SaleVariants ==
    {Sale(1, 10, 1, {1}),
     {[l EXCEPT !.debit = l.credit, !.credit = l.debit] : l \in Sale(1, 10, 1, {1})},
     {Clears(10, 1, 10, 0, 1, {1}), Line(11, 1, "unknown", 0, 10, 1, {1})},
     {Clears(10, 1, 10, 0, 1, {1}), Line(11, 1, "sales_revenue", 0, 9, 1, {1})},
     {[l EXCEPT !.cites = TRUE] : l \in Sale(1, 9, 1, {1})}}

\* The second refund is a line that was repeated.
RepeatedRefund(s) ==
    RefundBooking(3, 4, s, {}) \cup {[Line(31, 3, "refunds", 4, 0, s, {})
                                        EXCEPT !.number = 99]}

Described == [Payment(1, 1, 1, 10, 7) EXCEPT !.fee = 1, !.tax = 1]
ChargeVariants ==
    {{}, Charge(4, "gateway_fee_expense", 1, 1),
     Charge(4, "gateway_fee_expense", 1, 1) \cup Charge(5, "input_gst", 1, 1),
     Charge(4, "gateway_fee_expense", 1, 1) \cup Charge(5, "input_gst", 1, 1)
        \cup Charge(6, "gateway_fee_expense", 1, 1)}

Payouts == {
    [rows |-> {Payment(1, 1, 1, 10, 7), Refund(2, 1, 1, 4)}, net |-> 6],
    [rows |-> {Payment(1, 1, 1, 10, 7), Refund(2, 1, 1, 4), Refund(3, 1, 1, 4)},
     net |-> 2],
    [rows |-> {Described}, net |-> 10],
    [rows |-> {Payment(1, 1, 1, 10, 7), Fee(4), Tax(5)}, net |-> 8],
    [rows |-> {[Described EXCEPT !.fee = 2], Fee(4), Tax(5)}, net |-> 8]}

LedgerBooks ==
    {Book(p.rows, {Row(1, 7, p.net, 2)}, sale \cup refunds \cup charges
              \cup (IF posted THEN Posting(9, p.net, 1) ELSE {}), {1}, 3) :
        p \in Payouts, sale \in SaleVariants,
        refunds \in {{}, RefundBooking(2, 4, 1, {2}), RepeatedRefund(1),
                     RefundBooking(2, 4, 1, {}) \cup RefundBooking(3, 4, 1, {2})},
        charges \in ChargeVariants, posted \in BOOLEAN}

-----------------------------------------------------------------------------
\* A settlement in order, whose bank row may be spelt otherwise than its
\* identifier, with one or two rows that are refused or out of scope: malformed,
\* repeated by identifier or by text, under an account or a settlement that only
\* the text tells apart, with a line break in an identifier, or settled so late
\* that there is no deadline.
Broken(r) == [r EXCEPT !.parses = FALSE]

OddRows == {
    <<"gateway", Broken(Payment(21, 0, 0, 5, 0))>>,
    <<"gateway", Broken(Payment(22, 1, 3, 5, 0))>>,
    <<"gateway", Payment(23, Blank, 1, 5, 0)>>,
    <<"gateway", WithId(Payment(24, 1, 1, 5, 7), 1)>>,
    <<"gateway", Payment(25, 4, 3, 5, 0)>>,
    <<"gateway", Payment(26, 1, 0, 10, 7)>>,
    <<"gateway", [Payment(27, 4, 1, 5, 0) EXCEPT !.settled = FALSE]>>,
    <<"gateway", Payment(28, Control, 1, 5, 0)>>,
    <<"gateway", Payment(29, 1, 1, 5, Control)>>,
    <<"gateway", [Broken(Payment(30, 1, 1, 5, 0)) EXCEPT !.raw.account = 9]>>,
    <<"gateway", [Payment(31, 2, 1, 5, 0) EXCEPT !.at = 9]>>,
    <<"bank", Broken(Row(21, 7, 10, 2))>>,
    <<"bank", WithId(Row(22, 7, 10, 2), 1)>>,
    <<"bank", InAccount(Broken(Row(23, 7, 10, 2)), 3)>>,
    <<"bank", WithId(Broken(Row(24, 7, 10, 2)), 1)>>,
    <<"bank", WithId(Broken(Row(25, 7, 10, 2)), 1)>>,
    <<"bank", Spelt(WithId(Row(26, 7, 10, 2), 1), 31)>>,
    <<"bank", Broken(Row(31, 7, 10, 2))>>,
    <<"ledger", Broken(Line(21, 7, "other", 0, 1, 0, {}))>>,
    <<"ledger", Line(22, 7, "other", 1, 1, Blank, {})>>,
    <<"ledger", WithId(Line(23, 1, "sales_revenue", 0, 10, 1, {1}), 11)>>,
    <<"ledger", [WithId(Line(24, 1, "sales_revenue", 0, 10, 1, {1}), 11)
                    EXCEPT !.raw.settlement = 9]>>}

RowBooks ==
    {Book({Payment(1, 1, 1, 10, 7)} \cup {x[2] : x \in {y \in odd : y[1] = "gateway"}},
          {paid} \cup {x[2] : x \in {y \in odd : y[1] = "bank"}},
          Sale(1, 10, 1, {1}) \cup Posting(3, 10, 1)
              \cup {x[2] : x \in {y \in odd : y[1] = "ledger"}},
          accounts, 3) :
        odd \in {{x, y} : x, y \in OddRows}, accounts \in {{}, {1}},
        paid \in {Row(1, 7, 10, 2), Spelt(Row(1, 7, 10, 2), 31)}}

\* One settlement id in two balance accounts, each with a refund of one amount
\* beside a sale of its own.
SplitBooks ==
    {Book({Payment(1, 1, 1, 10, 7), Refund(2, 1, 1, 4), Payment(3, 1, 2, 10, 8),
           Refund(4, 1, 2, 4)},
          {Row(1, 7, 6, 2), InAccount(Row(2, 8, 6, 2), 2)},
          Sale(1, 10, 1, {1}) \cup Sale(2, 10, 1, {3}) \cup Posting(5, 6, 1)
              \cup refunds, accounts, 3) :
        refunds \in {RefundBooking(3, 4, 1, {2}),
                     RefundBooking(3, 4, 1, {}) \cup RefundBooking(4, 4, 1, {}),
                     {}},
        accounts \in {{}, {1, 2}, {1}}}

MCBooks ==
    BankBooks \cup ReviewBooks \cup PairBooks \cup LedgerBooks \cup RowBooks
        \cup SplitBooks

MCKey == (1 .. 4) \X (0 .. 3)
MCBankId == 1 .. 26
=============================================================================
