----------------------------- MODULE SourceRows -----------------------------
(***************************************************************************)
(* Source rows, as backend/app/infrastructure/ingestion.py reads them and  *)
(* backend/app/application/aggregation.py groups them into settlements.    *)
(*                                                                         *)
(* A source is a set of raw rows told apart by their row number.  "parses" *)
(* says that a row has the right number of fields and that each of them    *)
(* has the form its column requires; what a record requires of its fields  *)
(* together is spelled out below.  Strings are numbers in their own order, *)
(* 0 where the field is empty.  "id", "settlement" and "account" are what  *)
(* _normalize_identifier makes of a field; "raw" holds the text the source *)
(* gives for them, which several places compare instead.  Currency is left *)
(* out: a row or a policy in any other than INR does not parse.  A book is *)
(* the input of one batch: the three sources, the balance accounts of the  *)
(* policy ({} for any) and the evaluation clock.                           *)
(***************************************************************************)
EXTENDS Integers, FiniteSets, FiniteSetsExt

NoId == 0
NoSettlement == 0
Blank == -1             \* a settlement_id of nothing but white space
Control == -2           \* an identifier with a line break or a NUL in it
Unfit == {Blank, Control}
NoAccount == 0
NoUtr == 0

\* A reason that is given under a condition.
Given(reason, condition) == IF condition THEN {reason} ELSE {}

-----------------------------------------------------------------------------
(***************************************************************************)
(* _read_csv: rows that are records, rows that are refused                 *)
(***************************************************************************)
GatewaySound(r) ==
    /\ r.parses /\ r.id # NoId /\ r.settlement \notin Unfit
    /\ r.debit # 0 \/ r.credit # 0
    /\ r.settled => r.settlement # NoSettlement /\ r.at # 0

BankSound(r) == r.parses /\ r.id # NoId /\ r.amount > 0

LedgerSound(r) ==
    /\ r.parses /\ r.id # NoId /\ r.settlement \notin Unfit
    /\ r.debit = 0 \/ r.credit = 0

GatewayRows(rows) == {r \in rows : GatewaySound(r)}
BankRows(rows) == {r \in rows : BankSound(r)}
LedgerRows(rows) == {r \in rows : LedgerSound(r)}

\* duplicate_ids: texts that several rows have for an identifier, rows that do
\* not parse included, and identifiers that several well-formed rows have.
RepeatedIds(rows, sound) ==
    {r.raw.id : r \in {p \in rows : /\ p.raw.id # NoId
                                   /\ \E q \in rows \ {p} : q.raw.id = p.raw.id}}
    \cup {r.id : r \in {p \in sound : \E q \in sound \ {p} : q.id = p.id}}

\* Reading that takes the first row of an identifier and ignores the others.
FirstOfItsId(r, rows, sound) ==
    \E q \in sound \ {r} : q.id = r.id /\ q.number < r.number

\* A well-formed row is looked up by its identifier, any other by its text: one
\* whose text only a malformed row shares, and whose identifier is another, is
\* not repeated.
Repeated(r, rows, sound) ==
    (IF r \in sound THEN r.id ELSE r.raw.id) \in RepeatedIds(rows, sound)

Unrepeated(rows, sound) == {r \in sound : ~Repeated(r, rows, sound)}

GatewayRecords(rows) == Unrepeated(rows, GatewayRows(rows))
BankRecords(rows) == Unrepeated(rows, BankRows(rows))
LedgerRecords(rows) == Unrepeated(rows, LedgerRows(rows))

\* duplicate_records: well-formed lines refused for their identifier only.
LedgerDuplicates(rows) == LedgerRows(rows) \ LedgerRecords(rows)

\* A bank row has no settlement column.
Rejection(r, kind, reason) ==
    [row |-> r, kind |-> kind, reason |-> reason,
     settlement |-> IF kind = "bank" THEN NoSettlement ELSE r.settlement]

\* A row that is both malformed and repeated is rejected twice.
Rejections(rows, kind, sound) ==
    {Rejection(r, kind, "malformed_source_record") : r \in rows \ sound}
    \cup {Rejection(r, kind, "duplicate_business_identifier") :
            r \in {q \in rows : Repeated(q, rows, sound)}}

\* rejected_rows of the three sources.
RejectedRows(book) ==
    Rejections(book.gateway, "gateway", GatewayRows(book.gateway))
    \cup Rejections(book.bank, "bank", BankRows(book.bank))
    \cup Rejections(book.ledger, "ledger", LedgerRows(book.ledger))

-----------------------------------------------------------------------------
(***************************************************************************)
(* Scope of the close                                                      *)
(***************************************************************************)
AccountInScope(account, book) ==
    book.accounts = {} \/ account \in book.accounts

\* The text names an account that is not the policy's; a ledger row names none.
ProvablyOutOfScope(x, book) ==
    /\ x.kind # "ledger"
    /\ x.row.raw.account # NoAccount
    /\ ~AccountInScope(x.row.raw.account, book)

\* What aggregate_gateway does not leave out.
InScope(r, book) ==
    /\ r.settled /\ r.settlement # NoSettlement /\ r.at # 0
    /\ AccountInScope(r.account, book)

-----------------------------------------------------------------------------
(***************************************************************************)
(* aggregate_gateway: one settlement per id and balance account            *)
(***************************************************************************)
KeyOf(r) == <<r.settlement, r.account>>

Movements(book) == {r \in GatewayRecords(book.gateway) : InScope(r, book)}
Keys(book) == {KeyOf(r) : r \in Movements(book)}

\* Records left out of the close before any matching, with their source.
OutOfScope(book) ==
    {<<"gateway", r>> : r \in GatewayRecords(book.gateway) \ Movements(book)}
    \cup {<<"bank", r>> : r \in {q \in BankRecords(book.bank) :
            q.account # NoAccount /\ ~AccountInScope(q.account, book)}}

\* Sorting the groups compares account names, which fails against none.
Unsortable(keys) ==
    \E j, k \in keys : j[1] = k[1] /\ j[2] = NoAccount /\ k[2] # NoAccount

\* The UTRs of a group become identifiers, which have no line break in them.
BadUtr(ms) == \E m \in ms : m.utr = Control

Before(j, k) == j[1] < k[1] \/ (j[1] = k[1] /\ j[2] <= k[2])
FirstKey(keys) == CHOOSE k \in keys : \A j \in keys : Before(k, j)
FirstMember(ms) == CHOOSE m \in ms : \A n \in ms : m.id <= n.id

Amount(m) == m.debit + m.credit
IsAdjustment(m) == m.type = "adjustment"

AuthoritativeFee(ms) ==
    MapThenSumSet(Amount, {m \in ms : IsAdjustment(m) /\ m.fee > 0})
AuthoritativeTax(ms) ==
    MapThenSumSet(Amount, {m \in ms : IsAdjustment(m) /\ m.tax > 0})

\* Adjustments that carry the charge win over the fields that describe it.
TotalFee(ms) ==
    IF AuthoritativeFee(ms) # 0 THEN AuthoritativeFee(ms)
    ELSE MapThenSumSet(LAMBDA m : m.fee, ms)
TotalTax(ms) ==
    IF AuthoritativeTax(ms) # 0 THEN AuthoritativeTax(ms)
    ELSE MapThenSumSet(LAMBDA m : m.tax, ms)

Aggregate(ms, k) ==
    [account |-> k[2],
     net |-> MapThenSumSet(LAMBDA m : m.credit - m.debit, ms),
     utrs |-> {m.utr : m \in ms} \ {NoUtr},
     at |-> Max({m.at : m \in ms})]
=============================================================================
