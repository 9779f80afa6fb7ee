--------------------- MODULE ReconciliationClose_proofs ---------------------
(***************************************************************************)
(* Proofs about Reconciliation's accounts of a whole batch: which rows are *)
(* evidence, which are not, when the close is ready, and that the greedy   *)
(* assignment of ledger lines decides nothing.                             *)
(***************************************************************************)
EXTENDS Reconciliation_proofs

\* Every settlement is decided by the time the rows are looked at, and no other
\* aggregate is linked.
ProgressInv ==
    /\ phase \notin {"group", "failed"} =>
          \A k \in AllKeys \ todo : \E r \in results : r.key = k
    /\ phase \in {"rows", "close", "done"} => todo = {}
    /\ \A k \in Key \ AllKeys : links[k] = NoBank

\* A result assigns exactly the movements of its settlement, to lines of its
\* settlement, and its row passed the controls and was among its candidates.
MembersInv ==
    \A r \in results :
        /\ {x.movement : x \in r.assigned} = Ms(r.key)
        /\ \A x \in r.assigned : x.lines \subseteq Lines(r.key)
        /\ links[r.key] # NoBank =>
              \E b \in read.bank :
                  /\ links[r.key] = b.id /\ AccountOk(Agg(r.key), b)
                  /\ b.id \in {c.bank : c \in r.candidates}

\* The phases before the close add no row, then those nobody considered.
LeftOver ==
    {<<"bank", b>> : b \in {q \in read.bank :
        <<"bank", q>> \notin OutOfScope(book) /\ q.id \notin Considered}}

ExcludedInv ==
    /\ phase \in {"match", "assign", "decide", "rows"} => excluded = OutOfScope(book)
    /\ phase \in {"close", "done"} => excluded = OutOfScope(book) \cup LeftOver

\* The close is assessed once, over an exception for every refused row.
CloseInv ==
    /\ phase # "done" => close.readiness = "none"
    /\ phase \in {"close", "done"} =>
          \A x \in read.refused : \E e \in exceptions :
              /\ e.source = RowSource(x)
              /\ e.blocking <=> ~ProvablyOutOfScope(x, book)
    /\ close.readiness \in {"READY", "READY_WITH_EXCEPTIONS"} =>
          \A e \in exceptions : ~e.blocking
    /\ close.readiness = "READY" =>
          \A e \in exceptions : e.reason \in RowReason

Accounts == ProgressInv /\ MembersInv /\ ExcludedInv /\ CloseInv

LEMMA InitAccounts == Init => Accounts
  BY DEF Init, Accounts, ProgressInv, MembersInv, ExcludedInv, CloseInv, NoClose

LEMMA NextProgress ==
  ASSUME IInv, ProgressInv, [Next]_vars
  PROVE  ProgressInv'
  <1>0. AllKeys' = AllKeys /\ AllKeys \subseteq Key
    BY BookStays, ReadType DEF IInv
  <1>1. CASE Group
    BY <1>0, <1>1 DEF Group, Onward, ProgressInv
  <1>2. CASE MatchBank
    <2>1. current' \in AllKeys /\ current' \in Key
      BY <1>2, MatchTakes DEF IInv, TypeOK
    <2>2. /\ todo' = todo /\ results' = results
          /\ phase = "match" /\ phase' = "assign"
          /\ links' = [links EXCEPT ![current'] = match'.accepted]
      BY <1>2 DEF MatchBank
    <2>3. \A k \in Key \ AllKeys : links'[k] = links[k]
      BY <2>1, <2>2 DEF IInv, TypeOK
    <2> QED BY <1>0, <2>2, <2>3 DEF ProgressInv
  <1>3. CASE Decide
    <2>1. PICK ledger, reasons, state :
             results' = results \cup {Result(ledger, reasons, state)}
      BY <1>3, DecideStep
    <2>2. Result(ledger, reasons, state).key = current
      BY DEF Result
    <2>3. /\ phase = "decide" /\ phase' = Onward(todo') /\ todo' = todo \ {current}
          /\ links' = links
      BY <1>3 DEF Decide
    <2>4. \A k \in AllKeys \ todo' : \E r \in results' : r.key = k
      BY <2>1, <2>2, <2>3 DEF ProgressInv
    <2>5. phase' \in {"rows", "close", "done"} => todo' = {}
      BY <2>3 DEF Onward
    <2> QED BY <1>0, <2>3, <2>4, <2>5 DEF ProgressInv
  <1>4. CASE \/ DeadlineOverflows \/ Assign \/ BookCharges \/ RejectRows \/ Close
             \/ UNCHANGED vars
    <2>1. /\ todo' = todo /\ results' = results /\ links' = links
          /\ phase' \notin {"group", "failed"} => phase \notin {"group", "failed"}
          /\ phase' \in {"rows", "close", "done"} => phase \in {"rows", "close", "done"}
      BY <1>4 DEF DeadlineOverflows, Assign, BookCharges, RejectRows, Close,
                  vars
    <2> QED BY <1>0, <2>1 DEF ProgressInv
  <1> QED BY <1>1, <1>2, <1>3, <1>4 DEF Next

LEMMA NextMembers ==
  ASSUME IInv, MatchInv, MembersInv, [Next]_vars
  PROVE  MembersInv'
  <1> DEFINE Fits(k, xs, cs) ==
        /\ {x.movement : x \in xs} = Ms(k)
        /\ \A x \in xs : x.lines \subseteq Lines(k)
        /\ links[k] # NoBank =>
              \E b \in read.bank :
                  /\ links[k] = b.id /\ AccountOk(Agg(k), b)
                  /\ b.id \in {c.bank : c \in cs}
  <1>0. book' = book /\ read' = read
    BY BookStays DEF IInv
  <1>1. ASSUME NEW r \in results
        PROVE  Fits(r.key, r.assigned, r.candidates)'
    <2>1. Fits(r.key, r.assigned, r.candidates)
      BY <1>1 DEF MembersInv
    <2>2. /\ links'[r.key] = links[r.key] /\ Agg(r.key)' = Agg(r.key)
          /\ Ms(r.key)' = Ms(r.key) /\ Lines(r.key)' = Lines(r.key)
      BY <1>1, DecidedStays
    <2> QED BY <1>0, <2>1, <2>2
  <1>2. CASE Decide
    <2>1. PICK ledger, reasons, state :
             results' = results \cup {Result(ledger, reasons, state)}
      BY <1>2, DecideStep
    <2> DEFINE new == Result(ledger, reasons, state)
    <2>2. /\ new.key = current /\ new.assigned = assigned
          /\ new.candidates = match.candidates
      BY DEF Result
    <2>3. phase = "decide" /\ current \in AllKeys
      BY <1>2, CurrentType DEF Decide
    <2>4. PICK taken : match = Match(Agg(current), read.bank, book.clock, taken)
      BY <2>3 DEF MatchInv
    <2>5. links[current] # NoBank =>
              \E b \in read.bank :
                  /\ links[current] = b.id /\ AccountOk(Agg(current), b)
                  /\ b.id \in {c.bank : c \in match.candidates}
      <3>1. links[current] = match.accepted
        BY <2>3 DEF IInv, LinksInv
      <3> QED BY <2>3, <2>4, <3>1, AggregateType, MatchSound DEF IInv, ControlsOk
    <2>6. {x.movement : x \in assigned} = Ms(current)
          /\ \A x \in assigned : x.lines \subseteq Lines(current)
      BY <2>3 DEF IInv, AssignedInv, TypeOK
    <2>7. Fits(current, assigned, match.candidates)
      BY <2>5, <2>6
    <2>8. /\ links' = links /\ current' = current /\ assigned' = assigned
          /\ match' = match
      BY <1>2 DEF Decide, working
    <2>9. Fits(current, assigned, match.candidates)'
      <3>1. Agg(current)' = Agg(current) /\ Ms(current)' = Ms(current)
            /\ Lines(current)' = Lines(current)
        BY <1>0, <2>8 DEF Agg, Ms, Lines
      <3> QED BY <1>0, <2>7, <2>8, <3>1
    <2> HIDE DEF new, Fits
    <2>10. ASSUME NEW r \in results' PROVE Fits(r.key, r.assigned, r.candidates)'
      <3>1. CASE r \in results
        BY <1>1, <3>1
      <3>2. CASE r = new
        BY <2>2, <2>8, <2>9, <3>2 DEF Fits
      <3> QED BY <2>1, <3>1, <3>2 DEF new
    <2> QED BY <2>10 DEF MembersInv, Fits
  <1>3. CASE ~Decide
    <2>1. results' = results
      BY <1>3 DEF Next, Group, DeadlineOverflows, MatchBank, Assign,
                  BookCharges, RejectRows, Close, vars
    <2> QED BY <1>1, <2>1 DEF MembersInv
  <1> QED BY <1>2, <1>3

LEMMA NextExcluded ==
  ASSUME IInv, ExcludedInv, [Next]_vars
  PROVE  ExcludedInv'
  <1>0. book' = book /\ read' = read /\ OutOfScope(book)' = OutOfScope(book)
    BY BookStays DEF IInv
  <1>1. CASE Group
    BY <1>0, <1>1 DEF Group, Onward, ExcludedInv
  <1>2. CASE MatchBank \/ Assign \/ BookCharges \/ Decide
    <2>1. /\ excluded' = excluded /\ phase \in {"match", "assign", "decide", "rows"}
          /\ phase' \in {"match", "assign", "decide", "rows"}
      BY <1>2 DEF MatchBank, Assign, BookCharges, Decide, Onward
    <2> QED BY <1>0, <2>1 DEF ExcludedInv
  <1>3. CASE RejectRows
    <2>1. phase = "rows" /\ results' = results
          /\ excluded' = excluded \cup Unrelated
          /\ phase' \in {"failed", "close"}
      BY <1>3 DEF RejectRows
    <2>2. LeftOver' = LeftOver
      BY <1>0, <2>1 DEF LeftOver, Considered
    <2>3. Unrelated = LeftOver
      BY <2>1 DEF Unrelated, LeftOver, ExcludedInv
    <2> QED BY <1>0, <2>1, <2>2, <2>3 DEF ExcludedInv
  <1>4. CASE DeadlineOverflows \/ Close \/ UNCHANGED vars
    <2>1. /\ excluded' = excluded /\ results' = results
          /\ \/ phase' = phase \/ phase' = "failed"
             \/ phase = "close" /\ phase' = "done"
      BY <1>4 DEF DeadlineOverflows, Close, vars
    <2>2. LeftOver' = LeftOver
      BY <1>0, <2>1 DEF LeftOver, Considered
    <2> QED BY <1>0, <2>1, <2>2 DEF ExcludedInv
  <1> QED BY <1>1, <1>2, <1>3, <1>4 DEF Next

LEMMA ReadinessMeans ==
  ASSUME NEW blocking, NEW permitted, NEW readiness,
         readiness = Readiness(blocking, permitted)
  PROVE  /\ readiness \in {"READY", "READY_WITH_EXCEPTIONS"} => blocking = {}
         /\ readiness = "READY" => permitted = {}
  BY DEF Readiness

LEMMA NextClose ==
  ASSUME IInv, CloseInv, [Next]_vars
  PROVE  CloseInv'
  <1>0. book' = book /\ read' = read
        /\ \A x : ProvablyOutOfScope(x, book)' = ProvablyOutOfScope(x, book)
    BY BookStays DEF IInv
  <1>1. CASE RejectRows
    <2>1. phase = "rows" /\ close' = close /\ phase' \in {"failed", "close"}
      BY <1>1 DEF RejectRows
    <2>2. ASSUME phase' = "close", NEW x \in read.refused
          PROVE  \E e \in exceptions' :
                    /\ e.source = RowSource(x)
                    /\ e.blocking <=> ~ProvablyOutOfScope(x, book)
      <3> DEFINE e == [source |-> RowSource(x), reason |-> x.reason,
                       blocking |-> ~ProvablyOutOfScope(x, book)]
      <3>1. e \in exceptions'
        BY <1>1, <2>2 DEF RejectRows
      <3>2. e.source = RowSource(x) /\ (e.blocking <=> ~ProvablyOutOfScope(x, book))
        OBVIOUS
      <3> HIDE DEF e
      <3> QED BY <3>1, <3>2
    <2>3. close.readiness = "none"
      BY <2>1 DEF CloseInv
    <2> QED BY <1>0, <2>1, <2>2, <2>3 DEF CloseInv, RowSource
  <1>2. CASE Close
    <2> DEFINE blocking == {e \in exceptions : e.blocking}
               permitted == {e \in exceptions : ~e.blocking /\ e.reason \notin RowReason}
    <2>1. /\ phase = "close" /\ phase' = "done" /\ exceptions' = exceptions
          /\ close'.readiness = Readiness(blocking, permitted)
      BY <1>2 DEF Close
    <2>2. close'.readiness \in {"READY", "READY_WITH_EXCEPTIONS"} => blocking = {}
      BY <2>1, ReadinessMeans
    <2>3. close'.readiness = "READY" => permitted = {}
      BY <2>1, ReadinessMeans
    <2> QED BY <1>0, <2>1, <2>2, <2>3 DEF CloseInv, RowSource
  <1>3. CASE Group \/ DeadlineOverflows \/ MatchBank \/ Assign \/ BookCharges \/ Decide
    <2>1. phase \notin {"close", "done"} /\ phase' \notin {"close", "done"}
          /\ close' = close
      BY <1>3, OnwardType DEF Group, DeadlineOverflows, MatchBank, Assign,
                              BookCharges, Decide
    <2> QED BY <2>1 DEF CloseInv
  <1>4. CASE UNCHANGED vars
    BY <1>0, <1>4 DEF vars, CloseInv, RowSource
  <1> QED BY <1>1, <1>2, <1>3, <1>4 DEF Next

\* The engine's accounts of a batch, for any book.
THEOREM AccountsInvariance == Spec => []Accounts
  <1>1. IInv /\ Decisions /\ Accounts /\ [Next]_vars => Accounts'
    BY NextProgress, NextMembers, NextExcluded, NextClose DEF Accounts, Decisions
  <1> QED BY InitAccounts, Invariance, DecisionInvariance, <1>1, PTL DEF Spec

-----------------------------------------------------------------------------
(***************************************************************************)
(* Refused rows                                                            *)
(***************************************************************************)
\* A row is refused exactly when it is no record of its source.
LEMMA RefusedAreNoRecords ==
  ASSUME NEW b
  PROVE  /\ \A x \in RejectedRows(b) :
              \/ /\ x.kind = "gateway"
                 /\ x.row \in b.gateway \ GatewayRecords(b.gateway)
              \/ x.kind = "bank" /\ x.row \in b.bank \ BankRecords(b.bank)
              \/ x.kind = "ledger" /\ x.row \in b.ledger \ LedgerRecords(b.ledger)
         /\ \A m \in b.gateway \ GatewayRecords(b.gateway) :
              \E x \in RejectedRows(b) : x.kind = "gateway" /\ x.row = m
         /\ \A q \in b.bank \ BankRecords(b.bank) :
              \E x \in RejectedRows(b) : x.kind = "bank" /\ x.row = q
  <1>1. \A r, kind, reason :
           /\ Rejection(r, kind, reason).row = r
           /\ Rejection(r, kind, reason).kind = kind
    BY DEF Rejection
  <1>2. ASSUME NEW rows, NEW kind, NEW sound
        PROVE  /\ \A x \in Rejections(rows, kind, sound) :
                    /\ x.kind = kind /\ x.row \in rows
                    /\ x.row \notin sound \/ Repeated(x.row, rows, sound)
               /\ \A r \in rows : r \notin sound \/ Repeated(r, rows, sound) =>
                    \E x \in Rejections(rows, kind, sound) :
                       x.kind = kind /\ x.row = r
    BY <1>1 DEF Rejections
  <1>3. /\ \A r \in b.gateway : r \in GatewayRecords(b.gateway) <=>
              /\ r \in GatewayRows(b.gateway)
              /\ ~Repeated(r, b.gateway, GatewayRows(b.gateway))
        /\ \A r \in b.bank : r \in BankRecords(b.bank) <=>
              /\ r \in BankRows(b.bank)
              /\ ~Repeated(r, b.bank, BankRows(b.bank))
        /\ \A r \in b.ledger : r \in LedgerRecords(b.ledger) <=>
              /\ r \in LedgerRows(b.ledger)
              /\ ~Repeated(r, b.ledger, LedgerRows(b.ledger))
    BY DEF GatewayRecords, BankRecords, LedgerRecords, Unrepeated
  <1>4. RejectedRows(b) =
          Rejections(b.gateway, "gateway", GatewayRows(b.gateway))
          \cup Rejections(b.bank, "bank", BankRows(b.bank))
          \cup Rejections(b.ledger, "ledger", LedgerRows(b.ledger))
    BY DEF RejectedRows
  <1>5. \A x \in RejectedRows(b) :
              \/ /\ x.kind = "gateway"
                 /\ x.row \in b.gateway \ GatewayRecords(b.gateway)
              \/ x.kind = "bank" /\ x.row \in b.bank \ BankRecords(b.bank)
              \/ x.kind = "ledger" /\ x.row \in b.ledger \ LedgerRecords(b.ledger)
    BY <1>2, <1>3, <1>4
  <1>6. ASSUME NEW m \in b.gateway \ GatewayRecords(b.gateway)
        PROVE  \E x \in RejectedRows(b) : x.kind = "gateway" /\ x.row = m
    <2> DEFINE sound == GatewayRows(b.gateway)
    <2>1. m \notin sound \/ Repeated(m, b.gateway, sound)
      BY <1>3
    <2> HIDE DEF sound
    <2>2. \E x \in Rejections(b.gateway, "gateway", sound) : x.kind = "gateway" /\ x.row = m
      BY <1>2, <1>6, <2>1
    <2> QED BY <1>4, <2>2 DEF sound
  <1>7. ASSUME NEW q \in b.bank \ BankRecords(b.bank)
        PROVE  \E x \in RejectedRows(b) : x.kind = "bank" /\ x.row = q
    <2> DEFINE sound == BankRows(b.bank)
    <2>1. q \notin sound \/ Repeated(q, b.bank, sound)
      BY <1>3
    <2> HIDE DEF sound
    <2>2. \E x \in Rejections(b.bank, "bank", sound) : x.kind = "bank" /\ x.row = q
      BY <1>2, <1>7, <2>1
    <2> QED BY <1>4, <2>2 DEF sound
  <1> QED BY <1>5, <1>6, <1>7

\* A record is the only well-formed row of its identifier.
LEMMA OneRecordPerId ==
  ASSUME NEW rows, NEW sound, NEW b \in Unrepeated(rows, sound),
         NEW q \in sound, b.id = q.id
  PROVE  q = b
  <1>1. b \in sound /\ b.id \notin RepeatedIds(rows, sound)
    BY DEF Unrepeated, Repeated
  <1>2. ~\E p \in sound \ {b} : p.id = b.id
    BY <1>1 DEF RepeatedIds
  <1> QED BY <1>2

\* No two rows of its source have the identifier of a record for text.
LEMMA OneTextPerId ==
  ASSUME NEW rows, NEW sound, NEW b \in Unrepeated(rows, sound), b.id # NoId,
         NEW p \in rows, NEW q \in rows, p.raw.id = b.id, q.raw.id = b.id
  PROVE  p = q
  <1>1. b.id \notin RepeatedIds(rows, sound)
    BY DEF Unrepeated, Repeated
  <1>2. ~(p.raw.id # NoId /\ \E o \in rows \ {p} : o.raw.id = p.raw.id)
    BY <1>1 DEF RepeatedIds
  <1> QED BY <1>2

\* What a decided settlement rests on are records of the three sources.
LEMMA EvidenceIsRecorded ==
  ASSUME IInv, MembersInv, NEW r \in results
  PROVE  /\ \A y \in r.assigned :
              /\ y.movement \in Movements(book)
              /\ y.movement \in GatewayRecords(book.gateway)
              /\ y.lines \subseteq LedgerRecords(book.ledger)
         /\ links[r.key] # NoBank =>
              \E b \in BankRecords(book.bank) :
                 /\ links[r.key] = b.id /\ AccountOk(Agg(r.key), b)
                 /\ b.id \in Considered
  <1>1. /\ read.movements = Movements(book)
        /\ read.bank = BankRecords(book.bank)
        /\ read.lines = LedgerRecords(book.ledger)
    BY DEF IInv, BookIsRead, Read
  <1>2. \A y \in r.assigned :
           /\ y.movement \in Movements(book)
           /\ y.lines \subseteq LedgerRecords(book.ledger)
    <2>1. {x.movement : x \in r.assigned} = Ms(r.key)
          /\ \A x \in r.assigned : x.lines \subseteq Lines(r.key)
      BY DEF MembersInv
    <2>2. Ms(r.key) \subseteq Movements(book)
          /\ Lines(r.key) \subseteq LedgerRecords(book.ledger)
      BY <1>1 DEF Ms, Lines
    <2> QED BY <2>1, <2>2
  <1>3. Movements(book) \subseteq GatewayRecords(book.gateway)
    BY DEF Movements
  <1>4. ASSUME links[r.key] # NoBank
        PROVE  \E b \in BankRecords(book.bank) :
                 /\ links[r.key] = b.id /\ AccountOk(Agg(r.key), b)
                 /\ b.id \in Considered
    <2>1. PICK b \in read.bank :
             /\ links[r.key] = b.id /\ AccountOk(Agg(r.key), b)
             /\ b.id \in {c.bank : c \in r.candidates}
      BY <1>4 DEF MembersInv
    <2>2. b.id \in Considered
      BY <2>1 DEF Considered
    <2> QED BY <1>1, <2>1, <2>2
  <1> QED BY <1>2, <1>3, <1>4

\* A record of a source is undisputed in it.
LEMMA RecordsAreUndisputed ==
  ASSUME IInv
  PROVE  /\ \A m \in GatewayRecords(book.gateway) :
              Undisputed(m, "gateway", book.gateway, GatewayRows(book.gateway))
         /\ \A b \in BankRecords(book.bank) :
              Undisputed(b, "bank", book.bank, BankRows(book.bank))
         /\ \A l \in LedgerRecords(book.ledger) :
              Undisputed(l, "ledger", book.ledger, LedgerRows(book.ledger))
  <1>1. ASSUME NEW rows, NEW sound, NEW kind, NEW e \in Unrepeated(rows, sound),
               e.id # NoId, \A x \in read.refused : x.kind = kind => x.row # e
        PROVE  Undisputed(e, kind, rows, sound)
    <2>1. e \in sound
      BY DEF Unrepeated
    <2> QED BY <1>1, <2>1, OneRecordPerId, OneTextPerId DEF Undisputed
  <1>2. /\ \A m \in GatewayRecords(book.gateway) : m.id # NoId
        /\ \A b \in BankRecords(book.bank) : b.id # NoId
        /\ \A l \in LedgerRecords(book.ledger) : l.id # NoId
    BY DEF GatewayRecords, BankRecords, LedgerRecords, Unrepeated, GatewayRows,
           BankRows, LedgerRows, GatewaySound, BankSound, LedgerSound
  <1>3. read.refused = RejectedRows(book)
    BY DEF IInv, BookIsRead, Read
  <1>4. \A x \in read.refused :
           /\ x.kind = "gateway" => x.row \notin GatewayRecords(book.gateway)
           /\ x.kind = "bank" => x.row \notin BankRecords(book.bank)
           /\ x.kind = "ledger" => x.row \notin LedgerRecords(book.ledger)
    BY <1>3, RefusedAreNoRecords
  <1> QED BY <1>1, <1>2, <1>4 DEF GatewayRecords, BankRecords, LedgerRecords

\* Whatever the book, a settlement rests on rows that nothing in their source
\* disputes: well-formed, not refused, alone under their identifier.
THEOREM RefusedProveNothing == Spec => []RefusedRowsProveNothing
  <1>1. ASSUME IInv, MembersInv, NEW r \in results
        PROVE  /\ \A x \in r.assigned :
                    /\ Undisputed(x.movement, "gateway", book.gateway,
                                  GatewayRows(book.gateway))
                    /\ \A l \in x.lines :
                         Undisputed(l, "ledger", book.ledger,
                                    LedgerRows(book.ledger))
               /\ \A b \in BankRows(book.bank) : b.id = links[r.key] =>
                    Undisputed(b, "bank", book.bank, BankRows(book.bank))
    <2>1. \A x \in r.assigned :
             /\ x.movement \in GatewayRecords(book.gateway)
             /\ x.lines \subseteq LedgerRecords(book.ledger)
      BY <1>1, EvidenceIsRecorded
    <2>2. ASSUME NEW b \in BankRows(book.bank), b.id = links[r.key]
          PROVE  b \in BankRecords(book.bank)
      <3>1. links[r.key] # NoBank
        BY <2>2 DEF BankRows, BankSound, NoBank, NoId
      <3>2. PICK c \in BankRecords(book.bank) : links[r.key] = c.id
        BY <1>1, <3>1, EvidenceIsRecorded
      <3>3. c = b
        BY <2>2, <3>2, OneRecordPerId DEF BankRecords
      <3> QED BY <3>2, <3>3
    <2> QED BY <1>1, <2>1, <2>2, RecordsAreUndisputed
  <1>2. IInv /\ Accounts => RefusedRowsProveNothing
    BY <1>1 DEF Accounts, RefusedRowsProveNothing
  <1> QED BY <1>2, Invariance, AccountsInvariance, PTL

-----------------------------------------------------------------------------
(***************************************************************************)
(* A finished batch                                                        *)
(***************************************************************************)
LEMMA DecidedBy ==
  ASSUME IInv, Accounts, phase \in {"rows", "close", "done"}
  PROVE  \A k \in AllKeys : \E r \in results : r.key = k
  BY DEF Accounts, ProgressInv

LEMMA LinkedIsOfABatch ==
  ASSUME IInv, Accounts, phase = "done", NEW k \in Key, links[k] # NoBank
  PROVE  k \in AllKeys /\ \E r \in results : r.key = k
  BY DecidedBy DEF Accounts, ProgressInv

\* A row of another account cannot have been accepted.
LEMMA LinkedIsInScope ==
  ASSUME IInv, NEW k \in AllKeys, NEW b, AccountOk(Agg(k), b),
         b.account # NoAccount
  PROVE  AccountInScope(b.account, book)
  <1>1. PICK m \in Movements(book) : KeyOf(m) = k
    BY DEF AllKeys, IInv, BookIsRead, Read
  <1>2. AccountInScope(k[2], book)
    BY <1>1 DEF Movements, InScope, KeyOf
  <1>3. k[2] \in {NoAccount, b.account}
    BY DEF AccountOk, Agg, Aggregate
  <1>4. NoAccount \notin book.accounts
    BY InputAssumption DEF IInv, BookIsRead
  <1> QED BY <1>2, <1>3, <1>4 DEF AccountInScope

\* In a finished batch no row is lost, and none that was excluded is evidence.
THEOREM RowsAccounted == Spec => []EveryRowIsAccounted
  <1> DEFINE Refused(kind) == {x.row : x \in {y \in read.refused : y.kind = kind}}
             Excluded(kind) == {x[2] : x \in {y \in excluded : y[1] = kind}}
  <1>1. ASSUME IInv, Accounts, phase = "done"
        PROVE  /\ \A m \in book.gateway \ (Refused("gateway") \cup Excluded("gateway")) :
                     \E r \in results : \E x \in r.assigned : x.movement = m
               /\ \A b \in book.bank \ (Refused("bank") \cup Excluded("bank")) :
                     b.id \in Considered
               /\ \A b \in Excluded("bank") : \A k \in DOMAIN links : links[k] # b.id
               /\ \A m \in Excluded("gateway") : \A r \in results :
                     \A x \in r.assigned : x.movement # m
    <2>1. /\ read.movements = Movements(book) /\ read.refused = RejectedRows(book)
          /\ read.bank = BankRecords(book.bank)
      BY <1>1 DEF IInv, BookIsRead, Read
    <2>2. excluded = OutOfScope(book) \cup LeftOver
      BY <1>1 DEF Accounts, ExcludedInv
    <2> DEFINE Foreign == {q \in BankRecords(book.bank) :
                  q.account # NoAccount /\ ~AccountInScope(q.account, book)}
               Unseen == {q \in BankRecords(book.bank) : q.id \notin Considered}
    <2>10. \A kind, q : q \in Excluded(kind) <=> <<kind, q>> \in excluded
      <3>1. \A x \in excluded : x = <<x[1], x[2]>>
        BY <2>2 DEF OutOfScope, LeftOver
      <3>2. \A kind, q : <<kind, q>>[1] = kind /\ <<kind, q>>[2] = q
        OBVIOUS
      <3>3. ASSUME NEW kind, NEW q, <<kind, q>> \in excluded
            PROVE  q \in Excluded(kind)
        BY <3>2, <3>3
      <3>4. ASSUME NEW kind, NEW q \in Excluded(kind)
            PROVE  <<kind, q>> \in excluded
        BY <3>1
      <3> QED BY <3>3, <3>4
    <2>3. \A m : m \in Excluded("gateway") <=>
                    m \in GatewayRecords(book.gateway) \ Movements(book)
      BY <2>2, <2>10 DEF OutOfScope, LeftOver
    <2>4. Excluded("bank") \subseteq Foreign \cup Unseen
      BY <2>1, <2>2 DEF OutOfScope, LeftOver
    <2>5. ASSUME NEW q \in Unseen PROVE q \in Excluded("bank")
      <3>1. <<"bank", q>> \in excluded
        BY <2>1, <2>2 DEF LeftOver
      <3> HIDE DEF Excluded
      <3> QED BY <2>10, <3>1
    <2> HIDE DEF Excluded
    <2>6. ASSUME NEW m \in book.gateway, m \notin Refused("gateway"),
                 m \notin Excluded("gateway")
          PROVE  \E r \in results : \E x \in r.assigned : x.movement = m
      <3>1. m \in GatewayRecords(book.gateway)
        BY <2>1, <2>6, RefusedAreNoRecords
      <3>2. m \in read.movements
        BY <2>1, <2>3, <2>6, <3>1
      <3>3. KeyOf(m) \in AllKeys /\ m \in Ms(KeyOf(m))
        BY <3>2 DEF AllKeys, Ms
      <3>4. PICK r \in results : r.key = KeyOf(m)
        BY <1>1, <3>3, DecidedBy
      <3>5. {x.movement : x \in r.assigned} = Ms(r.key)
        BY <1>1 DEF Accounts, MembersInv
      <3> QED BY <3>3, <3>4, <3>5
    <2>7. ASSUME NEW b \in book.bank, b \notin Refused("bank"),
                 b \notin Excluded("bank")
          PROVE  b.id \in Considered
      <3>1. b \in BankRecords(book.bank)
        BY <2>1, <2>7, RefusedAreNoRecords
      <3> QED BY <2>5, <2>7, <3>1
    <2>8. ASSUME NEW b \in Excluded("bank"), NEW k \in DOMAIN links,
                 links[k] = b.id
          PROVE  FALSE
      <3>1. b \in BankRecords(book.bank) /\ b.id # NoBank
        BY <1>1, <2>1, <2>4, ReadType DEF IInv
      <3>2. k \in Key
        BY <1>1 DEF IInv, TypeOK
      <3>3. k \in AllKeys /\ \E r \in results : r.key = k
        BY <1>1, <2>8, <3>1, <3>2, LinkedIsOfABatch
      <3>4. PICK r \in results : r.key = k
        BY <3>3
      <3>5. PICK c \in BankRecords(book.bank) :
               /\ links[k] = c.id /\ AccountOk(Agg(k), c) /\ c.id \in Considered
        BY <1>1, <2>8, <3>1, <3>4, EvidenceIsRecorded DEF Accounts
      <3>6. c = b
        <4>1. c \in BankRows(book.bank) /\ c.id = b.id
          BY <2>8, <3>5 DEF BankRecords, Unrepeated
        <4> QED BY <3>1, <4>1, OneRecordPerId DEF BankRecords
      <3>7. b \in Foreign
        BY <2>4, <3>5, <3>6
      <3> QED BY <1>1, <3>3, <3>5, <3>6, <3>7, LinkedIsInScope
    <2>9. ASSUME NEW m \in Excluded("gateway"), NEW r \in results,
                 NEW x \in r.assigned
          PROVE  x.movement # m
      BY <1>1, <2>3, EvidenceIsRecorded DEF Accounts
    <2> QED BY <2>6, <2>7, <2>8, <2>9
  <1>2. IInv /\ Accounts => EveryRowIsAccounted
    BY <1>1 DEF EveryRowIsAccounted
  <1> QED BY <1>2, Invariance, AccountsInvariance, PTL

\* What an exception says of the settlement it is about.
LEMMA BlockingNamed ==
  ASSUME NamedInv, NEW r \in results
  PROVE  /\ (\A e \in exceptions : ~e.blocking) =>
               r.state \in Cleared \/ ~BlockingState(r.state, Agg(r.key).net)
         /\ (\A e \in exceptions : e.reason \in RowReason) => r.state \in Cleared
  BY DEF NamedInv, Explained, Of

\* READY closes only what is cleared; short of BLOCKED nothing critical, material
\* or of an account of the policy is left open, for any book and materiality.
THEOREM ReadyCleared == Spec => []ReadyMeansCleared
  <1>1. ASSUME IInv, NamedInv, Accounts, close.readiness = "READY"
        PROVE  AllKeys = {r.key : r \in {s \in results : s.state \in Cleared}}
    <2>1. phase = "done" /\ \A e \in exceptions : e.reason \in RowReason
      BY <1>1 DEF Accounts, CloseInv
    <2>2. \A r \in results : r.state \in Cleared /\ r.key \in AllKeys
      BY <1>1, <2>1, BlockingNamed DEF IInv, TypeOK
    <2>3. \A k \in AllKeys : \E r \in results : r.key = k
      BY <1>1, <2>1, DecidedBy
    <2> QED BY <2>2, <2>3
  <1>2. ASSUME IInv, NamedInv, Accounts,
               close.readiness \in {"READY", "READY_WITH_EXCEPTIONS"}
        PROVE  /\ \A r \in results :
                    /\ r.state # "critical_exception"
                    /\ r.state = "needs_review" => ~IsMaterial(Agg(r.key).net)
               /\ \A x \in read.refused :
                    /\ x.kind \in {"gateway", "bank"}
                    /\ x.row.raw.account \notin book.accounts \cup {NoAccount}
    <2>1. phase = "done" /\ \A e \in exceptions : ~e.blocking
      BY <1>2 DEF Accounts, CloseInv
    <2>2. ASSUME NEW r \in results
          PROVE  /\ r.state # "critical_exception"
                 /\ r.state = "needs_review" => ~IsMaterial(Agg(r.key).net)
      BY <1>2, <2>1, BlockingNamed DEF BlockingState, Cleared
    <2>3. ASSUME NEW x \in read.refused
          PROVE  /\ x.kind \in {"gateway", "bank"}
                 /\ x.row.raw.account \notin book.accounts \cup {NoAccount}
      <3>1. ProvablyOutOfScope(x, book)
        BY <1>2, <2>1 DEF Accounts, CloseInv
      <3>2. x \in RejectedRows(book)
        BY <1>2 DEF IInv, BookIsRead, Read
      <3>3. x.kind \in {"gateway", "bank", "ledger"}
        BY <3>2, RefusedAreNoRecords
      <3> QED BY <3>1, <3>3 DEF ProvablyOutOfScope, AccountInScope
    <2> QED BY <2>2, <2>3
  <1>3. IInv /\ Decisions /\ Accounts => ReadyMeansCleared
    BY <1>1, <1>2 DEF ReadyMeansCleared, Decisions
  <1> QED BY <1>3, Invariance, DecisionInvariance, AccountsInvariance, PTL

-----------------------------------------------------------------------------
(***************************************************************************)
(* The greedy assignment                                                   *)
(***************************************************************************)
\* When every movement so far found a pair, each way to give every movement of
\* the settlement a pair of its own gives these movements the same.
Forced(k, xs) ==
    (\A x \in xs : x.lines # {}) =>
        \A f \in Assignments(k) : \A x \in xs : f[x.movement] = x.lines

\* Nothing but the assigned lines is taken while movements are assigned.
GreedyInv ==
    /\ phase = "assign" => used \subseteq UNION {x.lines : x \in assigned}
    /\ phase \in {"assign", "decide"} => Forced(current, assigned)
    /\ \A r \in results : Forced(r.key, r.assigned)

LEMMA InitGreedy == Init => GreedyInv
  BY DEF Init, GreedyInv

\* What OnlyOne picks of a finite set is its only member.
LEMMA OnlyOneIsAlone ==
  ASSUME NEW pairs, IsFiniteSet(pairs), OnlyOne(pairs) # {}
  PROVE  \A p \in pairs : p = OnlyOne(pairs)
  <1>1. pairs # {} /\ ~(Cardinality(pairs) > 1)
    BY DEF OnlyOne, Several
  <1>2. Cardinality(pairs) \in Nat /\ Cardinality(pairs) # 0
    BY <1>1, FS_CardinalityType, FS_EmptySet
  <1>3. Cardinality(pairs) = 1
    BY <1>1, <1>2
  <1>4. PICK q : pairs = {q}
    BY <1>3, FS_Singleton
  <1> QED BY <1>4, OnlyOneIsOne

LEMMA FreePairsAreFinite ==
  ASSUME BookIsRead, NEW m, NEW k, NEW taken
  PROVE  IsFiniteSet(Free(Pairs(m, Lines(k)), taken))
  <1>1. IsFiniteSet(SUBSET Lines(k))
    BY FiniteBook, FS_SUBSET
  <1>2. Free(Pairs(m, Lines(k)), taken) \subseteq SUBSET Lines(k)
    BY PairIsOfLines DEF Free
  <1> QED BY <1>1, <1>2, FS_Subset

\* One turn of the loop takes the only pair that any assignment could give.
LEMMA AssignForces ==
  ASSUME IInv, GreedyInv, Assign
  PROVE  /\ used' \subseteq UNION {x.lines : x \in assigned'}
         /\ Forced(current, assigned')
  <1> DEFINE m == FirstMember(pending)
             free == Free(Pairs(m, Lines(current)), used)
             pair == OnlyOne(free)
             why == MovementReasons(m, Lines(current), Dups(current), used)
             new == [movement |-> m, lines |-> pair, reasons |-> why]
  <1>1. m \in pending /\ phase = "assign"
    <2>1. pending # {} /\ \A n \in pending : n.id \in Nat
      BY ReadType DEF IInv, TypeOK, Ms, Assign
    <2> QED BY <2>1, FirstMemberExists DEF Assign
  <1>2. used' = used \cup pair /\ assigned' = assigned \cup {new}
    BY DEF Assign
  <1>3. new.movement = m /\ new.lines = pair
    OBVIOUS
  <1>4. pair # {} => \A p \in free : p = pair
    BY OnlyOneIsAlone, FreePairsAreFinite DEF IInv
  <1>5. free = {p \in Pairs(m, Lines(current)) : p \cap used = {}}
    BY DEF Free
  <1> HIDE DEF new, pair, free, m
  <1>6. used \subseteq UNION {x.lines : x \in assigned}
    BY <1>1 DEF GreedyInv
  <1>7. ASSUME \A x \in assigned' : x.lines # {}, NEW f \in Assignments(current)
        PROVE  \A x \in assigned' : f[x.movement] = x.lines
    <2>1. \A x \in assigned : f[x.movement] = x.lines
      <3>1. \A x \in assigned : x.lines # {}
        BY <1>2, <1>7
      <3> QED BY <1>1, <1>7, <3>1 DEF GreedyInv, Forced
    <2>2. /\ \A n \in Ms(current) : f[n] \in Pairs(n, Lines(current))
          /\ \A n, o \in Ms(current) : n # o => f[n] \cap f[o] = {}
      BY <1>7 DEF Assignments
    <2>3. /\ m \in Ms(current)
          /\ \A x \in assigned : x.movement \in Ms(current) /\ x.movement # m
      BY <1>1 DEF IInv, TypeOK
    <2>4. \A x \in assigned : f[m] \cap x.lines = {}
      BY <2>1, <2>2, <2>3
    <2>5. f[m] \cap used = {}
      BY <1>6, <2>4
    <2>6. f[m] \in free
      BY <1>5, <2>2, <2>3, <2>5
    <2>7. pair # {}
      BY <1>2, <1>3, <1>7
    <2>8. f[m] = pair
      BY <1>4, <2>6, <2>7
    <2> QED BY <1>2, <1>3, <2>1, <2>8
  <1>8. used' \subseteq UNION {x.lines : x \in assigned'}
    BY <1>2, <1>3, <1>6
  <1> QED BY <1>7, <1>8 DEF Forced

LEMMA NextGreedy ==
  ASSUME IInv, GreedyInv, [Next]_vars
  PROVE  GreedyInv'
  <1>0. read' = read
    BY BookStays DEF IInv
  <1>2. ASSUME NEW r \in results PROVE Forced(r.key, r.assigned)'
    <2>1. Assignments(r.key)' = Assignments(r.key)
      BY <1>0 DEF Assignments, Ms, Lines
    <2> QED BY <2>1 DEF GreedyInv, Forced
  <1>3. CASE MatchBank
    <2>1. assigned' = {} /\ used' = {} /\ results' = results
      BY <1>3 DEF MatchBank
    <2> QED BY <1>2, <2>1 DEF GreedyInv, Forced
  <1>4. CASE Assign
    <2>1. /\ phase' = "assign" /\ current' = current /\ results' = results
          /\ Assignments(current)' = Assignments(current)
      BY <1>0, <1>4 DEF Assign, Assignments, Ms, Lines
    <2>2. Forced(current, assigned)'
      BY <1>4, <2>1, AssignForces DEF Forced
    <2>3. (used \subseteq UNION {x.lines : x \in assigned})'
      BY <1>4, AssignForces
    <2> QED BY <1>2, <2>1, <2>2, <2>3 DEF GreedyInv
  <1>5. CASE BookCharges
    <2>1. /\ phase = "assign" /\ phase' = "decide" /\ current' = current
          /\ results' = results
          /\ Assignments(current)' = Assignments(current)
      BY <1>0, <1>5 DEF BookCharges, Assignments, Ms, Lines
    <2>2. /\ \A x \in assigned' : \E y \in assigned :
                x.movement = y.movement /\ x.lines = y.lines
          /\ \A y \in assigned : \E x \in assigned' :
                x.movement = y.movement /\ x.lines = y.lines
      BY <1>5, BookChargesStep
    <2>3. Forced(current, assigned)
      BY <2>1 DEF GreedyInv
    <2>4. Forced(current, assigned)'
      BY <2>1, <2>2, <2>3 DEF Forced
    <2> QED BY <1>2, <2>1, <2>4 DEF GreedyInv
  <1>6. CASE Decide
    <2>1. PICK ledger, reasons, state :
             results' = results \cup {Result(ledger, reasons, state)}
      BY <1>6, DecideStep
    <2> DEFINE new == Result(ledger, reasons, state)
    <2>2. new.key = current /\ new.assigned = assigned
      BY DEF Result
    <2>3. phase = "decide" /\ phase' \in {"rows", "match"}
      BY <1>6, OnwardType DEF Decide
    <2>4. Forced(new.key, new.assigned)
      BY <2>2, <2>3 DEF GreedyInv
    <2> HIDE DEF new
    <2>5. \A r \in results' : Forced(r.key, r.assigned)'
      <3>1. ASSUME NEW r \in results' PROVE Forced(r.key, r.assigned)'
        <4>1. Forced(r.key, r.assigned)
          BY <2>1, <2>4 DEF GreedyInv, new
        <4>2. Assignments(r.key)' = Assignments(r.key)
          BY <1>0 DEF Assignments, Ms, Lines
        <4> QED BY <4>1, <4>2 DEF Forced
      <3> QED BY <3>1
    <2> QED BY <2>3, <2>5 DEF GreedyInv
  <1>7. CASE Group \/ DeadlineOverflows \/ RejectRows \/ Close \/ UNCHANGED vars
    <2>1. /\ results' = results /\ used' = used /\ assigned' = assigned
          /\ current' = current
          /\ phase' \in {"assign", "decide"} => phase' = phase
      BY <1>7, OnwardType DEF Group, DeadlineOverflows, RejectRows, Close,
                              working, vars
    <2>2. Assignments(current)' = Assignments(current)
      BY <1>0, <2>1 DEF Assignments, Ms, Lines
    <2> QED BY <1>2, <2>1, <2>2 DEF GreedyInv, Forced
  <1> QED BY <1>3, <1>4, <1>5, <1>6, <1>7 DEF Next

\* What the loop has assigned was forced, for any book.
THEOREM GreedyInvariance == Spec => []GreedyInv
  <1> QED BY InitGreedy, NextGreedy, Invariance, PTL DEF Spec

\* The order in which assess_ledger takes the movements decides nothing of a
\* settlement that is cleared: the lines admit no other assignment, for any book.
THEOREM ClearedForced == Spec => []ClearedEvidenceIsForced
  <1>1. ASSUME ClearedIsProven, GreedyInv, NEW r \in results, r.state \in Cleared
        PROVE  \A f \in Assignments(r.key) :
                  \A x \in r.assigned : f[x.movement] = x.lines
    <2>1. \A x \in r.assigned : x.lines # {}
      BY <1>1 DEF ClearedIsProven, AllVerified, Verified
    <2> QED BY <1>1, <2>1 DEF GreedyInv, Forced
  <1>2. Decisions /\ GreedyInv => ClearedEvidenceIsForced
    BY <1>1 DEF Decisions, ClearedEvidenceIsForced
  <1> QED BY <1>2, DecisionInvariance, GreedyInvariance, PTL
=============================================================================
