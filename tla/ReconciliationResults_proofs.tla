-------------------- MODULE ReconciliationResults_proofs --------------------
(***************************************************************************)
(* Proofs about what Reconciliation leaves behind for those that read it:  *)
(* each settlement has one result, which stands; the engine ends; the      *)
(* exceptions are what the effective review takes them for; the order of   *)
(* the settlements decides only what they contest; no line is used in two  *)
(* of them unless they share their settlement id; and which books never    *)
(* close.                                                                  *)
(***************************************************************************)
EXTENDS ReconciliationClose_proofs

(***************************************************************************)
(* One result per settlement                                               *)
(***************************************************************************)
\* No settlement is decided twice, and those of a batch that gets as far as its
\* rows are all decided: the results are one for each group of the gateway file.
OneResultEach ==
    /\ \A r, s \in results : r.key = s.key => r = s
    /\ phase \in {"rows", "close", "done"} => AllKeys = {r.key : r \in results}

\* What has been decided, reported or left out is never taken back or changed,
\* and neither is the bank row of a settlement that is decided.
DecisionsStand ==
    /\ results \subseteq results' /\ exceptions \subseteq exceptions'
    /\ \A r \in results : links'[r.key] = links[r.key]
    /\ phase # "group" => excluded \subseteq excluded'

OnceInv == \A r, s \in results : r.key = s.key => r = s

LEMMA NextOnce ==
  ASSUME IInv, OnceInv, [Next]_vars
  PROVE  OnceInv'
  <1>1. CASE Decide
    <2>1. PICK ledger, reasons, state :
             results' = results \cup {Result(ledger, reasons, state)}
      BY <1>1, DecideStep
    <2>2. Result(ledger, reasons, state).key = current
      BY DEF Result
    <2>3. \A r \in results : r.key # current
      BY <1>1, CurrentType DEF Decide, IInv, TypeOK
    <2> QED BY <2>1, <2>2, <2>3 DEF OnceInv
  <1>2. CASE ~Decide
    <2>1. results' = results
      BY <1>2 DEF Next, Group, DeadlineOverflows, MatchBank, Assign,
                  BookCharges, RejectRows, Close, vars
    <2> QED BY <2>1 DEF OnceInv
  <1> QED BY <1>1, <1>2

THEOREM OnceInvariance == Spec => []OnceInv
  <1>1. Init => OnceInv
    BY DEF Init, OnceInv
  <1> QED BY <1>1, NextOnce, Invariance, PTL DEF Spec

\* The engine decides every group of the book once, for any book.
THEOREM DecidedOnce == Spec => []OneResultEach
  <1>1. ASSUME IInv, Accounts, phase \in {"rows", "close", "done"}
        PROVE  AllKeys = {r.key : r \in results}
    <2>1. \A k \in AllKeys : \E r \in results : r.key = k
      BY <1>1 DEF Accounts, ProgressInv
    <2>2. \A r \in results : r.key \in AllKeys
      BY <1>1 DEF IInv, TypeOK
    <2> QED BY <2>1, <2>2
  <1>2. IInv /\ Accounts /\ OnceInv => OneResultEach
    BY <1>1 DEF OnceInv, OneResultEach
  <1> QED BY <1>2, Invariance, AccountsInvariance, OnceInvariance, PTL

\* No later settlement, refused row or close changes what is decided.
THEOREM ResultsStand == Spec => [][DecisionsStand]_vars
  <1>1. ASSUME IInv, [Next]_vars PROVE DecisionsStand \/ UNCHANGED vars
    <2>1. \A r \in results : links'[r.key] = links[r.key]
      BY <1>1, DecidedStays
    <2>2. results \subseteq results' /\ exceptions \subseteq exceptions'
      BY <1>1 DEF Next, Group, DeadlineOverflows, MatchBank, Assign,
                  BookCharges, Decide, RejectRows,
                  Close, vars
    <2>3. phase # "group" => excluded \subseteq excluded'
      BY <1>1 DEF Next, Group, DeadlineOverflows, MatchBank, Assign,
                  BookCharges, Decide, RejectRows,
                  Close, vars
    <2> QED BY <2>1, <2>2, <2>3 DEF DecisionsStand
  <1>2. IInv /\ [Next]_vars => [DecisionsStand]_vars
    BY <1>1
  <1> QED BY <1>2, Invariance, PTL DEF Spec

-----------------------------------------------------------------------------
(***************************************************************************)
(* The engine ends                                                         *)
(***************************************************************************)
\* The passes over the batch that are left, the one in hand included.
PassesLeft ==
    CASE phase = "group" -> 4
      [] phase \in {"match", "assign", "decide"} -> 3
      [] phase = "rows" -> 2
      [] phase = "close" -> 1
      [] OTHER -> 0

\* What is left to do for the settlement in hand besides its movements.
TurnsLeft ==
    CASE phase = "match" -> 2
      [] phase = "assign" -> 1
      [] OTHER -> 0

\* Every step ends a pass; or decides a settlement; or goes on with the one in
\* hand; or takes one of its movements: the counts are natural numbers, each
\* step lowers the first one it changes, so that no book keeps the engine going.
Advances ==
    \/ PassesLeft' < PassesLeft
    \/ /\ PassesLeft' = PassesLeft
       /\ \/ Cardinality(todo') < Cardinality(todo)
          \/ /\ todo' = todo
             /\ \/ TurnsLeft' < TurnsLeft
                \/ /\ TurnsLeft' = TurnsLeft
                   /\ Cardinality(pending') < Cardinality(pending)

LEMMA FiniteWork ==
  ASSUME IInv
  PROVE  IsFiniteSet(todo) /\ IsFiniteSet(pending)
  <1>1. IsFiniteSet(AllKeys)
    <2> DEFINE ms == read.movements
               keyOf == [m \in ms |-> KeyOf(m)]
    <2>1. IsFiniteSet(ms) /\ keyOf = [m \in ms |-> keyOf[m]]
      BY FiniteBook DEF IInv
    <2>2. AllKeys = {keyOf[m] : m \in ms}
      BY DEF AllKeys
    <2> HIDE DEF ms, keyOf
    <2> QED BY <2>1, <2>2, FiniteImage
  <1>2. IsFiniteSet(Ms(current))
    BY FiniteBook DEF IInv
  <1> QED BY <1>1, <1>2, FS_Subset DEF IInv, TypeOK

LEMMA OneLess ==
  ASSUME NEW S, IsFiniteSet(S), NEW x \in S
  PROVE  Cardinality(S \ {x}) < Cardinality(S)
  <1>1. Cardinality(S \ {x}) = Cardinality(S) - 1 /\ Cardinality(S) \in Nat
    BY FS_RemoveElement, FS_CardinalityType
  <1> QED BY <1>1

\* Every batch comes to an end: done or failed, whatever is in its book.
THEOREM EngineEnds ==
    Spec => /\ [](Cardinality(todo) \in Nat /\ Cardinality(pending) \in Nat)
            /\ [][Advances]_vars
  <1>1. ASSUME IInv, Next PROVE Advances
    <2>1. CASE Group
      BY <2>1 DEF Group, Onward, PassesLeft, Advances
    <2>2. CASE MatchBank
      BY <2>2 DEF MatchBank, PassesLeft, TurnsLeft, Advances
    <2>3. CASE Assign
      <3>1. PICK m \in pending : pending' = pending \ {m}
        BY <1>1, <2>3, AssignStep
      <3>2. Cardinality(pending') < Cardinality(pending)
        BY <1>1, <3>1, FiniteWork, OneLess
      <3> QED BY <2>3, <3>2 DEF Assign, PassesLeft, TurnsLeft, Advances
    <2>4. CASE BookCharges
      BY <2>4 DEF BookCharges, PassesLeft, TurnsLeft, Advances
    <2>5. CASE Decide
      <3>1. Cardinality(todo') < Cardinality(todo)
        BY <1>1, <2>5, CurrentType, FiniteWork, OneLess DEF Decide
      <3> QED BY <2>5, <3>1 DEF Decide, Onward, PassesLeft, Advances
    <2>6. CASE RejectRows
      BY <2>6 DEF RejectRows, PassesLeft, Advances
    <2>7. CASE Close
      BY <2>7 DEF Close, PassesLeft, Advances
    <2>8. CASE DeadlineOverflows
      BY <2>8 DEF DeadlineOverflows, PassesLeft, Advances
    <2> QED BY <1>1, <2>1, <2>2, <2>3, <2>4, <2>5, <2>6, <2>7, <2>8 DEF Next
  <1>2. IInv /\ [Next]_vars => [Advances]_vars
    BY <1>1
  <1>3. IInv => Cardinality(todo) \in Nat /\ Cardinality(pending) \in Nat
    BY FiniteWork, FS_CardinalityType
  <1> QED BY <1>2, <1>3, Invariance, PTL DEF Spec

-----------------------------------------------------------------------------
(***************************************************************************)
(* What the effective review takes the results for                         *)
(***************************************************************************)
\* _BANK_RESOLVED_REASONS of investigation.py.
BankResolvedReason ==
    {"missing_bank_credit", "bank_candidate_ambiguity", "utr_missing",
     "insufficient_uniqueness", "stronger_candidate_selected"}

\* What EffectiveReview assumes of a base result, its ExceptionsFitState: bank
\* evidence resolves exceptions of settlements, never one of a row; a critical
\* settlement has a blocking exception that no bank evidence resolves, a pending
\* one has none that blocks and a cleared one has none at all.
ExceptionsSuitReview ==
    /\ \A e \in exceptions : e.reason \in BankResolvedReason =>
          \A x \in read.refused : e.source # RowSource(x)
    /\ \A r \in results :
          /\ \A e \in Of(r), x \in read.refused : e.source # RowSource(x)
          /\ r.state = "critical_exception" =>
                \E e \in Of(r) : e.blocking /\ e.reason \notin BankResolvedReason
          /\ r.state = "pending_within_sla" => \A e \in Of(r) : ~e.blocking
          /\ r.state \in Cleared => Of(r) = {}

\* The two parts of it that the exceptions of a settlement do not say.
ReviewInv ==
    /\ \A e \in exceptions : e.reason \in BankResolvedReason =>
          \E r \in results : e.source = SettlementSource(r.key)
    /\ \A r \in results : r.state = "critical_exception" =>
          \E e \in Of(r) : e.blocking /\ e.reason \notin BankResolvedReason

\* A settlement is critical for a reason that bank evidence does not resolve.
LEMMA CriticalDecision ==
  ASSUME ControlInv, NEW reasons, reasons = Reasons(LedgerReasons),
         Resolution(Integrity(LedgerReasons, reasons), reasons) = "critical_exception"
  PROVE  \E reason \in reasons : reason \notin Explanation \cup BankResolvedReason
  <1> DEFINE integrity == Integrity(LedgerReasons, reasons)
  <1>1. integrity # {}
    BY DEF Resolution
  <1>2. integrity \subseteq reasons
    BY DEF Integrity, Reasons
  <1>3. integrity \cap (Explanation \cup BankResolvedReason) = {}
    BY LedgerReasonsType DEF Integrity, LedgerReason, Explanation, BankResolvedReason
  <1> HIDE DEF integrity
  <1> QED BY <1>1, <1>2, <1>3

LEMMA RefusedReasons ==
  ASSUME BookIsRead, NEW x \in read.refused
  PROVE  x.reason \in RowReason
  <1>1. \A r, kind, reason : Rejection(r, kind, reason).reason = reason
    BY DEF Rejection
  <1>2. \A rows, kind, sound : \A y \in Rejections(rows, kind, sound) :
           y.reason \in RowReason
    BY <1>1 DEF Rejections, RowReason
  <1>3. x \in RejectedRows(book)
    BY DEF BookIsRead, Read
  <1> QED BY <1>2, <1>3 DEF RejectedRows

LEMMA NextReview ==
  ASSUME IInv, ControlInv, ReviewInv, [Next]_vars
  PROVE  ReviewInv'
  <1>1. CASE Decide
    <2>1. PICK ledger, reasons, state :
             /\ ledger = LedgerReasons /\ reasons = Reasons(ledger)
             /\ state = Resolution(Integrity(ledger, reasons), reasons)
             /\ results' = results \cup {Result(ledger, reasons, state)}
             /\ exceptions' =
                   exceptions \cup SettlementExceptions(current, state, reasons)
      BY <1>1, DecideStep
    <2>2. PICK result, new, k :
             /\ result = Result(ledger, reasons, state) /\ k = current
             /\ new = SettlementExceptions(current, state, reasons)
      OBVIOUS
    <2>3. result.key = k /\ result.state = state
      BY <2>2 DEF Result
    <2>4. results' = results \cup {result} /\ exceptions' = exceptions \cup new
      BY <2>1, <2>2
    <2>5. \A e \in new : e.source = SettlementSource(k)
      BY <2>2 DEF SettlementExceptions
    <2>6. ASSUME state = "critical_exception"
          PROVE  \E e \in new : /\ e.source = SettlementSource(k) /\ e.blocking
                                /\ e.reason \notin BankResolvedReason
      <3>1. PICK reason \in reasons : reason \notin Explanation \cup BankResolvedReason
        BY <2>1, <2>6, CriticalDecision
      <3>2. BlockingState(state, Agg(k).net)
        BY <2>6 DEF BlockingState
      <3> DEFINE e == [source |-> SettlementSource(k), reason |-> reason,
                       blocking |-> BlockingState(state, Agg(k).net)]
      <3>3. e \in new
        <4>1. state \notin Cleared
          BY <2>6 DEF Cleared
        <4> QED BY <2>2, <3>1, <4>1 DEF SettlementExceptions, Explanation
      <3>4. e.source = SettlementSource(k) /\ e.reason = reason
        OBVIOUS
      <3>5. e.blocking
        BY <3>2, Zenon
      <3> HIDE DEF e
      <3> QED BY <3>1, <3>3, <3>4, <3>5
    <2>7. ASSUME NEW e \in exceptions', e.reason \in BankResolvedReason
          PROVE  \E r \in results' : e.source = SettlementSource(r.key)
      BY <2>3, <2>4, <2>5, <2>7 DEF ReviewInv
    <2>8. ASSUME NEW r \in results', r.state = "critical_exception"
          PROVE  \E e \in exceptions' :
                    /\ e.source = SettlementSource(r.key) /\ e.blocking
                    /\ e.reason \notin BankResolvedReason
      BY <2>3, <2>4, <2>6, <2>8 DEF ReviewInv, Of
    <2> QED BY <2>7, <2>8 DEF ReviewInv, Of, SettlementSource
  <1>2. CASE RejectRows
    <2>1. results' = results /\ exceptions \subseteq exceptions'
      BY <1>2 DEF RejectRows
    <2>2. \A e \in exceptions' : e \in exceptions \/ e.reason \in RowReason
      BY <1>2, RefusedReasons DEF RejectRows, IInv
    <2>3. RowReason \cap BankResolvedReason = {}
      BY DEF RowReason, BankResolvedReason
    <2> QED BY <2>1, <2>2, <2>3 DEF ReviewInv, Of, SettlementSource
  <1>3. CASE ~Decide /\ ~RejectRows
    <2>1. results' = results /\ exceptions' = exceptions
      BY <1>3 DEF Next, Group, DeadlineOverflows, MatchBank, Assign,
                  BookCharges, Close, vars
    <2> QED BY <2>1 DEF ReviewInv, Of, SettlementSource
  <1> QED BY <1>1, <1>2, <1>3

THEOREM ReviewInvariance == Spec => []ReviewInv
  <1>1. Init => ReviewInv
    BY DEF Init, ReviewInv
  <1>2. IInv /\ Decisions /\ ReviewInv /\ [Next]_vars => ReviewInv'
    BY NextReview DEF Decisions
  <1> QED BY <1>1, <1>2, Invariance, DecisionInvariance, PTL DEF Spec

\* The engine's results are what the proofs about EffectiveReview assume they
\* are, for any book: the two components fit.
THEOREM SuitReview == Spec => []ExceptionsSuitReview
  <1>1. ASSUME Decisions, ReviewInv PROVE ExceptionsSuitReview
    <2>1. \A x, k : RowSource(x) # SettlementSource(k)
      BY SourcesDiffer
    <2>2. \A e \in exceptions : e.reason \in BankResolvedReason =>
             \A x \in read.refused : e.source # RowSource(x)
      BY <1>1, <2>1 DEF ReviewInv
    <2>3. \A r \in results : \A e \in Of(r), x \in read.refused :
             e.source # RowSource(x)
      BY <2>1 DEF Of
    <2>4. ASSUME NEW r \in results
          PROVE  /\ r.state = "pending_within_sla" => \A e \in Of(r) : ~e.blocking
                 /\ r.state \in Cleared => Of(r) = {}
      BY <1>1 DEF Decisions, NamedInv, Explained, BlockingState
    <2> QED BY <1>1, <2>2, <2>3, <2>4 DEF ReviewInv, ExceptionsSuitReview
  <1> QED BY <1>1, DecisionInvariance, ReviewInvariance, PTL

-----------------------------------------------------------------------------
(***************************************************************************)
(* The order of the settlements                                            *)
(***************************************************************************)
\* Row b passes every control for settlement k, and bears its reference.
Fits(k, b) == SameUtr(Agg(k), b) /\ ControlsOk(Agg(k), b, book.clock)

\* No bank row fits both k and another settlement of the batch.
Uncontested(k) ==
    \A b \in read.bank, j \in AllKeys \ {k} : ~(Fits(k, b) /\ Fits(j, b))

\* The row settlement k would be given in a batch of its own.
Alone(k) == Accepted(Agg(k), {b \in read.bank : Fits(k, b)})

\* Settlements are matched one after another, and a row that one takes is gone
\* for the next; but a settlement whose rows no other one fits is given the row
\* it would be given alone, wherever it comes in the order.
OrderDecidesOnlyContests ==
    \A r \in results : Uncontested(r.key) => links[r.key] = Alone(r.key)

\* A row was taken because it fits; and the match in hand left out only rows
\* that other settlements had taken.
TakenInv ==
    /\ \A k \in Key : links[k] # NoBank =>
          /\ k \in AllKeys
          /\ \E b \in read.bank : links[k] = b.id /\ Fits(k, b)
    /\ phase \in {"assign", "decide"} =>
          \E taken :
              /\ match = Match(Agg(current), read.bank, book.clock, taken)
              /\ \A x \in taken : \E k \in Key \ {current} : links[k] = x
    /\ phase \in {"assign", "decide"} =>
          (Uncontested(current) => links[current] = Alone(current))
    /\ OrderDecidesOnlyContests

LEMMA FitsStays ==
  ASSUME book' = book, read' = read
  PROVE  /\ \A k : Agg(k)' = Agg(k) /\ Alone(k)' = Alone(k)
         /\ \A k : Uncontested(k)' <=> Uncontested(k)
         /\ \A k, b : Fits(k, b)' <=> Fits(k, b)
  BY DEF Fits, Agg, Ms, Uncontested, Alone, AllKeys

\* What is usable for an uncontested settlement is all that fits it.
LEMMA UsableIsAll ==
  ASSUME IInv, TakenInv, NEW k \in Key, links[k] = NoBank, Uncontested(k)
  PROVE  UsableExact(Agg(k), read.bank, book.clock, Consumed)
            = {b \in read.bank : Fits(k, b)}
  <1>1. ASSUME NEW b \in read.bank, Fits(k, b) PROVE b.id \notin Consumed
    <2>1. SUFFICES ASSUME b.id \in Consumed PROVE FALSE
      OBVIOUS
    <2>2. PICK j \in Key : links[j] = b.id /\ links[j] # NoBank
      BY <2>1 DEF Consumed, IInv, TypeOK
    <2>3. j \in AllKeys /\ j # k
      BY <2>2 DEF TakenInv
    <2>4. PICK q \in read.bank : links[j] = q.id /\ Fits(j, q)
      BY <2>2 DEF TakenInv
    <2>5. q = b
      <3>1. read.bank = Unrepeated(book.bank, BankRows(book.bank))
        BY DEF IInv, BookIsRead, Read, BankRecords
      <3>2. /\ b \in Unrepeated(book.bank, BankRows(book.bank))
            /\ q \in BankRows(book.bank)
        BY <1>1, <2>4, <3>1 DEF Unrepeated
      <3>3. b.id = q.id
        BY <2>2, <2>4
      <3> QED BY <3>2, <3>3, OneRecordPerId
    <2> QED BY <1>1, <2>3, <2>4, <2>5 DEF Uncontested
  <1> QED BY <1>1 DEF UsableExact, Usable, Fits

LEMMA NextTaken ==
  ASSUME IInv, TakenInv, [Next]_vars
  PROVE  TakenInv'
  <1>0. /\ book' = book /\ read' = read /\ AllKeys' = AllKeys
        /\ \A k : Agg(k)' = Agg(k) /\ Alone(k)' = Alone(k)
        /\ \A k : Uncontested(k)' <=> Uncontested(k)
        /\ \A k, b : Fits(k, b)' <=> Fits(k, b)
    BY BookStays, FitsStays DEF IInv
  <1>1. CASE MatchBank
    <2>1. PICK k, exact : /\ k = current'
                          /\ exact = UsableExact(Agg(k), read.bank, book.clock, Consumed)
      OBVIOUS
    <2>2. /\ k \in Key /\ k \in todo /\ k \in AllKeys /\ phase = "match"
          /\ links[k] = NoBank
      BY <1>1, <2>1, MatchTakes DEF IInv, LinksInv, TypeOK
    <2>3. /\ match' = Match(Agg(k), read.bank, book.clock, Consumed)
          /\ links' = [links EXCEPT ![k] = match'.accepted]
          /\ results' = results
      BY <1>1, <2>1 DEF MatchBank
    <2>4. links'[k] = Accepted(Agg(k), exact)
          /\ \A j \in Key \ {k} : links'[j] = links[j]
      BY <2>1, <2>2, <2>3 DEF Match, IInv, TypeOK
    <2>5. ASSUME links'[k] # NoBank
          PROVE  \E b \in read.bank : links'[k] = b.id /\ Fits(k, b)
      <3>1. PICK b \in exact : links'[k] = b.id
        BY <2>1, <2>4, <2>5, AcceptedIsUsable
      <3> QED BY <2>1, <3>1 DEF UsableExact, Fits
    <2>6. \A j \in Key : links'[j] # NoBank =>
             /\ j \in AllKeys'
             /\ \E b \in read'.bank : links'[j] = b.id /\ Fits(j, b)'
      BY <1>0, <2>2, <2>4, <2>5 DEF TakenInv
    <2>7. \A x \in Consumed : \E j \in Key \ {k} : links'[j] = x
      BY <2>2, <2>4 DEF Consumed, IInv, TypeOK
    <2>8. Uncontested(k) => links'[k] = Alone(k)
      BY <2>1, <2>2, <2>4, UsableIsAll DEF Alone
    <2>9. /\ Agg(current)' = Agg(k)
          /\ Uncontested(current)' <=> Uncontested(k)
          /\ Alone(current)' = Alone(k)
      BY <1>0, <2>1 DEF Agg, Ms, Uncontested, Alone, Fits
    <2>10. \A r \in results' : Uncontested(r.key)' => links'[r.key] = Alone(r.key)'
      <3>1. \A r \in results : links'[r.key] = links[r.key]
        BY <1>1, DecidedStays
      <3> QED BY <1>0, <2>3, <3>1 DEF TakenInv, OrderDecidesOnlyContests
    <2>11. \E taken :
              /\ match' = Match(Agg(current)', read'.bank, book'.clock, taken)
              /\ \A x \in taken : \E j \in Key \ {current'} : links'[j] = x
      BY <1>0, <2>1, <2>3, <2>7, <2>9
    <2>12. links'[current'] = Alone(current)' \/ ~Uncontested(current)'
      BY <2>1, <2>8, <2>9
    <2> QED BY <2>6, <2>10, <2>11, <2>12 DEF TakenInv, OrderDecidesOnlyContests
  <1>2. CASE Decide
    <2>1. PICK ledger, reasons, state :
             results' = results \cup {Result(ledger, reasons, state)}
      BY <1>2, DecideStep
    <2>2. Result(ledger, reasons, state).key = current
      BY DEF Result
    <2>3. phase = "decide" /\ phase' \notin {"assign", "decide"} /\ links' = links
      BY <1>2, OnwardType DEF Decide
    <2>4. \A r \in results' : Uncontested(r.key) => links[r.key] = Alone(r.key)
      BY <2>1, <2>2, <2>3 DEF TakenInv, OrderDecidesOnlyContests
    <2> QED BY <1>0, <2>3, <2>4 DEF TakenInv, OrderDecidesOnlyContests
  <1>3. CASE ~MatchBank /\ ~Decide
    <2>1. /\ links' = links /\ results' = results
          /\ phase' \in {"assign", "decide"} =>
                /\ phase \in {"assign", "decide"}
                /\ current' = current /\ match' = match
      BY <1>3, OnwardType
      DEF Next, Group, DeadlineOverflows, Assign, BookCharges, RejectRows,
          Close, vars, working
    <2>2. ASSUME phase' \in {"assign", "decide"}
          PROVE  /\ Agg(current)' = Agg(current) /\ Alone(current)' = Alone(current)
                 /\ Uncontested(current)' <=> Uncontested(current)
      BY <1>0, <2>1, <2>2 DEF Agg, Ms, Uncontested, Alone, Fits
    <2> QED BY <1>0, <2>1, <2>2 DEF TakenInv, OrderDecidesOnlyContests
  <1> QED BY <1>1, <1>2, <1>3

THEOREM TakenInvariance == Spec => []TakenInv
  <1>1. Init => TakenInv
    BY DEF Init, TakenInv, OrderDecidesOnlyContests
  <1> QED BY <1>1, NextTaken, Invariance, PTL DEF Spec

\* For any book, the order in which settlements are matched decides nothing of
\* a settlement that competes with no other for a row.
THEOREM OrderIndependent == Spec => []OrderDecidesOnlyContests
  <1>1. TakenInv => OrderDecidesOnlyContests
    BY DEF TakenInv
  <1> QED BY <1>1, TakenInvariance, PTL

-----------------------------------------------------------------------------
(***************************************************************************)
(* What a result says of its candidates and its evidence                   *)
(***************************************************************************)
\* A result shows a candidate row without a reason against it exactly when the
\* settlement rests on it; says that a row was consumed only if another
\* settlement rests on it, and that a stronger one was selected only if one was.
CandidatesAreExplained ==
    \A r \in results :
        /\ \A c \in r.candidates :
              /\ c.reasons = {} <=> c.bank = links[r.key]
              /\ "record_already_consumed" \in c.reasons =>
                    \E k \in Key \ {r.key} : links[k] = c.bank
              /\ "stronger_candidate_selected" \in c.reasons =>
                    links[r.key] # NoBank
        /\ links[r.key] # NoBank =>
              \E c \in r.candidates : c.bank = links[r.key]

\* A cleared settlement has a complete proof, and one that has a complete proof
\* is cleared unless its reference is in dispute.
CompleteProofsClear ==
    \A r \in results :
        /\ r.state \in Cleared => r.complete
        /\ r.complete /\ r.state \notin Cleared =>
              "utr_conflicting_or_malformed" \in r.reasons

LEMMA CandidateReasoned ==
  ASSUME NEW a, NEW rows, NEW clock, NEW taken, \A b \in rows : b.id # NoBank,
         NEW found, found = Match(a, rows, clock, taken), NEW c \in found.candidates
  PROVE  /\ c.reasons = {} <=> c.bank = found.accepted
         /\ "record_already_consumed" \in c.reasons => c.bank \in taken
         /\ "stronger_candidate_selected" \in c.reasons => found.accepted # NoBank
  <1>1. PICK b \in rows :
           c = [bank |-> b.id,
                reasons |-> CandidateReasons(a, b, clock, taken, found.accepted)]
    BY DEF Match
  <1>2. c.bank = b.id
        /\ c.reasons = CandidateReasons(a, b, clock, taken, found.accepted)
    BY <1>1
  <1> DEFINE failed == UNION {
            Given("conflicting_reference", ConflictingReference(a, b)),
            Given("wrong_direction", ~b.credit),
            Given("amount_mismatch", ~AmountOk(a, b)),
            Given("balance_account_conflict", ~AccountOk(a, b)),
            Given("outside_timing_window", ~TimingOk(a, b) \/ b.at > clock),
            Given("record_already_consumed", b.id \in taken)}
  <1>3. c.reasons =
           IF b.id = found.accepted THEN {}
           ELSE IF failed # {} THEN failed
           ELSE {IF found.accepted # NoBank THEN "stronger_candidate_selected"
                 ELSE IF ~HasUtr(a) THEN "utr_missing"
                 ELSE "insufficient_uniqueness"}
    BY <1>2 DEF CandidateReasons
  <1>4. "record_already_consumed" \in failed => b.id \in taken
    BY DEF Given
  <1>5. "stronger_candidate_selected" \notin failed
    BY DEF Given
  <1> HIDE DEF failed
  <1> QED BY <1>2, <1>3, <1>4, <1>5

\* Candidates are rows of the bank.
ShownInv ==
    /\ CandidatesAreExplained /\ CompleteProofsClear
    /\ \A r \in results : \A c \in r.candidates : c.bank # NoBank

LEMMA NextShown ==
  ASSUME IInv, ControlInv, TakenInv, MembersInv, MembersInv', ShownInv, [Next]_vars
  PROVE  ShownInv'
  <1> DEFINE Says(k, cs) == \A c \in cs :
              /\ c.reasons = {} <=> c.bank = links[k]
              /\ "record_already_consumed" \in c.reasons =>
                    \E j \in Key \ {k} : links[j] = c.bank
              /\ "stronger_candidate_selected" \in c.reasons => links[k] # NoBank
  <1>1. \A r \in results' : links'[r.key] # NoBank =>
           \E c \in r.candidates : c.bank = links'[r.key]
    BY DEF MembersInv
  <1>2. \A k \in Key : links[k] # NoBank => links'[k] = links[k]
    <2>1. CASE MatchBank
      <3>1. /\ links' = [links EXCEPT ![current'] = match'.accepted]
            /\ links[current'] = NoBank /\ current' \in Key
        BY <2>1, MatchTakes DEF MatchBank, IInv, LinksInv
      <3> QED BY <3>1 DEF IInv, TypeOK
    <2>2. CASE ~MatchBank
      BY <2>2 DEF Next, Group, DeadlineOverflows, Assign, BookCharges, Decide,
                  RejectRows, Close, vars
    <2> QED BY <2>1, <2>2
  <1>3. ASSUME NEW r \in results PROVE Says(r.key, r.candidates)'
    <2>1. Says(r.key, r.candidates) /\ links'[r.key] = links[r.key]
      BY <1>3, DecidedStays DEF ShownInv, CandidatesAreExplained
    <2>2. \A c \in r.candidates : "record_already_consumed" \in c.reasons =>
             \E j \in Key \ {r.key} : links'[j] = c.bank
      <3>1. ASSUME NEW c \in r.candidates, "record_already_consumed" \in c.reasons,
                   NEW j \in Key \ {r.key}, links[j] = c.bank
            PROVE  links'[j] = c.bank
        <4>1. c.bank # NoBank
          BY <1>3, <3>1 DEF ShownInv
        <4> QED BY <1>2, <3>1, <4>1
      <3> QED BY <2>1, <3>1
    <2> QED BY <2>1, <2>2
  <1>4. CASE Decide
    <2>1. PICK ledger, reasons, state :
             /\ ledger = LedgerReasons /\ reasons = Reasons(ledger)
             /\ state = Resolution(Integrity(ledger, reasons), reasons)
             /\ results' = results \cup {Result(ledger, reasons, state)}
      BY <1>4, DecideStep
    <2>2. PICK new : new = Result(ledger, reasons, state)
      OBVIOUS
    <2>3. /\ new.key = current /\ new.state = state /\ new.reasons = reasons
          /\ new.candidates = match.candidates
      BY <2>2 DEF Result
    <2>4. phase = "decide" /\ current \in Key /\ links' = links
          /\ links[current] = match.accepted
      BY <1>4, CurrentType DEF Decide, IInv, LinksInv
    <2>5. PICK taken :
              /\ match = Match(Agg(current), read.bank, book.clock, taken)
              /\ \A x \in taken : \E k \in Key \ {current} : links[k] = x
      BY <2>4 DEF TakenInv
    <2>6. Says(current, match.candidates)
      <3>1. \A b \in read.bank : b.id # NoBank
        BY ReadType DEF IInv
      <3> QED BY <2>4, <2>5, <3>1, CandidateReasoned
    <2>7. /\ state \in Cleared => new.complete
          /\ new.complete /\ state \notin Cleared =>
                "utr_conflicting_or_malformed" \in reasons
      <3> DEFINE whole == match.accepted # NoBank /\ ledger = {} /\ AllVerified(assigned)
      <3>1. new.complete = whole
        BY <2>2 DEF Result
      <3>2. state \in Cleared => whole
        BY <2>1, ClearedDecision
      <3>3. ASSUME whole, state \notin Cleared
            PROVE  "utr_conflicting_or_malformed" \in reasons
        <4>1. Integrity(ledger, reasons) # {}
          BY <2>1, <3>3 DEF Resolution, Cleared
        <4>2. "required_ledger_evidence_missing" \notin reasons
              /\ "overdue_bank_credit_missing" \notin reasons
          <5>1. {"required_ledger_evidence_missing", "overdue_bank_credit_missing"}
                   \cap match.reasons = {}
            BY <2>5 DEF Match, MatchReasons
          <5> QED BY <2>1, <3>3, <5>1 DEF Reasons, Given
        <4> QED BY <3>3, <4>1, <4>2 DEF Integrity
      <3> HIDE DEF whole
      <3>4. (new.complete => whole) /\ (whole => new.complete)
        BY <3>1, Zenon
      <3> QED BY <3>2, <3>3, <3>4
    <2>10. \A r \in results' : \A c \in r.candidates : c.bank # NoBank
      <3>1. \A c \in match.candidates : \E b \in read.bank : c.bank = b.id
        BY <2>5 DEF Match
      <3>2. \A b \in read.bank : b.id # NoBank
        BY ReadType DEF IInv
      <3> QED BY <2>1, <2>2, <2>3, <3>1, <3>2 DEF ShownInv
    <2>8. \A r \in results' : Says(r.key, r.candidates)'
      BY <1>3, <2>1, <2>2, <2>3, <2>4, <2>6
    <2>9. \A r \in results' :
             /\ r.state \in Cleared => r.complete
             /\ r.complete /\ r.state \notin Cleared =>
                   "utr_conflicting_or_malformed" \in r.reasons
      BY <2>1, <2>2, <2>3, <2>7 DEF ShownInv, CompleteProofsClear
    <2> QED BY <1>1, <2>8, <2>9, <2>10
            DEF ShownInv, CandidatesAreExplained, CompleteProofsClear
  <1>5. CASE ~Decide
    <2>1. results' = results
      BY <1>5 DEF Next, Group, DeadlineOverflows, MatchBank, Assign,
                  BookCharges, RejectRows, Close, vars
    <2> QED BY <1>1, <1>3, <2>1
            DEF ShownInv, CandidatesAreExplained, CompleteProofsClear
  <1> QED BY <1>4, <1>5

\* What a result shows of its candidates and its proof is so, for any book.
THEOREM ResultsExplain == Spec => [](CandidatesAreExplained /\ CompleteProofsClear)
  <1>1. Init => ShownInv
    BY DEF Init, ShownInv, CandidatesAreExplained, CompleteProofsClear
  <1>2. IInv /\ Decisions /\ TakenInv /\ MembersInv /\ MembersInv' /\ ShownInv
            /\ [Next]_vars => ShownInv'
    BY NextShown DEF Decisions
  <1>3. Accounts => MembersInv
    BY DEF Accounts
  <1>4. ShownInv => CandidatesAreExplained /\ CompleteProofsClear
    BY DEF ShownInv
  <1> QED BY <1>1, <1>2, <1>3, <1>4, Invariance, DecisionInvariance,
             TakenInvariance, AccountsInvariance, PTL DEF Spec

-----------------------------------------------------------------------------
(***************************************************************************)
(* Settlements of one id                                                   *)
(***************************************************************************)
\* The gateway file has one settlement id in two balance accounts.
SplitIds == \E j, k \in AllKeys : j # k /\ j[1] = k[1]

\* The gate against incompatible reuse fails only in a batch with such an id: in
\* any other one no ledger line is in two verified links, whichever settlements
\* they belong to.
THEOREM SplitIdsOnly == Spec => [](SplitIds \/ NoIncompatibleReuse)
  <1>1. ASSUME IInv, OnceInv, MembersInv, ~SplitIds,
               NEW r \in results, NEW s \in results,
               NEW x \in r.assigned, NEW y \in s.assigned,
               x.movement # y.movement
        PROVE  x.lines \cap y.lines = {}
    <2>1. CASE r.key = s.key
      <3>1. r = s
        BY <1>1, <2>1 DEF OnceInv
      <3> QED BY <1>1, <3>1 DEF IInv, LinesProveOneMovement
    <2>2. CASE r.key # s.key
      <3>1. r.key \in AllKeys /\ s.key \in AllKeys
        BY <1>1 DEF IInv, TypeOK
      <3>2. r.key[1] # s.key[1]
        BY <1>1, <2>2, <3>1 DEF SplitIds
      <3>3. x.lines \subseteq Lines(r.key) /\ y.lines \subseteq Lines(s.key)
        BY <1>1 DEF MembersInv
      <3> QED BY <3>2, <3>3 DEF Lines
    <2> QED BY <2>1, <2>2
  <1>2. IInv /\ OnceInv /\ Accounts => SplitIds \/ NoIncompatibleReuse
    BY <1>1 DEF Accounts, NoIncompatibleReuse
  <1> QED BY <1>2, Invariance, OnceInvariance, AccountsInvariance, PTL

-----------------------------------------------------------------------------
(***************************************************************************)
(* What proves a movement                                                  *)
(***************************************************************************)
\* Two lines of one journal that book movement m: the whole amount in clearing
\* on the side of the movement, and on the other side in the role of its type.
Booking(m, c, o) ==
    /\ c.journal = o.journal
    /\ IsClearing(c) /\ OnSide(c, Amount(m), Positive(m))
    /\ o.role = ExpectedRole(m) /\ OnSide(o, Amount(m), ~Positive(m))

\* Whatever lines a result assigns to a movement are such a booking: no movement
\* of any settlement, cleared or not, is given lines that prove another amount,
\* role, side or journal than its own, and none is given more than two.
EvidenceBooksItsMovement ==
    \A r \in results : \A x \in r.assigned : x.lines # {} =>
        \E c, o \in x.lines : x.lines = {c, o} /\ Booking(x.movement, c, o)

\* The same of the settlement in hand.
Booked(xs) ==
    \A x \in xs : x.lines # {} =>
        \E c, o \in x.lines : x.lines = {c, o} /\ Booking(x.movement, c, o)

BookedInv ==
    /\ phase \in {"assign", "decide"} => Booked(assigned)
    /\ EvidenceBooksItsMovement

LEMMA PairBooks ==
  ASSUME NEW m, NEW lines, NEW p \in Pairs(m, lines)
  PROVE  \E c, o \in p : p = {c, o} /\ Booking(m, c, o)
  <1>1. PICK q \in SameJournal(Clearing(m, lines), Counterpart(m, lines)) :
           p = {q[1], q[2]}
    BY DEF Pairs
  <1>2. /\ q[1] \in Clearing(m, lines) /\ q[2] \in Counterpart(m, lines)
        /\ q[1].journal = q[2].journal
    BY DEF SameJournal
  <1>3. Booking(m, q[1], q[2])
    BY <1>2 DEF Clearing, Counterpart, Booking
  <1> QED BY <1>1, <1>3

LEMMA NextBooked ==
  ASSUME IInv, BookedInv, [Next]_vars
  PROVE  BookedInv'
  <1>1. CASE MatchBank
    BY <1>1 DEF MatchBank, BookedInv, Booked, EvidenceBooksItsMovement
  <1>2. CASE Assign
    <2> DEFINE m == FirstMember(pending)
               pair == OnlyOne(Free(Pairs(m, Lines(current)), used))
               why == MovementReasons(m, Lines(current), Dups(current), used)
               new == [movement |-> m, lines |-> pair, reasons |-> why]
    <2>1. assigned' = assigned \cup {new} /\ results' = results
          /\ phase = "assign"
      BY <1>2 DEF Assign
    <2>2. new.movement = m /\ new.lines = pair
      OBVIOUS
    <2>3. pair # {} => pair \in Pairs(m, Lines(current))
      BY OnlyOneIsOne DEF Free
    <2> HIDE DEF new, pair
    <2>4. pair # {} => \E c, o \in pair : pair = {c, o} /\ Booking(m, c, o)
      BY <2>3, PairBooks
    <2> HIDE DEF m
    <2>5. Booked(assigned')
      BY <2>1, <2>2, <2>4 DEF BookedInv, Booked
    <2> QED BY <2>1, <2>5 DEF BookedInv, Booked, EvidenceBooksItsMovement
  <1>3. CASE BookCharges
    <2>1. \A x \in assigned' : \E y \in assigned :
             x.movement = y.movement /\ x.lines = y.lines
      BY <1>3, BookChargesStep
    <2>2. phase = "assign" /\ results' = results
      BY <1>3 DEF BookCharges
    <2> QED BY <2>1, <2>2 DEF BookedInv, Booked, EvidenceBooksItsMovement
  <1>4. CASE Decide
    <2>1. PICK ledger, reasons, state :
             results' = results \cup {Result(ledger, reasons, state)}
      BY <1>4, DecideStep
    <2>2. Result(ledger, reasons, state).assigned = assigned
      BY DEF Result
    <2>3. phase = "decide" /\ phase' \notin {"assign", "decide"}
      BY <1>4, OnwardType DEF Decide
    <2> QED BY <2>1, <2>2, <2>3 DEF BookedInv, Booked, EvidenceBooksItsMovement
  <1>5. CASE Group \/ DeadlineOverflows \/ RejectRows \/ Close \/ UNCHANGED vars
    <2>1. /\ results' = results /\ assigned' = assigned
          /\ phase' \in {"assign", "decide"} => phase' = phase
      BY <1>5, OnwardType DEF Group, DeadlineOverflows, RejectRows, Close,
                              working, vars
    <2> QED BY <2>1 DEF BookedInv, Booked, EvidenceBooksItsMovement
  <1> QED BY <1>1, <1>2, <1>3, <1>4, <1>5 DEF Next

\* What is assigned to a movement books it, for any ledger.
THEOREM EvidenceBooks == Spec => []EvidenceBooksItsMovement
  <1>1. Init => BookedInv
    BY DEF Init, BookedInv, EvidenceBooksItsMovement
  <1>2. BookedInv => EvidenceBooksItsMovement
    BY DEF BookedInv
  <1> QED BY <1>1, <1>2, NextBooked, Invariance, PTL DEF Spec

-----------------------------------------------------------------------------
(***************************************************************************)
(* Books that never close                                                  *)
(***************************************************************************)
\* A book on which some step of the engine raises: its groups cannot be sorted,
\* a UTR is no identifier, a deadline is past datetime.max, or a refused row
\* names a settlement that is no identifier.
BadBook ==
    \/ Unsortable(AllKeys)
    \/ BadUtr(read.movements)
    \/ \E k \in AllKeys : ~HasDeadline(k)
    \/ \E x \in read.refused : x.settlement \in Unfit

\* One such row keeps a whole batch from its close, wherever in the order of the
\* engine's steps it is met, after whatever other settlements are decided.
NoBadBookCloses == phase = "done" => ~BadBook

\* What the engine has got past by now.
FailureInv ==
    /\ phase \notin {"group", "failed"} =>
          /\ ~Unsortable(AllKeys) /\ ~BadUtr(read.movements)
          /\ \A k \in AllKeys \ todo : HasDeadline(k)
    /\ phase \in {"assign", "decide"} => HasDeadline(current)
    /\ phase \in {"rows", "close", "done"} => todo = {}
    /\ phase \in {"close", "done"} =>
          \A x \in read.refused : x.settlement \notin Unfit

LEMMA NextFailure ==
  ASSUME IInv, FailureInv, [Next]_vars
  PROVE  FailureInv'
  <1>0. /\ read' = read /\ AllKeys' = AllKeys
        /\ Unsortable(AllKeys)' <=> Unsortable(AllKeys)
        /\ \A k : HasDeadline(k)' <=> HasDeadline(k)
    BY BookStays DEF IInv, Unsortable, HasDeadline, Agg
  <1>1. CASE Group
    <2>1. todo' = AllKeys \/ phase' = "failed"
      BY <1>1 DEF Group
    <2>2. phase' # "failed" => ~Unsortable(AllKeys) /\ ~BadUtr(read.movements)
      BY <1>1 DEF Group
    <2>3. /\ phase' \in {"failed", "match", "rows"}
          /\ phase' = "rows" => todo' = {}
      BY <1>1, OnwardType DEF Group, Onward
    <2> QED BY <1>0, <2>1, <2>2, <2>3 DEF FailureInv
  <1>2. CASE MatchBank
    <2>1. /\ phase = "match" /\ phase' = "assign" /\ todo' = todo
          /\ current' = FirstKey(todo) /\ HasDeadline(FirstKey(todo))
      BY <1>2 DEF MatchBank
    <2>2. HasDeadline(current')
      BY <2>1
    <2>3. HasDeadline(current)'
      BY <1>0, <2>2 DEF HasDeadline, Agg, Ms
    <2> QED BY <1>0, <2>1, <2>3 DEF FailureInv
  <1>3. CASE Assign \/ BookCharges
    <2>1. /\ phase = "assign" /\ phase' \in {"assign", "decide"}
          /\ todo' = todo /\ current' = current
      BY <1>3 DEF Assign, BookCharges
    <2>2. HasDeadline(current)' <=> HasDeadline(current)
      BY <1>0, <2>1 DEF HasDeadline, Agg, Ms
    <2> QED BY <1>0, <2>1, <2>2 DEF FailureInv
  <1>4. CASE Decide
    <2>1. /\ phase = "decide" /\ phase' = Onward(todo')
          /\ todo' = todo \ {current}
      BY <1>4 DEF Decide
    <2>2. phase' \in {"match", "rows"} /\ (phase' = "rows" => todo' = {})
      BY <2>1 DEF Onward
    <2> QED BY <1>0, <2>1, <2>2 DEF FailureInv
  <1>5. CASE DeadlineOverflows \/ Close \/ UNCHANGED vars
    <2>1. /\ todo' = todo /\ current' = current
          /\ \/ phase' = phase \/ phase' = "failed"
             \/ phase = "close" /\ phase' = "done"
      BY <1>5 DEF DeadlineOverflows, Close, vars
    <2>2. HasDeadline(current)' <=> HasDeadline(current)
      BY <1>0, <2>1 DEF HasDeadline, Agg, Ms
    <2> QED BY <1>0, <2>1, <2>2 DEF FailureInv
  <1>6. CASE RejectRows
    <2>1. /\ phase = "rows" /\ phase' \in {"failed", "close"} /\ todo' = todo
          /\ phase' = "close" => \A x \in read.refused : x.settlement \notin Unfit
      BY <1>6 DEF RejectRows
    <2> QED BY <1>0, <2>1 DEF FailureInv
  <1> QED BY <1>1, <1>2, <1>3, <1>4, <1>5, <1>6 DEF Next

\* No bad book is ever closed; as every batch ends (EngineEnds), each fails.
THEOREM BadBooksFail == Spec => []NoBadBookCloses
  <1>1. Init => FailureInv
    BY DEF Init, FailureInv
  <1>2. FailureInv => NoBadBookCloses
    BY DEF FailureInv, NoBadBookCloses, BadBook
  <1> QED BY <1>1, <1>2, NextFailure, Invariance, PTL DEF Spec
=============================================================================
