----------------------- MODULE Reconciliation_proofs -----------------------
(***************************************************************************)
(* Proofs about Reconciliation, for any books, policies and clocks.        *)
(***************************************************************************)
EXTENDS Reconciliation, FiniteSetTheorems, TLAPS

\* The engine only reads its book.
BookIsRead == book \in Books /\ read = Read(book)

\* Assignments are records, one for every movement the loop has passed, and
\* the lines they name are taken and each by one of them.
AssignedInv ==
    /\ \A x \in assigned : \E m, pair, why :
          x = [movement |-> m, lines |-> pair, reasons |-> why]
    /\ phase \in {"assign", "decide"} =>
          {x.movement : x \in assigned} = Ms(current) \ pending
    /\ phase = "decide" => pending = {}
    /\ \A x \in assigned : x.lines \subseteq used
    /\ \A x, y \in assigned :
          x.movement # y.movement => x.lines \cap y.lines = {}

\* The aggregate in hand is linked to the row its match accepted, one that is
\* still to be matched to none.
LinksInv ==
    /\ phase = "group" => \A k \in Key : links[k] = NoBank
    /\ phase \in {"assign", "decide"} => links[current] = match.accepted
    /\ \A k \in todo :
          (phase \in {"assign", "decide"} /\ k = current) \/ links[k] = NoBank

NothingYet == phase = "group" => results = {}

IInv ==
    BookIsRead /\ TypeOK /\ NothingYet /\ AssignedInv /\ LinksInv
        /\ LinesProveOneMovement

-----------------------------------------------------------------------------
\* The loops can always take a first element.
LEMMA MinimalImage ==
  ASSUME NEW S, IsFiniteSet(S), NEW I, I # {}, NEW f \in [I -> SUBSET S]
  PROVE  \E n \in I : \A m \in I : f[m] \subseteq f[n] => f[m] = f[n]
  <1> DEFINE T == {f[i] : i \in I}
  <1>1. IsWellFoundedOn(StrictSubsetOrdering(S), SUBSET S)
    BY FS_StrictSubsetOrderingWellFounded, FS_FiniteSubsetsOfFinite
  <1>2. T \subseteq SUBSET S /\ T # {}
    OBVIOUS
  <1>3. \E U \in T : \A V \in T : <<V, U>> \notin StrictSubsetOrdering(S)
    <2> HIDE DEF T
    <2> QED BY <1>1, <1>2, WFMin
  <1>4. PICK n \in I : \A m \in I : <<f[m], f[n]>> \notin StrictSubsetOrdering(S)
    BY <1>3
  <1> QED BY <1>4 DEF StrictSubsetOrdering

LEMMA GreatestInteger ==
  ASSUME NEW S, IsFiniteSet(S), S \subseteq Int, S # {}
  PROVE  \E n \in S : \A m \in S : n >= m
  <1> DEFINE above == [n \in S |-> {j \in S : j > n}]
  <1>0. above \in [S -> SUBSET S]
    OBVIOUS
  <1>1. \A n \in S : above[n] = {j \in S : j > n}
    OBVIOUS
  <1> HIDE DEF above
  <1>2. PICK n \in S : \A m \in S : above[m] \subseteq above[n] => above[m] = above[n]
    BY ONLY <1>0, IsFiniteSet(S), S # {}, MinimalImage
  <1>3. ASSUME NEW m \in S, ~(n >= m) PROVE FALSE
    <2>1. m \in Int /\ n \in Int /\ m > n
      BY <1>3
    <2>2. \A j \in S : j > m => j > n
      BY <2>1
    <2>3. above[m] \subseteq above[n]
      BY <1>1, <2>2
    <2>4. m \in above[n] /\ m \notin above[m]
      BY <1>1, <2>1
    <2> QED BY <1>2, <2>3, <2>4
  <1> QED BY <1>2, <1>3

LEMMA LeastNatural ==
  ASSUME NEW S, S \subseteq Nat, S # {}
  PROVE  \E n \in S : \A m \in S : n <= m
  <1>1. PICK k \in S : TRUE
    OBVIOUS
  <1> DEFINE I == {i \in S : i <= k}
             upto == 0 .. k
             below == [n \in I |-> {j \in upto : j < n}]
  <1>2. IsFiniteSet(upto)
    BY <1>1, FS_Interval
  <1>0. below \in [I -> SUBSET upto]
    OBVIOUS
  <1>3. \A n \in I : below[n] = {j \in upto : j < n}
    OBVIOUS
  <1>4. k \in I /\ I \subseteq S /\ \A m \in S \ I : k < m
    BY <1>1
  <1> HIDE DEF below, I, upto
  <1>5. PICK n \in I : \A m \in I : below[m] \subseteq below[n] => below[m] = below[n]
    <2>1. I # {}
      BY <1>4
    <2> QED BY ONLY <1>0, <1>2, <2>1, MinimalImage
  <1>6. ASSUME NEW m \in I, ~(n <= m) PROVE FALSE
    <2>1. m \in Nat /\ n \in Nat /\ k \in Nat /\ m < n /\ n <= k
      BY <1>4, <1>6 DEF I
    <2>2. below[m] \subseteq below[n]
      BY <1>3, <2>1 DEF upto
    <2>3. m \in below[n] /\ m \notin below[m]
      BY <1>3, <2>1 DEF upto
    <2> QED BY <1>5, <2>2, <2>3
  <1>7. n \in Nat /\ k \in Nat /\ n <= k
    BY <1>4 DEF I
  <1> QED BY <1>4, <1>6, <1>7

LEMMA FirstKeyExists ==
  ASSUME NEW keys, keys \subseteq Nat \X Nat, keys # {}
  PROVE  FirstKey(keys) \in keys
  <1> DEFINE ids == {k[1] : k \in keys}
  <1>1. PICK i \in ids : \A j \in ids : i <= j
    <2>1. ids \subseteq Nat /\ ids # {}
      OBVIOUS
    <2> QED BY <2>1, LeastNatural
  <1> DEFINE accounts == {k[2] : k \in {q \in keys : q[1] = i}}
  <1>2. PICK a \in accounts : \A c \in accounts : a <= c
    <2>1. accounts \subseteq Nat /\ accounts # {}
      OBVIOUS
    <2> HIDE DEF accounts
    <2> QED BY <2>1, LeastNatural
  <1>3. PICK k \in keys : k[1] = i /\ k[2] = a
    BY <1>2
  <1>4. ASSUME NEW j \in keys PROVE Before(k, j)
    <2>1. j[1] \in Nat /\ k[1] \in Nat /\ j[2] \in Nat /\ k[2] \in Nat
      OBVIOUS
    <2>2. k[1] <= j[1]
      BY <1>1, <1>3
    <2>3. j[1] = k[1] => k[2] <= j[2]
      BY <1>2, <1>3
    <2> QED BY <2>1, <2>2, <2>3 DEF Before
  <1> QED BY <1>4 DEF FirstKey

LEMMA FirstMemberExists ==
  ASSUME NEW ms, ms # {}, \A m \in ms : m.id \in Nat
  PROVE  FirstMember(ms) \in ms
  <1> DEFINE ids == {m.id : m \in ms}
  <1>1. PICK i \in ids : \A j \in ids : i <= j
    <2>1. ids \subseteq Nat /\ ids # {}
      OBVIOUS
    <2> QED BY <2>1, LeastNatural
  <1>2. \E m \in ms : \A n \in ms : m.id <= n.id
    BY <1>1
  <1> QED BY <1>2 DEF FirstMember

-----------------------------------------------------------------------------
\* Whatever a movement or a charge is given are lines that were free.
LEMMA OnlyOneIsOne ==
  ASSUME NEW pairs
  PROVE  OnlyOne(pairs) = {} \/ OnlyOne(pairs) \in pairs
  BY DEF OnlyOne

LEMMA PairIsOfLines ==
  ASSUME NEW m, NEW lines, NEW p \in Pairs(m, lines)
  PROVE  p \subseteq lines
  <1>1. MovementLines(m, lines) \subseteq lines
    BY DEF MovementLines, Named, Fitting
  <1>2. Clearing(m, lines) \subseteq lines /\ Counterpart(m, lines) \subseteq lines
    BY <1>1 DEF Clearing, Counterpart
  <1> QED BY <1>2 DEF Pairs, SameJournal

LEMMA PairIsFree ==
  ASSUME NEW m, NEW lines, NEW taken
  PROVE  LET pair == OnlyOne(Free(Pairs(m, lines), taken))
         IN  pair \subseteq lines /\ pair \cap taken = {}
  BY OnlyOneIsOne, PairIsOfLines DEF Free

LEMMA ChargeIsFree ==
  ASSUME NEW authoritative, NEW descriptive, NEW role, NEW lines, NEW dups,
         NEW taken
  PROVE  LET pair == ChargeLines(authoritative, descriptive, role, lines, dups,
                                 taken)
         IN  pair \subseteq lines /\ pair \cap taken = {}
  <1>1. \A p \in ChargePairs(lines, dups, role, descriptive) : p \subseteq lines
    BY DEF ChargePairs, SameJournal
  <1>2. OnlyOne(Free(ChargePairs(lines, dups, role, descriptive), taken)) = {}
        \/ OnlyOne(Free(ChargePairs(lines, dups, role, descriptive), taken))
              \in Free(ChargePairs(lines, dups, role, descriptive), taken)
    BY OnlyOneIsOne
  <1> QED BY <1>1, <1>2 DEF ChargeLines, Free

-----------------------------------------------------------------------------
\* What match_bank can accept.
LEMMA AcceptedIsUsable ==
  ASSUME NEW a, NEW rows, NEW clock, NEW taken
  PROVE  LET exact == UsableExact(a, rows, clock, taken)
         IN  Accepted(a, exact) # NoBank =>
                /\ Cardinality(exact) = 1 /\ ~UtrConflict(a)
                /\ \E b \in exact : Accepted(a, exact) = b.id
  <1> DEFINE exact == UsableExact(a, rows, clock, taken)
  <1> HIDE DEF exact
  <1>1. ASSUME Accepted(a, exact) # NoBank
        PROVE  /\ Cardinality(exact) = 1 /\ ~UtrConflict(a)
               /\ \E b \in exact : Accepted(a, exact) = b.id
    <2>1. Cardinality(exact) = 1 /\ ~UtrConflict(a)
      BY <1>1 DEF Accepted
    <2>2. exact # {}
      BY <2>1, FS_EmptySet
    <2>3. (CHOOSE b \in exact : TRUE) \in exact
      BY <2>2
    <2> QED BY <2>1, <2>3 DEF Accepted
  <1> QED BY <1>1 DEF exact
-----------------------------------------------------------------------------
LEMMA ReadType ==
  ASSUME BookIsRead
  PROVE  /\ AllKeys \subseteq Key /\ AllKeys \subseteq Nat \X Nat
         /\ \A m \in read.movements : KeyOf(m) \in AllKeys /\ m.id \in Nat
         /\ \A b \in read.bank : b.id \in BankId /\ b.id # NoBank
  <1>1. read.movements = Movements(book) /\ read.bank = BankRecords(book.bank)
    BY DEF BookIsRead, Read
  <1>2. book \in Books
    BY DEF BookIsRead
  <1> QED BY <1>1, <1>2, InputAssumption DEF AllKeys

LEMMA BookStays ==
  ASSUME BookIsRead, [Next]_vars
  PROVE  /\ BookIsRead' /\ book' = book /\ read' = read
         /\ AllKeys' = AllKeys
         /\ \A k : Ms(k)' = Ms(k) /\ Lines(k)' = Lines(k) /\ Dups(k)' = Dups(k)
  <1>1. book' = book /\ read' = read
    BY DEF Next, vars, input, Group, DeadlineOverflows, MatchBank, Assign,
           BookCharges, Decide,
           RejectRows, Close
  <1> QED BY <1>1 DEF BookIsRead, AllKeys, Ms, Lines, Dups

LEMMA InitIInv == Init => IInv
  <1> SUFFICES ASSUME Init PROVE IInv
    OBVIOUS
  <1>1. BookIsRead
    BY DEF Init, BookIsRead
  <1>2. TypeOK
    BY DEF Init, TypeOK, NoMatch
  <1>3. NothingYet /\ AssignedInv /\ LinksInv /\ LinesProveOneMovement
    BY DEF Init, NothingYet, AssignedInv, LinksInv, LinesProveOneMovement
  <1> QED BY <1>1, <1>2, <1>3 DEF IInv

-----------------------------------------------------------------------------
(***************************************************************************)
(* Types                                                                   *)
(***************************************************************************)
LEMMA OnwardType ==
  ASSUME NEW keys
  PROVE  Onward(keys) \in {"rows", "match"} /\ (Onward(keys) = "match" => keys # {})
  BY DEF Onward

\* An aggregate is in hand while its movements are assigned and it is decided.
LEMMA CurrentType ==
  ASSUME IInv, phase \in {"assign", "decide"}
  PROVE  current \in todo /\ current \in AllKeys /\ current \in Key
  BY ReadType DEF IInv, TypeOK

LEMMA GroupType ==
  ASSUME IInv, Group
  PROVE  TypeOK'
  <1>1. AllKeys' = AllKeys /\ Ms(current)' = Ms(current)
        /\ Lines(current)' = Lines(current)
    BY BookStays DEF IInv, Next, Group, working
  <1> QED BY <1>1, OnwardType DEF IInv, TypeOK, NothingYet, Group, working

LEMMA MatchTakes ==
  ASSUME IInv, MatchBank
  PROVE  /\ phase = "match" /\ current' \in todo /\ current' \in Key
         /\ todo \subseteq Key
  BY FirstKeyExists, ReadType DEF IInv, TypeOK, MatchBank

LEMMA MatchBankType ==
  ASSUME IInv, MatchBank
  PROVE  TypeOK'
  <1>1. /\ AllKeys' = AllKeys /\ \A k : Ms(k)' = Ms(k) /\ Lines(k)' = Lines(k)
        /\ read' = read
    BY BookStays DEF IInv, Next
  <1>2. current' \in todo /\ current' \in Key
    BY MatchTakes
  <1>3. match'.accepted \in BankId \cup {NoBank}
    <2> DEFINE exact == UsableExact(Agg(current'), read.bank, book.clock, Consumed)
    <2>1. match'.accepted = Accepted(Agg(current'), exact)
      BY DEF MatchBank, Match
    <2>2. exact \subseteq read.bank
      BY DEF UsableExact
    <2>3. \A b \in read.bank : b.id \in BankId
      BY ReadType DEF IInv
    <2> QED BY <2>1, <2>2, <2>3, AcceptedIsUsable
  <1>4. links' \in [Key -> BankId \cup {NoBank}]
    BY <1>2, <1>3 DEF IInv, TypeOK, MatchBank
  <1>5. pending' = Ms(current') /\ used' = {} /\ assigned' = {}
    BY DEF MatchBank
  <1>6. pending' \subseteq Ms(current)' /\ used' \subseteq Lines(current)'
    BY <1>1, <1>5 DEF Ms
  <1> QED BY <1>1, <1>2, <1>3, <1>4, <1>5, <1>6 DEF IInv, TypeOK, MatchBank
\* What one turn of the loop over the movements does.
LEMMA AssignStep ==
  ASSUME IInv, Assign
  PROVE  \E m, pair, why :
            /\ m \in pending /\ pair \subseteq Lines(current)
            /\ pair \cap used = {}
            /\ pending' = pending \ {m}
            /\ used' = used \cup pair
            /\ assigned' = assigned \cup
                   {[movement |-> m, lines |-> pair, reasons |-> why]}
  <1> DEFINE m == FirstMember(pending)
             pair == OnlyOne(Free(Pairs(m, Lines(current)), used))
             why == MovementReasons(m, Lines(current), Dups(current), used)
  <1>1. m \in pending
    <2>1. pending # {} /\ \A n \in pending : n.id \in Nat
      BY ReadType DEF IInv, TypeOK, Ms, Assign
    <2> QED BY <2>1, FirstMemberExists
  <1>2. pair \subseteq Lines(current) /\ pair \cap used = {}
    BY PairIsFree
  <1>3. /\ pending' = pending \ {m}
        /\ used' = used \cup pair
        /\ assigned' = assigned \cup
               {[movement |-> m, lines |-> pair, reasons |-> why]}
    BY DEF Assign
  <1> HIDE DEF m, pair, why
  <1> QED BY <1>1, <1>2, <1>3

LEMMA AssignType ==
  ASSUME IInv, Assign
  PROVE  TypeOK'
  <1>1. /\ AllKeys' = AllKeys /\ \A k : Ms(k)' = Ms(k) /\ Lines(k)' = Lines(k)
    BY BookStays DEF IInv, Next
  <1>2. PICK m, pair, why :
            /\ m \in pending /\ pair \subseteq Lines(current)
            /\ pending' = pending \ {m} /\ used' = used \cup pair
            /\ assigned' = assigned \cup
                   {[movement |-> m, lines |-> pair, reasons |-> why]}
    BY AssignStep
  <1>3. /\ phase' = phase /\ todo' = todo /\ current' = current /\ match' = match
        /\ links' = links /\ results' = results
    BY DEF Assign
  <1>4. Ms(current)' = Ms(current) /\ Lines(current)' = Lines(current)
    BY <1>1, <1>3 DEF Ms, Lines
  <1>5. pending \subseteq Ms(current) /\ used \subseteq Lines(current)
        /\ \A x \in assigned : x.movement \in Ms(current) \ pending
    BY DEF IInv, TypeOK
  <1>6. pending' \subseteq Ms(current)' /\ used' \subseteq Lines(current)'
    BY <1>2, <1>4, <1>5
  <1>7. \A x \in assigned' : x.movement \in Ms(current)' \ pending'
    BY <1>2, <1>4, <1>5
  <1> QED BY <1>1, <1>3, <1>6, <1>7 DEF IInv, TypeOK

LEMMA ReasonsReplaced ==
  ASSUME NEW m, NEW pair, NEW why, NEW z
  PROVE  [[movement |-> m, lines |-> pair, reasons |-> why] EXCEPT !.reasons = z]
            = [movement |-> m, lines |-> pair, reasons |-> z]
  OBVIOUS

\* The charges take lines, and change nothing of an assignment but its reasons.
LEMMA BookChargesStep ==
  ASSUME IInv, BookCharges
  PROVE  /\ used' \in SUBSET Lines(current) /\ used \subseteq used'
         /\ \A x \in assigned' : \E y \in assigned :
               /\ x.movement = y.movement /\ x.lines = y.lines
               /\ \E m, pair, why :
                     x = [movement |-> m, lines |-> pair, reasons |-> why]
         /\ \A y \in assigned : \E x \in assigned' :
               x.movement = y.movement /\ x.lines = y.lines
  <1> DEFINE lines == Lines(current)
             dups == Dups(current)
             ms == Ms(current)
             feeLines == ChargeLines(AuthoritativeFee(ms), DescriptiveFee(ms),
                             "gateway_fee_expense", lines, dups, used)
             taxLines == ChargeLines(AuthoritativeTax(ms), DescriptiveTax(ms),
                             "input_gst", lines, dups, used \cup feeLines)
  <1>1. used' = used \cup feeLines \cup taxLines
    BY DEF BookCharges
  <1>2. feeLines \subseteq Lines(current) /\ taxLines \subseteq Lines(current)
    BY ChargeIsFree
  <1>3. used \subseteq Lines(current)
    BY DEF IInv, TypeOK
  <1>4. PICK blamed : assigned' = {[x EXCEPT !.reasons = @ \cup blamed[x]] :
                                     x \in assigned}
    <2> DEFINE
          aFee == AuthoritativeFee(ms)
          dFee == DescriptiveFee(ms)
          aTax == AuthoritativeTax(ms)
          dTax == DescriptiveTax(ms)
          feeBad == \/ control.fee \/ Conflict(aFee, dFee)
                    \/ Unproven(aFee, dFee) /\ feeLines = {}
          taxBad == \/ control.tax \/ Conflict(aTax, dTax)
                    \/ Unproven(aTax, dTax) /\ taxLines = {}
          Blamed(m) ==
            Given("fee_booking_mismatch",
                  feeBad /\ ToBlame(m, m.fee, aFee, dFee))
            \cup Given("tax_booking_mismatch",
                       taxBad /\ ToBlame(m, m.tax, aTax, dTax))
    <2>1. assigned' = {[x EXCEPT !.reasons = @ \cup Blamed(x.movement)] :
                         x \in assigned}
      BY DEF BookCharges
    <2> HIDE DEF Blamed
    <2> DEFINE blamed == [x \in assigned |-> Blamed(x.movement)]
    <2>2. \A x \in assigned : blamed[x] = Blamed(x.movement)
      OBVIOUS
    <2>3. assigned' = {[x EXCEPT !.reasons = @ \cup blamed[x]] : x \in assigned}
      BY <2>1, <2>2
    <2> QED BY <2>3
  <1>5. ASSUME NEW y \in assigned
        PROVE  [y EXCEPT !.reasons = @ \cup blamed[y]]
                 = [movement |-> y.movement, lines |-> y.lines,
                    reasons |-> y.reasons \cup blamed[y]]
    <2>1. PICK m, pair, why :
              y = [movement |-> m, lines |-> pair, reasons |-> why]
      BY DEF IInv, AssignedInv
    <2>2. y.movement = m /\ y.lines = pair /\ y.reasons = why
      BY <2>1
    <2> DEFINE z == why \cup blamed[y]
    <2>3. [y EXCEPT !.reasons = z] = [movement |-> m, lines |-> pair, reasons |-> z]
      <3> HIDE DEF z
      <3> QED BY <2>1, ReasonsReplaced
    <2> QED BY <2>2, <2>3
  <1>6. assigned' = {[movement |-> y.movement, lines |-> y.lines,
                      reasons |-> y.reasons \cup blamed[y]] : y \in assigned}
    BY <1>4, <1>5
  <1>7. ASSUME NEW x \in assigned'
        PROVE  \E y \in assigned :
                  /\ x.movement = y.movement /\ x.lines = y.lines
                  /\ \E m, pair, why :
                        x = [movement |-> m, lines |-> pair, reasons |-> why]
    <2>1. PICK y \in assigned :
             x = [movement |-> y.movement, lines |-> y.lines,
                  reasons |-> y.reasons \cup blamed[y]]
      BY <1>6
    <2> QED BY <2>1
  <1>8. ASSUME NEW y \in assigned
        PROVE  \E x \in assigned' : x.movement = y.movement /\ x.lines = y.lines
    <2> DEFINE x == [movement |-> y.movement, lines |-> y.lines,
                     reasons |-> y.reasons \cup blamed[y]]
    <2>1. x \in assigned'
      BY <1>6
    <2>2. x.movement = y.movement /\ x.lines = y.lines
      OBVIOUS
    <2> HIDE DEF x
    <2> QED BY <2>1, <2>2
  <1> HIDE DEF feeLines, taxLines
  <1> QED BY <1>1, <1>2, <1>3, <1>7, <1>8

LEMMA BookChargesType ==
  ASSUME IInv, BookCharges
  PROVE  TypeOK'
  <1>1. /\ AllKeys' = AllKeys /\ \A k : Ms(k)' = Ms(k) /\ Lines(k)' = Lines(k)
    BY BookStays DEF IInv, Next
  <1>2. /\ phase = "assign" /\ phase' = "decide" /\ todo' = todo
        /\ current' = current /\ match' = match /\ links' = links
        /\ pending' = pending /\ results' = results
    BY DEF BookCharges
  <1>3. Ms(current)' = Ms(current) /\ Lines(current)' = Lines(current)
    BY <1>1, <1>2 DEF Ms, Lines
  <1>4. used' \subseteq Lines(current)'
    BY <1>3, BookChargesStep
  <1>5. \A x \in assigned' : x.movement \in Ms(current)' \ pending'
    BY <1>2, <1>3, BookChargesStep DEF IInv, TypeOK
  <1> QED BY <1>1, <1>2, <1>3, <1>4, <1>5 DEF IInv, TypeOK

LEMMA ResolutionType ==
  ASSUME NEW integrity, NEW reasons
  PROVE  Resolution(integrity, reasons) \in State
  BY DEF Resolution, State

LEMMA DecideStep ==
  ASSUME IInv, Decide
  PROVE  \E ledger, reasons, state :
            /\ ledger = LedgerReasons /\ reasons = Reasons(ledger)
            /\ state = Resolution(Integrity(ledger, reasons), reasons)
            /\ results' = results \cup {Result(ledger, reasons, state)}
            /\ exceptions' =
                  exceptions \cup SettlementExceptions(current, state, reasons)
  BY DEF Decide

LEMMA DecideType ==
  ASSUME IInv, Decide
  PROVE  TypeOK'
  <1>1. /\ AllKeys' = AllKeys /\ \A k : Ms(k)' = Ms(k) /\ Lines(k)' = Lines(k)
    BY BookStays DEF IInv, Next
  <1>2. PICK ledger, reasons, state :
            /\ state = Resolution(Integrity(ledger, reasons), reasons)
            /\ results' = results \cup {Result(ledger, reasons, state)}
    BY DecideStep
  <1>3. /\ phase = "decide" /\ phase' = Onward(todo') /\ todo' = todo \ {current}
        /\ current' = current /\ match' = match /\ links' = links
        /\ pending' = pending /\ used' = used /\ assigned' = assigned
    BY DEF Decide, working
  <1>4. Ms(current)' = Ms(current) /\ Lines(current)' = Lines(current)
    BY <1>1, <1>3 DEF Ms, Lines
  <1>5. Result(ledger, reasons, state).key = current
        /\ Result(ledger, reasons, state).state \in State
    BY <1>2, ResolutionType DEF Result
  <1>6. \A r \in results' : r.key \in AllKeys' \ todo' /\ r.state \in State
    BY <1>1, <1>2, <1>3, <1>5, CurrentType DEF IInv, TypeOK
  <1> QED BY <1>1, <1>3, <1>4, <1>6, OnwardType DEF IInv, TypeOK

LEMMA TailType ==
  ASSUME IInv, DeadlineOverflows \/ RejectRows \/ Close \/ UNCHANGED vars
  PROVE  TypeOK'
  <1>1. /\ AllKeys' = AllKeys /\ \A k : Ms(k)' = Ms(k) /\ Lines(k)' = Lines(k)
    BY BookStays DEF IInv, Next
  <1>2. /\ todo' = todo /\ current' = current /\ match' = match /\ links' = links
        /\ pending' = pending /\ used' = used /\ assigned' = assigned
        /\ results' = results
        /\ phase' = phase \/ phase' \in {"failed", "close", "done"}
    BY DEF DeadlineOverflows, RejectRows, Close, working, vars
  <1>3. Ms(current)' = Ms(current) /\ Lines(current)' = Lines(current)
    BY <1>1, <1>2 DEF Ms, Lines
  <1> QED BY <1>1, <1>2, <1>3 DEF IInv, TypeOK
LEMMA NextType ==
  ASSUME IInv, [Next]_vars
  PROVE  TypeOK'
  BY GroupType, MatchBankType, AssignType, BookChargesType, DecideType, TailType
  DEF Next

-----------------------------------------------------------------------------
(***************************************************************************)
(* Assignments and links                                                   *)
(***************************************************************************)
LEMMA NextAssigned ==
  ASSUME IInv, [Next]_vars
  PROVE  AssignedInv'
  <1>0. \A k : Ms(k)' = Ms(k)
    BY BookStays DEF IInv
  <1>1. CASE Group \/ DeadlineOverflows \/ RejectRows \/ Close \/ UNCHANGED vars
    <2>1. /\ current' = current /\ pending' = pending /\ used' = used
          /\ assigned' = assigned
          /\ phase' \in {"assign", "decide"} => phase' = phase
      BY <1>1, OnwardType DEF Group, DeadlineOverflows, RejectRows, Close,
                              working, vars
    <2>2. Ms(current)' = Ms(current)
      BY <1>0, <2>1 DEF Ms
    <2> QED BY <2>1, <2>2 DEF IInv, AssignedInv
  <1>2. CASE MatchBank
    <2>1. /\ assigned' = {} /\ phase' = "assign" /\ pending' = Ms(current')
      BY <1>2 DEF MatchBank
    <2>2. pending' = Ms(current)'
      BY <1>0, <2>1 DEF Ms
    <2> QED BY <2>1, <2>2 DEF AssignedInv
  <1>3. CASE Assign
    <2>1. PICK m, pair, why :
              /\ m \in pending /\ pair \subseteq Lines(current)
              /\ pair \cap used = {}
              /\ pending' = pending \ {m} /\ used' = used \cup pair
              /\ assigned' = assigned \cup
                     {[movement |-> m, lines |-> pair, reasons |-> why]}
      BY <1>3, AssignStep
    <2> DEFINE new == [movement |-> m, lines |-> pair, reasons |-> why]
    <2>2. /\ phase = "assign" /\ phase' = phase /\ current' = current
      BY <1>3 DEF Assign
    <2>3. Ms(current)' = Ms(current)
      BY <1>0, <2>2 DEF Ms
    <2>4. new.movement = m /\ new.lines = pair
      OBVIOUS
    <2>5. \A x \in assigned' : \E n, p, w :
             x = [movement |-> n, lines |-> p, reasons |-> w]
      BY <2>1 DEF IInv, AssignedInv
    <2>6. assigned' = assigned \cup {new}
      BY <2>1
    <2> HIDE DEF new
    <2>7. {x.movement : x \in assigned'} = Ms(current)' \ pending'
      <3>1. {x.movement : x \in assigned} = Ms(current) \ pending
        BY <2>2 DEF IInv, AssignedInv
      <3>2. m \in Ms(current)
        BY <2>1 DEF IInv, TypeOK
      <3>3. {x.movement : x \in assigned'}
               = {x.movement : x \in assigned} \cup {m}
        BY <2>4, <2>6
      <3> QED BY <2>1, <2>3, <3>1, <3>2, <3>3
    <2>8. \A x \in assigned' : x.lines \subseteq used'
      BY <2>1, <2>4, <2>6 DEF IInv, AssignedInv
    <2>9. ASSUME NEW x \in assigned', NEW y \in assigned', x.movement # y.movement
          PROVE  x.lines \cap y.lines = {}
      <3>1. \A z \in assigned : z.lines \cap new.lines = {}
        BY <2>1, <2>4 DEF IInv, AssignedInv
      <3> QED BY <2>6, <2>9, <3>1 DEF IInv, AssignedInv
    <2> QED BY <2>2, <2>5, <2>7, <2>8, <2>9 DEF AssignedInv
  <1>4. CASE BookCharges
    <2>1. /\ phase = "assign" /\ phase' = "decide" /\ current' = current
          /\ pending = {} /\ pending' = {}
      BY <1>4 DEF BookCharges
    <2>2. Ms(current)' = Ms(current)
      BY <1>0, <2>1 DEF Ms
    <2>3. \A x \in assigned' : \E y \in assigned :
             x.movement = y.movement /\ x.lines = y.lines
      BY <1>4, BookChargesStep
    <2>4. \A y \in assigned : \E x \in assigned' :
             x.movement = y.movement /\ x.lines = y.lines
      BY <1>4, BookChargesStep
    <2>5. {x.movement : x \in assigned'} = Ms(current)' \ pending'
      <3>1. {x.movement : x \in assigned} = Ms(current) \ pending
        BY <2>1 DEF IInv, AssignedInv
      <3>2. {x.movement : x \in assigned'} = {x.movement : x \in assigned}
        BY <2>3, <2>4
      <3> QED BY <2>1, <2>2, <3>1, <3>2
    <2>6. \A x \in assigned' : x.lines \subseteq used'
      BY <1>4, <2>3, BookChargesStep DEF IInv, AssignedInv
    <2>7. \A x, y \in assigned' : x.movement # y.movement => x.lines \cap y.lines = {}
      BY <2>3 DEF IInv, AssignedInv
    <2>8. \A x \in assigned' : \E m, pair, why :
             x = [movement |-> m, lines |-> pair, reasons |-> why]
      BY <1>4, BookChargesStep
    <2> QED BY <2>1, <2>5, <2>6, <2>7, <2>8 DEF AssignedInv
  <1>5. CASE Decide
    <2>1. /\ phase = "decide" /\ phase' \in {"rows", "match"}
          /\ pending' = pending /\ used' = used /\ assigned' = assigned
      BY <1>5, OnwardType DEF Decide, working
    <2> QED BY <2>1 DEF IInv, AssignedInv
  <1> QED BY <1>1, <1>2, <1>3, <1>4, <1>5 DEF Next

LEMMA NextLinks ==
  ASSUME IInv, [Next]_vars
  PROVE  LinksInv' /\ NothingYet'
  <1>1. CASE Group \/ DeadlineOverflows \/ RejectRows \/ Close \/ UNCHANGED vars
    <2>1. /\ current' = current /\ match' = match /\ links' = links
          /\ results' = results
          /\ phase' \in {"assign", "decide", "group"} => phase' = phase
          /\ todo' = todo \/ (phase = "group" /\ todo' = AllKeys)
          /\ phase = "group" => phase' = "group" \/ phase' \notin {"assign", "decide"}
      BY <1>1, OnwardType DEF Group, DeadlineOverflows, RejectRows, Close,
                              working, vars
    <2>2. AllKeys \subseteq Key
      BY ReadType DEF IInv
    <2>3. phase \in {"assign", "decide"} => phase # "group"
      OBVIOUS
    <2>4. \A k \in todo' :
             \/ phase' \in {"assign", "decide"} /\ k = current'
             \/ links'[k] = NoBank
      BY <1>1, <2>1, <2>2 DEF IInv, LinksInv, Group, DeadlineOverflows,
                              RejectRows, Close, vars, TypeOK
    <2> QED BY <2>1, <2>4 DEF IInv, LinksInv, NothingYet
  <1>2. CASE MatchBank
    <2>1. /\ phase = "match" /\ phase' = "assign" /\ todo' = todo
          /\ links' = [links EXCEPT ![current'] = match'.accepted]
      BY <1>2 DEF MatchBank
    <2>2. current' \in Key /\ todo \subseteq Key
      BY <1>2, MatchTakes
    <2>3. links'[current'] = match'.accepted
          /\ \A k \in Key : k # current' => links'[k] = links[k]
      BY <2>1, <2>2 DEF IInv, TypeOK
    <2> QED BY <2>1, <2>2, <2>3 DEF IInv, LinksInv, NothingYet
  <1>3. CASE Assign \/ BookCharges
    <2>1. /\ current' = current /\ match' = match /\ links' = links /\ todo' = todo
          /\ phase = "assign" /\ phase' \in {"assign", "decide"}
      BY <1>3 DEF Assign, BookCharges
    <2> QED BY <2>1 DEF IInv, LinksInv, NothingYet
  <1>4. CASE Decide
    <2>1. /\ phase = "decide" /\ phase' \in {"rows", "match"} /\ links' = links
          /\ todo' = todo \ {current}
      BY <1>4, OnwardType DEF Decide
    <2> QED BY <2>1 DEF IInv, LinksInv, NothingYet
  <1> QED BY <1>1, <1>2, <1>3, <1>4 DEF Next

LEMMA NextLines ==
  ASSUME IInv, [Next]_vars
  PROVE  LinesProveOneMovement'
  <1>1. CASE Decide
    <2>1. PICK ledger, reasons, state :
             results' = results \cup {Result(ledger, reasons, state)}
      BY <1>1, DecideStep
    <2>2. Result(ledger, reasons, state).assigned = assigned
      BY DEF Result
    <2> QED BY <2>1, <2>2 DEF IInv, AssignedInv, LinesProveOneMovement
  <1>2. CASE ~Decide
    <2>1. results' = results
      BY <1>2 DEF Next, Group, DeadlineOverflows, MatchBank, Assign,
                  BookCharges, RejectRows, Close, vars
    <2> QED BY <2>1 DEF IInv, LinesProveOneMovement
  <1> QED BY <1>1, <1>2

\* The engine's invariant, for any book.
THEOREM Invariance == Spec => []IInv
  <1>1. IInv /\ [Next]_vars => IInv'
    BY NextType, NextAssigned, NextLinks, NextLines, BookStays DEF IInv
  <1> QED BY InitIInv, <1>1, PTL DEF Spec

\* The engine's state keeps its types, and what is decided, in hand and still to
\* do are parts of the settlements of the book.
THEOREM TypeCorrect == Spec => []TypeOK
  <1>1. IInv => TypeOK
    BY DEF IInv
  <1> QED BY <1>1, Invariance, PTL

\* A ledger line proves at most one movement of a settlement.
THEOREM LinesOnce == Spec => []LinesProveOneMovement
  <1>1. IInv => LinesProveOneMovement
    BY DEF IInv
  <1> QED BY <1>1, Invariance, PTL

-----------------------------------------------------------------------------
(***************************************************************************)
(* Bank rows are used once                                                 *)
(***************************************************************************)
LEMMA StepRefines ==
  ASSUME IInv, IInv', [Next]_vars
  PROVE  [Promise!Next]_Evidence
  <1>1. CASE UNCHANGED links
    BY <1>1 DEF Evidence
  <1>2. CASE MatchBank
    <2> DEFINE k == current'
               x == match'.accepted
               exact == UsableExact(Agg(k), read.bank, book.clock, Consumed)
    <2>1. phase = "match" /\ k \in todo /\ k \in Key
      BY <1>2, MatchTakes
    <2>2. links' = [links EXCEPT ![k] = x] /\ links \in [Key -> BankId \cup {NoBank}]
      BY <1>2 DEF MatchBank, IInv, TypeOK
    <2>3. links[k] = NoBank
      BY <2>1 DEF IInv, LinksInv
    <2>4. CASE x = NoBank
      <3>1. links' = links
        BY <2>1, <2>2, <2>3, <2>4
      <3> QED BY <3>1 DEF Evidence
    <2>5. CASE x # NoBank
      <3>1. x = Accepted(Agg(k), exact)
        BY <1>2 DEF MatchBank, Match
      <3>2. PICK b \in exact : x = b.id
        BY <2>5, <3>1, AcceptedIsUsable
      <3>3. x \notin Consumed /\ x \in BankId
        BY <2>5, <3>2, ReadType DEF UsableExact, Usable, IInv
      <3>4. \A t \in Key : links[t] # x
        BY <2>2, <2>5, <3>3 DEF Consumed
      <3>5. \A t \in Key : Evidence[<<"batch", t>>] = links[t]
        BY DEF Evidence
      <3>6. Evidence' = [Evidence EXCEPT ![<<"batch", k>>] = x]
        <4>1. \A t \in Key : links'[t] = IF t = k THEN x ELSE links[t]
          BY <2>1, <2>2
        <4> HIDE DEF k, x
        <4>2. \A q \in {"batch"} \X Key : q = <<"batch", q[2]>> /\ q[2] \in Key
          OBVIOUS
        <4>3. \A q \in {"batch"} \X Key :
                 links'[q[2]] = IF q = <<"batch", k>> THEN x ELSE links[q[2]]
          BY <4>1, <4>2
        <4> QED BY <4>3 DEF Evidence
      <3>7. Promise!Accept("batch", k, x)
        BY <2>1, <2>3, <3>4, <3>5, <3>6 DEF Promise!Accept
      <3> QED BY <2>1, <3>3, <3>7 DEF Promise!Next
    <2> QED BY <2>4, <2>5
  <1>3. CASE ~MatchBank
    <2>1. UNCHANGED links
      BY <1>3 DEF Next, Group, DeadlineOverflows, Assign, BookCharges, Decide,
                  RejectRows, Close, vars
    <2> QED BY <2>1 DEF Evidence
  <1> QED BY <1>2, <1>3

\* The engine rests every settlement for good on a bank row of its own.
THEOREM Refinement == Spec => ImplementsAcceptedEvidence
  <1>1. Init => Promise!Init
    BY DEF Init, Promise!Init, Evidence
  <1> QED
    BY <1>1, StepRefines, Invariance, PTL
    DEF Spec, Promise!Spec, ImplementsAcceptedEvidence
-----------------------------------------------------------------------------
(***************************************************************************)
(* Decisions                                                               *)
(***************************************************************************)
\* The match in hand is that of the aggregate in hand.
MatchInv ==
    phase \in {"assign", "decide"} =>
        \E taken : match = Match(Agg(current), read.bank, book.clock, taken)

LEMMA FiniteImage ==
  ASSUME NEW S, IsFiniteSet(S), NEW f, f = [x \in S |-> f[x]]
  PROVE  IsFiniteSet({f[x] : x \in S})
  <1> DEFINE T == {f[x] : x \in S}
  <1>1. f \in Surjection(S, T)
    BY DEF Surjection
  <1> HIDE DEF T
  <1>2. IsFiniteSet(T)
    BY <1>1, FS_Surjection
  <1> QED BY <1>2 DEF T

LEMMA FiniteBook ==
  ASSUME BookIsRead
  PROVE  /\ IsFiniteSet(read.movements) /\ IsFiniteSet(read.lines)
         /\ \A k : IsFiniteSet(Ms(k)) /\ IsFiniteSet(Lines(k))
  <1>1. /\ IsFiniteSet(book.gateway) /\ IsFiniteSet(book.ledger)
    BY InputAssumption DEF BookIsRead
  <1>2. /\ read.movements \subseteq book.gateway /\ read.lines \subseteq book.ledger
    BY DEF BookIsRead, Read, Movements, GatewayRecords, LedgerRecords,
           Unrepeated, GatewayRows, LedgerRows
  <1>3. \A k : Ms(k) \subseteq book.gateway /\ Lines(k) \subseteq book.ledger
    BY <1>2 DEF Ms, Lines
  <1> QED BY <1>1, <1>2, <1>3, FS_Subset

\* The references and the time of an aggregate.
LEMMA AggregateType ==
  ASSUME BookIsRead, NEW k \in AllKeys
  PROVE  IsFiniteSet(Agg(k).utrs) /\ Agg(k).at \in Int
  <1> DEFINE ms == Ms(k)
             utrOf == [m \in ms |-> m.utr]
             atOf == [m \in ms |-> m.at]
  <1>1. IsFiniteSet(ms)
    BY FiniteBook
  <1>2. ms # {} /\ \A m \in ms : m.at \in Int
    <2>1. read.movements = Movements(book) /\ book \in Books
      BY DEF BookIsRead, Read
    <2> QED BY <2>1, InputAssumption DEF AllKeys, Ms
  <1> HIDE DEF ms
  <1>3. IsFiniteSet({utrOf[m] : m \in ms}) /\ IsFiniteSet({atOf[m] : m \in ms})
    <2>1. utrOf = [m \in ms |-> utrOf[m]] /\ atOf = [m \in ms |-> atOf[m]]
      OBVIOUS
    <2> HIDE DEF utrOf, atOf
    <2> QED BY <1>1, <2>1, FiniteImage
  <1>4. {utrOf[m] : m \in ms} = {m.utr : m \in ms}
        /\ {atOf[m] : m \in ms} = {m.at : m \in ms}
    OBVIOUS
  <1>5. IsFiniteSet({m.utr : m \in ms} \ {NoUtr})
    BY <1>3, <1>4, FS_Subset
  <1>6. Max({m.at : m \in ms}) \in Int
    <2> DEFINE times == {m.at : m \in ms}
    <2>1. IsFiniteSet(times) /\ times \subseteq Int /\ times # {}
      BY <1>2, <1>3, <1>4
    <2> HIDE DEF times
    <2>2. \E t \in times : \A q \in times : t >= q
      BY <2>1, GreatestInteger
    <2>3. Max(times) \in times
      BY <2>2 DEF Max
    <2> QED BY <2>1, <2>3 DEF times
  <1> QED BY <1>5, <1>6 DEF Agg, Aggregate, ms

\* What a match says of the row it accepts, or of there being none.
LEMMA MatchSound ==
  ASSUME NEW a, IsFiniteSet(a.utrs), NEW rows, NEW clock, NEW taken,
         NEW found, found = Match(a, rows, clock, taken)
  PROVE  /\ found.accepted # NoBank =>
              \E b \in rows :
                 /\ found.accepted = b.id /\ a.utrs = {b.utr}
                 /\ ControlsOk(a, b, clock)
                 /\ b.id \in {c.bank : c \in found.candidates}
         /\ found.within = WithinSla(a, clock)
         /\ found.overdue = Overdue(a, clock)
  <1> DEFINE exact == UsableExact(a, rows, clock, taken)
  <1>1. found.accepted = Accepted(a, exact)
    BY DEF Match
  <1>2. found.candidates =
            {[bank |-> b.id,
              reasons |-> CandidateReasons(a, b, clock, taken, Accepted(a, exact))] :
                b \in {c \in rows : Relevant(a, c)}}
    BY DEF Match
  <1>3. ASSUME found.accepted # NoBank
        PROVE  \E b \in rows :
                 /\ found.accepted = b.id /\ a.utrs = {b.utr}
                 /\ ControlsOk(a, b, clock)
                 /\ b.id \in {c.bank : c \in found.candidates}
    <2>1. PICK b \in exact : found.accepted = b.id
      BY <1>1, <1>3, AcceptedIsUsable
    <2>2. b \in rows /\ SameUtr(a, b) /\ ControlsOk(a, b, clock)
      BY DEF UsableExact
    <2>3. a.utrs = {b.utr}
      <3>1. ~(Cardinality(a.utrs) > 1)
        BY <1>1, <1>3, AcceptedIsUsable DEF UtrConflict
      <3>2. Cardinality(a.utrs) \in Nat /\ Cardinality(a.utrs) # 0
        BY <2>2, FS_CardinalityType, FS_EmptySet DEF SameUtr
      <3>3. Cardinality(a.utrs) = 1
        BY <3>1, <3>2
      <3> QED BY <2>2, <3>3, FS_Singleton DEF SameUtr
    <2>4. b.id \in {c.bank : c \in found.candidates}
      <3> DEFINE c == [bank |-> b.id,
                       reasons |-> CandidateReasons(a, b, clock, taken,
                                                    Accepted(a, exact))]
      <3>1. c \in found.candidates
        BY <1>2, <2>2 DEF Relevant
      <3>2. c.bank = b.id
        OBVIOUS
      <3> HIDE DEF c
      <3> QED BY <3>1, <3>2
    <2> QED BY <2>1, <2>2, <2>3, <2>4
  <1> QED BY <1>3 DEF Match

LEMMA MatchReasoned ==
  ASSUME NEW a, NEW rows, NEW clock, NEW taken,
         NEW found, found = Match(a, rows, clock, taken)
  PROVE  /\ "missing_bank_credit" \in found.reasons => found.accepted = NoBank
         /\ found.accepted = NoBank =>
              \/ "missing_bank_credit" \in found.reasons
              \/ "insufficient_uniqueness" \in found.reasons
  <1> DEFINE exact == UsableExact(a, rows, clock, taken)
             fallback == PlausibleFallback(a, rows, clock, taken)
  <1>1. /\ found.accepted = Accepted(a, exact)
        /\ found.reasons = MatchReasons(a, exact, fallback)
    BY DEF Match
  <1> HIDE DEF exact, fallback
  <1> QED BY <1>1 DEF MatchReasons
LEMMA NextMatch ==
  ASSUME IInv, MatchInv, [Next]_vars
  PROVE  MatchInv'
  <1>0. book' = book /\ read' = read
    BY BookStays DEF IInv
  <1>1. CASE MatchBank
    <2>1. match' = Match(Agg(current'), read.bank, book.clock, Consumed)
      BY <1>1 DEF MatchBank
    <2>2. Agg(current)' = Agg(current')
      BY <1>0 DEF Agg, Ms
    <2> QED BY <1>0, <2>1, <2>2 DEF MatchInv
  <1>2. CASE Assign \/ BookCharges \/ UNCHANGED vars
    <2>1. /\ current' = current /\ match' = match
          /\ phase' \in {"assign", "decide"} => phase \in {"assign", "decide"}
      BY <1>2 DEF Assign, BookCharges, vars, working
    <2>2. Agg(current)' = Agg(current)
      BY <1>0, <2>1 DEF Agg, Ms
    <2> QED BY <1>0, <2>1, <2>2 DEF MatchInv
  <1>3. CASE Group \/ DeadlineOverflows \/ Decide \/ RejectRows \/ Close
    <2>1. phase' \notin {"assign", "decide"}
      BY <1>3, OnwardType DEF Group, DeadlineOverflows, Decide, RejectRows,
                              Close
    <2> QED BY <2>1 DEF MatchInv
  <1> QED BY <1>1, <1>2, <1>3 DEF Next

\* What is decided of an aggregate stays as it was decided.
LEMMA DecidedStays ==
  ASSUME IInv, [Next]_vars
  PROVE  \A r \in results :
            /\ r.key \in AllKeys \ todo
            /\ links'[r.key] = links[r.key] /\ Agg(r.key)' = Agg(r.key)
            /\ Ms(r.key)' = Ms(r.key) /\ Lines(r.key)' = Lines(r.key)
            /\ Dups(r.key)' = Dups(r.key)
  <1> SUFFICES ASSUME NEW r \in results
               PROVE  /\ r.key \in AllKeys \ todo
                      /\ links'[r.key] = links[r.key] /\ Agg(r.key)' = Agg(r.key)
                      /\ Ms(r.key)' = Ms(r.key) /\ Lines(r.key)' = Lines(r.key)
                      /\ Dups(r.key)' = Dups(r.key)
    OBVIOUS
  <1>1. \A k : Ms(k)' = Ms(k) /\ Lines(k)' = Lines(k) /\ Dups(k)' = Dups(k)
    BY BookStays DEF IInv
  <1>2. read' = read
    BY BookStays DEF IInv
  <1>3. Agg(r.key)' = Agg(r.key) /\ Ms(r.key)' = Ms(r.key)
        /\ Lines(r.key)' = Lines(r.key) /\ Dups(r.key)' = Dups(r.key)
    BY <1>2 DEF Agg, Ms, Lines, Dups
  <1>4. r.key \in AllKeys \ todo
    BY DEF IInv, TypeOK
  <1>5. links'[r.key] = links[r.key]
    <2>1. CASE MatchBank
      <3>1. current' \in todo /\ links' = [links EXCEPT ![current'] = match'.accepted]
        BY <2>1, MatchTakes DEF MatchBank
      <3>2. r.key \in Key /\ links \in [Key -> BankId \cup {NoBank}]
        BY <1>4, ReadType DEF IInv, TypeOK
      <3> QED BY <1>4, <3>1, <3>2
    <2>2. CASE ~MatchBank
      BY <2>2 DEF Next, Group, DeadlineOverflows, Assign, BookCharges, Decide,
                  RejectRows, Close, vars
    <2> QED BY <2>1, <2>2
  <1> QED BY <1>3, <1>4, <1>5

\* What the absence of ledger reasons says of the ledger of a settlement.
LEMMA LedgerSoundness ==
  ASSUME LedgerReasons = {}, match.accepted # NoBank
  PROVE  LET all == Lines(current) \cup Dups(current) IN
         /\ Unbalanced(all) = {}
         /\ SettlementPosted(all, Agg(current).net)
         /\ ClearingResidual(all) = 0
  <1> DEFINE all == Lines(current) \cup Dups(current)
             reasons == SettlementReasons(all, Agg(current).net,
                          match.accepted # NoBank, RepeatedLine(current),
                          control.missing, control.fee, control.tax)
  <1>1. reasons = {}
    BY DEF LedgerReasons
  <1>2. ~RepeatedLine(current) /\ ~control.missing /\ Unbalanced(all) = {}
    BY <1>1 DEF SettlementReasons, Given
  <1>3. SettlementPosted(all, Agg(current).net)
    BY <1>1 DEF SettlementReasons, Given
  <1>4. ClearingResidual(all) = 0
    BY <1>1, <1>2 DEF SettlementReasons, Given
  <1> QED BY <1>2, <1>3, <1>4
\* Nothing is cleared in spite of an integrity reason, or without a bank row.
LEMMA ClearedDecision ==
  ASSUME NEW reasons, reasons = Reasons(LedgerReasons),
         Resolution(Integrity(LedgerReasons, reasons), reasons) \in Cleared
  PROVE  /\ match.accepted # NoBank /\ LedgerReasons = {} /\ AllVerified(assigned)
  <1>1. Integrity(LedgerReasons, reasons) = {} /\ match.accepted # NoBank
    BY DEF Resolution, Cleared
  <1>2. LedgerReasons = {} /\ "required_ledger_evidence_missing" \notin reasons
    BY <1>1 DEF Integrity
  <1>3. AllVerified(assigned)
    BY <1>2 DEF Reasons, Given
  <1> QED BY <1>1, <1>2, <1>3

LEMMA NextClearedIsProven ==
  ASSUME IInv, MatchInv, ClearedIsProven, [Next]_vars
  PROVE  ClearedIsProven'
  <1> DEFINE Proven(k, xs) ==
        LET all == Lines(k) \cup Dups(k) IN
        /\ \E b \in read.bank :
              /\ links[k] = b.id
              /\ Agg(k).utrs = {b.utr}
              /\ ControlsOk(Agg(k), b, book.clock)
        /\ {x.movement : x \in xs} = Ms(k)
        /\ AllVerified(xs)
        /\ Unbalanced(all) = {}
        /\ SettlementPosted(all, Agg(k).net)
        /\ ClearingResidual(all) = 0
  <1>1. ASSUME NEW r \in results, r.state \in Cleared
        PROVE  Proven(r.key, r.assigned)'
    <2>1. Proven(r.key, r.assigned)
      BY <1>1 DEF ClearedIsProven
    <2>2. /\ links'[r.key] = links[r.key] /\ Agg(r.key)' = Agg(r.key)
          /\ Ms(r.key)' = Ms(r.key) /\ Lines(r.key)' = Lines(r.key)
          /\ Dups(r.key)' = Dups(r.key)
      BY <1>1, DecidedStays
    <2>3. book' = book /\ read' = read
      BY BookStays DEF IInv
    <2> QED BY <2>1, <2>2, <2>3
  <1>2. CASE Decide
    <2>1. PICK ledger, reasons, state :
             /\ ledger = LedgerReasons /\ reasons = Reasons(ledger)
             /\ state = Resolution(Integrity(ledger, reasons), reasons)
             /\ results' = results \cup {Result(ledger, reasons, state)}
      BY <1>2, DecideStep
    <2> DEFINE new == Result(ledger, reasons, state)
    <2>2. new.key = current /\ new.state = state /\ new.assigned = assigned
      BY DEF Result
    <2>3. ASSUME state \in Cleared PROVE Proven(current, assigned)
      <3>1. match.accepted # NoBank /\ LedgerReasons = {} /\ AllVerified(assigned)
        BY <2>1, <2>3, ClearedDecision
      <3>2. phase = "decide"
        BY <1>2 DEF Decide
      <3>3. PICK taken : match = Match(Agg(current), read.bank, book.clock, taken)
        BY <3>2 DEF MatchInv
      <3>4. current \in AllKeys
        BY <3>2, CurrentType
      <3>5. \E b \in read.bank :
              /\ match.accepted = b.id /\ Agg(current).utrs = {b.utr}
              /\ ControlsOk(Agg(current), b, book.clock)
        BY <3>1, <3>3, <3>4, AggregateType, MatchSound DEF IInv
      <3>6. links[current] = match.accepted
            /\ {x.movement : x \in assigned} = Ms(current)
        BY <3>2 DEF IInv, LinksInv, AssignedInv
      <3> QED BY <3>1, <3>5, <3>6, LedgerSoundness
    <2>4. /\ links' = links /\ current' = current /\ assigned' = assigned
          /\ book' = book /\ read' = read
      BY <1>2, BookStays DEF Decide, working, IInv
    <2>5. ASSUME state \in Cleared PROVE Proven(current, assigned)'
      <3>1. Agg(current)' = Agg(current) /\ Ms(current)' = Ms(current)
            /\ Lines(current)' = Lines(current) /\ Dups(current)' = Dups(current)
        BY <2>4 DEF Agg, Ms, Lines, Dups
      <3> QED BY <2>3, <2>4, <2>5, <3>1
    <2> HIDE DEF new, Proven
    <2>6. ASSUME NEW r \in results', r.state \in Cleared
          PROVE  Proven(r.key, r.assigned)'
      <3>1. CASE r \in results
        BY <1>1, <2>6, <3>1
      <3>2. CASE r = new
        BY <2>2, <2>4, <2>5, <2>6, <3>2 DEF Proven
      <3> QED BY <2>1, <2>6, <3>1, <3>2 DEF new
    <2> QED BY <2>6 DEF ClearedIsProven, Proven
  <1>3. CASE ~Decide
    <2>1. results' = results
      BY <1>3 DEF Next, Group, DeadlineOverflows, MatchBank, Assign,
                  BookCharges, RejectRows, Close, vars
    <2> QED BY <1>1, <2>1 DEF ClearedIsProven
  <1> QED BY <1>2, <1>3
-----------------------------------------------------------------------------
(***************************************************************************)
(* Missing credits                                                         *)
(***************************************************************************)
LedgerReason == {
    "ledger_evidence_ambiguous", "ledger_evidence_reused",
    "ledger_line_duplicated", "journal_unbalanced",
    "ledger_account_role_mismatch", "ledger_direction_mismatch",
    "ledger_line_missing", "amount_mismatch", "fee_booking_mismatch",
    "tax_booking_mismatch", "unknown_account_role",
    "required_ledger_evidence_missing", "clearing_residual"}

\* The ledger controls give reasons of the ledger only.
ControlInv ==
    /\ control.reasons \subseteq LedgerReason
    /\ \E why, missing, fee, tax : control =
          [reasons |-> why, missing |-> missing, fee |-> fee, tax |-> tax]

LEMMA MovementReasonsType ==
  ASSUME NEW m, NEW lines, NEW dups, NEW taken
  PROVE  MovementReasons(m, lines, dups, taken) \subseteq LedgerReason
  BY DEF MovementReasons, Given, LedgerReason

LEMMA NextControl ==
  ASSUME ControlInv, [Next]_vars
  PROVE  ControlInv'
  <1>1. CASE MatchBank
    BY <1>1 DEF MatchBank, NoControl, ControlInv
  <1>2. CASE Assign
    <2>1. PICK m, missing, fee, tax : control' =
             [reasons |-> control.reasons
                 \cup MovementReasons(m, Lines(current), Dups(current), used),
              missing |-> missing, fee |-> fee, tax |-> tax]
      BY <1>2 DEF Assign
    <2> QED BY <2>1, MovementReasonsType DEF ControlInv
  <1>3. CASE BookCharges
    <2>1. PICK ambiguous, fee, tax : control' = [control EXCEPT
             !.reasons = @ \cup Given("ledger_evidence_ambiguous", ambiguous),
             !.fee = fee, !.tax = tax]
      BY <1>3 DEF BookCharges
    <2>2. PICK why, missing, f, t :
             control = [reasons |-> why, missing |-> missing, fee |-> f, tax |-> t]
      BY DEF ControlInv
    <2>3. why \subseteq LedgerReason
      BY <2>2 DEF ControlInv
    <2>4. control' = [reasons |-> why \cup Given("ledger_evidence_ambiguous", ambiguous),
                      missing |-> missing, fee |-> fee, tax |-> tax]
      BY <2>1, <2>2
    <2>5. Given("ledger_evidence_ambiguous", ambiguous) \subseteq LedgerReason
      BY DEF Given, LedgerReason
    <2> QED BY <2>3, <2>4, <2>5 DEF ControlInv
  <1>4. CASE Group \/ DeadlineOverflows \/ Decide \/ RejectRows \/ Close \/ UNCHANGED vars
    BY <1>4 DEF Group, DeadlineOverflows, Decide, RejectRows, Close, vars,
                working, ControlInv
  <1> QED BY <1>1, <1>2, <1>3, <1>4 DEF Next

LEMMA LedgerReasonsType ==
  ASSUME ControlInv
  PROVE  LedgerReasons \subseteq LedgerReason
  BY DEF LedgerReasons, SettlementReasons, Given, LedgerReason, ControlInv

\* How a settlement without a bank row is decided.
LEMMA UnbankedDecision ==
  ASSUME ControlInv, NEW reasons, reasons = Reasons(LedgerReasons),
         NEW state, state = Resolution(Integrity(LedgerReasons, reasons), reasons),
         "missing_bank_credit" \in reasons,
         "missing_bank_credit" \in match.reasons => match.accepted = NoBank,
         match.within \/ match.overdue
  PROVE  /\ state \in {"pending_within_sla", "critical_exception"}
         /\ match.overdue => state = "critical_exception"
  <1>1. "missing_bank_credit" \in match.reasons
    BY LedgerReasonsType DEF Reasons, Given, LedgerReason
  <1>2. match.within => "pending_within_sla" \in reasons
    BY <1>1 DEF Reasons, Given
  <1>3. match.overdue => "overdue_bank_credit_missing" \in reasons
    BY <1>1 DEF Reasons, Given
  <1>4. match.overdue => Integrity(LedgerReasons, reasons) # {}
    BY <1>3 DEF Integrity
  <1> QED BY <1>1, <1>2, <1>4 DEF Resolution

LEMMA NextMissingCredit ==
  ASSUME IInv, MatchInv, ControlInv, MissingCreditIsTimed, [Next]_vars
  PROVE  MissingCreditIsTimed'
  <1>1. ASSUME NEW r \in results, "missing_bank_credit" \in r.reasons
        PROVE  /\ r.state \in {"pending_within_sla", "critical_exception"}
               /\ book'.clock > Agg(r.key)'.at + Sla => r.state = "critical_exception"
    BY <1>1, DecidedStays, BookStays DEF MissingCreditIsTimed, IInv
  <1>2. CASE Decide
    <2>1. PICK ledger, reasons, state :
             /\ ledger = LedgerReasons /\ reasons = Reasons(ledger)
             /\ state = Resolution(Integrity(ledger, reasons), reasons)
             /\ results' = results \cup {Result(ledger, reasons, state)}
      BY <1>2, DecideStep
    <2> DEFINE new == Result(ledger, reasons, state)
    <2>2. new.key = current /\ new.state = state /\ new.reasons = reasons
      BY DEF Result
    <2>3. PICK taken : match = Match(Agg(current), read.bank, book.clock, taken)
      BY <1>2 DEF MatchInv, Decide
    <2>4. current \in AllKeys
      BY <1>2, CurrentType DEF Decide
    <2>5. book.clock \in Int /\ Agg(current).at \in Int /\ Sla \in Int
      BY <2>4, AggregateType, InputAssumption DEF IInv, BookIsRead
    <2>6. /\ match.within = WithinSla(Agg(current), book.clock)
          /\ match.overdue = Overdue(Agg(current), book.clock)
      BY <2>3, <2>4, AggregateType, MatchSound DEF IInv
    <2>7. ASSUME "missing_bank_credit" \in reasons
          PROVE  /\ state \in {"pending_within_sla", "critical_exception"}
                 /\ book.clock > Agg(current).at + Sla => state = "critical_exception"
      <3>1. match.within \/ match.overdue
        <4>1. \/ WithinSla(Agg(current), book.clock)
              \/ Overdue(Agg(current), book.clock)
          BY <2>5 DEF WithinSla, Overdue
        <4> QED BY <2>6, <4>1, Zenon
      <3>2. "missing_bank_credit" \in match.reasons => match.accepted = NoBank
        BY <2>3, MatchReasoned
      <3>3. /\ state \in {"pending_within_sla", "critical_exception"}
            /\ match.overdue => state = "critical_exception"
        BY <2>1, <2>7, <3>1, <3>2, UnbankedDecision
      <3> QED BY <2>6, <3>3 DEF Overdue
    <2>8. book'.clock = book.clock /\ Agg(current)' = Agg(current)
      <3>1. book' = book /\ read' = read /\ current' = current
        BY <1>2, BookStays DEF IInv, Decide
      <3> QED BY <3>1 DEF Agg, Ms
    <2> HIDE DEF new
    <2>9. ASSUME NEW r \in results', "missing_bank_credit" \in r.reasons
          PROVE  /\ r.state \in {"pending_within_sla", "critical_exception"}
                 /\ book'.clock > Agg(r.key)'.at + Sla => r.state = "critical_exception"
      <3>1. CASE r \in results
        BY <1>1, <2>9, <3>1
      <3>2. CASE r = new
        <4>1. Agg(r.key)' = Agg(current)'
          <5>1. current' = current /\ r.key = current
            BY <1>2, <2>2, <3>2 DEF Decide
          <5> QED BY <5>1 DEF Agg, Ms
        <4> QED BY <2>2, <2>7, <2>8, <2>9, <3>2, <4>1
      <3> QED BY <2>1, <2>9, <3>1, <3>2 DEF new
    <2> QED BY <2>9 DEF MissingCreditIsTimed
  <1>3. CASE ~Decide
    <2>1. results' = results
      BY <1>3 DEF Next, Group, DeadlineOverflows, MatchBank, Assign,
                  BookCharges, RejectRows, Close, vars
    <2> QED BY <1>1, <2>1 DEF MissingCreditIsTimed
  <1> QED BY <1>2, <1>3
-----------------------------------------------------------------------------
(***************************************************************************)
(* Exceptions                                                              *)
(***************************************************************************)
Explanation == {"exact_evidence_verified", "fee_tax_netted", "refund_netted"}

Of(r) == {e \in exceptions : e.source = SettlementSource(r.key)}

\* A cleared settlement has no exception, any other one that is not a row's,
\* and all of its exceptions block, or all of them do not.
Explained(r) ==
    /\ r.state \in Cleared => Of(r) = {}
    /\ r.state \notin Cleared => \E e \in Of(r) : e.reason \notin RowReason
    /\ \A e \in Of(r) :
          e.blocking <=> BlockingState(r.state, Agg(r.key).net)

NamedInv ==
    /\ \A r \in results : Explained(r)
    /\ \A e \in exceptions :
          \/ \E r \in results : e.source = SettlementSource(r.key)
          \/ \E x \in read.refused : e.source = RowSource(x)

\* Whatever is not cleared has a reason that is no explanation.
LEMMA UnclearedDecision ==
  ASSUME ControlInv, NEW reasons, reasons = Reasons(LedgerReasons),
         NEW state, state = Resolution(Integrity(LedgerReasons, reasons), reasons),
         match.accepted = NoBank =>
              \/ "missing_bank_credit" \in match.reasons
              \/ "insufficient_uniqueness" \in match.reasons,
         state \notin Cleared
  PROVE  \E reason \in reasons \ Explanation : reason \notin RowReason
  <1> DEFINE integrity == Integrity(LedgerReasons, reasons)
  <1>1. match.reasons \subseteq reasons /\ LedgerReasons \subseteq reasons
    BY DEF Reasons
  <1>2. CASE integrity # {}
    <2>1. integrity \subseteq reasons
      BY <1>1 DEF Integrity
    <2>2. integrity \cap (Explanation \cup RowReason) = {}
      BY LedgerReasonsType DEF Integrity, LedgerReason, Explanation, RowReason
    <2> QED BY <1>2, <2>1, <2>2
  <1>3. CASE integrity = {}
    <2>1. \/ "pending_within_sla" \in reasons
          \/ match.accepted = NoBank
      BY <1>3 DEF Resolution, Cleared
    <2>2. \/ "pending_within_sla" \in reasons
          \/ "missing_bank_credit" \in reasons
          \/ "insufficient_uniqueness" \in reasons
      BY <1>1, <2>1
    <2> QED BY <2>2 DEF Explanation, RowReason
  <1> QED BY <1>2, <1>3

\* The exceptions of the settlement that is decided.
LEMMA NewExceptions ==
  ASSUME NEW k, NEW state, NEW reasons, NEW new,
         new = SettlementExceptions(k, state, reasons),
         state \notin Cleared =>
             \E reason \in reasons \ Explanation : reason \notin RowReason
  PROVE  /\ \A e \in new : e.source = SettlementSource(k)
         /\ state \in Cleared => new = {}
         /\ state \notin Cleared => \E e \in new : e.reason \notin RowReason
         /\ \A e \in new : e.blocking <=> BlockingState(state, Agg(k).net)
  <1>1. CASE state \in Cleared
    BY <1>1 DEF SettlementExceptions
  <1>2. CASE state \notin Cleared
    <2>1. new = {[source |-> SettlementSource(k), reason |-> reason,
                  blocking |-> BlockingState(state, Agg(k).net)] :
                    reason \in reasons \ Explanation}
      BY <1>2 DEF SettlementExceptions, Explanation
    <2>2. PICK reason \in reasons \ Explanation : reason \notin RowReason
      BY <1>2
    <2>3. \E e \in new : e.reason \notin RowReason
      <3> DEFINE e == [source |-> SettlementSource(k), reason |-> reason,
                       blocking |-> BlockingState(state, Agg(k).net)]
      <3>1. e \in new /\ e.reason = reason
        BY <2>1
      <3> QED BY <2>2, <3>1
    <2>4. \A e \in new : e.blocking = BlockingState(state, Agg(k).net)
      BY <2>1
    <2>5. \A e \in new : e.blocking <=> BlockingState(state, Agg(k).net)
      BY <2>4, Zenon
    <2> QED BY <1>2, <2>1, <2>3, <2>5
  <1> QED BY <1>1, <1>2

LEMMA SourcesDiffer ==
  /\ \A j, k \in Nat \X Nat : SettlementSource(j) = SettlementSource(k) => j = k
  /\ \A x, k : RowSource(x) # SettlementSource(k)
  <1>1. ASSUME NEW j \in Nat \X Nat, NEW k \in Nat \X Nat,
               SettlementSource(j) = SettlementSource(k)
        PROVE  j = k
    <2>1. j[1] = k[1] /\ j[2] = k[2]
      BY <1>1 DEF SettlementSource
    <2> QED BY <2>1
  <1>2. ASSUME NEW x, NEW k PROVE RowSource(x) # SettlementSource(k)
    <2>1. DOMAIN RowSource(x) = 1 .. 2 /\ DOMAIN SettlementSource(k) = 1 .. 3
      BY DEF RowSource, SettlementSource
    <2>2. 3 \in 1 .. 3 /\ 3 \notin 1 .. 2
      OBVIOUS
    <2> QED BY <2>1, <2>2
  <1> QED BY <1>1, <1>2

\* What blocks does not depend on where the engine is.
LEMMA BlockingStays ==
  ASSUME read' = read, NEW state, NEW k
  PROVE  BlockingState(state, Agg(k).net)' <=> BlockingState(state, Agg(k).net)
  <1>1. BatchTotal' = BatchTotal /\ Agg(k)' = Agg(k)
    BY DEF BatchTotal, Agg, Ms
  <1> QED BY <1>1 DEF BlockingState, IsMaterial

LEMMA NextNamed ==
  ASSUME IInv, MatchInv, ControlInv, NamedInv, [Next]_vars
  PROVE  NamedInv'
  <1>0. book' = book /\ read' = read /\ AllKeys \subseteq Nat \X Nat
    BY BookStays, ReadType DEF IInv
  <1>1. CASE Decide
    <2>1. PICK ledger, reasons, state :
             /\ ledger = LedgerReasons /\ reasons = Reasons(ledger)
             /\ state = Resolution(Integrity(ledger, reasons), reasons)
             /\ results' = results \cup {Result(ledger, reasons, state)}
             /\ exceptions' =
                   exceptions \cup SettlementExceptions(current, state, reasons)
      BY <1>1, DecideStep
    <2>14. PICK result, new, k :
              /\ result = Result(ledger, reasons, state)
              /\ new = SettlementExceptions(current, state, reasons)
              /\ k = current
      OBVIOUS
    <2>2. result.key = k /\ result.state = state
      BY <2>14 DEF Result
    <2>3. k \in AllKeys /\ k \in todo
      BY <1>1, <2>14, CurrentType DEF Decide
    <2>4. state \notin Cleared =>
             \E reason \in reasons \ Explanation : reason \notin RowReason
      <3>1. PICK taken : match = Match(Agg(current), read.bank, book.clock, taken)
        BY <1>1 DEF MatchInv, Decide
      <3>2. match.accepted = NoBank =>
              \/ "missing_bank_credit" \in match.reasons
              \/ "insufficient_uniqueness" \in match.reasons
        BY <3>1, MatchReasoned
      <3> QED BY <2>1, <3>2, UnclearedDecision
    <2>5. /\ \A e \in new : e.source = SettlementSource(k)
          /\ state \in Cleared => new = {}
          /\ state \notin Cleared => \E e \in new : e.reason \notin RowReason
          /\ \A e \in new : e.blocking <=> BlockingState(state, Agg(k).net)
      BY <2>4, <2>14, NewExceptions
    <2>6. results' = results \cup {result} /\ exceptions' = exceptions \cup new
      BY <2>1, <2>14
    <2>7. \A r \in results : r.key \in AllKeys /\ r.key # k
      BY <2>3 DEF IInv, TypeOK
    <2>8. ASSUME NEW r \in results PROVE Of(r)' = Of(r)
      <3>1. SettlementSource(r.key) # SettlementSource(k)
        BY <1>0, <2>3, <2>7, SourcesDiffer
      <3> QED BY <2>5, <2>6, <3>1 DEF Of, SettlementSource
    <2>9. Of(result)' = new
      <3>1. \A e \in exceptions : e.source # SettlementSource(k)
        BY <1>0, <2>3, <2>7, SourcesDiffer DEF NamedInv
      <3> QED BY <2>2, <2>5, <2>6, <3>1 DEF Of, SettlementSource
    <2>11. ASSUME NEW r \in results PROVE Explained(r)'
      <3>1. Explained(r) /\ Of(r)' = Of(r)
        BY <2>8 DEF NamedInv
      <3>2. BlockingState(r.state, Agg(r.key).net)' <=> BlockingState(r.state, Agg(r.key).net)
        BY <1>0, BlockingStays
      <3> QED BY <3>1, <3>2 DEF Explained
    <2>12. Explained(result)'
      <3>1. BlockingState(state, Agg(k).net)' <=> BlockingState(state, Agg(k).net)
        BY <1>0, BlockingStays
      <3>2. BlockingState(result.state, Agg(result.key).net)'
               <=> BlockingState(state, Agg(k).net)
        BY <2>2, <3>1
      <3> QED BY <2>2, <2>5, <2>9, <3>2 DEF Explained
    <2>13. \A e \in exceptions' :
              \/ \E r \in results' : e.source = SettlementSource(r.key)
              \/ \E x \in read'.refused : e.source = RowSource(x)
      BY <1>0, <2>2, <2>5, <2>6 DEF NamedInv
    <2>15. \A r \in results' : Explained(r)'
      BY <2>6, <2>11, <2>12
    <2> QED BY <2>13, <2>15 DEF NamedInv, SettlementSource, RowSource
  <1>2. CASE RejectRows
    <2>1. /\ exceptions \subseteq exceptions'
          /\ \A e \in exceptions' :
                e \in exceptions \/ \E x \in read.refused : e.source = RowSource(x)
      BY <1>2 DEF RejectRows
    <2>2. results' = results
      BY <1>2 DEF RejectRows
    <2>3. ASSUME NEW r \in results PROVE Explained(r)'
      <3>1. Of(r)' = Of(r)
        BY <2>1, SourcesDiffer DEF Of, SettlementSource
      <3>2. BlockingState(r.state, Agg(r.key).net)' <=> BlockingState(r.state, Agg(r.key).net)
        BY <1>0, BlockingStays
      <3> QED BY <3>1, <3>2 DEF Explained, NamedInv
    <2>4. \A e \in exceptions' :
              \/ \E r \in results' : e.source = SettlementSource(r.key)
              \/ \E x \in read'.refused : e.source = RowSource(x)
      BY <1>0, <2>1, <2>2 DEF NamedInv
    <2> QED BY <2>2, <2>3, <2>4 DEF NamedInv, SettlementSource, RowSource
  <1>3. CASE ~Decide /\ ~RejectRows
    <2>1. results' = results /\ exceptions' = exceptions
      BY <1>3 DEF Next, Group, DeadlineOverflows, MatchBank, Assign,
                  BookCharges, Close, vars
    <2>2. ASSUME NEW r \in results PROVE Explained(r)'
      <3>1. Of(r)' = Of(r)
        BY <2>1 DEF Of, SettlementSource
      <3>2. BlockingState(r.state, Agg(r.key).net)' <=> BlockingState(r.state, Agg(r.key).net)
        BY <1>0, BlockingStays
      <3> QED BY <3>1, <3>2 DEF Explained, NamedInv
    <2> QED BY <1>0, <2>1, <2>2 DEF NamedInv, SettlementSource, RowSource
  <1> QED BY <1>1, <1>2, <1>3

LEMMA NamedIsNamed ==
  ASSUME NamedInv
  PROVE  UnclearedIsNamed
  BY DEF NamedInv, Explained, Of, UnclearedIsNamed, BlockingState, Cleared

-----------------------------------------------------------------------------
(***************************************************************************)
(* What the engine decides                                                 *)
(***************************************************************************)
Decisions ==
    /\ MatchInv /\ ControlInv /\ NamedInv
    /\ ClearedIsProven /\ MissingCreditIsTimed

LEMMA InitDecisions == Init => Decisions
  <1>1. Init => MatchInv
    BY DEF Init, MatchInv
  <1>2. ASSUME Init PROVE ControlInv
    <2>1. control = [reasons |-> {}, missing |-> FALSE, fee |-> FALSE, tax |-> FALSE]
      BY <1>2 DEF Init, NoControl
    <2> QED BY <2>1 DEF ControlInv
  <1>3. Init => NamedInv /\ ClearedIsProven /\ MissingCreditIsTimed
    BY DEF Init, NamedInv, ClearedIsProven, MissingCreditIsTimed
  <1> QED BY <1>1, <1>2, <1>3 DEF Decisions

\* Each part of it is kept by every step, given the others.
THEOREM DecisionInvariance == Spec => []Decisions
  <1>1. IInv /\ Decisions /\ [Next]_vars => Decisions'
    BY NextMatch, NextControl, NextNamed, NextClearedIsProven, NextMissingCredit
       DEF Decisions
  <1> QED BY InitDecisions, Invariance, <1>1, PTL DEF Spec

\* A settlement is cleared only on one bank row that passes every control and on
\* its only reference, with every movement verified and its ledger balanced,
\* posted and clear: resolution_state_precedence hides no failure, for any book.
THEOREM ClearedProven == Spec => []ClearedIsProven
  <1>1. Decisions => ClearedIsProven
    BY DEF Decisions
  <1> QED BY <1>1, DecisionInvariance, PTL

\* A missing credit is pending or critical, never left to a review, and critical
\* once the deadline has passed.
THEOREM MissingCreditTimed == Spec => []MissingCreditIsTimed
  <1>1. Decisions => MissingCreditIsTimed
    BY DEF Decisions
  <1> QED BY <1>1, DecisionInvariance, PTL

\* A settlement has an exception exactly when it is not cleared; a critical one
\* blocks the close and a pending one does not.
THEOREM UnclearedNamed == Spec => []UnclearedIsNamed
  <1>1. Decisions => UnclearedIsNamed
    BY NamedIsNamed DEF Decisions
  <1> QED BY <1>1, DecisionInvariance, PTL
=============================================================================
