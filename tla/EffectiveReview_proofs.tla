----------------------- MODULE EffectiveReview_proofs -----------------------
(***************************************************************************)
(* Proofs about EffectiveReview, for any base results, settlements, bank   *)
(* records and concurrent reviews.                                         *)
(***************************************************************************)
EXTENDS EffectiveReview, TLAPS

\* What a review collects belongs to its phase, and the decisions it found on
\* its arrival stand.
PhaseInv ==
    \A c \in Reader :
        /\ pc[c] \in {"received", "not_found"} => seen[c] = <<>>
        /\ pc[c] \in {"received", "not_found", "projecting"} =>
              shown[c] = <<>>
        /\ DOMAIN shown[c] \subseteq DOMAIN Listed(c)
        /\ \A s \in Settlement :
              before[c][s] # NoBank => Accepted(s) = before[c][s]

\* A review answered before another arrived projected only decisions that the
\* other found.
EarlierInv ==
    \A d \in Reader : \A c \in earlier[d] :
        /\ pc[c] = "done"
        /\ \A i \in Index : seen[c][i] # NoBank =>
              before[d][result.settlements[i].id] = seen[c][i]

IInv == TypeOK /\ PhaseInv /\ ReviewIsRecent /\ EarlierInv

-----------------------------------------------------------------------------
LEMMA ResultType ==
  ASSUME TypeOK
  PROVE  /\ result.settlements \in Seq(SettlementResult)
         /\ result.rows \subseteq RowException
         /\ Index = 1 .. Len(result.settlements)
         /\ Len(result.settlements) \in Nat
         /\ \A i \in Index : /\ result.settlements[i] \in SettlementResult
                             /\ result.settlements[i].id \in Settlement
                             /\ ExceptionsFitState(result.settlements[i])
         /\ Ids \subseteq Settlement
  <1>1. result \in Results /\ result \in ReconciliationResult
    BY ReviewAssumption DEF TypeOK
  <1>2. /\ result.settlements \in Seq(SettlementResult)
        /\ result.rows \subseteq RowException
    BY <1>1 DEF ReconciliationResult
  <1>3. /\ Index = 1 .. Len(result.settlements)
        /\ Len(result.settlements) \in Nat
    BY <1>2 DEF Index
  <1>4. \A i \in Index : result.settlements[i] \in SettlementResult
    BY <1>2, <1>3
  <1>5. \A i \in Index : result.settlements[i].id \in Settlement
    BY <1>4 DEF SettlementResult
  <1>6. \A i \in Index : ExceptionsFitState(result.settlements[i])
    BY <1>1, ReviewAssumption DEF Index
  <1> QED
    BY <1>2, <1>3, <1>4, <1>5, <1>6 DEF Ids

\* Decisions are added and never changed; what is reviewed stays the same.
LEMMA DecisionsStand ==
  ASSUME TypeOK, [Next]_vars
  PROVE  /\ result' = result /\ target' = target
         /\ evidence' \in [{batch} \X Settlement -> Bank \cup {NoBank}]
         /\ \A s \in Settlement :
               Accepted(s) # NoBank => Accepted(s)' = Accepted(s)
  <1>1. CASE \E s \in Settlement : Finalize(s)
    <2>1. PICK s \in Settlement, x \in Bank :
             evidence[<<batch, s>>] = NoBank
             /\ evidence' = [evidence EXCEPT ![<<batch, s>>] = x]
             /\ result' = result /\ target' = target
      BY <1>1 DEF Finalize, Decisions!Accept
    <2>2. evidence \in [{batch} \X Settlement -> Bank \cup {NoBank}]
      BY DEF TypeOK
    <2> QED
      BY <2>1, <2>2 DEF Accepted
  <1>2. CASE evidence' = evidence /\ result' = result /\ target' = target
    BY <1>2 DEF Accepted, TypeOK
  <1> QED
    BY <1>1, <1>2 DEF Next, Receive, Project, Show, vars

\* A reading of the decisions gives a bank record or none.
LEMMA AcceptedType ==
  ASSUME TypeOK, NEW s \in Settlement
  PROVE  Accepted(s) \in Bank \cup {NoBank}
  BY DEF TypeOK, Accepted

\* A review that shows anything shows known settlements.
LEMMA ListedType ==
  ASSUME TypeOK, NEW c \in Reader, pc[c] \in {"projecting", "showing", "done"},
         NEW n \in DOMAIN Listed(c)
  PROVE  Listed(c)[n] \in Settlement
  <1>1. CASE target[c] = AllReviews
    BY <1>1, ResultType DEF Listed
  <1>2. CASE target[c] # AllReviews
    BY <1>2, ResultType DEF Listed, TypeOK
  <1> QED
    BY <1>1, <1>2

-----------------------------------------------------------------------------
LEMMA InitInv == Init => IInv
  <1> SUFFICES ASSUME Init PROVE IInv
    OBVIOUS
  <1>1. \A c \in Reader : /\ pc[c] = "received" /\ seen[c] = <<>>
                          /\ shown[c] = <<>> /\ earlier[c] = {}
                          /\ \A s \in Settlement : before[c][s] = NoBank
    BY DEF Init
  <1>2. evidence \in [{batch} \X Settlement -> Bank \cup {NoBank}]
    BY DEF Init, Decisions!Init
  <1>3. result \in Results /\ result.settlements \in Seq(SettlementResult)
    BY ReviewAssumption DEF Init, ReconciliationResult
  <1>4. TypeOK
    BY <1>1, <1>2, <1>3 DEF Init, TypeOK
  <1> QED
    BY <1>1, <1>4 DEF IInv, PhaseInv, ReviewIsRecent,
                        RecentlySeen, RecentlyShown, EarlierInv

-----------------------------------------------------------------------------
\* Appending a reading to what a review has collected.
LEMMA AppendReading ==
  ASSUME NEW f \in [Reader -> Seq(Bank \cup {NoBank})], NEW c \in Reader,
         NEW x \in Bank \cup {NoBank},
         NEW g, g = [f EXCEPT ![c] = Append(@, x)]
  PROVE  /\ g \in [Reader -> Seq(Bank \cup {NoBank})]
         /\ \A d \in Reader : d # c => g[d] = f[d]
         /\ Len(g[c]) = Len(f[c]) + 1
         /\ DOMAIN g[c] = DOMAIN f[c] \cup {Len(f[c]) + 1}
         /\ \A i \in DOMAIN f[c] : g[c][i] = f[c][i]
         /\ g[c][Len(f[c]) + 1] = x
  <1>1. g[c] = Append(f[c], x) /\ f[c] \in Seq(Bank \cup {NoBank})
    OBVIOUS
  <1>2. Append(f[c], x) \in Seq(Bank \cup {NoBank})
    BY <1>1
  <1>3. g \in [Reader -> Seq(Bank \cup {NoBank})]
    BY <1>1, <1>2
  <1>4. /\ Len(g[c]) = Len(f[c]) + 1
        /\ DOMAIN g[c] = 1 .. Len(f[c]) + 1
        /\ DOMAIN f[c] = 1 .. Len(f[c])
        /\ Len(f[c]) \in Nat
    BY <1>1
  <1> QED
    BY <1>1, <1>3, <1>4

LEMMA NextType == IInv /\ [Next]_vars => TypeOK'
  <1> SUFFICES ASSUME IInv, [Next]_vars PROVE TypeOK'
    OBVIOUS
  <1> USE DEF IInv
  <1>1. /\ result' = result /\ target' = target
        /\ evidence' \in [{batch} \X Settlement -> Bank \cup {NoBank}]
    BY DecisionsStand
  <1>2. Ids' = Ids
    BY <1>1 DEF Ids, Index
  <1>3. CASE UNCHANGED <<pc, seen, shown, before, earlier>>
    BY <1>1, <1>2, <1>3 DEF TypeOK
  <1>4. CASE \E s \in Settlement : Finalize(s)
    BY <1>3, <1>4 DEF Finalize
  <1>5. ASSUME NEW c \in Reader, Receive(c) PROVE TypeOK'
    <2>1. \A s \in Settlement : Accepted(s) \in Bank \cup {NoBank}
      BY AcceptedType
    <2>2. before' \in [Reader -> [Settlement -> Bank \cup {NoBank}]]
      BY <1>5, <2>1 DEF Receive, TypeOK
    <2>3. pc'[c] = "projecting" => target[c] \in Ids \cup {AllReviews}
      BY <1>5 DEF Receive, TypeOK, Known
    <2>4. pc'[c] \in {"projecting", "not_found"}
      BY <1>5 DEF Receive, TypeOK
    <2>5. earlier' \in [Reader -> SUBSET Reader]
      BY <1>5 DEF Receive, TypeOK
    <2>6. /\ pc' = [pc EXCEPT ![c] = pc'[c]]
          /\ seen' = seen /\ shown' = shown
      BY <1>5 DEF Receive, TypeOK
    <2> QED
      BY <1>1, <1>2, <2>2, <2>3, <2>4, <2>5, <2>6 DEF TypeOK
  <1>6. ASSUME NEW c \in Reader, Project(c) PROVE TypeOK'
    <2> DEFINE n == Len(seen[c]) + 1
    <2>1. seen[c] \in Seq(Bank \cup {NoBank}) /\ Len(seen[c]) \in Nat
      BY DEF TypeOK
    <2>2. CASE n \in Index
      <3>1. result.settlements[n].id \in Settlement
        BY <2>2, ResultType
      <3> DEFINE x == Accepted(result.settlements[n].id)
      <3>2. x \in Bank \cup {NoBank}
        BY <3>1, AcceptedType
      <3>3. seen' = [seen EXCEPT ![c] = Append(@, x)] /\ pc' = pc
        BY <1>6, <2>2 DEF Project, Projected
      <3>4. seen \in [Reader -> Seq(Bank \cup {NoBank})]
        BY DEF TypeOK
      <3> HIDE DEF x
      <3>5. /\ seen' \in [Reader -> Seq(Bank \cup {NoBank})]
            /\ \A d \in Reader : d # c => seen'[d] = seen[d]
            /\ Len(seen'[c]) = n
        BY <3>2, <3>3, <3>4, AppendReading
      <3>6. n <= Len(result.settlements) /\ pc[c] = "projecting"
        BY <1>6, <2>2, ResultType DEF Project
      <3>7. shown' = shown /\ before' = before /\ earlier' = earlier
        BY <1>6 DEF Project
      <3> QED
        BY <1>1, <1>2, <3>3, <3>5, <3>6, <3>7 DEF TypeOK
    <2>3. CASE n \notin Index
      <3>1. pc' = [pc EXCEPT ![c] = "showing"] /\ seen' = seen
        BY <1>6, <2>3 DEF Project
      <3>2. Len(seen[c]) = Len(result.settlements)
        BY <2>1, <2>3, ResultType DEF TypeOK
      <3>3. shown' = shown /\ before' = before /\ earlier' = earlier
        BY <1>6 DEF Project
      <3>4. pc[c] = "projecting"
        BY <1>6 DEF Project
      <3> QED
        BY <1>1, <1>2, <3>1, <3>2, <3>3, <3>4 DEF TypeOK
    <2> QED
      BY <2>2, <2>3
  <1>7. ASSUME NEW c \in Reader, Show(c) PROVE TypeOK'
    <2> DEFINE n == Len(shown[c]) + 1
    <2>1. seen' = seen /\ before' = before /\ earlier' = earlier
      BY <1>7 DEF Show
    <2>2. pc[c] = "showing"
      BY <1>7 DEF Show
    <2>3. CASE n \in DOMAIN Listed(c)
      <3>1. Listed(c)[n] \in Settlement
        BY <2>2, <2>3, ListedType
      <3> DEFINE x == Accepted(Listed(c)[n])
      <3>2. x \in Bank \cup {NoBank}
        BY <3>1, AcceptedType
      <3>3. shown' = [shown EXCEPT ![c] = Append(@, x)] /\ pc' = pc
        BY <1>7, <2>3 DEF Show, Shown
      <3>4. shown \in [Reader -> Seq(Bank \cup {NoBank})]
        BY DEF TypeOK
      <3> HIDE DEF x
      <3>5. shown' \in [Reader -> Seq(Bank \cup {NoBank})]
        BY <3>2, <3>3, <3>4, AppendReading
      <3> QED
        BY <1>1, <1>2, <2>1, <3>3, <3>5 DEF TypeOK
    <2>4. CASE n \notin DOMAIN Listed(c)
      <3>1. pc' = [pc EXCEPT ![c] = "done"] /\ shown' = shown
        BY <1>7, <2>4 DEF Show
      <3> QED
        BY <1>1, <1>2, <2>1, <2>2, <3>1 DEF TypeOK
    <2> QED
      BY <2>3, <2>4
  <1> QED
    BY <1>3, <1>4, <1>5, <1>6, <1>7 DEF Next, vars

-----------------------------------------------------------------------------
LEMMA NextPhase == IInv /\ [Next]_vars => PhaseInv'
  <1> SUFFICES ASSUME IInv, [Next]_vars PROVE PhaseInv'
    OBVIOUS
  <1> USE DEF IInv
  <1>1. \A s \in Settlement : Accepted(s) # NoBank => Accepted(s)' = Accepted(s)
    BY DecisionsStand
  <1>a. \A c \in Reader : Listed(c)' = Listed(c)
    BY DecisionsStand DEF Listed, Index
  <1>2. CASE UNCHANGED <<pc, seen, shown, before>>
    BY <1>1, <1>2, <1>a DEF PhaseInv
  <1>3. CASE \E s \in Settlement : Finalize(s)
    BY <1>2, <1>3 DEF Finalize
  <1>4. ASSUME NEW c \in Reader, Receive(c) PROVE PhaseInv'
    <2>1. /\ seen' = seen /\ shown' = shown /\ pc[c] = "received"
          /\ before' = [before EXCEPT ![c] = [s \in Settlement |-> Accepted(s)]]
          /\ \A d \in Reader : d # c => pc'[d] = pc[d]
          /\ evidence' = evidence
      BY <1>4 DEF Receive, TypeOK
    <2>2. \A s \in Settlement : Accepted(s)' = Accepted(s)
      BY <2>1 DEF Accepted
    <2>3. seen[c] = <<>> /\ shown[c] = <<>>
      BY <2>1 DEF PhaseInv
    <2> QED
      BY <2>1, <2>2, <2>3, <1>a DEF PhaseInv, TypeOK
  <1>5. ASSUME NEW c \in Reader, Project(c) PROVE PhaseInv'
    <2>1. /\ shown' = shown /\ before' = before /\ pc[c] = "projecting"
          /\ \A d \in Reader : d # c => pc'[d] = pc[d] /\ seen'[d] = seen[d]
          /\ pc'[c] \in {"projecting", "showing"}
      BY <1>5 DEF Project, TypeOK
    <2> QED
      BY <1>1, <1>a, <2>1 DEF PhaseInv
  <1>6. ASSUME NEW c \in Reader, Show(c) PROVE PhaseInv'
    <2>1. /\ seen' = seen /\ before' = before /\ pc[c] = "showing"
          /\ \A d \in Reader : d # c => pc'[d] = pc[d] /\ shown'[d] = shown[d]
          /\ pc'[c] \in {"showing", "done"}
      BY <1>6 DEF Show, TypeOK
    <2>2. DOMAIN shown'[c] \subseteq DOMAIN Listed(c)
      <3> DEFINE n == Len(shown[c]) + 1
                 x == Shown(c, Listed(c)[n])
      <3>1. CASE n \in DOMAIN Listed(c)
        <4>1. x \in Bank \cup {NoBank}
          BY <2>1, <3>1, ListedType, AcceptedType DEF Shown
        <4>2. shown' = [shown EXCEPT ![c] = Append(@, x)]
          BY <1>6, <3>1 DEF Show
        <4>3. shown \in [Reader -> Seq(Bank \cup {NoBank})]
          BY DEF TypeOK
        <4> HIDE DEF x
        <4>4. DOMAIN shown'[c] = DOMAIN shown[c] \cup {n}
          BY <4>1, <4>2, <4>3, AppendReading
        <4> QED
          BY <3>1, <4>4 DEF PhaseInv
      <3>2. CASE n \notin DOMAIN Listed(c)
        BY <1>6, <3>2 DEF Show, PhaseInv
      <3> QED
        BY <3>1, <3>2
    <2> QED
      BY <1>1, <1>a, <2>1, <2>2 DEF PhaseInv
  <1> QED
    BY <1>2, <1>3, <1>4, <1>5, <1>6 DEF Next, vars

-----------------------------------------------------------------------------
\* A review the step does not work on stays recent: decisions stand.
LEMMA OthersStayRecent ==
  ASSUME TypeOK, PhaseInv, [Next]_vars, NEW c \in Reader,
         RecentlySeen(c), RecentlyShown(c),
         seen'[c] = seen[c], shown'[c] = shown[c], before'[c] = before[c]
  PROVE  RecentlySeen(c)' /\ RecentlyShown(c)'
  <1>1. /\ result' = result /\ target' = target
        /\ \A s \in Settlement :
              Accepted(s) # NoBank => Accepted(s)' = Accepted(s)
    BY DecisionsStand
  <1>2. /\ Len(seen[c]) \in Nat /\ DOMAIN seen[c] = 1 .. Len(seen[c])
        /\ Len(seen[c]) <= Len(result.settlements)
    BY DEF TypeOK
  <1>3. \A i \in DOMAIN seen[c] :
           i \in Index /\ result.settlements[i].id \in Settlement
    BY <1>2, ResultType
  <1>4. Listed(c)' = Listed(c)
    BY <1>1 DEF Listed, Index
  <1>5. RecentlySeen(c)'
    BY <1>1, <1>3 DEF RecentlySeen
  <1>6. CASE shown[c] = <<>>
    BY <1>5, <1>6 DEF RecentlyShown
  <1>7. CASE shown[c] # <<>>
    <2> SUFFICES ASSUME NEW n \in DOMAIN shown[c], shown[c][n] # NoBank
                 PROVE  Accepted(Listed(c)[n])' = shown[c][n]
      BY <1>1, <1>4, <1>5 DEF RecentlyShown
    <2>1. Accepted(Listed(c)[n]) = shown[c][n]
      BY DEF RecentlyShown
    <2>2. pc[c] \in {"showing", "done"}
      BY <1>7 DEF PhaseInv, TypeOK
    <2>3. Listed(c)[n] \in Settlement
      BY <2>2, ListedType DEF PhaseInv
    <2> QED
      BY <1>1, <1>4, <2>1, <2>3 DEF Accepted
  <1> QED
    BY <1>5, <1>6, <1>7

LEMMA NextRecent == IInv /\ [Next]_vars => ReviewIsRecent'
  <1> SUFFICES ASSUME IInv, [Next]_vars, NEW d \in Reader
               PROVE  RecentlySeen(d)' /\ RecentlyShown(d)'
    BY DEF ReviewIsRecent
  <1> USE DEF IInv
  <1>1. /\ result' = result /\ target' = target
        /\ \A s \in Settlement :
              Accepted(s) # NoBank => Accepted(s)' = Accepted(s)
    BY DecisionsStand
  <1>2. Listed(d)' = Listed(d)
    BY <1>1 DEF Listed, Index
  <1>3. RecentlySeen(d) /\ RecentlyShown(d)
    BY DEF ReviewIsRecent
  <1>4. CASE /\ seen'[d] = seen[d] /\ shown'[d] = shown[d]
             /\ before'[d] = before[d]
    BY <1>3, <1>4, OthersStayRecent
  <1>5. CASE \E s \in Settlement : Finalize(s)
    BY <1>4, <1>5 DEF Finalize
  <1>6. ASSUME NEW c \in Reader, c # d, Receive(c) \/ Project(c) \/ Show(c)
        PROVE  /\ seen'[d] = seen[d] /\ shown'[d] = shown[d]
               /\ before'[d] = before[d]
    BY <1>6 DEF Receive, Project, Show, TypeOK
  <1>7. CASE Receive(d)
    <2>1. seen'[d] = <<>> /\ shown'[d] = <<>>
      BY <1>7 DEF Receive, PhaseInv
    <2> QED
      BY <2>1 DEF RecentlySeen, RecentlyShown
  <1>8. CASE Project(d)
    <2> DEFINE n == Len(seen[d]) + 1
               s == result.settlements[n].id
               x == Projected(d, s)
    <2>1. /\ shown[d] = <<>> /\ shown'[d] = <<>> /\ before' = before
          /\ evidence' = evidence
      BY <1>8 DEF Project, PhaseInv
    <2>2. CASE n \notin Index
      BY <1>4, <1>8, <2>1, <2>2 DEF Project
    <2>3. CASE n \in Index
      <3>1. s \in Settlement
        BY <2>3, ResultType
      <3>2. x \in Bank \cup {NoBank} /\ x = Accepted(s)
        BY <3>1, AcceptedType DEF Projected
      <3>3. seen' = [seen EXCEPT ![d] = Append(@, x)]
        BY <1>8, <2>3 DEF Project
      <3>4. seen \in [Reader -> Seq(Bank \cup {NoBank})]
        BY DEF TypeOK
      <3>5. before[d][s] # NoBank => x = before[d][s]
        BY <3>1, <3>2 DEF PhaseInv
      <3> HIDE DEF x
      <3>6. /\ DOMAIN seen'[d] = DOMAIN seen[d] \cup {n}
            /\ \A i \in DOMAIN seen[d] : seen'[d][i] = seen[d][i]
            /\ seen'[d][n] = x
        BY <3>2, <3>3, <3>4, AppendReading
      <3>7. \A i \in DOMAIN seen'[d] :
               LET t == result.settlements[i].id IN
               /\ before[d][t] # NoBank => seen'[d][i] = before[d][t]
               /\ seen'[d][i] # NoBank => Accepted(t) = seen'[d][i]
        BY <1>3, <3>2, <3>5, <3>6 DEF RecentlySeen
      <3>8. RecentlySeen(d)'
        BY <1>1, <2>1, <3>7 DEF RecentlySeen, Accepted
      <3> QED
        BY <2>1, <3>8 DEF RecentlyShown
    <2> QED
      BY <2>2, <2>3
  <1>9. CASE Show(d)
    <2> DEFINE n == Len(shown[d]) + 1
               s == Listed(d)[n]
               x == Shown(d, s)
    <2>1. /\ seen' = seen /\ before' = before /\ evidence' = evidence
          /\ pc[d] = "showing"
      BY <1>9 DEF Show
    <2>2. CASE n \notin DOMAIN Listed(d)
      BY <1>4, <1>9, <2>1, <2>2 DEF Show
    <2>3. CASE n \in DOMAIN Listed(d)
      <3>1. s \in Settlement
        BY <2>1, <2>3, ListedType
      <3>2. x \in Bank \cup {NoBank} /\ x = Accepted(s)
        BY <3>1, AcceptedType DEF Shown
      <3>3. shown' = [shown EXCEPT ![d] = Append(@, x)]
        BY <1>9, <2>3 DEF Show
      <3>4. shown \in [Reader -> Seq(Bank \cup {NoBank})]
        BY DEF TypeOK
      <3>5. \A i \in DOMAIN seen[d] :
               (result.settlements[i].id = s /\ seen[d][i] # NoBank) =>
                   x = seen[d][i]
        BY <1>3, <3>2 DEF RecentlySeen
      <3> HIDE DEF x
      <3>6. /\ DOMAIN shown'[d] = DOMAIN shown[d] \cup {n}
            /\ \A m \in DOMAIN shown[d] : shown'[d][m] = shown[d][m]
            /\ shown'[d][n] = x
        BY <3>2, <3>3, <3>4, AppendReading
      <3>7. \A m \in DOMAIN shown'[d] :
               LET t == Listed(d)[m] IN
               /\ shown'[d][m] # NoBank => Accepted(t) = shown'[d][m]
               /\ \A i \in DOMAIN seen[d] :
                     (result.settlements[i].id = t /\ seen[d][i] # NoBank) =>
                         shown'[d][m] = seen[d][i]
        BY <1>3, <3>2, <3>5, <3>6 DEF RecentlyShown
      <3>8. RecentlyShown(d)'
        BY <1>1, <1>2, <2>1, <3>7 DEF RecentlyShown, Accepted
      <3>9. RecentlySeen(d)'
        BY <1>1, <1>3, <2>1 DEF RecentlySeen, Accepted
      <3> QED
        BY <3>8, <3>9
    <2> QED
      BY <2>2, <2>3
  <1> QED
    BY <1>4, <1>5, <1>6, <1>7, <1>8, <1>9 DEF Next, vars

-----------------------------------------------------------------------------
LEMMA NextEarlier == IInv /\ [Next]_vars => EarlierInv'
  <1> SUFFICES ASSUME IInv, [Next]_vars, NEW d \in Reader, NEW c \in earlier'[d]
               PROVE  /\ pc'[c] = "done"
                      /\ \A i \in Index : seen'[c][i] # NoBank =>
                            before'[d][result.settlements[i].id] = seen'[c][i]
    BY DecisionsStand DEF EarlierInv, Index, IInv
  <1> USE DEF IInv
  \* A review that was answered is not touched again.
  <1>1. ASSUME NEW e \in Reader, pc[e] = "done"
        PROVE  pc'[e] = "done" /\ seen'[e] = seen[e]
    BY <1>1 DEF Next, vars, Finalize, Receive, Project, Show, TypeOK
  <1>2. CASE earlier'[d] = earlier[d] /\ before'[d] = before[d]
    <2>1. c \in Reader /\ pc[c] = "done"
      BY <1>2 DEF EarlierInv, TypeOK
    <2> QED
      BY <1>1, <1>2, <2>1 DEF EarlierInv
  <1>3. CASE Receive(d)
    <2>1. c \in Reader /\ pc[c] = "done"
      BY <1>3 DEF Receive, TypeOK
    <2>2. before'[d] = [s \in Settlement |-> Accepted(s)]
      BY <1>3 DEF Receive, TypeOK
    <2>3. \A i \in Index : /\ i \in DOMAIN seen[c]
                           /\ result.settlements[i].id \in Settlement
      BY <2>1, ResultType DEF TypeOK
    <2>4. \A i \in Index : seen[c][i] # NoBank =>
             Accepted(result.settlements[i].id) = seen[c][i]
      BY <2>1, <2>3 DEF ReviewIsRecent, RecentlySeen
    <2> QED
      BY <1>1, <2>1, <2>2, <2>3, <2>4
  <1>4. \/ Receive(d)
        \/ earlier'[d] = earlier[d] /\ before'[d] = before[d]
    BY DEF Next, vars, Finalize, Receive, Project, Show, TypeOK
  <1> QED
    BY <1>2, <1>3, <1>4

\* IInv holds throughout: types, phases, recency and precedence of reviews.
THEOREM Invariance == Spec => []IInv
  <1>1. IInv /\ [Next]_vars => IInv'
    BY NextType, NextPhase, NextRecent, NextEarlier DEF IInv
  <1> QED
    BY InitInv, <1>1, PTL DEF Spec

\* The types of the variables hold (TypeOK).
THEOREM TypeCorrect == Spec => []TypeOK
  BY Invariance, PTL DEF IInv

\* However finalizations are interleaved with its readings, a review projects
\* every decision of its arrival, shows what it projected, and nothing it
\* reports is withdrawn.
THEOREM Recency == Spec => []ReviewIsRecent
  BY Invariance, PTL DEF IInv

-----------------------------------------------------------------------------
\* A blocker that survives its settlement's projection, or a blocking row that
\* names no settlement, blocks the effective close.
LEMMA BlockedBy ==
  ASSUME NEW ds
  PROVE  CloseReadiness(ds) = "blocked" <=>
            \/ \E i \in Index : Kept(i, ds[i]) \cap Blocking # {}
            \/ (result.rows \ NamedRow) \cap Blocking # {}
  <1>1. EffectiveExceptions(ds) \cap Blocking # {} <=>
            \/ \E i \in Index : Kept(i, ds[i]) \cap Blocking # {}
            \/ (result.rows \ NamedRow) \cap Blocking # {}
    BY DEF EffectiveExceptions
  <1> QED
    BY <1>1 DEF CloseReadiness

LEMMA Unblocked == IInv => UnblockedOnlyByEvidence
  <1> SUFFICES ASSUME IInv, NEW c \in Reader, pc[c] = "done"
               PROVE  /\ \A i \in Index :
                            result.settlements[i].state = "critical_exception"
                            => EffectiveState(i, seen[c][i]) =
                                  "critical_exception"
                      /\ CloseReadiness(seen[c]) # "blocked" =>
                            /\ (result.rows \ NamedRow) \cap Blocking = {}
                            /\ \A i \in Index : \A e \in
                                  result.settlements[i].exceptions \cap Blocking :
                                  /\ e \in BankResolved
                                  /\ Accepted(result.settlements[i].id) # NoBank
    BY DEF UnblockedOnlyByEvidence
  <1>1. \A i \in Index :
           /\ i \in DOMAIN seen[c]
           /\ seen[c][i] # NoBank =>
                 Accepted(result.settlements[i].id) = seen[c][i]
    <2>1. \A i \in Index : i \in DOMAIN seen[c]
      BY ResultType DEF IInv, TypeOK
    <2> QED
      BY <2>1 DEF IInv, ReviewIsRecent, RecentlySeen
  <1>2. ASSUME NEW i \in Index,
               result.settlements[i].state = "critical_exception"
        PROVE  EffectiveState(i, seen[c][i]) = "critical_exception"
    <2>1. PICK e \in result.settlements[i].exceptions :
             e \in Blocking \ BankResolved
      BY <1>2, ResultType DEF ExceptionsFitState, IInv
    <2>2. e \in Kept(i, seen[c][i]) \cap Blocking
      BY <2>1 DEF Kept
    <2> QED
      BY <1>2, <2>2 DEF EffectiveState
  <1>3. ASSUME CloseReadiness(seen[c]) # "blocked",
               NEW i \in Index,
               NEW e \in result.settlements[i].exceptions \cap Blocking
        PROVE  e \in BankResolved /\ Accepted(result.settlements[i].id) # NoBank
    <2>1. e \notin Kept(i, seen[c][i])
      BY <1>3, BlockedBy
    <2>2. seen[c][i] # NoBank /\ e \in BankResolved
      BY <2>1 DEF Kept
    <2> QED
      BY <1>1, <2>2
  <1> QED
    BY <1>2, <1>3, BlockedBy

\* A review reports the close unblocked only with accepted bank evidence that
\* stands for every blocker of a settlement, and never clears a critical one.
THEOREM UnblockedByEvidence == Spec => []UnblockedOnlyByEvidence
  BY Invariance, Unblocked, PTL

-----------------------------------------------------------------------------
\* A later review that projects at least the decisions of an earlier one keeps
\* no exception, blocker or pending settlement that the earlier one dropped.
LEMMA MoreDecisions ==
  ASSUME IInv, NEW ds, NEW es,
         \A i \in Index : ds[i] # NoBank => es[i] = ds[i]
  PROVE  /\ Rank[CloseReadiness(ds)] <= Rank[CloseReadiness(es)]
         /\ \A i \in Index :
               EffectiveState(i, ds[i]) = "cleared_with_explanation" =>
                   EffectiveState(i, es[i]) = "cleared_with_explanation"
  <1>1. \A i \in Index : Kept(i, es[i]) \subseteq Kept(i, ds[i])
    BY DEF Kept
  <1>2. EffectiveExceptions(es) \subseteq EffectiveExceptions(ds)
    BY <1>1 DEF EffectiveExceptions
  <1>3. ASSUME NEW i \in Index,
               EffectiveState(i, ds[i]) = "cleared_with_explanation"
        PROVE  EffectiveState(i, es[i]) = "cleared_with_explanation"
    <2>1. CASE ds[i] # NoBank
      BY <1>3, <2>1 DEF EffectiveState
    <2>2. CASE ds[i] = NoBank
      <3>1. result.settlements[i].state = "cleared_with_explanation"
        BY <1>3, <2>2 DEF EffectiveState
      <3> QED
        BY <3>1 DEF EffectiveState
    <2> QED
      BY <2>1, <2>2
  <1>4. ASSUME NEW i \in Index,
               EffectiveState(i, es[i]) = "pending_within_sla"
        PROVE  EffectiveState(i, ds[i]) = "pending_within_sla"
    <2>1. result.settlements[i].state = "pending_within_sla"
      BY <1>4 DEF EffectiveState
    <2>2. result.settlements[i].exceptions \cap Blocking = {}
      BY <2>1, ResultType DEF ExceptionsFitState, IInv
    <2>3. es[i] = NoBank
      BY <1>4, <2>1, <2>2 DEF EffectiveState, Kept
    <2>4. ds[i] = NoBank
      BY <2>3
    <2> QED
      BY <2>1, <2>4 DEF EffectiveState
  <1>5. CloseReadiness(es) = "blocked" => CloseReadiness(ds) = "blocked"
    BY <1>2 DEF CloseReadiness
  <1>6. CloseReadiness(ds) = "ready" => CloseReadiness(es) = "ready"
    BY <1>2, <1>4 DEF CloseReadiness
  <1>7. /\ CloseReadiness(ds) \in {"blocked", "ready_with_exceptions", "ready"}
        /\ CloseReadiness(es) \in {"blocked", "ready_with_exceptions", "ready"}
    BY DEF CloseReadiness
  <1>8. Rank["blocked"] = 0 /\ Rank["ready_with_exceptions"] = 1
        /\ Rank["ready"] = 2
    BY DEF Rank
  <1>9. Rank[CloseReadiness(ds)] <= Rank[CloseReadiness(es)]
    BY <1>5, <1>6, <1>7, <1>8
  <1> QED
    BY <1>3, <1>9

LEMMA Regression == IInv => CloseNeverRegresses
  <1> SUFFICES ASSUME IInv, NEW d \in Reader, pc[d] = "done",
                      NEW c \in earlier[d]
               PROVE  \A i \in Index :
                         seen[c][i] # NoBank => seen[d][i] = seen[c][i]
    BY MoreDecisions DEF CloseNeverRegresses
  <1>1. \A i \in Index : i \in DOMAIN seen[d]
    BY ResultType DEF IInv, TypeOK
  <1>2. \A i \in Index : before[d][result.settlements[i].id] # NoBank =>
           seen[d][i] = before[d][result.settlements[i].id]
    BY <1>1 DEF IInv, ReviewIsRecent, RecentlySeen
  <1> QED
    BY <1>2 DEF IInv, EarlierInv

\* A review that arrives after another was answered never reports a close less
\* ready, nor a settlement uncleared that the other reported cleared.
THEOREM NeverRegresses == Spec => []CloseNeverRegresses
  BY Invariance, Regression, PTL

-----------------------------------------------------------------------------
(***************************************************************************)
(* What a review reports lies between the decisions of its arrival and the *)
(* present ones.                                                           *)
(***************************************************************************)
\* The close as the decisions of one moment would have it.
CloseOf(decided) ==
    CloseReadiness([i \in Index |-> decided[result.settlements[i].id]])

\* A review reads the settlements one by one while others finalize, so what it
\* projects need not be the decisions of any single moment; but the close it
\* reports is never less ready than that of its arrival, nor more than today's,
\* and so is every settlement it shows cleared.
ReviewIsBracketed ==
    \A c \in Reader : pc[c] = "done" =>
        /\ Rank[CloseOf(before[c])] <= Rank[CloseReadiness(seen[c])]
        /\ Rank[CloseReadiness(seen[c])]
              <= Rank[CloseOf([s \in Settlement |-> Accepted(s)])]
        /\ \A i \in Index :
              EffectiveState(i, seen[c][i]) = "cleared_with_explanation" =>
                  EffectiveState(i, Accepted(result.settlements[i].id))
                      = "cleared_with_explanation"

LEMMA Bracket == IInv => ReviewIsBracketed
  <1> SUFFICES ASSUME IInv, NEW c \in Reader, pc[c] = "done"
               PROVE  /\ Rank[CloseOf(before[c])] <= Rank[CloseReadiness(seen[c])]
                      /\ Rank[CloseReadiness(seen[c])]
                            <= Rank[CloseOf([s \in Settlement |-> Accepted(s)])]
                      /\ \A i \in Index :
                            EffectiveState(i, seen[c][i]) = "cleared_with_explanation"
                            => EffectiveState(i, Accepted(result.settlements[i].id))
                                  = "cleared_with_explanation"
    BY DEF ReviewIsBracketed
  <1> DEFINE first == [i \in Index |-> before[c][result.settlements[i].id]]
             last == [i \in Index |->
                        [s \in Settlement |-> Accepted(s)][result.settlements[i].id]]
  <1>1. \A i \in Index : i \in DOMAIN seen[c] /\ result.settlements[i].id \in Settlement
    BY ResultType DEF IInv, TypeOK
  <1>2. \A i \in Index : first[i] # NoBank => seen[c][i] = first[i]
    BY <1>1 DEF IInv, ReviewIsRecent, RecentlySeen
  <1>3. \A i \in Index : last[i] = Accepted(result.settlements[i].id)
    BY <1>1
  <1>4. \A i \in Index : seen[c][i] # NoBank => last[i] = seen[c][i]
    BY <1>1, <1>3 DEF IInv, ReviewIsRecent, RecentlySeen
  <1> HIDE DEF first, last
  <1>5. Rank[CloseReadiness(first)] <= Rank[CloseReadiness(seen[c])]
    BY <1>2, MoreDecisions
  <1>6. /\ Rank[CloseReadiness(seen[c])] <= Rank[CloseReadiness(last)]
        /\ \A i \in Index :
              EffectiveState(i, seen[c][i]) = "cleared_with_explanation" =>
                  EffectiveState(i, last[i]) = "cleared_with_explanation"
    BY <1>4, MoreDecisions
  <1> QED
    BY <1>3, <1>5, <1>6 DEF first, last, CloseOf

\* No interleaving of finalizations with a review's readings makes it report a
\* close that the decisions never justified.
THEOREM Bracketed == Spec => []ReviewIsBracketed
  BY Invariance, Bracket, PTL

-----------------------------------------------------------------------------
(***************************************************************************)
(* What the decisions themselves promise a review.                         *)
(***************************************************************************)
\* A decision is about a settlement the gate leaves to investigation, and rests
\* on a row of its own that the base result does not use.
DecisionsAreSound ==
    \A s \in Settlement : Accepted(s) # NoBank =>
        /\ Investigable(s)
        /\ Accepted(s) \notin BaseRows
        /\ \A t \in Settlement : Accepted(t) = Accepted(s) => t = s

LEMMA NextSound ==
  ASSUME TypeOK, DecisionsAreSound, [Next]_vars
  PROVE  DecisionsAreSound'
  <1>1. CASE UNCHANGED <<result, evidence>>
    BY <1>1 DEF DecisionsAreSound, Investigable, Index, Accepted
  <1>2. ASSUME NEW s \in Settlement, Finalize(s)
        PROVE  DecisionsAreSound'
    <2>1. PICK x \in Bank : /\ evidence[<<batch, s>>] = NoBank
                            /\ x \notin BaseRows
                            /\ \A t \in Settlement : evidence[<<batch, t>>] # x
                            /\ evidence' = [evidence EXCEPT ![<<batch, s>>] = x]
      BY <1>2 DEF Finalize, Decisions!Accept
    <2>2. Investigable(s) /\ result' = result
      BY <1>2 DEF Finalize
    <2>3. Accepted(s)' = x /\ \A t \in Settlement \ {s} : Accepted(t)' = Accepted(t)
      BY <2>1 DEF Accepted, TypeOK
    <2>4. x # NoBank /\ \A t \in Settlement : Accepted(t) # x
      BY <2>1, ReviewAssumption DEF Accepted
    <2>5. \A t \in Settlement : Investigable(t) => Investigable(t)'
      BY <2>2 DEF Investigable, Index
    <2> QED
      BY <2>1, <2>2, <2>3, <2>4, <2>5 DEF DecisionsAreSound
  <1> QED
    BY <1>1, <1>2 DEF Next, vars, Receive, Project, Show

LEMMA SoundDecisions == Spec => []DecisionsAreSound
  <1>1. Init => DecisionsAreSound
    <2>1. ASSUME Init, NEW s \in Settlement PROVE Accepted(s) = NoBank
      BY <2>1 DEF Init, Decisions!Init, Accepted
    <2> QED BY <2>1 DEF DecisionsAreSound
  <1>2. TypeOK /\ DecisionsAreSound /\ [Next]_vars => DecisionsAreSound'
    BY NextSound
  <1> QED
    BY <1>1, <1>2, TypeCorrect, PTL DEF Spec

\* A review links a bank row to settlements of one id only, and never a row that
\* the base result rests on.
OneIdPerRow ==
    \A c \in Reader : \A i \in DOMAIN seen[c] : seen[c][i] # NoBank =>
        /\ seen[c][i] \notin BaseRows
        /\ \A j \in DOMAIN seen[c] : seen[c][j] = seen[c][i] =>
              result.settlements[i].id = result.settlements[j].id

LEMMA OneId == IInv /\ DecisionsAreSound => OneIdPerRow
  <1> SUFFICES ASSUME IInv, DecisionsAreSound, NEW c \in Reader,
                      NEW i \in DOMAIN seen[c], seen[c][i] # NoBank
               PROVE  /\ seen[c][i] \notin BaseRows
                      /\ \A j \in DOMAIN seen[c] : seen[c][j] = seen[c][i] =>
                            result.settlements[i].id = result.settlements[j].id
    BY DEF OneIdPerRow
  <1>1. DOMAIN seen[c] \subseteq Index
    BY ResultType DEF IInv, TypeOK
  <1>2. \A j \in DOMAIN seen[c] :
           /\ result.settlements[j].id \in Settlement
           /\ seen[c][j] # NoBank => Accepted(result.settlements[j].id) = seen[c][j]
    BY <1>1, ResultType DEF IInv, ReviewIsRecent, RecentlySeen
  <1> QED
    BY <1>2 DEF DecisionsAreSound

\* Evidence is used for one settlement id only, however the readings of a review
\* and the finalizations interleave.
THEOREM RowsHaveOneId == Spec => []OneIdPerRow
  BY Invariance, SoundDecisions, OneId, PTL

-----------------------------------------------------------------------------
(***************************************************************************)
(* The two departures from the documents, and no others.                   *)
(***************************************************************************)
\* Aggregates that differ in their balance account only share an id.
IdsAreUnique(r) ==
    \A i, j \in DOMAIN r.settlements :
        r.settlements[i].id = r.settlements[j].id => i = j

\* A review changes the state of no settlement but one that needs review.
OnlyReviewedStatesChange ==
    \A c \in Reader : \A i \in DOMAIN seen[c] :
        EffectiveState(i, seen[c][i]) # result.settlements[i].state =>
            /\ result.settlements[i].state = "needs_review"
            /\ result.settlements[i].eligible

\* Were the settlement ids of a batch unique, a review would link each bank row
\* to one settlement (FR-209) and clear only what was left to investigation.
THEOREM UniqueIdsLinkOnce ==
  ASSUME \A r \in Results : IdsAreUnique(r)
  PROVE  Spec => [](OneSettlementPerRow /\ OnlyReviewedStatesChange)
  <1>1. ASSUME IInv, DecisionsAreSound, OneIdPerRow
        PROVE  OneSettlementPerRow /\ OnlyReviewedStatesChange
    <2>1. IdsAreUnique(result)
      BY <1>1 DEF IInv, TypeOK
    <2>2. \A c \in Reader : DOMAIN seen[c] \subseteq Index
      BY <1>1, ResultType DEF IInv, TypeOK
    <2>3. OneSettlementPerRow
      BY <1>1, <2>1, <2>2 DEF OneIdPerRow, OneSettlementPerRow, IdsAreUnique, Index
    <2>4. ASSUME NEW c \in Reader, NEW i \in DOMAIN seen[c],
                 EffectiveState(i, seen[c][i]) # result.settlements[i].state
          PROVE  result.settlements[i].eligible
      <3>1. i \in Index /\ seen[c][i] # NoBank
        BY <2>2, <2>4 DEF EffectiveState
      <3>2. Accepted(result.settlements[i].id) # NoBank
        BY <1>1, <3>1 DEF IInv, ReviewIsRecent, RecentlySeen
      <3>3. Investigable(result.settlements[i].id)
        BY <1>1, <3>1, <3>2, ResultType DEF IInv, DecisionsAreSound
      <3> QED
        BY <2>1, <3>1, <3>3 DEF Investigable, IdsAreUnique, Index
    <2>5. \A i \in Index : result.settlements[i].eligible =>
                              result.settlements[i].state = "needs_review"
      BY <1>1, ResultType DEF IInv, ExceptionsFitState
    <2>6. OnlyReviewedStatesChange
      BY <2>2, <2>4, <2>5 DEF OnlyReviewedStatesChange
    <2> QED
      BY <2>3, <2>6
  <1> QED
    BY <1>1, Invariance, SoundDecisions, RowsHaveOneId, PTL

\* Were the blocking row exceptions those of rows without a settlement id, every
\* one of them would block the effective close, as ADR 0010 says.
THEOREM NamelessRowsBlock ==
  ASSUME \A r \in Results : r.rows \cap NamedRow \cap Blocking = {}
  PROVE  Spec => []RowBlockersArePreserved
  <1>1. ASSUME TypeOK
        PROVE  RowBlockersArePreserved
    <2>1. result.rows \cap NamedRow \cap Blocking = {}
      BY <1>1 DEF TypeOK
    <2> QED
      BY <2>1, BlockedBy DEF RowBlockersArePreserved
  <1> QED
    BY <1>1, TypeCorrect, PTL
=============================================================================
