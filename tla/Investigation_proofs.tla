------------------------ MODULE Investigation_proofs ------------------------
(***************************************************************************)
(* Proofs about Investigation, for any batches, settlements, requests and  *)
(* bank rows.                                                              *)
(***************************************************************************)
EXTENDS Investigation, FiniteSetTheorems, TLAPS

\* What a request carries is what its label promises: an ending once there is
\* something to record, no acceptance after a reclassification, and an accepted
\* proposal is the settlement's only candidate and not a deterministic row.
AttemptIsSound ==
    \A r \in Request :
        /\ pc[r] \in {"recording", "reclassified"} => ending[r] # "none"
        /\ pc[r] = "reclassified" => ~Decided(r)
        /\ Decided(r) => /\ UniqueCandidate[key[r]] = {proposal[r]}
                         /\ proposal[r] \in Bank
                         /\ proposal[r] \notin Deterministic[key[r][1]]

\* A run that works on a settlement owns it.
WorkingRunOwns ==
    \A r \in Request : pc[r] \in Working => active[key[r]] = r

\* A decision rests on the settlement's only candidate, which is reserved and
\* not a deterministic row.
DecisionIsReserved ==
    \A k \in Key : decisions[k] # NoDecision =>
        /\ decisions[k].bank \in consumed[k[1]]
        /\ UniqueCandidate[k] = {decisions[k].bank}
        /\ decisions[k].bank \notin Deterministic[k[1]]

-----------------------------------------------------------------------------
LEMMA KeyType == \A k \in Key : k[1] \in Batch /\ k[2] \in Settlement
  BY DEF Key

LEMMA InitType == Init => TypeOK
  BY InvestigationAssumption DEF Init, TypeOK, Reply

\* What finalize writes is well typed.
LEMMA StoreType ==
  ASSUME TypeOK, NEW r \in Request, NEW decided \in BOOLEAN,
         NEW reserved \in SUBSET Bank, NEW last \in Nat,
         ending[r] # "none", decided => proposal[r] \in Bank,
         Store(r, decided, reserved, last)
  PROVE  /\ active' \in [Key -> Request \cup {NoRun}]
         /\ runs' \subseteq AgentRun
         /\ decisions' \in [Key -> Decision \cup {NoDecision}]
         /\ events' \subseteq AuditEvent
         /\ consumed' \in [Batch -> SUBSET Bank]
         /\ sequence' \in Nat
  <1>1. key[r] \in Key /\ key[r][1] \in Batch
    BY KeyType DEF TypeOK
  <1>2. sequence + 1 \in Nat /\ sequence + 2 \in Nat
    BY DEF TypeOK
  <1>3. [id |-> r, key |-> key[r], status |-> ending[r], verdict |-> verdict[r],
         sequence |-> sequence + 1] \in AgentRun
    BY <1>1, <1>2 DEF TypeOK, AgentRun
  <1>4. decided => [run |-> r, bank |-> proposal[r], sequence |-> sequence + 2]
                      \in Decision
    BY <1>2 DEF Decision
  <1>5. [run |-> r, key |-> key[r], verified |-> verdict[r] = "accepted",
         sequence |-> last] \in AuditEvent
    BY <1>1 DEF AuditEvent
  <1>6. active' \in [Key -> Request \cup {NoRun}]
    BY <1>1 DEF Store, TypeOK
  <1>7. runs' \subseteq AgentRun
    BY <1>3 DEF Store, TypeOK
  <1>8. decisions' \in [Key -> Decision \cup {NoDecision}]
    BY <1>1, <1>4 DEF Store, TypeOK
  <1>9. events' \subseteq AuditEvent
    BY <1>5 DEF Store, TypeOK
  <1>10. consumed' \in [Batch -> SUBSET Bank]
    BY <1>1 DEF Store, TypeOK
  <1>11. sequence' \in Nat
    BY DEF Store
  <1> QED
    BY <1>6, <1>7, <1>8, <1>9, <1>10, <1>11

LEMMA CommitType ==
  ASSUME TypeOK, AttemptIsSound, NEW r \in Request, Commit(r),
         pc[r] \in {"recording", "reclassified"}
  PROVE  /\ active' \in [Key -> Request \cup {NoRun}]
         /\ runs' \subseteq AgentRun
         /\ decisions' \in [Key -> Decision \cup {NoDecision}]
         /\ events' \subseteq AuditEvent
         /\ consumed' \in [Batch -> SUBSET Bank]
         /\ sequence' \in Nat
  <1> DEFINE reserved == IF Decided(r) THEN {proposal[r]} ELSE {}
             last == sequence + IF Decided(r) THEN 3 ELSE 2
  <1>1. ending[r] # "none" /\ (Decided(r) => proposal[r] \in Bank)
    BY DEF AttemptIsSound
  <1>2. reserved \in SUBSET Bank
    BY <1>1
  <1>3. last \in Nat
    BY DEF TypeOK
  <1>4. Decided(r) \in BOOLEAN
    BY DEF Decided
  <1>5. Store(r, Decided(r), reserved, last)
    BY DEF Commit
  <1> HIDE DEF reserved, last
  <1> QED
    BY <1>1, <1>2, <1>3, <1>4, <1>5, StoreType

LEMMA RollBackType ==
  ASSUME TypeOK, NEW r \in Request, RollBack(r)
  PROVE  /\ active' \in [Key -> Request \cup {NoRun}]
         /\ UNCHANGED <<runs, decisions, events, consumed, sequence>>
  BY DEF RollBack, TypeOK

LEMMA ReleasedType ==
  ASSUME TypeOK, NEW r \in Request
  PROVE  Released(r) \in [Key -> Request \cup {NoRun}]
  BY DEF Released, TypeOK

\* Every step keeps the types.
LEMMA NextType ==
  ASSUME TypeOK, AttemptIsSound, [Next]_vars
  PROVE  TypeOK'
  <1> USE DEF TypeOK
  <1>1. ASSUME NEW r \in Request, CheckEligibility(r)
        PROVE  TypeOK'
    BY <1>1 DEF CheckEligibility, Answer, Goto, repository, attempt, Reply,
                Working
  <1>2. ASSUME NEW r \in Request, Begin(r)
        PROVE  TypeOK'
    <2>1. key[r] \in Key /\ key[r][1] \in Batch
      BY KeyType
    <2>2. Deterministic[key[r][1]] \subseteq Bank
      BY <2>1, InvestigationAssumption
    <2>3. CASE /\ Answer(r, "INVESTIGATION_ALREADY_IN_PROGRESS")
               /\ UNCHANGED <<active, consumed>>
      BY <1>2, <2>3 DEF Begin, Answer, Goto, attempt, Reply, Working
    <2>4. CASE /\ active' = [active EXCEPT ![key[r]] = r]
               /\ consumed' = [consumed EXCEPT ![key[r][1]] =
                                  @ \cup Deterministic[key[r][1]]]
               /\ Goto(r, "scoping")
               /\ UNCHANGED reply
      BY <1>2, <2>1, <2>2, <2>4 DEF Begin, Goto, attempt, Working
    <2> QED
      BY <1>2, <2>3, <2>4 DEF Begin
  <1>3. ASSUME NEW r \in Request, CreateScope(r)
        PROVE  TypeOK'
    <2>1. active' \in [Key -> Request \cup {NoRun}]
      BY <1>3, ReleasedType DEF CreateScope
    <2>2. pc' \in [Request -> Working \cup {"received", "eligible", "answered"}]
      BY <1>3 DEF CreateScope, Answer, Goto, Working
    <2>3. reply' \in [Request -> Reply]
      BY <1>3 DEF CreateScope, Answer, Reply
    <2> QED
      BY <1>3, <2>1, <2>2, <2>3 DEF CreateScope, attempt
  <1>4. ASSUME NEW r \in Request, EndWithoutProposal(r)
        PROVE  TypeOK'
    <2>1. \E s \in RunStatus, t \in {"bounded", "oversize"} :
              /\ ending' = [ending EXCEPT ![r] = s]
              /\ text' = [text EXCEPT ![r] = t]
      BY <1>4, InvestigationAssumption DEF EndWithoutProposal, RunStatus
    <2> QED
      BY <1>4, <2>1
      DEF EndWithoutProposal, Goto, repository, Working
  <1>5. ASSUME NEW r \in Request, NEW x \in Bank, Propose(r, x)
        PROVE  TypeOK'
    BY <1>5 DEF Propose, Goto, repository, RunStatus, Working
  <1>6. ASSUME NEW r \in Request, FailToBuildRun(r)
        PROVE  TypeOK'
    BY <1>6 DEF FailToBuildRun, Answer, Goto, repository, attempt, Reply, Working
  <1>7. ASSUME NEW r \in Request, Finalize(r)
        PROVE  TypeOK'
    <2>1. CASE UNCHANGED repository
      BY <1>7, <2>1
      DEF Finalize, Answer, Goto, repository, attempt, Reply, RunStatus, Working
    <2>2. CASE ~UNCHANGED repository
      <3>1. /\ UNCHANGED <<key, attempt>>
            /\ \E code \in Reply : Answer(r, code)
            /\ \/ active' = Released(r)
                    /\ UNCHANGED <<runs, decisions, events, consumed, sequence>>
               \/ Commit(r)
               \/ RollBack(r)
            /\ pc[r] = "recording"
        BY <1>7, <2>2 DEF Finalize, Reply, repository
      <3>2. /\ active' \in [Key -> Request \cup {NoRun}]
            /\ runs' \subseteq AgentRun
            /\ decisions' \in [Key -> Decision \cup {NoDecision}]
            /\ events' \subseteq AuditEvent
            /\ consumed' \in [Batch -> SUBSET Bank]
            /\ sequence' \in Nat
        BY <3>1, ReleasedType, CommitType, RollBackType
      <3> QED
        BY <3>1, <3>2 DEF Answer, Goto, attempt
    <2> QED
      BY <2>1, <2>2
  <1>8. ASSUME NEW r \in Request, FinalizeAsRejected(r)
        PROVE  TypeOK'
    <2>1. /\ UNCHANGED <<key, attempt>>
          /\ \E code \in Reply : Answer(r, code)
          /\ UNCHANGED repository \/ Commit(r) \/ RollBack(r)
          /\ pc[r] = "reclassified"
      BY <1>8 DEF FinalizeAsRejected, Reply
    <2>2. /\ active' \in [Key -> Request \cup {NoRun}]
          /\ runs' \subseteq AgentRun
          /\ decisions' \in [Key -> Decision \cup {NoDecision}]
          /\ events' \subseteq AuditEvent
          /\ consumed' \in [Batch -> SUBSET Bank]
          /\ sequence' \in Nat
      BY <2>1, CommitType, RollBackType DEF repository
    <2> QED
      BY <2>1, <2>2 DEF Answer, Goto, attempt
  <1>9. CASE UNCHANGED vars
    BY <1>9 DEF vars, repository, attempt
  <1> QED
    BY <1>1, <1>2, <1>3, <1>4, <1>5, <1>6, <1>7, <1>8, <1>9 DEF Next, Step

\* What a step of request r does to the attempt of the others: nothing.
LEMMA OthersUntouched ==
  ASSUME TypeOK, NEW r \in Request, Step(r), NEW q \in Request \ {r}
  PROVE  /\ pc'[q] = pc[q] /\ key'[q] = key[q] /\ ending'[q] = ending[q]
         /\ verdict'[q] = verdict[q] /\ proposal'[q] = proposal[q]
         /\ reply'[q] = reply[q]
  BY DEF Step, CheckEligibility, Begin, CreateScope, EndWithoutProposal,
         Propose, FailToBuildRun, Finalize, FinalizeAsRejected, Answer, Goto,
         attempt, TypeOK

LEMMA KeysAreFixed == [Next]_vars => key' = key
  BY DEF Next, Step, vars, CheckEligibility, Begin, CreateScope,
         EndWithoutProposal, Propose, FailToBuildRun, Finalize,
         FinalizeAsRejected

\* Every step keeps the attempts sound.
LEMMA NextAttempt ==
  ASSUME TypeOK, AttemptIsSound, [Next]_vars
  PROVE  AttemptIsSound'
  <1>1. CASE UNCHANGED vars
    BY <1>1 DEF vars, attempt, AttemptIsSound, Decided
  <1>2. ASSUME NEW r \in Request, Step(r)
        PROVE  AttemptIsSound'
    <2>1. key'[r] = key[r]
      BY <1>2, KeysAreFixed DEF Next
    <2> DEFINE SoundAfter ==
            /\ pc'[r] \in {"recording", "reclassified"} => ending'[r] # "none"
            /\ pc'[r] = "reclassified" => verdict'[r] # "accepted"
            /\ verdict'[r] = "accepted" =>
                  /\ UniqueCandidate[key[r]] = {proposal'[r]}
                  /\ proposal'[r] \in Bank
                  /\ proposal'[r] \notin Deterministic[key[r][1]]
    <2>2. SoundAfter
      <3>1. CASE CheckEligibility(r) \/ Begin(r) \/ CreateScope(r)
                   \/ FailToBuildRun(r)
        BY <3>1
        DEF CheckEligibility, Begin, CreateScope, FailToBuildRun, Answer, Goto,
            attempt, TypeOK, AttemptIsSound, Decided
      <3>2. CASE EndWithoutProposal(r)
        BY <3>2
        DEF EndWithoutProposal, Goto, TypeOK, AttemptIsSound, Decided
      <3>3. ASSUME NEW x \in Bank, Propose(r, x)
            PROVE  SoundAfter
        BY <3>3 DEF Propose, Goto, Reused, TypeOK
      <3>4. CASE Finalize(r)
        BY <3>4
        DEF Finalize, Answer, Goto, attempt, TypeOK, AttemptIsSound, Decided
      <3>5. CASE FinalizeAsRejected(r)
        BY <3>5
        DEF FinalizeAsRejected, Answer, Goto, attempt, TypeOK, AttemptIsSound,
            Decided
      <3> QED
        BY <1>2, <3>1, <3>2, <3>3, <3>4, <3>5 DEF Step
    <2> QED
      BY <1>2, <2>1, <2>2, OthersUntouched DEF AttemptIsSound, Decided
  <1> QED
    BY <1>1, <1>2 DEF Next

-----------------------------------------------------------------------------
\* A step of the request that works on a settlement changes no other owner.
LEMMA OwnerStep ==
  ASSUME TypeOK, NEW r \in Request, Step(r)
  PROVE  /\ \A k \in Key \ {key[r]} : active'[k] = active[k]
         /\ pc'[r] \in Working => active'[key[r]] = r \/ pc[r] \in Working
         /\ pc[r] \in Working /\ pc'[r] \in Working => active' = active
         /\ pc[r] \notin Working => active'[key[r]] \in {active[key[r]], r}
         /\ active[key[r]] \notin {NoRun, r} => active' = active
  BY InvestigationAssumption
  DEF Step, CheckEligibility, Begin, CreateScope, EndWithoutProposal,
      Propose, FailToBuildRun, Finalize, FinalizeAsRejected, Answer, Goto,
      Released, Owns, Commit, Store, RollBack, repository, Working, TypeOK

\* Every step keeps working runs the owners of their settlements.
LEMMA NextOwns ==
  ASSUME TypeOK, WorkingRunOwns, [Next]_vars
  PROVE  WorkingRunOwns'
  <1>1. CASE UNCHANGED vars
    BY <1>1 DEF vars, repository, WorkingRunOwns
  <1>2. ASSUME NEW r \in Request, Step(r)
        PROVE  WorkingRunOwns'
    <2> SUFFICES ASSUME NEW q \in Request, pc'[q] \in Working
                 PROVE  active'[key[q]] = q
      BY <1>2, KeysAreFixed DEF WorkingRunOwns, Next
    <2>1. key[q] \in Key /\ key[r] \in Key
      BY DEF TypeOK
    <2>2. CASE q = r
      BY <1>2, <2>1, <2>2, OwnerStep DEF WorkingRunOwns
    <2>3. CASE q # r
      <3>1. active[key[q]] = q
        BY <1>2, <2>3, OthersUntouched DEF WorkingRunOwns
      <3>2. CASE key[q] = key[r]
        <4>1. active[key[r]] \notin {NoRun, r}
          BY <2>3, <3>1, <3>2, InvestigationAssumption
        <4> QED
          BY <1>2, <3>1, <4>1, OwnerStep
      <3>3. CASE key[q] # key[r]
        BY <1>2, <2>1, <3>1, <3>3, OwnerStep
      <3> QED
        BY <3>2, <3>3
    <2> QED
      BY <2>2, <2>3
  <1> QED
    BY <1>1, <1>2 DEF Next

-----------------------------------------------------------------------------
\* The step that stores a decision: request r accepts a row nobody reserved, for
\* a settlement that has no decision, and reserves it.
Accepting(r) ==
    /\ Decided(r)
    /\ decisions[key[r]] = NoDecision
    /\ proposal[r] \notin consumed[key[r][1]]
    /\ decisions' = [decisions EXCEPT ![key[r]] =
                       [run |-> r, bank |-> proposal[r], sequence |-> sequence + 2]]
    /\ consumed' = [consumed EXCEPT ![key[r][1]] = @ \cup {proposal[r]}]

\* Every other step leaves the decisions and only adds reservations.
LEMMA DecisionStep ==
  ASSUME TypeOK, AttemptIsSound, NEW r \in Request, Step(r)
  PROVE  \/ Accepting(r)
         \/ /\ decisions' = decisions
            /\ \A b \in Batch : consumed[b] \subseteq consumed'[b]
  <1> DEFINE Kept == /\ decisions' = decisions
                     /\ \A b \in Batch : consumed[b] \subseteq consumed'[b]
  <1>1. CASE CheckEligibility(r) \/ CreateScope(r) \/ EndWithoutProposal(r)
               \/ (\E x \in Bank : Propose(r, x)) \/ FailToBuildRun(r)
    BY <1>1 DEF CheckEligibility, CreateScope, EndWithoutProposal, Propose,
                FailToBuildRun, repository
  <1>2. CASE Begin(r)
    <2>1. key[r][1] \in Batch
      BY KeyType DEF TypeOK
    <2> QED
      BY <1>2, <2>1 DEF Begin, TypeOK
  <1>3. ASSUME Commit(r), ~Decided(r)
        PROVE  Kept
    <2>1. key[r][1] \in Batch
      BY KeyType DEF TypeOK
    <2> QED
      BY <1>3, <2>1 DEF Commit, Store, TypeOK
  <1>4. CASE Finalize(r)
    <2>1. CASE UNCHANGED <<decisions, consumed>>
      BY <2>1
    <2>2. CASE Commit(r) /\ ~EvidenceConflict(r) /\ ~AlreadyDecided(r)
      <3>1. CASE Decided(r)
        BY <2>2, <3>1
        DEF Accepting, Commit, Store, EvidenceConflict, AlreadyDecided
      <3> QED
        BY <1>3, <2>2, <3>1
    <2> QED
      BY <1>4, <2>1, <2>2 DEF Finalize, RollBack, repository
  <1>5. CASE FinalizeAsRejected(r)
    <2>1. ~Decided(r)
      BY <1>5 DEF FinalizeAsRejected, AttemptIsSound
    <2> QED
      BY <1>3, <1>5, <2>1 DEF FinalizeAsRejected, RollBack, repository
  <1> QED
    BY <1>1, <1>2, <1>4, <1>5 DEF Step

\* Every step keeps the decisions reserved.
LEMMA NextReserved ==
  ASSUME TypeOK, AttemptIsSound, DecisionIsReserved, [Next]_vars
  PROVE  DecisionIsReserved'
  <1>1. CASE UNCHANGED vars
    BY <1>1 DEF vars, repository, DecisionIsReserved
  <1>2. ASSUME NEW r \in Request, Step(r)
        PROVE  DecisionIsReserved'
    <2> SUFFICES ASSUME NEW k \in Key, decisions'[k] # NoDecision
                 PROVE  /\ decisions'[k].bank \in consumed'[k[1]]
                        /\ UniqueCandidate[k] = {decisions'[k].bank}
                        /\ decisions'[k].bank \notin Deterministic[k[1]]
      BY DEF DecisionIsReserved
    <2>1. k[1] \in Batch /\ key[r] \in Key /\ key[r][1] \in Batch
      BY KeyType DEF TypeOK
    <2>2. CASE Accepting(r) /\ k = key[r]
      BY <2>1, <2>2 DEF Accepting, AttemptIsSound, TypeOK
    <2>3. CASE Accepting(r) /\ k # key[r]
      <3>1. decisions'[k] = decisions[k]
        BY <2>1, <2>3 DEF Accepting, TypeOK
      <3>2. consumed[k[1]] \subseteq consumed'[k[1]]
        BY <2>1, <2>3 DEF Accepting, TypeOK
      <3> QED
        BY <3>1, <3>2 DEF DecisionIsReserved
    <2>4. CASE /\ decisions' = decisions
               /\ \A b \in Batch : consumed[b] \subseteq consumed'[b]
      BY <2>1, <2>4 DEF DecisionIsReserved
    <2> QED
      BY <1>2, <2>2, <2>3, <2>4, DecisionStep
  <1> QED
    BY <1>1, <1>2 DEF Next

\* Every step keeps evidence single-use: the accepted row was not reserved, and
\* the rows of all earlier decisions were.
LEMMA NextSingleUse ==
  ASSUME TypeOK, AttemptIsSound, DecisionIsReserved, DecisionIsReserved',
         SingleUseEvidence, [Next]_vars
  PROVE  SingleUseEvidence'
  <1>1. CASE UNCHANGED vars
    BY <1>1 DEF vars, repository, SingleUseEvidence
  <1>2. ASSUME NEW r \in Request, Step(r)
        PROVE  SingleUseEvidence'
    <2>1. CASE decisions' = decisions
      BY <2>1 DEF SingleUseEvidence
    <2>2. CASE Accepting(r)
      <3> SUFFICES ASSUME NEW b \in Batch, NEW s \in Settlement,
                          decisions'[<<b, s>>] # NoDecision
                   PROVE  /\ decisions'[<<b, s>>].bank \notin Deterministic[b]
                          /\ \A t \in Settlement :
                                (decisions'[<<b, t>>] # NoDecision /\ t # s) =>
                                    decisions'[<<b, t>>].bank #
                                        decisions'[<<b, s>>].bank
        BY DEF SingleUseEvidence
      <3>1. decisions'[<<b, s>>].bank \notin Deterministic[b]
        BY DEF DecisionIsReserved, Key
      <3>2. ASSUME NEW t \in Settlement, t # s,
                   decisions'[<<b, t>>] # NoDecision
            PROVE  decisions'[<<b, t>>].bank # decisions'[<<b, s>>].bank
        <4> DEFINE bs == <<b, s>>
                   bt == <<b, t>>
        <4>1. bs \in Key /\ bt \in Key /\ bs # bt /\ bs[1] = b /\ bt[1] = b
          BY <3>2 DEF Key
        <4>2. key[r] \in Key
          BY DEF TypeOK
        <4> HIDE DEF bs, bt
        <4>3. CASE bs = key[r]
          <5>1. decisions'[bs].bank = proposal[r] /\ decisions'[bt] = decisions[bt]
            BY <2>2, <4>1, <4>2, <4>3 DEF Accepting, TypeOK
          <5>2. decisions[bt].bank \in consumed[b]
            BY <3>2, <4>1, <5>1 DEF DecisionIsReserved, bt
          <5>3. proposal[r] \notin consumed[b]
            BY <2>2, <4>1, <4>3 DEF Accepting
          <5> QED
            BY <5>1, <5>2, <5>3 DEF bs, bt
        <4>4. CASE bt = key[r]
          <5>1. decisions'[bt].bank = proposal[r] /\ decisions'[bs] = decisions[bs]
            BY <2>2, <4>1, <4>2, <4>4 DEF Accepting, TypeOK
          <5>2. decisions[bs].bank \in consumed[b]
            BY <4>1, <5>1 DEF DecisionIsReserved, bs
          <5>3. proposal[r] \notin consumed[b]
            BY <2>2, <4>1, <4>4 DEF Accepting
          <5> QED
            BY <5>1, <5>2, <5>3 DEF bs, bt
        <4>5. CASE bs # key[r] /\ bt # key[r]
          <5>1. decisions'[bs] = decisions[bs] /\ decisions'[bt] = decisions[bt]
            BY <2>2, <4>1, <4>2, <4>5 DEF Accepting, TypeOK
          <5> QED
            BY <3>2, <5>1 DEF SingleUseEvidence, bs, bt
        <4> QED
          BY <4>3, <4>4, <4>5
      <3> QED
        BY <3>1, <3>2
    <2> QED
      BY <1>2, <2>1, <2>2, DecisionStep
  <1> QED
    BY <1>1, <1>2 DEF Next

\* Every step keeps finalize's late checks from firing: its run owns the
\* settlement, and if the settlement were decided the accepted row would be the
\* decision's own row, which is reserved.
LEMMA NextLateChecks ==
  ASSUME TypeOK, AttemptIsSound, WorkingRunOwns, DecisionIsReserved,
         LateChecksNeverFire, [Next]_vars
  PROVE  LateChecksNeverFire'
  <1> DEFINE Late == {"INVESTIGATION_FINALIZATION_RACE",
                      "INVESTIGATION_ALREADY_ACCEPTED"}
  <1>1. CASE UNCHANGED vars
    BY <1>1 DEF vars, LateChecksNeverFire
  <1>2. ASSUME NEW r \in Request, Step(r)
        PROVE  LateChecksNeverFire'
    <2>1. key[r] \in Key
      BY DEF TypeOK
    <2>2. reply[r] \notin Late /\ reply \in [Request -> Reply]
      BY DEF LateChecksNeverFire, TypeOK
    <2>3. pc[r] \in {"recording", "reclassified"} => Owns(r)
      BY DEF WorkingRunOwns, Working, Owns
    <2>4. AlreadyDecided(r) => EvidenceConflict(r)
      BY <2>1 DEF AlreadyDecided, EvidenceConflict, AttemptIsSound,
                  DecisionIsReserved
    <2>5. reply'[r] \notin Late
      <3>1. CASE CheckEligibility(r) \/ Begin(r) \/ CreateScope(r)
                   \/ EndWithoutProposal(r) \/ (\E x \in Bank : Propose(r, x))
                   \/ FailToBuildRun(r)
        BY <2>2, <3>1
        DEF CheckEligibility, Begin, CreateScope, EndWithoutProposal, Propose,
            FailToBuildRun, Answer
      <3>2. CASE Finalize(r)
        BY <2>2, <2>3, <2>4, <3>2 DEF Finalize, Answer
      <3>3. CASE FinalizeAsRejected(r)
        BY <2>2, <2>3, <3>3 DEF FinalizeAsRejected, Answer
      <3> QED
        BY <1>2, <3>1, <3>2, <3>3 DEF Step
    <2> QED
      BY <1>2, <2>5, OthersUntouched DEF LateChecksNeverFire
  <1> QED
    BY <1>1, <1>2 DEF Next

-----------------------------------------------------------------------------
\* The inductive invariant.
IInv ==
    /\ TypeOK
    /\ AttemptIsSound
    /\ WorkingRunOwns
    /\ DecisionIsReserved
    /\ SingleUseEvidence
    /\ LateChecksNeverFire

\* The protocol keeps its inductive invariant.
THEOREM Invariance == Spec => []IInv
  <1>1. Init => IInv
    <2>1. Init => AttemptIsSound /\ WorkingRunOwns /\ LateChecksNeverFire
      BY DEF Init, AttemptIsSound, WorkingRunOwns, LateChecksNeverFire, Decided,
             Working
    <2>2. Init => DecisionIsReserved /\ SingleUseEvidence
      BY DEF Init, DecisionIsReserved, SingleUseEvidence, Key
    <2> QED
      BY <2>1, <2>2, InitType DEF IInv
  <1>2. IInv /\ [Next]_vars => IInv'
    BY NextType, NextAttempt, NextOwns, NextReserved, NextSingleUse,
       NextLateChecks
    DEF IInv
  <1> QED
    BY <1>1, <1>2, PTL DEF Spec

\* The repository and the requests are always in states the code can represent.
THEOREM TypeCorrect == Spec => []TypeOK
  BY Invariance, PTL DEF IInv

\* No bank row supports two accepted decisions of a batch, or one that the base
\* result already uses, however requests overlap.
THEOREM SingleUse == Spec => []SingleUseEvidence
  BY Invariance, PTL DEF IInv

\* finalize never refuses a run for a lost race or a second decision.
THEOREM LateChecks == Spec => []LateChecksNeverFire
  BY Invariance, PTL DEF IInv

-----------------------------------------------------------------------------
\* Every step is an acceptance of the abstract specification or none.
LEMMA StepRefines ==
  ASSUME IInv, IInv', [Next]_vars
  PROVE  [Accepted!Next]_Evidence
  <1>1. CASE UNCHANGED decisions
    BY <1>1 DEF Evidence
  <1>2. ASSUME NEW r \in Request, Accepting(r), Step(r)
        PROVE  Accepted!Next
    <2> DEFINE b == key[r][1]
               s == key[r][2]
               x == proposal[r]
    <2>1. /\ key[r] \in Key /\ key[r] = <<b, s>>
          /\ b \in Batch /\ s \in Settlement
      BY DEF IInv, TypeOK, Key
    <2>2. x \in Bank /\ x \notin Deterministic[b]
      BY <1>2 DEF Accepting, IInv, AttemptIsSound
    <2>3. decisions'[key[r]].bank = x /\ decisions'[key[r]] \in Decision
      BY <1>2, <2>1, <2>2 DEF Accepting, IInv, TypeOK, Decision
    <2>4. Evidence' = [Evidence EXCEPT ![key[r]] = x]
      <3>1. decisions'[key[r]] # NoDecision
        BY <2>3, NoDecisionAssumption
      <3>2. \A k \in Key \ {key[r]} : decisions'[k] = decisions[k]
        BY <1>2, <2>1 DEF Accepting, IInv, TypeOK
      <3> QED
        BY <2>1, <2>3, <3>1, <3>2 DEF Evidence
    <2>5. Evidence[<<b, s>>] = NoBank
      BY <1>2, <2>1 DEF Accepting, Evidence
    <2>6. ASSUME NEW t \in Settlement
          PROVE  Evidence[<<b, t>>] # x
      <3> DEFINE k == <<b, t>>
      <3>1. k \in Key /\ k[1] = b
        BY <2>1 DEF Key
      <3>2. x \notin consumed[b]
        BY <1>2 DEF Accepting
      <3>3. decisions[k] # NoDecision => decisions[k].bank \in consumed[b]
        BY <3>1 DEF IInv, DecisionIsReserved
      <3>4. x # NoBank
        BY <2>2, InvestigationAssumption
      <3> HIDE DEF k
      <3>5. Evidence[k] # x
        BY <3>1, <3>2, <3>3, <3>4 DEF Evidence
      <3> QED
        BY <3>5 DEF k
    <2>7. Accepted!Accept(b, s, x)
      BY <2>1, <2>2, <2>4, <2>5, <2>6 DEF Accepted!Accept
    <2> QED
      BY <2>1, <2>2, <2>7 DEF Accepted!Next
  <1>3. ASSUME NEW r \in Request, Step(r)
        PROVE  Accepting(r) \/ UNCHANGED decisions
    BY <1>3, DecisionStep DEF IInv
  <1> QED
    BY <1>1, <1>2, <1>3 DEF Next, vars, repository

\* The decisions of all interleavings are those of AcceptedEvidence.
THEOREM Refinement == Spec => ImplementsAcceptedEvidence
  <1>1. Init => Accepted!Init
    BY DEF Init, Accepted!Init, Evidence, Key
  <1> QED
    BY <1>1, StepRefines, Invariance, PTL
    DEF Spec, Accepted!Spec, ImplementsAcceptedEvidence

-----------------------------------------------------------------------------
(***************************************************************************)
(* Ownership: by the run some thread works on, or one that got lost.       *)
(***************************************************************************)
\* The record of the run could not be built, and no thread works on it.
Lost(r) == reply[r] = "UNHANDLED_VALIDATION_ERROR"

LostRunOwns ==
    \A r \in Request : Lost(r) => pc[r] = "answered" /\ active[key[r]] = r

OwnerHolds ==
    \A k \in Key, r \in Request :
        active[k] = r => key[r] = k /\ (pc[r] \in Working \/ Lost(r))

\* An answered request takes no step.
LEMMA AnsweredIsOver ==
  ASSUME NEW r \in Request, Step(r)
  PROVE  pc[r] # "answered"
  BY DEF Step, CheckEligibility, Begin, CreateScope, EndWithoutProposal,
         Propose, FailToBuildRun, Finalize, FinalizeAsRejected

\* Only a run that works on its settlement gets lost, and it keeps it.
LEMMA LosingStep ==
  ASSUME TypeOK, NEW r \in Request, Step(r), ~Lost(r), Lost(r)'
  PROVE  pc[r] \in Working /\ pc'[r] = "answered" /\ active' = active
  BY DEF Step, CheckEligibility, Begin, CreateScope, EndWithoutProposal,
         Propose, FailToBuildRun, Finalize, FinalizeAsRejected, Answer, Goto,
         repository, Lost, Working, TypeOK

LEMMA NextLostOwns ==
  ASSUME TypeOK, WorkingRunOwns, LostRunOwns, [Next]_vars
  PROVE  LostRunOwns'
  <1>1. CASE UNCHANGED vars
    BY <1>1 DEF vars, repository, LostRunOwns, Lost
  <1>2. ASSUME NEW r \in Request, Step(r)
        PROVE  LostRunOwns'
    <2> SUFFICES ASSUME NEW q \in Request, Lost(q)'
                 PROVE  pc'[q] = "answered" /\ active'[key[q]] = q
      BY <1>2, KeysAreFixed DEF LostRunOwns, Next
    <2>1. key[q] \in Key /\ key[r] \in Key
      BY DEF TypeOK
    <2>2. CASE q = r
      <3>1. ~Lost(r)
        BY <1>2, AnsweredIsOver DEF LostRunOwns
      <3> QED
        BY <1>2, <2>2, <3>1, LosingStep DEF WorkingRunOwns
    <2>3. CASE q # r
      <3>1. pc'[q] = "answered" /\ active[key[q]] = q
        BY <1>2, <2>3, OthersUntouched DEF LostRunOwns, Lost
      <3>2. CASE key[q] = key[r]
        <4>1. active[key[r]] \notin {NoRun, r}
          BY <2>3, <3>1, <3>2, InvestigationAssumption
        <4> QED
          BY <1>2, <3>1, <4>1, OwnerStep
      <3>3. CASE key[q] # key[r]
        BY <1>2, <2>1, <3>1, <3>3, OwnerStep
      <3> QED
        BY <3>2, <3>3
    <2> QED
      BY <2>2, <2>3
  <1> QED
    BY <1>1, <1>2 DEF Next

LEMMA NextOwnerHolds ==
  ASSUME TypeOK, WorkingRunOwns, LostRunOwns, OwnerHolds, [Next]_vars
  PROVE  OwnerHolds'
  <1>1. CASE UNCHANGED vars
    BY <1>1 DEF vars, repository, OwnerHolds, Lost
  <1>2. ASSUME NEW r \in Request, Step(r)
        PROVE  OwnerHolds'
    <2> SUFFICES ASSUME NEW k \in Key, NEW q \in Request, active'[k] = q
                 PROVE  key[q] = k /\ (pc'[q] \in Working \/ Lost(q)')
      BY <1>2, KeysAreFixed DEF OwnerHolds, Next
    <2>1. key[r] \in Key
      BY DEF TypeOK
    <2>2. ~Lost(r)
      BY <1>2, AnsweredIsOver DEF LostRunOwns
    <2>3. CASE k # key[r]
      <3>1. active[k] = q
        BY <1>2, <2>3, OwnerStep
      <3>2. q # r
        BY <2>3, <3>1 DEF OwnerHolds
      <3> QED
        BY <1>2, <3>1, <3>2, OthersUntouched DEF OwnerHolds, Lost
    <2>4. CASE k = key[r] /\ q # r
      <3>1. active[k] = q
        BY <1>2, <2>1, <2>4, InvestigationAssumption
        DEF Step, CheckEligibility, Begin, CreateScope, EndWithoutProposal,
            Propose, FailToBuildRun, Finalize, FinalizeAsRejected, Released,
            Commit, Store, RollBack, repository, TypeOK
      <3> QED
        BY <1>2, <2>4, <3>1, OthersUntouched DEF OwnerHolds, Lost
    <2>5. CASE k = key[r] /\ q = r
      <3>1. pc[r] \notin Working => active[k] # r
        BY <2>1, <2>2, <2>5 DEF OwnerHolds
      <3>2. pc[r] \in Working => Owns(r)
        BY DEF WorkingRunOwns, Owns
      <3>3. pc'[r] \in Working \/ Lost(r)'
        BY <1>2, <2>1, <2>5, <3>1, <3>2, InvestigationAssumption
        DEF Step, CheckEligibility, Begin, CreateScope, EndWithoutProposal,
            Propose, FailToBuildRun, Finalize, FinalizeAsRejected, Released,
            Answer, Goto, Owns, Commit, Store, RollBack, repository, TypeOK,
            Working, Lost
      <3> QED
        BY <2>5, <3>3
    <2> QED
      BY <2>3, <2>4, <2>5
  <1> QED
    BY <1>1, <1>2 DEF Next

\* A settlement is owned exactly by the run some thread works on or whose record
\* could not be built, whatever the texts: nothing else is ever left blocked.
THEOREM Ownership == Spec => []OwnershipMatchesWork
  <1>1. Init => LostRunOwns /\ OwnerHolds
    BY InvestigationAssumption DEF Init, LostRunOwns, OwnerHolds, Lost
  <1>2. IInv /\ LostRunOwns /\ OwnerHolds /\ [Next]_vars
            => (LostRunOwns /\ OwnerHolds)'
    BY NextLostOwns, NextOwnerHolds DEF IInv
  <1>3. IInv /\ LostRunOwns /\ OwnerHolds => OwnershipMatchesWork
    BY DEF IInv, WorkingRunOwns, LostRunOwns, OwnerHolds, OwnershipMatchesWork,
           Lost
  <1> QED
    BY <1>1, <1>2, <1>3, Invariance, PTL DEF Spec

-----------------------------------------------------------------------------
(***************************************************************************)
(* What finalize stores, and what it keeps                                 *)
(***************************************************************************)
\* A transaction that accepts is the step that stores the decision; any other
\* step records nothing and reserves no row but those of the base result.
LEMMA StoringStep ==
  ASSUME TypeOK, AttemptIsSound, NEW r \in Request, Step(r)
  PROVE  \/ /\ Commit(r)
            /\ pc[r] \in {"recording", "reclassified"}
            /\ Decided(r) => Accepting(r)
         \/ /\ UNCHANGED <<runs, decisions, events, sequence>>
            /\ \A b \in Batch : consumed'[b] \subseteq consumed[b] \cup Deterministic[b]
  <1> DEFINE Stored == /\ Commit(r)
                       /\ pc[r] \in {"recording", "reclassified"}
                       /\ Decided(r) => Accepting(r)
             Kept == /\ UNCHANGED <<runs, decisions, events, sequence>>
                     /\ \A b \in Batch :
                           consumed'[b] \subseteq consumed[b] \cup Deterministic[b]
  <1>1. CASE CheckEligibility(r) \/ CreateScope(r) \/ EndWithoutProposal(r)
               \/ (\E x \in Bank : Propose(r, x)) \/ FailToBuildRun(r)
    BY <1>1 DEF CheckEligibility, CreateScope, EndWithoutProposal, Propose,
                FailToBuildRun, repository
  <1>2. CASE Begin(r)
    <2>1. key[r][1] \in Batch
      BY KeyType DEF TypeOK
    <2> QED
      BY <1>2, <2>1 DEF Begin, TypeOK
  <1>3. CASE Finalize(r)
    <2>1. CASE UNCHANGED <<runs, decisions, events, sequence, consumed>>
      BY <2>1
    <2>2. CASE Commit(r) /\ ~EvidenceConflict(r) /\ ~AlreadyDecided(r)
      <3>1. Decided(r) => Accepting(r)
        BY <2>2 DEF Accepting, Commit, Store, EvidenceConflict, AlreadyDecided
      <3> QED
        BY <1>3, <2>2, <3>1 DEF Finalize
    <2> QED
      BY <1>3, <2>1, <2>2 DEF Finalize, RollBack, repository
  <1>4. CASE FinalizeAsRejected(r)
    <2>1. ~Decided(r)
      BY <1>4 DEF FinalizeAsRejected, AttemptIsSound
    <2> QED
      BY <1>4, <2>1 DEF FinalizeAsRejected, RollBack, repository
  <1> QED
    BY <1>1, <1>2, <1>3, <1>4 DEF Step

\* Every reserved row is still backed after a step: by the base result, or by
\* the decision that is stored in the step that reserves it.
LEMMA NextBacked ==
  ASSUME TypeOK, AttemptIsSound, ReservationsAreBacked, [Next]_vars
  PROVE  ReservationsAreBacked'
  <1>1. CASE UNCHANGED vars
    BY <1>1 DEF vars, repository, ReservationsAreBacked
  <1>2. ASSUME NEW r \in Request, Step(r)
        PROVE  ReservationsAreBacked'
    <2> SUFFICES ASSUME NEW b \in Batch, NEW y \in consumed'[b],
                        y \notin Deterministic[b]
                 PROVE  \E s \in Settlement : /\ decisions'[<<b, s>>] # NoDecision
                                              /\ decisions'[<<b, s>>].bank = y
      BY DEF ReservationsAreBacked
    <2>1. key[r] \in Key /\ key[r][1] \in Batch /\ key[r][2] \in Settlement
          /\ key[r] = <<key[r][1], key[r][2]>>
      BY KeyType DEF TypeOK, Key
    <2>2. y \in consumed[b] =>
             \E s \in Settlement : /\ decisions[<<b, s>>] # NoDecision
                                   /\ decisions[<<b, s>>].bank = y
      BY DEF ReservationsAreBacked
    <2>3. CASE Accepting(r)
      <3> DEFINE new == [run |-> r, bank |-> proposal[r], sequence |-> sequence + 2]
      <3>1. new \in Decision
        BY <2>3 DEF Accepting, AttemptIsSound, TypeOK, Decision
      <3>2. new # NoDecision /\ new.bank = proposal[r]
        BY <3>1, NoDecisionAssumption
      <3>3. decisions' = [decisions EXCEPT ![key[r]] = new]
            /\ decisions[key[r]] = NoDecision
            /\ consumed' = [consumed EXCEPT ![key[r][1]] = @ \cup {proposal[r]}]
        BY <2>3 DEF Accepting
      <3> HIDE DEF new
      <3>4. \A k \in Key : decisions[k] # NoDecision => decisions'[k] = decisions[k]
        BY <3>3 DEF TypeOK
      <3>5. CASE y \in consumed[b]
        BY <2>2, <3>4, <3>5 DEF Key
      <3>6. CASE y \notin consumed[b]
        <4>1. b = key[r][1] /\ y = proposal[r]
          BY <2>1, <3>3, <3>6 DEF TypeOK
        <4>2. decisions'[key[r]] = new
          BY <2>1, <3>3 DEF TypeOK
        <4> QED
          BY <2>1, <3>2, <4>1, <4>2
      <3> QED
        BY <3>5, <3>6
    <2>4. CASE Commit(r) /\ ~Decided(r)
      <3>1. decisions' = decisions /\ consumed' = [consumed EXCEPT ![key[r][1]] = @ \cup {}]
        BY <2>4 DEF Commit, Store
      <3> QED
        BY <2>1, <2>2, <3>1 DEF TypeOK
    <2>5. CASE /\ decisions' = decisions
               /\ consumed'[b] \subseteq consumed[b] \cup Deterministic[b]
      BY <2>2, <2>5
    <2> QED
      BY <1>2, <2>3, <2>4, <2>5, StoringStep
  <1> QED
    BY <1>1, <1>2 DEF Next

\* No reservation is left behind by a run that failed or was rejected.
THEOREM Backed == Spec => []ReservationsAreBacked
  <1>1. Init => ReservationsAreBacked
    BY DEF Init, ReservationsAreBacked
  <1>2. IInv /\ ReservationsAreBacked /\ [Next]_vars => ReservationsAreBacked'
    BY NextBacked DEF IInv
  <1> QED
    BY <1>1, <1>2, Invariance, PTL DEF Spec

\* A request has no ending before its exploration has one.
NoEarlyEnding ==
    \A r \in Request :
        pc[r] \notin {"recording", "reclassified", "answered"} => ending[r] = "none"

LEMMA NextNoEarlyEnding ==
  ASSUME TypeOK, NoEarlyEnding, [Next]_vars
  PROVE  NoEarlyEnding'
  <1>1. CASE UNCHANGED vars
    BY <1>1 DEF vars, attempt, NoEarlyEnding
  <1>2. ASSUME NEW r \in Request, Step(r)
        PROVE  NoEarlyEnding'
    <2>1. pc'[r] \notin {"recording", "reclassified", "answered"} => ending'[r] = "none"
      BY <1>2 DEF NoEarlyEnding, Step, CheckEligibility, Begin, CreateScope,
         EndWithoutProposal, Propose, FailToBuildRun, Finalize,
         FinalizeAsRejected, Answer, Goto, attempt, TypeOK
    <2> QED
      BY <1>2, <2>1, OthersUntouched DEF NoEarlyEnding
  <1> QED
    BY <1>1, <1>2 DEF Next

\* A run whose exploration ended is answered by storing it, unless its record
\* could not be built or written.
LEMMA AnsweringStep ==
  ASSUME TypeOK, NoEarlyEnding, LateChecksNeverFire', NEW r \in Request, Step(r),
         pc'[r] = "answered", ending'[r] # "none",
         reply'[r] \notin LostWrite \cup {"UNHANDLED_VALIDATION_ERROR"}
  PROVE  Commit(r) /\ ending' = ending
  <1>1. /\ reply'[r] # "INVESTIGATION_FINALIZATION_RACE"
        /\ reply'[r] # "INVESTIGATION_ALREADY_ACCEPTED"
    BY DEF LateChecksNeverFire
  <1>2. ~CheckEligibility(r) /\ ~Begin(r) /\ ~CreateScope(r)
    BY DEF CheckEligibility, Begin, CreateScope, NoEarlyEnding, attempt
  <1>3. ~EndWithoutProposal(r) /\ ~FailToBuildRun(r)
        /\ ~(\E x \in Bank : Propose(r, x))
    BY DEF EndWithoutProposal, Propose, FailToBuildRun, Goto, Answer, TypeOK
  <1>4. CASE Finalize(r)
    BY <1>1, <1>4 DEF Finalize, Answer, Goto, LostWrite, attempt, TypeOK
  <1>5. CASE FinalizeAsRejected(r)
    BY <1>1, <1>5 DEF FinalizeAsRejected, Answer, Goto, LostWrite, attempt, TypeOK
  <1> QED
    BY <1>2, <1>3, <1>4, <1>5 DEF Step

LEMMA NextRetained ==
  ASSUME TypeOK, AttemptIsSound, NoEarlyEnding, LateChecksNeverFire',
         RecordedRunsAreRetained, [Next]_vars
  PROVE  RecordedRunsAreRetained'
  <1>1. CASE UNCHANGED vars
    BY <1>1 DEF vars, repository, attempt, RecordedRunsAreRetained, Retained
  <1>2. ASSUME NEW r \in Request, Step(r)
        PROVE  RecordedRunsAreRetained'
    <2> SUFFICES ASSUME NEW q \in Request, pc'[q] = "answered", ending'[q] # "none",
                        reply'[q] \notin LostWrite \cup {"UNHANDLED_VALIDATION_ERROR"}
                 PROVE  \E x \in runs' : x.id = q /\ x.status = ending'[q]
      BY DEF RecordedRunsAreRetained, Retained
    <2>1. CASE q # r
      <3>1. runs \subseteq runs'
        BY <1>2, StoringStep DEF Commit, Store
      <3>2. \E x \in runs : x.id = q /\ x.status = ending[q]
        BY <1>2, <2>1, OthersUntouched DEF RecordedRunsAreRetained, Retained
      <3> QED
        BY <1>2, <2>1, <3>1, <3>2, OthersUntouched
    <2>2. CASE q = r
      <3> DEFINE run == [id |-> r, key |-> key[r], status |-> ending[r],
                         verdict |-> verdict[r], sequence |-> sequence + 1]
      <3>1. Commit(r) /\ ending' = ending
        BY <1>2, <2>2, AnsweringStep
      <3>2. run \in runs'
        BY <3>1 DEF Commit, Store
      <3>3. run.id = r /\ run.status = ending[r]
        OBVIOUS
      <3> HIDE DEF run
      <3> QED
        BY <2>2, <3>1, <3>2, <3>3
    <2> QED
      BY <2>1, <2>2
  <1> QED
    BY <1>1, <1>2 DEF Next

\* Whatever overlaps, the ending of a run whose record could be built and written
\* is the one that is kept.
THEOREM RunsRetained == Spec => []RecordedRunsAreRetained
  <1>1. Init => NoEarlyEnding /\ RecordedRunsAreRetained
    BY DEF Init, NoEarlyEnding, RecordedRunsAreRetained
  <1>2. IInv /\ IInv' /\ NoEarlyEnding /\ RecordedRunsAreRetained /\ [Next]_vars
            => (NoEarlyEnding /\ RecordedRunsAreRetained)'
    BY NextNoEarlyEnding, NextRetained DEF IInv
  <1> QED
    BY <1>1, <1>2, Invariance, PTL DEF Spec

-----------------------------------------------------------------------------
\* The parts a transaction stores; one that does not accept keeps the decisions.
LEMMA StoredParts ==
  ASSUME NEW r \in Request, Commit(r)
  PROVE  \E run, event :
            /\ run.id = r /\ run.key = key[r] /\ run.verdict = verdict[r]
            /\ run.sequence = sequence + 1
            /\ event.run = r /\ event.key = key[r]
            /\ event.verified = (verdict[r] = "accepted")
            /\ event.sequence = sequence'
            /\ sequence' = sequence + IF Decided(r) THEN 3 ELSE 2
            /\ runs' = runs \cup {run} /\ events' = events \cup {event}
            /\ ~Decided(r) => decisions' = decisions
  <1> DEFINE last == sequence + IF Decided(r) THEN 3 ELSE 2
             accepted == verdict[r] = "accepted"
             run == [id |-> r, key |-> key[r], status |-> ending[r],
                     verdict |-> verdict[r], sequence |-> sequence + 1]
             event == [run |-> r, key |-> key[r], verified |-> accepted,
                       sequence |-> last]
  <1>1. /\ runs' = runs \cup {run} /\ events' = events \cup {event}
        /\ sequence' = last /\ (~Decided(r) => decisions' = decisions)
    BY DEF Commit, Store
  <1>2. /\ run.id = r /\ run.key = key[r] /\ run.verdict = verdict[r]
        /\ run.sequence = sequence + 1
    OBVIOUS
  <1> HIDE DEF accepted
  <1>3. /\ event.run = r /\ event.key = key[r] /\ event.verified = accepted
        /\ event.sequence = last
    OBVIOUS
  <1> HIDE DEF run, event
  <1> QED
    BY <1>1, <1>2, <1>3 DEF accepted

\* A run and its audit event are one entry of the journal.
RunEntries == {<<x.id, x.key, x.verdict = "accepted">> : x \in runs}
EventEntries == {<<e.run, e.key, e.verified>> : e \in events}

LEMMA NextTogether ==
  ASSUME TypeOK, AttemptIsSound, DecisionIsReserved, DecisionIsReserved',
         FinalizedTogether, [Next]_vars
  PROVE  FinalizedTogether'
  <1>1. CASE UNCHANGED vars
    BY <1>1 DEF vars, repository, FinalizedTogether
  <1>2. ASSUME NEW r \in Request, Step(r)
        PROVE  FinalizedTogether'
    <2>0. key[r] \in Key
      BY DEF TypeOK
    <2>1. CASE UNCHANGED <<runs, decisions, events, sequence>>
      BY <2>1 DEF FinalizedTogether, DecisionIsReserved
    <2>2. CASE Commit(r) /\ (Decided(r) => Accepting(r))
      <3>1. PICK run, event :
            /\ run.id = r /\ run.key = key[r] /\ run.verdict = verdict[r]
            /\ event.run = r /\ event.key = key[r]
            /\ event.verified = (verdict[r] = "accepted")
            /\ runs' = runs \cup {run} /\ events' = events \cup {event}
            /\ ~Decided(r) => decisions' = decisions
        BY <2>2, StoredParts
      <3>2. RunEntries' = EventEntries'
        <4>1. RunEntries' = RunEntries \cup {<<r, key[r], verdict[r] = "accepted">>}
          BY <3>1 DEF RunEntries
        <4>2. EventEntries' = EventEntries \cup {<<r, key[r], verdict[r] = "accepted">>}
          BY <3>1 DEF EventEntries
        <4>3. RunEntries = EventEntries
          BY DEF FinalizedTogether, RunEntries, EventEntries
        <4> QED
          BY <4>1, <4>2, <4>3
      <3>3. CASE ~Decided(r)
        <4>1. decisions' = decisions /\ run.verdict # "accepted"
          BY <3>1, <3>3 DEF Decided
        <4> QED
          BY <3>1, <3>2, <4>1
          DEF FinalizedTogether, DecisionIsReserved, RunEntries, EventEntries
      <3>4. CASE Decided(r)
        <4> DEFINE new == [run |-> r, bank |-> proposal[r], sequence |-> sequence + 2]
        <4>1. new \in Decision /\ new.run = r
          BY <3>4 DEF AttemptIsSound, TypeOK, Decision
        <4>2. new # NoDecision
          BY <4>1, NoDecisionAssumption
        <4>3. /\ decisions' = [decisions EXCEPT ![key[r]] = new]
              /\ decisions[key[r]] = NoDecision
          BY <2>2, <3>4 DEF Accepting
        <4> HIDE DEF new
        <4>4. decisions'[key[r]] = new
              /\ \A k \in Key \ {key[r]} : decisions'[k] = decisions[k]
          BY <2>0, <4>3 DEF TypeOK
        <4>5. \A x \in runs : x.key \in Key
          BY DEF TypeOK, AgentRun
        <4>6. ASSUME NEW x \in runs', x.verdict = "accepted"
              PROVE  decisions'[x.key] # NoDecision /\ decisions'[x.key].run = x.id
          <5>1. CASE x \in runs
            <6>1. decisions[x.key] # NoDecision /\ decisions[x.key].run = x.id
              BY <4>6, <5>1 DEF FinalizedTogether
            <6> QED
              BY <4>3, <4>4, <4>5, <5>1, <6>1
          <5>2. CASE x = run
            BY <3>1, <4>1, <4>2, <4>4, <5>2
          <5> QED
            BY <3>1, <5>1, <5>2
        <4>7. ASSUME NEW k \in Key, decisions'[k] # NoDecision
              PROVE  /\ decisions'[k].bank \in consumed'[k[1]]
                     /\ \E x \in runs' : /\ x.id = decisions'[k].run /\ x.key = k
                                         /\ x.verdict = "accepted"
          <5>1. decisions'[k].bank \in consumed'[k[1]]
            BY <4>7 DEF DecisionIsReserved
          <5>2. CASE k = key[r]
            BY <3>1, <3>4, <4>1, <4>4, <5>1, <5>2 DEF Decided
          <5>3. CASE k # key[r]
            <6>1. \E x \in runs : /\ x.id = decisions[k].run /\ x.key = k
                                  /\ x.verdict = "accepted"
              BY <4>4, <4>7, <5>3 DEF FinalizedTogether
            <6> QED
              BY <3>1, <4>4, <5>1, <5>3, <6>1
          <5> QED
            BY <5>2, <5>3
        <4> QED
          BY <3>2, <4>6, <4>7 DEF FinalizedTogether, RunEntries, EventEntries
      <3> QED
        BY <3>3, <3>4
    <2> QED
      BY <1>2, <2>1, <2>2, StoringStep
  <1> QED
    BY <1>1, <1>2 DEF Next

\* The run, its audit event and its decision are in the repository together or
\* not at all, whatever step of a transaction fails.
THEOREM StoredTogether == Spec => []FinalizedTogether
  <1>1. Init => FinalizedTogether
    BY DEF Init, FinalizedTogether
  <1>2. IInv /\ IInv' /\ FinalizedTogether /\ [Next]_vars => FinalizedTogether'
    BY NextTogether DEF IInv
  <1> QED
    BY <1>1, <1>2, Invariance, PTL DEF Spec

-----------------------------------------------------------------------------
\* The numbers given to runs, events and decisions.
DecidedKeys == {k \in Key : decisions[k] # NoDecision}
RunNumbers == {x.sequence : x \in runs}
EventNumbers == {e.sequence : e \in events}
DecisionNumbers == {decisions[k].sequence : k \in DecidedKeys}

OrderInv ==
    /\ IsFiniteSet(runs) /\ IsFiniteSet(events) /\ IsFiniteSet(DecidedKeys)
    /\ RunNumbers \cup EventNumbers \cup DecisionNumbers = 1 .. sequence
    /\ Cardinality(runs) + Cardinality(events) + Cardinality(DecidedKeys) = sequence

\* The settlement that is decided takes the number between run and event.
LEMMA AcceptingNumbers ==
  ASSUME TypeOK, AttemptIsSound, NEW r \in Request, Decided(r), Accepting(r)
  PROVE  /\ key[r] \notin DecidedKeys
         /\ DecidedKeys' = DecidedKeys \cup {key[r]}
         /\ DecisionNumbers' = DecisionNumbers \cup {sequence + 2}
  <1> DEFINE new == [run |-> r, bank |-> proposal[r], sequence |-> sequence + 2]
  <1>1. new \in Decision /\ new.sequence = sequence + 2
    BY DEF AttemptIsSound, TypeOK, Decision
  <1>2. new # NoDecision
    BY <1>1, NoDecisionAssumption
  <1>3. /\ decisions' = [decisions EXCEPT ![key[r]] = new]
        /\ decisions[key[r]] = NoDecision /\ key[r] \in Key
    BY DEF Accepting, TypeOK
  <1> HIDE DEF new
  <1>4. decisions'[key[r]] = new
        /\ \A k \in Key \ {key[r]} : decisions'[k] = decisions[k]
    BY <1>3 DEF TypeOK
  <1>5. key[r] \notin DecidedKeys /\ DecidedKeys' = DecidedKeys \cup {key[r]}
    BY <1>2, <1>3, <1>4 DEF DecidedKeys
  <1>6. \A k \in DecidedKeys : decisions'[k] = decisions[k]
    BY <1>4, <1>5 DEF DecidedKeys
  <1>7. DecisionNumbers' = DecisionNumbers \cup {sequence + 2}
    BY <1>1, <1>4, <1>5, <1>6 DEF DecisionNumbers
  <1> QED
    BY <1>5, <1>7

LEMMA NextOrder ==
  ASSUME TypeOK, AttemptIsSound, OrderInv, [Next]_vars
  PROVE  OrderInv'
  <1>1. CASE UNCHANGED <<runs, decisions, events, sequence>>
    BY <1>1 DEF OrderInv, DecidedKeys, RunNumbers, EventNumbers, DecisionNumbers
  <1>2. ASSUME NEW r \in Request, Commit(r), Decided(r) => Accepting(r)
        PROVE  OrderInv'
    <2>1. PICK run, event :
            /\ run.sequence = sequence + 1 /\ event.sequence = sequence'
            /\ sequence' = sequence + IF Decided(r) THEN 3 ELSE 2
            /\ runs' = runs \cup {run} /\ events' = events \cup {event}
            /\ ~Decided(r) => decisions' = decisions
      BY <1>2, StoredParts
    <2>2. sequence \in Nat
      BY DEF TypeOK
    <2>3. run \notin runs /\ event \notin events
      <3>1. sequence + 1 \notin 1 .. sequence /\ sequence' \notin 1 .. sequence
        BY <2>1, <2>2
      <3>2. RunNumbers \subseteq 1 .. sequence /\ EventNumbers \subseteq 1 .. sequence
        BY DEF OrderInv
      <3> QED
        BY <2>1, <3>1, <3>2 DEF RunNumbers, EventNumbers
    <2>4. /\ RunNumbers' = RunNumbers \cup {sequence + 1}
          /\ EventNumbers' = EventNumbers \cup {sequence'}
      BY <2>1 DEF RunNumbers, EventNumbers
    <2>5. /\ IsFiniteSet(runs') /\ Cardinality(runs') = Cardinality(runs) + 1
          /\ IsFiniteSet(events') /\ Cardinality(events') = Cardinality(events) + 1
      BY <2>1, <2>3, FS_AddElement DEF OrderInv
    <2>6. /\ Cardinality(runs) \in Nat /\ Cardinality(events) \in Nat
          /\ Cardinality(DecidedKeys) \in Nat
      BY FS_CardinalityType DEF OrderInv
    <2>7. /\ RunNumbers \cup EventNumbers \cup DecisionNumbers = 1 .. sequence
          /\ Cardinality(runs) + Cardinality(events) + Cardinality(DecidedKeys)
                = sequence
      BY DEF OrderInv
    <2>8. CASE ~Decided(r)
      <3>1. DecidedKeys' = DecidedKeys /\ DecisionNumbers' = DecisionNumbers
        BY <2>1, <2>8 DEF DecidedKeys, DecisionNumbers
      <3>2. sequence' = sequence + 2
        BY <2>1, <2>8
      <3>3. 1 .. sequence' = 1 .. sequence \cup {sequence + 1, sequence + 2}
        BY <2>2, <3>2
      <3>4. RunNumbers' \cup EventNumbers' \cup DecisionNumbers' = 1 .. sequence'
        BY <2>4, <2>7, <3>1, <3>2, <3>3
      <3>5. Cardinality(runs') + Cardinality(events') + Cardinality(DecidedKeys')
               = sequence'
        BY <2>5, <2>6, <2>7, <3>1, <3>2
      <3> QED
        BY <2>5, <3>1, <3>4, <3>5 DEF OrderInv
    <2>9. CASE Decided(r)
      <3>1. /\ key[r] \notin DecidedKeys
            /\ DecidedKeys' = DecidedKeys \cup {key[r]}
            /\ DecisionNumbers' = DecisionNumbers \cup {sequence + 2}
        BY <1>2, <2>9, AcceptingNumbers
      <3>2. sequence' = sequence + 3
        BY <2>1, <2>9
      <3>3. 1 .. sequence' = 1 .. sequence \cup {sequence + 1, sequence + 2, sequence + 3}
        BY <2>2, <3>2
      <3>4. RunNumbers' \cup EventNumbers' \cup DecisionNumbers' = 1 .. sequence'
        BY <2>4, <2>7, <3>1, <3>2, <3>3
      <3>5. IsFiniteSet(DecidedKeys')
            /\ Cardinality(DecidedKeys') = Cardinality(DecidedKeys) + 1
        BY <3>1, FS_AddElement DEF OrderInv
      <3>6. Cardinality(runs') + Cardinality(events') + Cardinality(DecidedKeys')
               = sequence'
        BY <2>5, <2>6, <2>7, <3>2, <3>5
      <3> QED
        BY <2>5, <3>4, <3>5, <3>6 DEF OrderInv
    <2> QED
      BY <2>8, <2>9
  <1> QED
    BY <1>1, <1>2, StoringStep DEF Next, vars, repository

LEMMA InitOrder ==
  ASSUME Init
  PROVE  OrderInv
  <1>1. runs = {} /\ events = {} /\ DecidedKeys = {} /\ sequence = 0
    BY DEF Init, DecidedKeys
  <1>2. IsFiniteSet({}) /\ Cardinality({}) = 0
    BY FS_EmptySet
  <1>3. 1 .. 0 = {}
    OBVIOUS
  <1>4. RunNumbers = {} /\ EventNumbers = {} /\ DecisionNumbers = {}
    BY <1>1 DEF RunNumbers, EventNumbers, DecisionNumbers
  <1> QED
    BY <1>1, <1>2, <1>3, <1>4 DEF OrderInv

\* Everything that was ever recorded has a number of its own, without gaps.
THEOREM TotalOrder == Spec => []SequenceTotallyOrders
  <1>1. Init => OrderInv
    BY InitOrder
  <1>2. IInv /\ OrderInv /\ [Next]_vars => OrderInv'
    BY NextOrder DEF IInv
  <1>3. OrderInv => SequenceTotallyOrders
    BY DEF OrderInv, SequenceTotallyOrders, DecidedKeys, RunNumbers, EventNumbers,
           DecisionNumbers
  <1> QED
    BY <1>1, <1>2, <1>3, Invariance, PTL DEF Spec

-----------------------------------------------------------------------------
(***************************************************************************)
(* What a client may conclude from the answer to its request.              *)
(***************************************************************************)
\* A request is answered with a stored run exactly when the repository has that
\* run, once, for the settlement asked for and with the ending that was reached.
RecordOf(x) ==
    /\ pc[x.id] = "answered" /\ reply[x.id] = "run"
    /\ x.key = key[x.id]
    /\ x.status = ending[x.id] /\ x.verdict = verdict[x.id]

AnswersMatchRecords ==
    /\ \A r \in Request : reply[r] = "run" => \E x \in runs : x.id = r
    /\ \A x \in runs : RecordOf(x)
    /\ \A x, y \in runs : x.id = y.id => x = y

\* A step answers with a stored run only by the transaction that stores it.
LEMMA RunAnswerStep ==
  ASSUME TypeOK, NEW r \in Request, Step(r)
  PROVE  /\ reply'[r] = "run" /\ reply[r] # "run" => Commit(r)
         /\ reply[r] = "run" => reply'[r] # "none"
  <1>1. CASE CheckEligibility(r) \/ Begin(r) \/ CreateScope(r) \/ EndWithoutProposal(r)
               \/ (\E x \in Bank : Propose(r, x)) \/ FailToBuildRun(r)
    BY <1>1 DEF CheckEligibility, Begin, CreateScope, EndWithoutProposal, Propose,
                FailToBuildRun, Answer, TypeOK
  <1>2. CASE Finalize(r) \/ FinalizeAsRejected(r)
    BY <1>2 DEF Finalize, FinalizeAsRejected, Answer, TypeOK
  <1> QED
    BY <1>1, <1>2 DEF Step

\* A transaction that stores a run answers with it and leaves its ending alone.
LEMMA CommitAnswers ==
  ASSUME TypeOK, AttemptIsSound, NEW r \in Request, Step(r), runs' # runs
  PROVE  /\ Commit(r) /\ pc[r] \in {"recording", "reclassified"}
         /\ pc'[r] = "answered" /\ reply'[r] = "run"
         /\ UNCHANGED <<key, ending, verdict>>
  <1>1. ~CheckEligibility(r) /\ ~Begin(r) /\ ~CreateScope(r) /\ ~EndWithoutProposal(r)
        /\ ~(\E x \in Bank : Propose(r, x)) /\ ~FailToBuildRun(r)
    BY DEF CheckEligibility, Begin, CreateScope, EndWithoutProposal, Propose,
           FailToBuildRun, repository
  <1>2. CASE Finalize(r)
    BY <1>2 DEF Finalize, Answer, Goto, RollBack, repository, attempt, TypeOK
  <1>3. CASE FinalizeAsRejected(r)
    BY <1>3 DEF FinalizeAsRejected, Answer, Goto, RollBack, repository, attempt, TypeOK
  <1> QED
    BY <1>1, <1>2, <1>3 DEF Step

LEMMA NextAnswers ==
  ASSUME TypeOK, AttemptIsSound, AnswersMatchRecords, [Next]_vars
  PROVE  AnswersMatchRecords'
  <1>1. CASE UNCHANGED vars
    BY <1>1 DEF vars, repository, attempt, AnswersMatchRecords, RecordOf
  <1>2. ASSUME NEW r \in Request, Step(r)
        PROVE  AnswersMatchRecords'
    <2>1. \A x \in runs : x.id \in Request
      BY DEF TypeOK, AgentRun
    <2>2. \A x \in runs : x.id # r
      BY <1>2, AnsweredIsOver DEF AnswersMatchRecords, RecordOf
    <2>3. \A q \in Request \ {r} : /\ pc'[q] = pc[q] /\ reply'[q] = reply[q]
                                   /\ ending'[q] = ending[q] /\ verdict'[q] = verdict[q]
      BY <1>2, OthersUntouched
    <2>4. \A x \in runs : RecordOf(x)'
      BY <1>2, <2>1, <2>2, <2>3, KeysAreFixed DEF AnswersMatchRecords, RecordOf, Next
    <2>5. CASE runs' = runs
      <3>1. ~Commit(r)
        <4> SUFFICES ASSUME Commit(r) PROVE FALSE
          OBVIOUS
        <4>1. PICK run : run.id = r /\ run \in runs'
          BY StoredParts
        <4> QED
          BY <2>2, <2>5, <4>1
      <3>2. reply'[r] = "run" => reply[r] = "run"
        BY <1>2, <3>1, RunAnswerStep
      <3> QED
        BY <2>3, <2>4, <2>5, <3>2 DEF AnswersMatchRecords
    <2>6. CASE runs' # runs
      <3> DEFINE entry == [id |-> r, key |-> key[r], status |-> ending[r],
                           verdict |-> verdict[r], sequence |-> sequence + 1]
      <3>0. PICK run : run = entry
        OBVIOUS
      <3>1. /\ runs' = runs \cup {run}
            /\ pc'[r] = "answered" /\ reply'[r] = "run"
            /\ UNCHANGED <<key, ending, verdict>>
        BY <1>2, <2>6, <3>0, CommitAnswers DEF Commit, Store
      <3>2. /\ run.id = r /\ run.key = key[r] /\ run.status = ending[r]
            /\ run.verdict = verdict[r]
        BY <3>0
      <3>3. RecordOf(run)'
        BY <3>1, <3>2 DEF RecordOf
      <3>4. \A q \in Request : reply'[q] = "run" => \E x \in runs' : x.id = q
        BY <2>3, <3>1, <3>2 DEF AnswersMatchRecords
      <3>5. \A x, y \in runs' : x.id = y.id => x = y
        BY <2>2, <3>1, <3>2 DEF AnswersMatchRecords
      <3> QED
        BY <2>4, <3>1, <3>3, <3>4, <3>5 DEF AnswersMatchRecords
    <2> QED
      BY <2>5, <2>6
  <1> QED
    BY <1>1, <1>2 DEF Next

\* A client that gets a run back finds it in the repository, once and as it was
\* told; one that gets an error finds nothing of its run there.
THEOREM AnswersAreRecords == Spec => []AnswersMatchRecords
  <1>1. Init => AnswersMatchRecords
    BY DEF Init, AnswersMatchRecords
  <1>2. IInv /\ AnswersMatchRecords /\ [Next]_vars => AnswersMatchRecords'
    BY NextAnswers DEF IInv
  <1> QED
    BY <1>1, <1>2, Invariance, PTL DEF Spec

\* An answer with an accepted run is about the settlement's one decision: it
\* names that run and rests on the bank row its model proposed.
AcceptedAnswerIsTheDecision ==
    \A r \in Request : reply[r] = "run" /\ Decided(r) =>
        /\ decisions[key[r]] # NoDecision
        /\ decisions[key[r]].run = r
        /\ decisions[key[r]].bank = proposal[r]

\* No client is told of an acceptance that another run's decision has replaced.
THEOREM AcceptedAnswers == Spec => []AcceptedAnswerIsTheDecision
  <1>1. ASSUME IInv, AnswersMatchRecords, FinalizedTogether
        PROVE  AcceptedAnswerIsTheDecision
    <2> SUFFICES ASSUME NEW r \in Request, reply[r] = "run", Decided(r)
                 PROVE  /\ decisions[key[r]] # NoDecision
                        /\ decisions[key[r]].run = r
                        /\ decisions[key[r]].bank = proposal[r]
      BY DEF AcceptedAnswerIsTheDecision
    <2>1. PICK x \in runs : x.id = r
      BY <1>1 DEF AnswersMatchRecords
    <2>2. x.key = key[r] /\ x.verdict = "accepted"
      BY <1>1, <2>1 DEF AnswersMatchRecords, RecordOf, Decided
    <2>3. decisions[key[r]] # NoDecision /\ decisions[key[r]].run = r
      BY <1>1, <2>1, <2>2 DEF FinalizedTogether
    <2>4. key[r] \in Key
      BY <1>1 DEF IInv, TypeOK
    <2>5. UniqueCandidate[key[r]] = {decisions[key[r]].bank}
      BY <1>1, <2>3, <2>4 DEF IInv, DecisionIsReserved
    <2>6. UniqueCandidate[key[r]] = {proposal[r]}
      BY <1>1 DEF IInv, AttemptIsSound
    <2> QED
      BY <2>3, <2>5, <2>6
  <1> QED
    BY <1>1, Invariance, AnswersAreRecords, StoredTogether, PTL

-----------------------------------------------------------------------------
(***************************************************************************)
(* The journal: what is recorded stays, in the order it was recorded.      *)
(***************************************************************************)
\* A step removes and changes nothing that is recorded or reserved, and what it
\* adds is numbered after everything before it.
JournalGrows ==
    /\ runs \subseteq runs' /\ events \subseteq events'
    /\ \A k \in Key : decisions[k] # NoDecision => decisions'[k] = decisions[k]
    /\ \A b \in Batch : consumed[b] \subseteq consumed'[b]
    /\ \A x \in (runs' \ runs) \cup (events' \ events) : x.sequence > sequence

JournalOnlyGrows == [][JournalGrows]_vars

LEMMA NextJournal ==
  ASSUME TypeOK, AttemptIsSound, OrderInv, [Next]_vars
  PROVE  JournalGrows
  <1>1. CASE UNCHANGED vars
    BY <1>1 DEF vars, repository, JournalGrows
  <1>2. ASSUME NEW r \in Request, Step(r)
        PROVE  JournalGrows
    <2>1. \A b \in Batch : consumed[b] \subseteq consumed'[b]
      <3>1. CASE consumed' = consumed
        BY <3>1
      <3>2. CASE Begin(r)
        BY <3>2, KeyType DEF Begin, TypeOK
      <3>3. CASE Commit(r)
        BY <3>3, KeyType DEF Commit, Store, TypeOK
      <3>4. consumed' = consumed \/ Begin(r) \/ Commit(r)
        BY <1>2 DEF Step, CheckEligibility, CreateScope, EndWithoutProposal, Propose,
           FailToBuildRun, Finalize, FinalizeAsRejected, RollBack, repository
      <3> QED
        BY <3>1, <3>2, <3>3, <3>4
    <2>2. CASE UNCHANGED <<runs, decisions, events, sequence>>
      BY <2>1, <2>2 DEF JournalGrows
    <2>3. CASE Commit(r) /\ (Decided(r) => Accepting(r))
      <3>1. PICK run, event :
              /\ run.sequence = sequence + 1 /\ event.sequence = sequence'
              /\ sequence' = sequence + IF Decided(r) THEN 3 ELSE 2
              /\ runs' = runs \cup {run} /\ events' = events \cup {event}
              /\ ~Decided(r) => decisions' = decisions
        BY <2>3, StoredParts
      <3>2. \A k \in Key : decisions[k] # NoDecision => decisions'[k] = decisions[k]
        BY <2>3, <3>1 DEF Accepting, TypeOK
      <3>3. run.sequence > sequence /\ event.sequence > sequence
        BY <3>1 DEF TypeOK
      <3> QED
        BY <2>1, <3>1, <3>2, <3>3 DEF JournalGrows
    <2> QED
      BY <1>2, <2>2, <2>3, StoringStep
  <1> QED
    BY <1>1, <1>2 DEF Next

\* No run, audit event, decision or reservation is ever changed or removed, not
\* even by a transaction that rolls back, and every new entry comes last.
THEOREM JournalIsAppendOnly == Spec => JournalOnlyGrows
  <1>1. Init => OrderInv
    BY InitOrder
  <1>2. IInv /\ OrderInv /\ [Next]_vars => OrderInv'
    BY NextOrder DEF IInv
  <1>3. IInv /\ OrderInv /\ [Next]_vars => [JournalGrows]_vars
    BY NextJournal DEF IInv
  <1> QED
    BY <1>1, <1>2, <1>3, Invariance, PTL DEF Spec, JournalOnlyGrows

-----------------------------------------------------------------------------
(***************************************************************************)
(* Every request is over after six steps at most.                          *)
(***************************************************************************)
\* The steps that a request at this label may still take.
StepsLeft ==
    [received |-> 6, eligible |-> 5, scoping |-> 4, exploring |-> 3,
     recording |-> 2, reclassified |-> 1, answered |-> 0]

\* A step takes one request closer to its answer and moves no other.
RequestAdvances ==
    \E r \in Request :
        /\ StepsLeft[pc'[r]] < StepsLeft[pc[r]]
        /\ \A q \in Request \ {r} : pc'[q] = pc[q] /\ reply'[q] = reply[q]

RequestsOnlyAdvance == [][RequestAdvances]_vars

\* No request starts over, and a step of one never undoes the work of another:
\* a system with finitely many requests comes to rest.
THEOREM RequestsAdvance == Spec => RequestsOnlyAdvance
  <1>1. ASSUME TypeOK, NEW r \in Request, Step(r)
        PROVE  RequestAdvances
    <2>1. StepsLeft[pc'[r]] < StepsLeft[pc[r]]
      BY <1>1 DEF StepsLeft, Step, CheckEligibility, Begin, CreateScope,
         EndWithoutProposal, Propose, FailToBuildRun, Finalize,
         FinalizeAsRejected, Answer, Goto, TypeOK
    <2>2. \A q \in Request \ {r} : pc'[q] = pc[q] /\ reply'[q] = reply[q]
      BY <1>1, OthersUntouched
    <2> QED
      BY <2>1, <2>2 DEF RequestAdvances
  <1>2. TypeOK /\ [Next]_vars => [RequestAdvances]_vars
    BY <1>1 DEF Next
  <1> QED
    BY <1>2, TypeCorrect, PTL DEF Spec, RequestsOnlyAdvance

-----------------------------------------------------------------------------
(***************************************************************************)
(* The oversized abstention is all that ever loses a run.                  *)
(***************************************************************************)
TextIsBounded == \A r \in Request : text[r] = "bounded" /\ ~Lost(r)

\* Were the abstain tool's text bounded like the record that holds it, every
\* ended run would be retained, as ADR 0010 says, and no settlement would stay
\* owned by a run that nobody works on.
THEOREM BoundedTextRetains ==
  ASSUME AbstainText \subseteq {"bounded"}
  PROVE  Spec => [](EndedRunsAreRetained /\
                    \A k \in Key, r \in Request :
                        active[k] = r => pc[r] \in Working)
  <1>1. Init => TextIsBounded
    BY DEF Init, TextIsBounded, Lost
  <1>2. TypeOK /\ TextIsBounded /\ [Next]_vars => TextIsBounded'
    <2> SUFFICES ASSUME TypeOK, TextIsBounded, [Next]_vars
                 PROVE  TextIsBounded'
      OBVIOUS
    <2>1. CASE UNCHANGED vars
      BY <2>1 DEF vars, attempt, TextIsBounded, Lost
    <2>2. ASSUME NEW r \in Request, Step(r)
          PROVE  TextIsBounded'
      <3>1. \A q \in Request : text'[q] = "bounded"
        BY <2>2 DEF TextIsBounded, Step, CheckEligibility, Begin, CreateScope,
           EndWithoutProposal, Propose, FailToBuildRun, Finalize,
           FinalizeAsRejected, attempt, TypeOK
      <3>2. ~Lost(r)'
        BY <2>2 DEF TextIsBounded, Lost, Step, CheckEligibility, Begin, CreateScope,
           EndWithoutProposal, Propose, FailToBuildRun, Finalize,
           FinalizeAsRejected, Answer, TypeOK
      <3>3. \A q \in Request \ {r} : ~Lost(q)'
        BY <2>2, OthersUntouched DEF TextIsBounded, Lost
      <3> QED
        BY <3>1, <3>2, <3>3 DEF TextIsBounded
    <2> QED
      BY <2>1, <2>2 DEF Next
  <1>3. TextIsBounded /\ RecordedRunsAreRetained => EndedRunsAreRetained
    BY DEF TextIsBounded, Lost, RecordedRunsAreRetained, EndedRunsAreRetained
  <1>4. TextIsBounded /\ OwnershipMatchesWork
           => \A k \in Key, r \in Request : active[k] = r => pc[r] \in Working
    BY DEF TextIsBounded, Lost, OwnershipMatchesWork
  <1> QED
    BY <1>1, <1>2, <1>3, <1>4, TypeCorrect, RunsRetained, Ownership, PTL DEF Spec
=============================================================================
