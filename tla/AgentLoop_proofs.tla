-------------------------- MODULE AgentLoop_proofs --------------------------
(***************************************************************************)
(* Proofs about AgentLoop, for any runs, tools, records and limits.        *)
(***************************************************************************)
EXTENDS AgentLoop, FiniteSetTheorems, TLAPS

\* A run that is past the head of the loop has begun a step, and one that has
\* not ended may still fail once more.
Progress ==
    \A r \in Run :
        /\ pc[r] \in {"invoking", "waiting", "joining", "acting"} => step[r] > 0
        /\ pc[r] = "beginning" => step[r] < MaxSteps
        /\ pc[r] # "ended" => schema_failures[r] <= MaxSchemaRetries

\* The provider thread that holds the slot, if any.
SlotHolder ==
    \/ slot = 1 /\ \A r \in Run : call[r] # "running"
    \/ slot = 0 /\ \E r \in Run : \A q \in Run : call[q] = "running" <=> q = r

\* What the recorded calls of run r used and returned.
Calls(r) == {n \in DOMAIN steps[r] : steps[r][n].action = "tool_call"}
CalledTools(r) == {steps[r][n].tool : n \in Calls(r)}
ReturnedIds(r) == UNION {steps[r][n].ids : n \in Calls(r)}

\* A run that goes on has recorded every call, and has accepted nothing.
ObservationsAreRecorded ==
    \A r \in Run : pc[r] # "ended" =>
        /\ observed_tools[r] \subseteq CalledTools(r)
        /\ observed[r] \subseteq ReturnedIds(r)
        /\ accepted[r] = NoBank

-----------------------------------------------------------------------------
LEMMA LimitsAssumption ==
  /\ MaxSteps \in Nat /\ MaxSteps > 0
  /\ MaxSchemaRetries \in Nat
  BY LoopAssumption

LEMMA InitType == Init => TypeOK /\ Progress /\ SlotHolder
  BY LimitsAssumption
  DEF Init, TypeOK, Progress, SlotHolder, Answers, ModelError, Status,
      FailureCode

\* Recording a step of a run that has begun one.
LEMMA NoteType ==
  ASSUME TypeOK, NEW r \in Run, step[r] > 0,
         NEW action \in {"tool_call", "invalid", "hypothesis", "abstain"},
         NEW tool \in Tool \cup {NoTool}, NEW ids \in SUBSET Record,
         Note(r, action, tool, ids)
  PROVE  steps' \in [Run -> Seq(AgentStep)]
  <1> DEFINE new == [number |-> step[r], action |-> action, tool |-> tool,
                     ids |-> ids]
  <1>1. new \in AgentStep
    BY LimitsAssumption DEF AgentStep, TypeOK
  <1>2. steps[r] \in Seq(AgentStep)
    BY DEF TypeOK
  <1> HIDE DEF new
  <1>3. Append(steps[r], new) \in Seq(AgentStep)
    BY <1>1, <1>2
  <1> QED
    BY <1>3 DEF Note, TypeOK, new

\* What every way of leaving the loop does to the run that leaves it.
Left(r) ==
    /\ pc' \in [Run -> {"loop", "beginning", "invoking", "waiting", "joining",
                        "acting", "ended"}]
    /\ pc'[r] = "ended"
    /\ \A q \in Run \ {r} : pc'[q] = pc[q]
    /\ ending' \in [Run -> Status \X FailureCode]

LEMMA EndType ==
  ASSUME TypeOK, NEW r \in Run, NEW status \in Status, NEW code \in FailureCode,
         End(r, status, code)
  PROVE  Left(r)
  <1>1. <<status, code>> \in Status \X FailureCode
    OBVIOUS
  <1>2. ending' = [ending EXCEPT ![r] = <<status, code>>]
    BY DEF End
  <1>3. ending' \in [Run -> Status \X FailureCode]
    BY <1>1, <1>2 DEF TypeOK
  <1> QED
    BY <1>3 DEF End, Goto, TypeOK, Left

\* The pairs the loop ends with, but for an accepted hypothesis's.
LEMMA Codes ==
  /\ {"completed", "abstained", "rejected", "failed", "cancelled"} \subseteq Status
  /\ {"none", "BUDGET_EXHAUSTED", "CANCELLED", "MODEL_TIMEOUT",
      "SCHEMA_FAILURE", "REQUEST_PAYLOAD_TOO_LARGE", "PROVIDER_UNAVAILABLE",
      "INVESTIGATION_FAILED", "TOOL_REFUSED", "EVIDENCE_PAYLOAD_TOO_LARGE",
      "ABSTAINED", "VERIFIER_REJECTED"} \subseteq FailureCode
  BY DEF Status, FailureCode

LEMMA TimedOutType ==
  ASSUME TypeOK, NEW r \in Run, NEW event, TimedOut(r, event)
  PROVE  Left(r)
  BY EndType, Codes DEF TimedOut

\* A run that leaves the loop, with whatever it recorded last.
LEMMA LeavingKeeps ==
  ASSUME TypeOK, Progress, SlotHolder, NEW r \in Run, Left(r),
         steps' \in [Run -> Seq(AgentStep)],
         schema_failures' \in [Run -> 0 .. (MaxSchemaRetries + 1)],
         \A q \in Run \ {r} : schema_failures'[q] = schema_failures[q],
         observed' \in [Run -> SUBSET Record],
         observed_tools' \in [Run -> SUBSET Tool],
         cancel_event' \in [Run -> BOOLEAN],
         accepted' \in [Run -> Candidate \cup {NoBank}],
         UNCHANGED <<step, cancelled_at, expired, call, answer, slot>>
  PROVE  TypeOK' /\ Progress' /\ SlotHolder'
  <1>1. TypeOK'
    BY DEF TypeOK, Left
  <1>2. Progress'
    BY DEF Progress, Left
  <1>3. SlotHolder'
    BY DEF SlotHolder
  <1> QED
    BY <1>1, <1>2, <1>3

\* A run that goes on to another place of the loop.
LEMMA GoingOnKeeps ==
  ASSUME TypeOK, Progress, SlotHolder, NEW r \in Run,
         NEW label \in {"loop", "beginning", "invoking", "waiting", "joining",
                        "acting"},
         Goto(r, label),
         step' \in [Run -> 0 .. MaxSteps], IF label = "beginning" THEN step'[r] < MaxSteps ELSE step'[r] > 0,
         \A q \in Run \ {r} : step'[q] = step[q],
         steps' \in [Run -> Seq(AgentStep)],
         schema_failures' \in [Run -> 0 .. (MaxSchemaRetries + 1)],
         schema_failures'[r] <= MaxSchemaRetries,
         \A q \in Run \ {r} : schema_failures'[q] = schema_failures[q],
         observed' \in [Run -> SUBSET Record],
         observed_tools' \in [Run -> SUBSET Tool],
         UNCHANGED <<outside, call, answer, slot, ending, accepted>>
  PROVE  TypeOK' /\ Progress' /\ SlotHolder'
  <1>1. TypeOK'
    BY DEF TypeOK, Goto, outside
  <1>2. Progress'
    BY DEF TypeOK, Progress, Goto
  <1>3. SlotHolder'
    BY DEF SlotHolder
  <1> QED
    BY <1>1, <1>2, <1>3

\* Every step keeps the types, the progress of the runs and the slot's holder.
LEMMA NextType ==
  ASSUME TypeOK, Progress, SlotHolder, [Next]_vars
  PROVE  TypeOK' /\ Progress' /\ SlotHolder'
  <1> DEFINE Goal == TypeOK' /\ Progress' /\ SlotHolder'
  <1>1. CASE UNCHANGED vars
    BY <1>1 DEF vars, evidence, provider, outside, result, TypeOK, Progress,
                SlotHolder
  <1>2. ASSUME NEW r \in Run, LoopTop(r)
        PROVE  Goal
    <2>1. CASE End(r, "abstained", "BUDGET_EXHAUSTED")
      BY <1>2, <2>1, EndType, Codes, LeavingKeeps
      DEF LoopTop, TypeOK, evidence, provider, outside
    <2>2. CASE End(r, "cancelled", "CANCELLED")
      BY <1>2, <2>2, EndType, Codes, LeavingKeeps
      DEF LoopTop, TypeOK, evidence, provider, outside
    <2>3. CASE step[r] < MaxSteps /\ Goto(r, "beginning") /\ UNCHANGED ending
      BY <1>2, <2>3, GoingOnKeeps
      DEF LoopTop, TypeOK, Progress, evidence, provider
    <2> QED
      BY <1>2, <2>1, <2>2, <2>3 DEF LoopTop
  <1>b. ASSUME NEW r \in Run, BeginStep(r)
        PROVE  Goal
    <2>1. CASE End(r, "abstained", "BUDGET_EXHAUSTED") /\ UNCHANGED step
      BY <1>b, <2>1, EndType, Codes, LeavingKeeps
      DEF BeginStep, TypeOK, evidence, provider, outside
    <2>2. CASE /\ step' = [step EXCEPT ![r] = @ + 1]
               /\ Goto(r, "invoking")
               /\ UNCHANGED ending
      <3>1. /\ UNCHANGED <<schema_failures, steps, observed, observed_tools,
                           call, answer, slot, outside, accepted>>
            /\ schema_failures[r] <= MaxSchemaRetries
            /\ step[r] < MaxSteps
        BY <1>b DEF BeginStep, Progress, evidence, provider
      <3>2. /\ step' \in [Run -> 0 .. MaxSteps]
            /\ step'[r] > 0
            /\ \A q \in Run \ {r} : step'[q] = step[q]
        BY <2>2, <3>1, LimitsAssumption DEF TypeOK
      <3> QED
        BY <2>2, <3>1, <3>2, GoingOnKeeps DEF TypeOK
    <2> QED
      BY <1>b, <2>1, <2>2 DEF BeginStep
  <1>3. ASSUME NEW r \in Run, Invoke(r)
        PROVE  Goal
    <2>1. CASE TimedOut(r, cancel_event[r])
      BY <1>3, <2>1, TimedOutType, LeavingKeeps
      DEF Invoke, TypeOK, evidence, provider, outside
    <2>2. CASE Goto(r, "waiting") /\ UNCHANGED ending
      BY <1>3, <2>2, GoingOnKeeps
      DEF Invoke, TypeOK, Progress, evidence, provider
    <2> QED
      BY <1>3, <2>1, <2>2 DEF Invoke
  <1>4. ASSUME NEW r \in Run, AcquireSlot(r)
        PROVE  Goal
    BY <1>4 DEF AcquireSlot, Goto, TypeOK, Progress, SlotHolder, evidence,
                outside, result
  <1>5. ASSUME NEW r \in Run, StopWaiting(r)
        PROVE  Goal
    BY <1>5, TimedOutType, LeavingKeeps
    DEF StopWaiting, TypeOK, evidence, provider, outside
  <1>6. ASSUME NEW r \in Run, ProviderReturns(r)
        PROVE  Goal
    BY <1>6 DEF ProviderReturns, Release, TypeOK, Progress, SlotHolder, evidence,
                outside, result
  <1>7. ASSUME NEW r \in Run, GiveUp(r)
        PROVE  Goal
    BY <1>7, TimedOutType, LeavingKeeps
    DEF GiveUp, TypeOK, evidence, provider
  <1>8. ASSUME NEW r \in Run, AnswerTooLate(r)
        PROVE  Goal
    BY <1>8, EndType, Codes, LeavingKeeps
    DEF AnswerTooLate, TypeOK, evidence, provider, outside
  <1>9. ASSUME NEW r \in Run, RetryMalformed(r)
        PROVE  Goal
    <2>1. /\ step[r] > 0
          /\ schema_failures[r] \in 0 .. MaxSchemaRetries
          /\ schema_failures' = [schema_failures EXCEPT ![r] = @ + 1]
      <3>1. /\ pc[r] = "joining"
            /\ schema_failures' = [schema_failures EXCEPT ![r] = @ + 1]
        BY <1>9 DEF RetryMalformed, Joined
      <3>2. step[r] > 0 /\ schema_failures[r] <= MaxSchemaRetries
        BY <3>1 DEF Progress
      <3>3. schema_failures[r] \in 0 .. (MaxSchemaRetries + 1)
        BY DEF TypeOK
      <3> QED
        BY <3>1, <3>2, <3>3, LimitsAssumption
    <2>2. steps' \in [Run -> Seq(AgentStep)]
      <3>1. Note(r, "invalid", NoTool, {})
        BY <1>9 DEF RetryMalformed
      <3> QED
        BY <2>1, <3>1, NoteType
    <2>3. /\ schema_failures' \in [Run -> 0 .. (MaxSchemaRetries + 1)]
          /\ schema_failures'[r] = schema_failures[r] + 1
          /\ \A q \in Run \ {r} : schema_failures'[q] = schema_failures[q]
      <3>1. schema_failures \in [Run -> 0 .. (MaxSchemaRetries + 1)]
        BY DEF TypeOK
      <3>2. schema_failures[r] + 1 \in 0 .. (MaxSchemaRetries + 1)
        BY <2>1, LimitsAssumption
      <3> QED
        BY <2>1, <3>1, <3>2
    <2>4. CASE End(r, "abstained", "SCHEMA_FAILURE")
      BY <1>9, <2>2, <2>3, <2>4, EndType, Codes, LeavingKeeps
      DEF RetryMalformed, TypeOK, provider, outside
    <2>5. CASE /\ schema_failures'[r] <= MaxSchemaRetries
               /\ Goto(r, "loop")
               /\ UNCHANGED ending
      BY <1>9, <2>1, <2>2, <2>3, <2>5, GoingOnKeeps
      DEF RetryMalformed, TypeOK, provider
    <2> QED
      BY <1>9, <2>1, <2>3, <2>4, <2>5, LimitsAssumption
      DEF RetryMalformed, RetriesExhausted
  <1>10. ASSUME NEW r \in Run, ProviderError(r)
         PROVE  Goal
    <2>1. Left(r)
      BY <1>10, EndType, TimedOutType, Codes DEF ProviderError
    <2> QED
      BY <1>10, <2>1, LeavingKeeps
      DEF ProviderError, TypeOK, evidence, provider, outside
  <1>11. ASSUME NEW r \in Run, AcceptAction(r)
         PROVE  Goal
    BY <1>11, GoingOnKeeps
    DEF AcceptAction, Joined, TypeOK, Progress, evidence, provider, result
  <1>12. ASSUME NEW r \in Run, RefuseTool(r)
         PROVE  Goal
    <2>1. step[r] > 0 /\ answer[r] \in Tool
      BY <1>12 DEF RefuseTool, Acting, Progress
    <2>2. steps' \in [Run -> Seq(AgentStep)]
      BY <1>12, <2>1, NoteType DEF RefuseTool, TypeOK
    <2>3. Left(r)
      BY <1>12, EndType, Codes DEF RefuseTool
    <2> QED
      BY <1>12, <2>2, <2>3, LeavingKeeps
      DEF RefuseTool, TypeOK, provider, outside
  <1>13. ASSUME NEW r \in Run, CallTool(r)
         PROVE  Goal
    <2>1. step[r] > 0 /\ answer[r] \in Tool
      BY <1>13 DEF CallTool, Acting, Progress
    <2>2. PICK ids \in Observes[answer[r]] :
             /\ observed' = [observed EXCEPT ![r] = @ \cup ids]
             /\ \/ /\ Note(r, "invalid", answer[r], {})
                   /\ End(r, "rejected", "EVIDENCE_PAYLOAD_TOO_LARGE")
                \/ /\ Note(r, "tool_call", answer[r], ids)
                   /\ IF answer[r] = AbstainTool
                      THEN End(r, "abstained", "ABSTAINED")
                      ELSE Goto(r, "loop") /\ UNCHANGED ending
      BY <1>13 DEF CallTool
    <2>3. ids \in SUBSET Record
      BY <2>1, LoopAssumption
    <2>4. steps' \in [Run -> Seq(AgentStep)]
      BY <2>1, <2>2, <2>3, NoteType
    <2>5. /\ observed' \in [Run -> SUBSET Record]
          /\ observed_tools' \in [Run -> SUBSET Tool]
      BY <1>13, <2>1, <2>2, <2>3 DEF CallTool, TypeOK
    <2>6. CASE Goto(r, "loop") /\ UNCHANGED ending
      <3>1. schema_failures[r] <= MaxSchemaRetries
        BY <1>13 DEF CallTool, Acting, Progress
      <3> QED
        BY <1>13, <2>1, <2>4, <2>5, <2>6, <3>1, GoingOnKeeps
        DEF CallTool, TypeOK, provider
    <2>7. CASE Left(r)
      BY <1>13, <2>4, <2>5, <2>7, LeavingKeeps
      DEF CallTool, TypeOK, provider, outside
    <2> QED
      BY <2>2, <2>6, <2>7, EndType, Codes
  <1>14. ASSUME NEW r \in Run, Abstain(r)
         PROVE  Goal
    <2>1. step[r] > 0
      BY <1>14 DEF Abstain, Acting, Progress
    <2>2. steps' \in [Run -> Seq(AgentStep)]
      BY <1>14, <2>1, NoteType DEF Abstain
    <2>3. Left(r)
      BY <1>14, EndType, Codes DEF Abstain
    <2> QED
      BY <1>14, <2>2, <2>3, LeavingKeeps DEF Abstain, TypeOK, provider, outside
  <1>15. ASSUME NEW r \in Run, Verify(r)
         PROVE  Goal
    <2>1. step[r] > 0
      BY <1>15 DEF Verify, Acting, Progress
    <2>2. steps' \in [Run -> Seq(AgentStep)]
      <3>1. Note(r, "hypothesis", NoTool, {}) \/ UNCHANGED steps
        BY <1>15 DEF Verify
      <3>2. CASE Note(r, "hypothesis", NoTool, {})
        BY <2>1, <3>2, NoteType, SMTT(20)
      <3> QED
        BY <3>1, <3>2 DEF TypeOK
    <2>3. Left(r)
      BY <1>15, EndType, Codes DEF Verify
    <2>4. accepted' \in [Run -> Candidate \cup {NoBank}]
      <3>1. \/ UNCHANGED accepted
            \/ \E x \in Candidate : accepted' = [accepted EXCEPT ![r] = x]
        BY <1>15 DEF Verify
      <3> QED
        BY <3>1 DEF TypeOK
    <2> QED
      BY <1>15, <2>2, <2>3, <2>4, LeavingKeeps
      DEF Verify, TypeOK, provider, outside
  <1>16. ASSUME NEW r \in Run, Cancel(r)
         PROVE  Goal
    <2>1. Admitted(r) \in 0 .. MaxSteps
      BY LimitsAssumption DEF Admitted, TypeOK, Progress
    <2>2. Admitted(r) \in 0 .. (MaxSteps + 1)
      BY <2>1, LimitsAssumption
    <2> QED
      BY <1>16, <2>2
      DEF Cancel, TypeOK, Progress, SlotHolder, evidence, provider, result
  <1>17. ASSUME NEW r \in Run, Deadline(r)
         PROVE  Goal
    BY <1>17 DEF Deadline, TypeOK, Progress, SlotHolder, evidence, provider,
                 result
  <1> QED
    BY <1>1, <1>2, <1>b, <1>3, <1>4, <1>5, <1>6, <1>7, <1>8, <1>9, <1>10, <1>11,
       <1>12, <1>13, <1>14, <1>15, <1>16, <1>17
    DEF Next, Explore

\* Every part of a run's state is always one the code can represent.
THEOREM TypeCorrect == Spec => [](TypeOK /\ Progress /\ SlotHolder)
  BY InitType, NextType, PTL DEF Spec

\* The slot is free exactly when no provider call is in flight.
THEOREM SlotAccounting == Spec => []SlotCountsCallsInFlight
  <1>1. SlotHolder => SlotCountsCallsInFlight
    <2> SUFFICES ASSUME SlotHolder
                 PROVE  slot = 1 - Cardinality({r \in Run : call[r] = "running"})
      BY DEF SlotCountsCallsInFlight
    <2>1. CASE slot = 1 /\ \A r \in Run : call[r] # "running"
      <3>1. {r \in Run : call[r] = "running"} = {}
        BY <2>1
      <3> QED
        BY <2>1, <3>1, FS_EmptySet
    <2>2. CASE /\ slot = 0
               /\ \E r \in Run : \A q \in Run : call[q] = "running" <=> q = r
      <3>1. PICK r \in Run : {q \in Run : call[q] = "running"} = {r}
        BY <2>2
      <3>2. Cardinality({r}) = 1
        BY FS_Singleton
      <3> QED
        BY <2>2, <3>1, <3>2
    <2> QED
      BY <2>1, <2>2 DEF SlotHolder
  <1> QED
    BY <1>1, TypeCorrect, PTL

-----------------------------------------------------------------------------
\* What is recorded stays recorded, and a recorded call adds what it returned.
LEMMA NoteExtends ==
  ASSUME TypeOK, NEW r \in Run, NEW action, NEW tool, NEW ids,
         Note(r, action, tool, ids)
  PROVE  /\ CalledTools(r) \subseteq CalledTools(r)'
         /\ ReturnedIds(r) \subseteq ReturnedIds(r)'
         /\ action = "tool_call" => /\ tool \in CalledTools(r)'
                                    /\ ids \subseteq ReturnedIds(r)'
         /\ steps'[r][Len(steps'[r])].action = action
         /\ \A q \in Run \ {r} : steps'[q] = steps[q]
  <1> DEFINE new == [number |-> step[r], action |-> action, tool |-> tool,
                     ids |-> ids]
             old == steps[r]
  <1>1. steps' = [steps EXCEPT ![r] = Append(old, new)]
    BY DEF Note
  <1>2. steps'[r] = Append(old, new) /\ \A q \in Run \ {r} : steps'[q] = steps[q]
    BY <1>1 DEF TypeOK
  <1>3. old \in Seq(AgentStep) /\ DOMAIN old = 1 .. Len(old) /\ Len(old) \in Nat
    BY DEF TypeOK
  <1>4. /\ new.action = action /\ new.tool = tool /\ new.ids = ids
    OBVIOUS
  <1> HIDE DEF new
  <1>5. /\ DOMAIN steps'[r] = 1 .. (Len(old) + 1)
        /\ Len(steps'[r]) = Len(old) + 1
        /\ \A n \in 1 .. Len(old) : steps'[r][n] = old[n]
        /\ steps'[r][Len(old) + 1] = new
    <2>1. Append(old, new) = [n \in 1 .. (Len(old) + 1) |->
                                 IF n = Len(old) + 1 THEN new ELSE old[n]]
      BY <1>3
    <2>2. Len(Append(old, new)) = Len(old) + 1
      BY <1>3
    <2> QED
      BY <1>2, <1>3, <2>1, <2>2
  <1>6. Calls(r) \subseteq Calls(r)'
    BY <1>3, <1>5 DEF Calls
  <1>7. \A n \in Calls(r) : steps'[r][n] = steps[r][n]
    BY <1>3, <1>5 DEF Calls
  <1>8. CalledTools(r) \subseteq CalledTools(r)'
    BY <1>6, <1>7 DEF CalledTools
  <1>9. ReturnedIds(r) \subseteq ReturnedIds(r)'
    BY <1>6, <1>7 DEF ReturnedIds
  <1>10. action = "tool_call" => Len(old) + 1 \in Calls(r)'
    BY <1>3, <1>4, <1>5 DEF Calls
  <1> QED
    BY <1>2, <1>4, <1>5, <1>8, <1>9, <1>10 DEF CalledTools, ReturnedIds

\* The thread of a run moves that run only, and stops when the run has ended.
LEMMA ExploreIsLocal ==
  ASSUME TypeOK, NEW r \in Run, Explore(r)
  PROVE  /\ pc[r] # "ended"
         /\ \A q \in Run \ {r} : pc'[q] = pc[q] /\ ending'[q] = ending[q]
  <1>1. ASSUME NEW status, NEW code, End(r, status, code)
        PROVE  \A q \in Run \ {r} : pc'[q] = pc[q] /\ ending'[q] = ending[q]
    BY <1>1 DEF End, Goto, TypeOK
  <1>2. ASSUME NEW label, Goto(r, label), UNCHANGED ending
        PROVE  \A q \in Run \ {r} : pc'[q] = pc[q] /\ ending'[q] = ending[q]
    BY <1>2 DEF Goto, TypeOK
  <1>3. ASSUME NEW event, TimedOut(r, event)
        PROVE  \A q \in Run \ {r} : pc'[q] = pc[q] /\ ending'[q] = ending[q]
    BY <1>1, <1>3 DEF TimedOut
  <1> QED
    BY <1>1, <1>2, <1>3
    DEF Explore, LoopTop, BeginStep, Invoke, AcquireSlot, StopWaiting, GiveUp,
        AnswerTooLate, RetryMalformed, ProviderError, AcceptAction, RefuseTool,
        CallTool, Abstain, Verify, Joined, Acting, result

\* Until a run ends its observations are those of its recorded calls.
LEMMA ObservationsStep ==
  ASSUME TypeOK, ObservationsAreRecorded, AcceptanceIsOnRecord, [Next]_vars
  PROVE  ObservationsAreRecorded' /\ AcceptanceIsOnRecord'
  <1> DEFINE Goal == ObservationsAreRecorded' /\ AcceptanceIsOnRecord'
  \* A step of run r that leaves the records of the others alone.
  <1>1. ASSUME NEW r \in Run,
               \A q \in Run \ {r} :
                   /\ steps'[q] = steps[q] /\ accepted'[q] = accepted[q]
                   /\ observed'[q] = observed[q]
                   /\ observed_tools'[q] = observed_tools[q]
                   /\ ending'[q] = ending[q] /\ pc'[q] = pc[q],
               pc'[r] # "ended" => /\ observed_tools'[r] \subseteq CalledTools(r)'
                                   /\ observed'[r] \subseteq ReturnedIds(r)',
               accepted'[r] # NoBank =>
                   /\ pc'[r] = "ended" /\ ending'[r][1] = "completed"
                   /\ RequiredTool \subseteq CalledTools(r)'
                   /\ RequiredCitations(accepted'[r]) \subseteq ReturnedIds(r)'
                   /\ steps'[r][Len(steps'[r])].action = "hypothesis"
        PROVE  Goal
    <2>1. ASSUME NEW q \in Run \ {r}
          PROVE  CalledTools(q)' = CalledTools(q) /\ ReturnedIds(q)' = ReturnedIds(q)
      BY <1>1, <2>1 DEF CalledTools, ReturnedIds, Calls
    <2>2. accepted'[r] # NoBank => pc'[r] = "ended"
      BY <1>1
    <2>3. ObservationsAreRecorded'
      <3> SUFFICES ASSUME NEW q \in Run, pc'[q] # "ended"
                   PROVE  /\ observed_tools'[q] \subseteq CalledTools(q)'
                          /\ observed'[q] \subseteq ReturnedIds(q)'
                          /\ accepted'[q] = NoBank
        BY DEF ObservationsAreRecorded
      <3>1. CASE q = r
        BY <1>1, <2>2, <3>1
      <3>2. CASE q # r
        <4>1. /\ observed_tools[q] \subseteq CalledTools(q)
              /\ observed[q] \subseteq ReturnedIds(q)
              /\ accepted[q] = NoBank
          BY <1>1, <3>2 DEF ObservationsAreRecorded
        <4> QED
          BY <1>1, <2>1, <3>2, <4>1
      <3> QED
        BY <3>1, <3>2
    <2>4. AcceptanceIsOnRecord'
      <3> SUFFICES ASSUME NEW q \in Run, accepted'[q] # NoBank
                   PROVE  /\ RequiredTool \subseteq CalledTools(q)'
                          /\ RequiredCitations(accepted'[q])
                                 \subseteq ReturnedIds(q)'
                          /\ steps'[q][Len(steps'[q])].action = "hypothesis"
                          /\ ending'[q][1] = "completed"
        BY DEF AcceptanceIsOnRecord, CalledTools, ReturnedIds, Calls
      <3>1. CASE q = r
        BY <1>1, <3>1
      <3>2. CASE q # r
        <4>1. /\ RequiredTool \subseteq CalledTools(q)
              /\ RequiredCitations(accepted[q]) \subseteq ReturnedIds(q)
              /\ steps[q][Len(steps[q])].action = "hypothesis"
              /\ ending[q][1] = "completed"
          BY <1>1, <3>2
          DEF AcceptanceIsOnRecord, CalledTools, ReturnedIds, Calls
        <4>2. accepted'[q] = accepted[q] /\ steps'[q] = steps[q]
              /\ ending'[q] = ending[q]
          BY <1>1, <3>2
        <4> QED
          BY <2>1, <3>2, <4>1, <4>2
      <3> QED
        BY <3>1, <3>2
    <2> QED
      BY <2>3, <2>4
  <1>2. CASE UNCHANGED <<steps, observed, observed_tools, accepted, pc, ending>>
    <2>1. ObservationsAreRecorded'
      BY <1>2 DEF ObservationsAreRecorded, CalledTools, ReturnedIds, Calls
    <2>2. AcceptanceIsOnRecord'
      BY <1>2 DEF AcceptanceIsOnRecord
    <2> QED
      BY <2>1, <2>2
  <1>3. ASSUME NEW r \in Run, Explore(r),
               UNCHANGED <<steps, observed, observed_tools, accepted>>
        PROVE  Goal
    <2>1. /\ CalledTools(r)' = CalledTools(r) /\ ReturnedIds(r)' = ReturnedIds(r)
      BY <1>3 DEF CalledTools, ReturnedIds, Calls
    <2> QED
      BY <1>1, <1>3, <2>1, ExploreIsLocal DEF ObservationsAreRecorded
  <1>4. ASSUME NEW r \in Run, Explore(r), NEW action, NEW tool, NEW ids,
               Note(r, action, tool, ids),
               UNCHANGED <<observed, observed_tools, accepted>>
        PROVE  Goal
    <2>1. /\ CalledTools(r) \subseteq CalledTools(r)'
          /\ ReturnedIds(r) \subseteq ReturnedIds(r)'
          /\ \A q \in Run \ {r} : steps'[q] = steps[q]
      BY <1>4, NoteExtends
    <2>2. /\ accepted[r] = NoBank
          /\ observed_tools[r] \subseteq CalledTools(r)
          /\ observed[r] \subseteq ReturnedIds(r)
      BY <1>4, ExploreIsLocal DEF ObservationsAreRecorded
    <2> QED
      BY <1>1, <1>4, <2>1, <2>2, ExploreIsLocal
  <1>5. ASSUME NEW r \in Run, CallTool(r)
        PROVE  Goal
    <2>1. PICK ids \in Observes[answer[r]] :
             /\ observed' = [observed EXCEPT ![r] = @ \cup ids]
             /\ \/ /\ Note(r, "invalid", answer[r], {})
                   /\ End(r, "rejected", "EVIDENCE_PAYLOAD_TOO_LARGE")
                \/ Note(r, "tool_call", answer[r], ids)
      BY <1>5 DEF CallTool
    <2>2. /\ observed_tools' = [observed_tools EXCEPT ![r] = @ \cup {answer[r]}]
          /\ UNCHANGED accepted
      BY <1>5 DEF CallTool
    <2>3. Explore(r)
      BY <1>5 DEF Explore
    <2>4. /\ accepted[r] = NoBank
          /\ observed_tools[r] \subseteq CalledTools(r)
          /\ observed[r] \subseteq ReturnedIds(r)
      BY <2>3, ExploreIsLocal DEF ObservationsAreRecorded
    <2>5. /\ observed'[r] = observed[r] \cup ids
          /\ observed_tools'[r] = observed_tools[r] \cup {answer[r]}
          /\ \A q \in Run \ {r} : /\ observed'[q] = observed[q]
                                  /\ observed_tools'[q] = observed_tools[q]
      BY <2>1, <2>2 DEF TypeOK
    <2>6. CASE End(r, "rejected", "EVIDENCE_PAYLOAD_TOO_LARGE")
               /\ Note(r, "invalid", answer[r], {})
      <3>1. pc'[r] = "ended"
        BY <2>6 DEF End, Goto, TypeOK
      <3> QED
        BY <1>1, <2>2, <2>3, <2>4, <2>5, <2>6, <3>1, ExploreIsLocal, NoteExtends
    <2>7. CASE Note(r, "tool_call", answer[r], ids)
      BY <1>1, <2>2, <2>3, <2>4, <2>5, <2>7, ExploreIsLocal, NoteExtends
    <2> QED
      BY <2>1, <2>6, <2>7
  <1>6. ASSUME NEW r \in Run, Verify(r), accepted' # accepted
        PROVE  Goal
    <2>1. PICK x \in Candidate, cited \in SUBSET Record :
             /\ Grounded(r, x, cited)
             /\ accepted' = [accepted EXCEPT ![r] = x]
      BY <1>6 DEF Verify
    <2>2. /\ Note(r, "hypothesis", NoTool, {})
          /\ End(r, "completed", "none")
          /\ UNCHANGED <<observed, observed_tools>>
      BY <1>6 DEF Verify
    <2>3. Explore(r)
      BY <1>6 DEF Explore
    <2>4. /\ accepted'[r] = x
          /\ \A q \in Run \ {r} : accepted'[q] = accepted[q]
          /\ pc'[r] = "ended" /\ ending'[r][1] = "completed"
      BY <2>1, <2>2 DEF End, Goto, TypeOK
    <2>5. /\ RequiredTool \subseteq CalledTools(r)
          /\ RequiredCitations(x) \subseteq ReturnedIds(r)
      BY <2>1, <2>3, ExploreIsLocal DEF Grounded, ObservationsAreRecorded
    <2> QED
      BY <1>1, <2>2, <2>3, <2>4, <2>5, ExploreIsLocal, NoteExtends
  <1>7. ASSUME NEW r \in Run, Explore(r)
        PROVE  Goal
    <2>1. CASE CallTool(r)
      BY <1>5, <2>1
    <2>2. CASE Verify(r)
      <3>1. \/ accepted' # accepted
            \/ /\ UNCHANGED <<observed, observed_tools, accepted>>
               /\ Note(r, "hypothesis", NoTool, {}) \/ UNCHANGED steps
        BY <2>2 DEF Verify
      <3> QED
        BY <1>3, <1>4, <1>6, <1>7, <2>2, <3>1
    <2>3. CASE RetryMalformed(r) \/ RefuseTool(r) \/ Abstain(r)
      <3>1. UNCHANGED <<observed, observed_tools, accepted>>
        BY <2>3 DEF RetryMalformed, RefuseTool, Abstain
      <3>2. \/ UNCHANGED steps
            \/ \E action, tool, ids : Note(r, action, tool, ids)
        BY <2>3 DEF RetryMalformed, RefuseTool, Abstain
      <3> QED
        BY <1>3, <1>4, <1>7, <3>1, <3>2
    <2>4. CASE \/ LoopTop(r) \/ BeginStep(r) \/ Invoke(r) \/ AcquireSlot(r)
               \/ StopWaiting(r) \/ GiveUp(r) \/ AnswerTooLate(r) \/ ProviderError(r)
               \/ AcceptAction(r)
      <3>1. UNCHANGED <<steps, observed, observed_tools, accepted>>
        BY <2>4 DEF LoopTop, BeginStep, Invoke, AcquireSlot, StopWaiting, GiveUp,
                    AnswerTooLate, ProviderError, AcceptAction, evidence, result
      <3> QED
        BY <1>3, <1>7, <3>1
    <2> QED
      BY <1>7, <2>1, <2>2, <2>3, <2>4 DEF Explore
  <1>8. ASSUME NEW r \in Run, ProviderReturns(r) \/ Cancel(r) \/ Deadline(r)
        PROVE  Goal
    BY <1>2, <1>8 DEF ProviderReturns, Cancel, Deadline, evidence, result
  <1> QED
    BY <1>2, <1>7, <1>8 DEF Next, vars, evidence, result

\* A run is accepted only on evidence its own record shows.
THEOREM AcceptanceOnRecord == Spec => []AcceptanceIsOnRecord
  <1>1. Init => ObservationsAreRecorded /\ AcceptanceIsOnRecord
    BY DEF Init, ObservationsAreRecorded, AcceptanceIsOnRecord
  <1> QED
    BY <1>1, ObservationsStep, TypeCorrect, PTL DEF Spec

-----------------------------------------------------------------------------
\* The recorded answers that were no valid action.
Malformed(r) ==
    {n \in DOMAIN steps[r] : /\ steps[r][n].action = "invalid"
                             /\ steps[r][n].tool = NoTool}

\* The record of a run: every step it has finished, and how it ended.
RecordOf(r) ==
    /\ \A n \in DOMAIN steps[r] : steps[r][n].number = n
    /\ Len(steps[r]) \in {step[r], step[r] - 1}
    /\ pc[r] \in {"loop", "beginning"} => Len(steps[r]) = step[r]
    /\ pc[r] \in {"invoking", "waiting", "joining", "acting"} =>
           Len(steps[r]) = step[r] - 1
    /\ pc[r] # "ended" => ending[r][2] = "none"
    /\ Cardinality(Malformed(r)) = schema_failures[r]
    /\ ending[r][2] = "SCHEMA_FAILURE" <=>
           schema_failures[r] = MaxSchemaRetries + 1
    /\ ending[r][2] = "BUDGET_EXHAUSTED" =>
           expired[r] \/ Len(steps[r]) = MaxSteps

RecordInv == \A r \in Run : RecordOf(r)

\* A run that ends without another record.
LEMMA EndsUnrecorded ==
  ASSUME TypeOK, Progress, NEW r \in Run, RecordOf(r), pc[r] # "ended",
         NEW status, NEW code, End(r, status, code),
         code # "SCHEMA_FAILURE",
         code = "BUDGET_EXHAUSTED" => expired[r] \/ Len(steps[r]) = MaxSteps,
         UNCHANGED <<steps, step, schema_failures, expired>>
  PROVE  RecordOf(r)'
  <1>1. pc'[r] = "ended" /\ ending'[r][2] = code
    BY DEF End, Goto, TypeOK
  <1>2. schema_failures[r] # MaxSchemaRetries + 1
    <2>1. schema_failures[r] \in 0 .. (MaxSchemaRetries + 1)
      BY DEF TypeOK
    <2>2. schema_failures[r] <= MaxSchemaRetries
      BY DEF Progress
    <2> QED
      BY <2>1, <2>2, LimitsAssumption
  <1>3. Malformed(r)' = Malformed(r)
    BY DEF Malformed
  <1> QED
    BY <1>1, <1>2, <1>3 DEF RecordOf

LEMMA TimesOutUnrecorded ==
  ASSUME TypeOK, Progress, NEW r \in Run, RecordOf(r), pc[r] # "ended",
         NEW event, TimedOut(r, event),
         UNCHANGED <<steps, step, schema_failures, expired>>
  PROVE  RecordOf(r)'
  BY EndsUnrecorded DEF TimedOut

\* A run that goes on within its step.
LEMMA GoesOnUnrecorded ==
  ASSUME TypeOK, NEW r \in Run, RecordOf(r),
         pc[r] \in {"invoking", "waiting", "joining", "acting"},
         NEW label \in {"invoking", "waiting", "joining", "acting"},
         Goto(r, label),
         UNCHANGED <<steps, step, schema_failures, expired, ending>>
  PROVE  RecordOf(r)'
  <1>1. pc'[r] = label
    BY DEF Goto, TypeOK
  <1>2. Malformed(r)' = Malformed(r)
    BY DEF Malformed
  <1> QED
    BY <1>1, <1>2 DEF RecordOf

\* Recording a step: its number is its position, and it counts as malformed
\* exactly when it is an invalid answer that named no tool.
LEMMA NoteCounts ==
  ASSUME TypeOK, NEW r \in Run, RecordOf(r), Len(steps[r]) = step[r] - 1,
         NEW action, NEW tool, NEW ids, Note(r, action, tool, ids)
  PROVE  /\ \A n \in DOMAIN steps'[r] : steps'[r][n].number = n
         /\ Len(steps'[r]) = step[r]
         /\ Cardinality(Malformed(r)') =
                IF action = "invalid" /\ tool = NoTool
                THEN Cardinality(Malformed(r)) + 1
                ELSE Cardinality(Malformed(r))
         /\ Cardinality(Malformed(r)) \in Nat
  <1> DEFINE new == [number |-> step[r], action |-> action, tool |-> tool,
                     ids |-> ids]
             old == steps[r]
             m == Len(old) + 1
  <1>1. steps'[r] = Append(old, new)
    BY DEF Note, TypeOK
  <1>2. /\ old \in Seq(AgentStep) /\ DOMAIN old = 1 .. Len(old)
        /\ Len(old) \in Nat /\ step[r] \in Int /\ step[r] = m
    BY DEF TypeOK
  <1>3. new.number = m /\ new.action = action /\ new.tool = tool
    BY <1>2
  <1> HIDE DEF new
  <1>4. /\ DOMAIN steps'[r] = 1 .. m
        /\ Len(steps'[r]) = m
        /\ \A n \in 1 .. Len(old) : steps'[r][n] = old[n]
        /\ steps'[r][m] = new
    <2>1. Append(old, new) = [n \in 1 .. m |-> IF n = m THEN new ELSE old[n]]
      BY <1>2
    <2>2. Len(Append(old, new)) = m
      BY <1>2
    <2> QED
      BY <1>1, <1>2, <2>1, <2>2
  <1>5. \A n \in 1 .. m : n = m \/ n \in 1 .. Len(old)
    BY <1>2
  <1>6. Malformed(r) \subseteq 1 .. Len(old) /\ m \notin Malformed(r)
    BY <1>2 DEF Malformed
  <1>7. IsFiniteSet(Malformed(r)) /\ Cardinality(Malformed(r)) \in Nat
    <2>1. IsFiniteSet(1 .. Len(old))
      BY <1>2, FS_Interval
    <2> QED
      BY <1>6, <2>1, FS_Subset, FS_CardinalityType
  <1>8. Malformed(r)' = IF action = "invalid" /\ tool = NoTool
                        THEN Malformed(r) \cup {m} ELSE Malformed(r)
    <2>1. \A n \in 1 .. Len(old) : n \in 1 .. m
      BY <1>2
    <2>2. m \in 1 .. m
      BY <1>2
    <2> QED
      BY <1>2, <1>3, <1>4, <1>5, <2>1, <2>2 DEF Malformed
  <1>9. Cardinality(Malformed(r) \cup {m}) = Cardinality(Malformed(r)) + 1
    BY <1>6, <1>7, FS_AddElement
  <1>10. \A n \in DOMAIN steps'[r] : steps'[r][n].number = n
    BY <1>2, <1>3, <1>4, <1>5 DEF RecordOf
  <1> QED
    BY <1>2, <1>4, <1>7, <1>8, <1>9, <1>10

\* A run that records its step, and goes on or ends.
LEMMA Recorded ==
  ASSUME TypeOK, Progress, NEW r \in Run, RecordOf(r),
         pc[r] \in {"joining", "acting"},
         NEW action, NEW tool, NEW ids, Note(r, action, tool, ids),
         schema_failures'[r] = IF action = "invalid" /\ tool = NoTool
                               THEN schema_failures[r] + 1
                               ELSE schema_failures[r],
         UNCHANGED <<step, expired>>,
         \/ /\ Goto(r, "loop")
            /\ UNCHANGED ending
            /\ schema_failures'[r] # MaxSchemaRetries + 1
         \/ \E status, code :
               /\ End(r, status, code)
               /\ code # "BUDGET_EXHAUSTED"
               /\ code = "SCHEMA_FAILURE" <=>
                      schema_failures'[r] = MaxSchemaRetries + 1
  PROVE  RecordOf(r)'
  <1>1. Len(steps[r]) = step[r] - 1 /\ ending[r][2] = "none"
    BY DEF RecordOf
  <1>2. /\ \A n \in DOMAIN steps'[r] : steps'[r][n].number = n
        /\ Len(steps'[r]) = step'[r]
        /\ Cardinality(Malformed(r)') = schema_failures'[r]
    BY <1>1, NoteCounts DEF RecordOf
  <1>3. CASE /\ Goto(r, "loop")
             /\ UNCHANGED ending
             /\ schema_failures'[r] # MaxSchemaRetries + 1
    <2>1. pc'[r] = "loop" /\ ending'[r][2] = "none"
      BY <1>1, <1>3 DEF Goto, TypeOK
    <2> QED
      BY <1>2, <1>3, <2>1 DEF RecordOf
  <1>4. ASSUME NEW status, NEW code, End(r, status, code),
               code # "BUDGET_EXHAUSTED",
               code = "SCHEMA_FAILURE" <=>
                   schema_failures'[r] = MaxSchemaRetries + 1
        PROVE  RecordOf(r)'
    <2>1. pc'[r] = "ended" /\ ending'[r][2] = code
      BY <1>4 DEF End, Goto, TypeOK
    <2> QED
      BY <1>2, <1>4, <2>1 DEF RecordOf
  <1> QED
    BY <1>3, <1>4

\* The thread of a run touches the record of that run only.
LEMMA RecordIsLocal ==
  ASSUME TypeOK, NEW r \in Run, Explore(r)
  PROVE  /\ \A q \in Run \ {r} : /\ steps'[q] = steps[q]
                                 /\ step'[q] = step[q]
                                 /\ schema_failures'[q] = schema_failures[q]
         /\ UNCHANGED expired
  <1>1. ASSUME NEW action, NEW tool, NEW ids, Note(r, action, tool, ids)
        PROVE  \A q \in Run \ {r} : steps'[q] = steps[q]
    BY <1>1 DEF Note, TypeOK
  <1>2. CASE LoopTop(r) \/ BeginStep(r)
    BY <1>2 DEF LoopTop, BeginStep, TypeOK, evidence, outside
  <1>3. CASE RetryMalformed(r)
    BY <1>1, <1>3 DEF RetryMalformed, TypeOK, outside
  <1>4. CASE RefuseTool(r) \/ CallTool(r) \/ Abstain(r) \/ Verify(r)
    BY <1>1, <1>4 DEF RefuseTool, CallTool, Abstain, Verify, outside
  <1> QED
    BY <1>2, <1>3, <1>4
    DEF Explore, Invoke, AcquireSlot, StopWaiting, GiveUp, AnswerTooLate,
        ProviderError, AcceptAction, evidence, outside

\* Every step keeps the record of every run.
LEMMA NextRecord ==
  ASSUME TypeOK, Progress, RecordInv, [Next]_vars
  PROVE  RecordInv'
  <1>1. CASE UNCHANGED <<pc, step, steps, schema_failures, ending, expired>>
    BY <1>1 DEF RecordInv, RecordOf, Malformed
  <1>2. ASSUME NEW r \in Run, Deadline(r)
        PROVE  RecordInv'
    <2>1. UNCHANGED <<pc, step, steps, schema_failures, ending>>
      BY <1>2 DEF Deadline, evidence, result
    <2>2. \A q \in Run : expired[q] => expired'[q]
      BY <1>2 DEF Deadline, TypeOK
    <2>3. ASSUME NEW q \in Run PROVE RecordOf(q)'
      <3>1. RecordOf(q)
        BY DEF RecordInv
      <3> QED BY <2>1, <2>2, <3>1 DEF RecordOf, Malformed
    <2> QED BY <2>3 DEF RecordInv
  <1>3. ASSUME NEW r \in Run, ProviderReturns(r) \/ Cancel(r)
        PROVE  RecordInv'
    BY <1>1, <1>3 DEF ProviderReturns, Cancel, evidence, outside, result
  <1>4. ASSUME NEW r \in Run, Explore(r), RecordOf(r)'
        PROVE  RecordInv'
    <2> SUFFICES ASSUME NEW q \in Run \ {r}
                 PROVE  RecordOf(q)'
      BY <1>4 DEF RecordInv
    <2>1. /\ steps'[q] = steps[q] /\ step'[q] = step[q]
          /\ schema_failures'[q] = schema_failures[q]
          /\ expired'[q] = expired[q]
          /\ pc'[q] = pc[q] /\ ending'[q] = ending[q]
      BY <1>4, ExploreIsLocal, RecordIsLocal
    <2>2. Malformed(q)' = Malformed(q)
      BY <2>1 DEF Malformed
    <2> QED
      BY <2>1, <2>2 DEF RecordInv, RecordOf
  <1>5. ASSUME NEW r \in Run, Explore(r)
        PROVE  RecordOf(r)'
    <2>1. RecordOf(r) /\ pc[r] # "ended"
      BY <1>5, ExploreIsLocal DEF RecordInv
    <2>2. CASE LoopTop(r)
      <3>1. UNCHANGED <<steps, step, schema_failures, expired>>
        BY <2>2 DEF LoopTop, evidence, outside
      <3>2. pc[r] = "loop" /\ Len(steps[r]) = step[r] /\ ending[r][2] = "none"
        BY <2>1, <2>2 DEF LoopTop, RecordOf
      <3>3. CASE End(r, "abstained", "BUDGET_EXHAUSTED") /\ step[r] = MaxSteps
        BY <2>1, <3>1, <3>2, <3>3, EndsUnrecorded
      <3>4. CASE End(r, "cancelled", "CANCELLED")
        BY <2>1, <3>1, <3>4, EndsUnrecorded
      <3>5. CASE Goto(r, "beginning") /\ UNCHANGED ending
        <4>1. pc'[r] = "beginning"
          BY <3>5 DEF Goto, TypeOK
        <4>2. Malformed(r)' = Malformed(r)
          BY <3>1 DEF Malformed
        <4> QED
          BY <2>1, <3>1, <3>2, <3>5, <4>1, <4>2 DEF RecordOf
      <3> QED
        BY <2>2, <3>3, <3>4, <3>5 DEF LoopTop
    <2>b. CASE BeginStep(r)
      <3>1. UNCHANGED <<steps, schema_failures, expired>>
        BY <2>b DEF BeginStep, evidence, outside
      <3>2. /\ pc[r] = "beginning" /\ Len(steps[r]) = step[r]
            /\ ending[r][2] = "none"
        BY <2>1, <2>b DEF BeginStep, RecordOf
      <3>3. CASE End(r, "abstained", "BUDGET_EXHAUSTED") /\ UNCHANGED step
                 /\ expired[r]
        BY <2>1, <3>1, <3>2, <3>3, EndsUnrecorded
      <3>4. CASE /\ step' = [step EXCEPT ![r] = @ + 1]
                 /\ Goto(r, "invoking")
                 /\ UNCHANGED ending
        <4>1. step[r] \in Int /\ step'[r] = step[r] + 1 /\ pc'[r] = "invoking"
          BY <3>4 DEF Goto, TypeOK
        <4>2. Malformed(r)' = Malformed(r)
          BY <3>1 DEF Malformed
        <4> QED
          BY <2>1, <3>1, <3>2, <3>4, <4>1, <4>2 DEF RecordOf
      <3> QED
        BY <2>b, <3>3, <3>4 DEF BeginStep
    <2>3. CASE Invoke(r) \/ StopWaiting(r) \/ GiveUp(r) \/ AnswerTooLate(r)
               \/ ProviderError(r)
      <3>1. /\ UNCHANGED <<steps, step, schema_failures, expired>>
            /\ \/ \E event : TimedOut(r, event)
               \/ /\ pc[r] = "invoking" /\ Goto(r, "waiting")
                  /\ UNCHANGED ending
               \/ End(r, "abstained", "BUDGET_EXHAUSTED") /\ expired[r]
               \/ \E status, code : /\ End(r, status, code)
                                    /\ code \notin {"SCHEMA_FAILURE",
                                                    "BUDGET_EXHAUSTED"}
        BY <2>3 DEF Invoke, StopWaiting, GiveUp, AnswerTooLate, ProviderError,
                    evidence, outside
      <3> QED
        BY <2>1, <3>1, EndsUnrecorded, TimesOutUnrecorded, GoesOnUnrecorded
    <2>4. CASE AcquireSlot(r) \/ AcceptAction(r)
      <3>1. /\ UNCHANGED <<steps, step, schema_failures, expired, ending>>
            /\ pc[r] \in {"waiting", "joining"}
            /\ Goto(r, "joining") \/ Goto(r, "acting")
        BY <2>4 DEF AcquireSlot, AcceptAction, Joined, evidence, outside, result
      <3> QED
        BY <2>1, <3>1, GoesOnUnrecorded
    <2>5. CASE RetryMalformed(r)
      <3>1. /\ schema_failures' = [schema_failures EXCEPT
                                      ![r] = schema_failures[r] + 1]
            /\ Note(r, "invalid", NoTool, {})
            /\ pc[r] = "joining"
            /\ UNCHANGED <<step, expired>>
        BY <2>5 DEF RetryMalformed, Joined, outside
      <3>2. /\ schema_failures'[r] = schema_failures[r] + 1
            /\ schema_failures[r] \in 0 .. MaxSchemaRetries
        <4>1. schema_failures[r] <= MaxSchemaRetries
          BY <3>1 DEF Progress
        <4>2. schema_failures[r] \in 0 .. (MaxSchemaRetries + 1)
          BY DEF TypeOK
        <4> QED
          BY <3>1, <4>1, <4>2, LimitsAssumption DEF TypeOK
      <3>3. CASE /\ schema_failures[r] + 1 > MaxSchemaRetries
                 /\ End(r, "abstained", "SCHEMA_FAILURE")
        <4>1. schema_failures'[r] = MaxSchemaRetries + 1
          BY <3>2, <3>3, LimitsAssumption
        <4> QED
          BY <2>1, <3>1, <3>2, <3>3, <4>1, Recorded
      <3>4. CASE /\ ~(schema_failures[r] + 1 > MaxSchemaRetries)
                 /\ Goto(r, "loop") /\ UNCHANGED ending
        <4>1. schema_failures'[r] # MaxSchemaRetries + 1
          BY <3>2, <3>4, LimitsAssumption
        <4> QED
          BY <2>1, <3>1, <3>2, <3>4, <4>1, Recorded
      <3> QED
        BY <2>5, <3>3, <3>4 DEF RetryMalformed, RetriesExhausted
    <2>6. CASE RefuseTool(r) \/ CallTool(r) \/ Abstain(r) \/ Verify(r)
      <3>1. pc[r] = "acting" /\ UNCHANGED <<step, schema_failures, expired>>
        BY <2>6 DEF RefuseTool, CallTool, Abstain, Verify, Acting, outside
      <3>2. schema_failures[r] # MaxSchemaRetries + 1
        <4>1. schema_failures[r] <= MaxSchemaRetries
          BY <3>1 DEF Progress
        <4>2. schema_failures[r] \in 0 .. (MaxSchemaRetries + 1)
          BY DEF TypeOK
        <4> QED
          BY <4>1, <4>2, LimitsAssumption
      <3>3. ASSUME NEW action, NEW tool, NEW ids, Note(r, action, tool, ids),
                   action = "invalid" => tool # NoTool,
                   \/ Goto(r, "loop") /\ UNCHANGED ending
                   \/ \E status, code :
                         /\ End(r, status, code)
                         /\ code \notin {"SCHEMA_FAILURE", "BUDGET_EXHAUSTED"}
            PROVE  RecordOf(r)'
        BY <2>1, <3>1, <3>2, <3>3, Recorded
      <3>4. CASE UNCHANGED steps /\ End(r, "failed", "INVESTIGATION_FAILED")
        BY <2>1, <3>1, <3>4, EndsUnrecorded
      <3>5. CASE RefuseTool(r)
        <4>1. answer[r] \in Tool /\ answer[r] # NoTool
          BY <3>5, LoopAssumption DEF RefuseTool, Acting
        <4> QED
          BY <3>3, <3>4, <3>5, <4>1 DEF RefuseTool
      <3>6. CASE CallTool(r)
        <4>1. answer[r] \in Tool /\ answer[r] # NoTool
          BY <3>6, LoopAssumption DEF CallTool, Acting
        <4>2. PICK ids :
                 \/ /\ Note(r, "invalid", answer[r], {})
                    /\ End(r, "rejected", "EVIDENCE_PAYLOAD_TOO_LARGE")
                 \/ /\ Note(r, "tool_call", answer[r], ids)
                    /\ \/ End(r, "abstained", "ABSTAINED")
                       \/ Goto(r, "loop") /\ UNCHANGED ending
          BY <3>6 DEF CallTool
        <4> QED
          BY <3>3, <4>1, <4>2
      <3>7. CASE Abstain(r)
        BY <3>3, <3>7 DEF Abstain
      <3>8. CASE Verify(r)
        BY <3>3, <3>4, <3>8 DEF Verify
      <3> QED
        BY <2>6, <3>5, <3>6, <3>7, <3>8
    <2> QED
      BY <1>5, <2>2, <2>b, <2>3, <2>4, <2>5, <2>6 DEF Explore
  <1> QED
    BY <1>1, <1>2, <1>3, <1>4, <1>5 DEF Next, vars, evidence, outside, result

LEMMA InitRecord == Init => RecordInv
  <1> SUFFICES ASSUME Init, NEW r \in Run
               PROVE  RecordOf(r)
    BY DEF RecordInv
  <1>1. /\ steps[r] = <<>> /\ step[r] = 0 /\ schema_failures[r] = 0
        /\ pc[r] = "loop" /\ ending[r] = <<"exploring", "none">>
    BY DEF Init
  <1>2. Malformed(r) = {} /\ Len(steps[r]) = 0 /\ DOMAIN steps[r] = {}
    BY <1>1 DEF Malformed
  <1>3. Cardinality(Malformed(r)) = 0
    BY <1>2, FS_EmptySet
  <1> QED
    BY <1>1, <1>2, <1>3, LimitsAssumption DEF RecordOf

\* The recorded steps account for the ending of every run.
THEOREM RecordExplains == Spec => []RecordExplainsEnding
  <1>1. TypeOK /\ RecordInv => RecordExplainsEnding
    <2> SUFFICES ASSUME TypeOK, RecordInv, NEW r \in Run
                 PROVE  /\ \A n \in DOMAIN steps[r] : steps[r][n].number = n
                        /\ Len(steps[r]) \in {step[r], step[r] - 1}
                        /\ ending[r][2] = "SCHEMA_FAILURE" <=>
                               Cardinality(Malformed(r)) = MaxSchemaRetries + 1
                        /\ ending[r][2] = "BUDGET_EXHAUSTED" =>
                               expired[r] \/ Len(steps[r]) = MaxSteps
      BY DEF RecordExplainsEnding, Malformed
    <2> QED
      BY DEF RecordInv, RecordOf
  <1> QED
    BY <1>1, InitRecord, NextRecord, TypeCorrect, PTL DEF Spec

-----------------------------------------------------------------------------
(***************************************************************************)
(* What a cancelled run may still do.                                      *)
(***************************************************************************)
\* How far run r has come against the step it had admitted when cancel() was
\* called.
CancellationOf(r) ==
    /\ step[r] <= cancelled_at[r] + 1
    /\ pc[r] \notin {"invoking", "ended"} => step[r] <= cancelled_at[r]
    /\ Len(steps[r]) <= cancelled_at[r]
    /\ cancelled_at[r] <= MaxSteps => cancel_event[r]

CancellationIsSeen == \A r \in Run : CancellationOf(r)

\* The head of the loop may begin one step more; _invoke_model admits none.
LEMMA HeadSeesCancellation ==
  ASSUME TypeOK, NEW r \in Run, CancellationOf(r),
         LoopTop(r) \/ BeginStep(r) \/ Invoke(r)
  PROVE  CancellationOf(r)'
  <1>1. UNCHANGED <<steps, cancelled_at, cancel_event>>
    BY DEF LoopTop, BeginStep, Invoke, evidence, outside
  <1>2. /\ step[r] \in Nat /\ step[r] <= MaxSteps
        /\ cancelled_at[r] \in Nat /\ MaxSteps \in Nat
    BY LimitsAssumption DEF TypeOK
  <1>3. ASSUME NEW status, NEW code, End(r, status, code), UNCHANGED step
        PROVE  CancellationOf(r)'
    <2>1. pc'[r] = "ended"
      BY <1>3 DEF End, Goto, TypeOK
    <2> QED
      BY <1>1, <1>3, <2>1 DEF CancellationOf
  <1>4. CASE LoopTop(r)
    <2>1. UNCHANGED step /\ pc[r] = "loop"
      BY <1>4 DEF LoopTop
    <2>2. CASE Goto(r, "beginning")
      BY <1>1, <2>1, <2>2 DEF CancellationOf
    <2> QED
      BY <1>3, <1>4, <2>1, <2>2 DEF LoopTop
  <1>5. CASE BeginStep(r)
    <2>1. CASE step' = [step EXCEPT ![r] = @ + 1] /\ Goto(r, "invoking")
      <3>1. step'[r] = step[r] + 1 /\ pc[r] = "beginning" /\ pc'[r] = "invoking"
        BY <1>5, <2>1 DEF BeginStep, Goto, TypeOK
      <3> QED
        BY <1>1, <1>2, <3>1 DEF CancellationOf
    <2> QED
      BY <1>3, <1>5, <2>1 DEF BeginStep
  <1>6. CASE Invoke(r)
    <2>1. UNCHANGED step
      BY <1>6 DEF Invoke
    <2>2. CASE TimedOut(r, cancel_event[r])
      BY <1>3, <2>1, <2>2 DEF TimedOut
    <2>3. CASE ~cancel_event[r]
      <3>1. step[r] <= cancelled_at[r]
        BY <1>2, <2>3 DEF CancellationOf
      <3> QED
        BY <1>1, <2>1, <3>1 DEF CancellationOf
    <2> QED
      BY <1>6, <2>2, <2>3 DEF Invoke
  <1> QED
    BY <1>4, <1>5, <1>6

\* The rest of an admitted step records that step at most.
LEMMA AdmittedStepEnds ==
  ASSUME TypeOK, NEW r \in Run, RecordOf(r), CancellationOf(r), Explore(r),
         ~(LoopTop(r) \/ BeginStep(r) \/ Invoke(r))
  PROVE  CancellationOf(r)'
  <1>1. /\ UNCHANGED <<step, cancelled_at>>
        /\ cancel_event[r] => cancel_event'[r]
        /\ pc[r] \in {"waiting", "joining", "acting"}
    BY DEF Explore, AcquireSlot, StopWaiting, GiveUp, AnswerTooLate,
           RetryMalformed, ProviderError, AcceptAction, RefuseTool, CallTool,
           Abstain, Verify, Joined, Acting, TypeOK, outside
  <1>2. \/ UNCHANGED steps
        \/ \E action, tool, ids : Note(r, action, tool, ids)
    BY DEF Explore, AcquireSlot, StopWaiting, GiveUp, AnswerTooLate,
           RetryMalformed, ProviderError, AcceptAction, RefuseTool, CallTool,
           Abstain, Verify, evidence
  <1>3. Len(steps[r]) = step[r] - 1 /\ step[r] <= cancelled_at[r]
    BY <1>1 DEF RecordOf, CancellationOf
  <1>4. step[r] \in Nat /\ cancelled_at[r] \in Nat
    BY LimitsAssumption DEF TypeOK
  <1>5. Len(steps'[r]) \in {step[r] - 1, step[r]}
    <2>1. ASSUME NEW action, NEW tool, NEW ids, Note(r, action, tool, ids)
          PROVE  Len(steps'[r]) = step[r]
      BY <1>3, <2>1, NoteCounts
    <2> QED
      BY <1>2, <1>3, <2>1
  <1> QED
    BY <1>1, <1>3, <1>4, <1>5 DEF CancellationOf

LEMMA NextSeesCancellation ==
  ASSUME TypeOK, RecordInv, CancellationIsSeen, [Next]_vars
  PROVE  CancellationIsSeen'
  <1>1. CASE UNCHANGED <<pc, step, steps, cancel_event, cancelled_at>>
    BY <1>1 DEF CancellationIsSeen, CancellationOf
  <1>2. ASSUME NEW r \in Run, Explore(r)
        PROVE  CancellationIsSeen'
    <2>1. CancellationOf(r)'
      BY <1>2, HeadSeesCancellation, AdmittedStepEnds
      DEF CancellationIsSeen, RecordInv
    <2>2. ASSUME NEW q \in Run \ {r}
          PROVE  CancellationOf(q)'
      <3>1. /\ pc'[q] = pc[q] /\ step'[q] = step[q] /\ steps'[q] = steps[q]
            /\ cancelled_at'[q] = cancelled_at[q]
            /\ cancel_event'[q] = cancel_event[q]
        <4>1. /\ UNCHANGED cancelled_at
              /\ \/ UNCHANGED cancel_event
                 \/ cancel_event' = [cancel_event EXCEPT ![r] = TRUE]
          BY <1>2 DEF Explore, LoopTop, BeginStep, Invoke, AcquireSlot,
             StopWaiting, GiveUp, AnswerTooLate, RetryMalformed, ProviderError,
             AcceptAction, RefuseTool, CallTool, Abstain, Verify, outside
        <4> QED
          BY <1>2, <4>1, ExploreIsLocal, RecordIsLocal DEF TypeOK
      <3> QED
        BY <3>1 DEF CancellationIsSeen, CancellationOf
    <2> QED
      BY <2>1, <2>2 DEF CancellationIsSeen
  <1>3. ASSUME NEW r \in Run, Cancel(r)
        PROVE  CancellationIsSeen'
    <2>1. /\ UNCHANGED <<pc, step, steps>>
          /\ pc[r] # "ended"
          /\ cancel_event' = [cancel_event EXCEPT ![r] = TRUE]
          /\ cancelled_at' = [cancelled_at EXCEPT ![r] = Admitted(r)]
      BY <1>3 DEF Cancel, evidence
    <2>2. /\ cancel_event'[r] /\ cancelled_at'[r] = Admitted(r)
          /\ \A q \in Run \ {r} : /\ cancel_event'[q] = cancel_event[q]
                                  /\ cancelled_at'[q] = cancelled_at[q]
      BY <2>1 DEF TypeOK
    <2>3. CancellationOf(r)'
      <3>1. RecordOf(r) /\ step[r] \in Nat
        BY DEF RecordInv, TypeOK
      <3>2. CASE pc[r] = "invoking"
        <4>1. Len(steps[r]) = step[r] - 1 /\ Admitted(r) = step[r] - 1
          BY <3>1, <3>2 DEF RecordOf, Admitted
        <4> QED
          BY <2>1, <2>2, <3>1, <3>2, <4>1 DEF CancellationOf
      <3>3. CASE pc[r] # "invoking"
        <4>1. Len(steps[r]) <= step[r] /\ Admitted(r) = step[r]
          BY <3>1, <3>3 DEF RecordOf, Admitted
        <4> QED
          BY <2>1, <2>2, <3>1, <4>1 DEF CancellationOf
      <3> QED
        BY <3>2, <3>3
    <2>4. ASSUME NEW q \in Run \ {r}
          PROVE  CancellationOf(q)'
      BY <2>1, <2>2 DEF CancellationIsSeen, CancellationOf
    <2> QED
      BY <2>3, <2>4 DEF CancellationIsSeen
  <1>4. ASSUME NEW r \in Run, ProviderReturns(r) \/ Deadline(r)
        PROVE  CancellationIsSeen'
    BY <1>1, <1>4 DEF ProviderReturns, Deadline, evidence, outside, result
  <1> QED
    BY <1>1, <1>2, <1>3, <1>4 DEF Next, vars, evidence, outside

\* Once cancel() has returned, _invoke_model admits no further step, and only a
\* step it had admitted before is still recorded.
THEOREM CancelledMakesNoCall == Spec => []CancelledRunMakesNoCall
  <1>1. Init => CancellationIsSeen
    BY LimitsAssumption DEF Init, CancellationIsSeen, CancellationOf
  <1>2. CancellationIsSeen => CancelledRunMakesNoCall
    BY DEF CancellationIsSeen, CancellationOf, CancelledRunMakesNoCall
  <1>3. TypeOK /\ RecordInv /\ CancellationIsSeen /\ [Next]_vars
           => CancellationIsSeen'
    BY NextSeesCancellation
  <1> QED
    BY <1>1, <1>2, <1>3, InitRecord, NextRecord, TypeCorrect, PTL DEF Spec

-----------------------------------------------------------------------------
(***************************************************************************)
(* What an ending says, and that it stands.                                *)
(***************************************************************************)
\* The endings that the protocol of Investigation takes over: a run is completed
\* exactly when the verifier accepted a row, and has a status once it is over.
EndingOf(r) ==
    /\ pc[r] = "ended" <=> ending[r][1] # "exploring"
    /\ accepted[r] # NoBank <=> ending[r][1] = "completed"
    /\ ending[r][1] = "cancelled" <=> ending[r][2] = "CANCELLED"

EndingsAreConsistent == \A r \in Run : EndingOf(r)

LEMMA RowsAreNoBank == \A x \in Candidate : x # NoBank
  BY LoopAssumption

\* Leaving the loop without an acceptance, with any status that goes with its code.
LEMMA EndIsConsistent ==
  ASSUME TypeOK, NEW r \in Run, pc[r] # "ended", EndingOf(r),
         NEW status \in Status, NEW code \in FailureCode, End(r, status, code),
         status # "exploring", status = "completed" <=> accepted'[r] # NoBank,
         status = "cancelled" <=> code = "CANCELLED"
  PROVE  EndingOf(r)'
  <1>1. pc'[r] = "ended" /\ ending'[r] = <<status, code>>
    BY DEF End, Goto, TypeOK
  <1> QED
    BY <1>1 DEF EndingOf

\* Leaving it for a timeout.
LEMMA TimeOutIsConsistent ==
  ASSUME TypeOK, NEW r \in Run, pc[r] # "ended", EndingOf(r), UNCHANGED accepted,
         NEW event, TimedOut(r, event)
  PROVE  EndingOf(r)'
  <1>1. accepted'[r] = NoBank
    BY DEF EndingOf
  <1>2. CASE event
    BY <1>1, <1>2, EndIsConsistent, Codes DEF TimedOut
  <1>3. CASE ~event
    BY <1>1, <1>3, EndIsConsistent, Codes DEF TimedOut
  <1> QED
    BY <1>2, <1>3

\* Going on.
LEMMA GoingOnIsConsistent ==
  ASSUME TypeOK, NEW r \in Run, pc[r] # "ended", EndingOf(r),
         NEW label, label # "ended", Goto(r, label), UNCHANGED <<ending, accepted>>
  PROVE  EndingOf(r)'
  BY DEF Goto, EndingOf, TypeOK

LEMMA ExploreIsConsistent ==
  ASSUME TypeOK, EndingsAreConsistent, NEW r \in Run, Explore(r)
  PROVE  EndingOf(r)'
  <1>0. pc[r] # "ended" /\ EndingOf(r)
    BY ExploreIsLocal DEF EndingsAreConsistent
  <1>n. accepted[r] = NoBank
    BY <1>0 DEF EndingOf
  <1>1. ASSUME UNCHANGED accepted, NEW status \in Status, NEW code \in FailureCode,
               End(r, status, code), status \notin {"exploring", "completed"},
               status = "cancelled" <=> code = "CANCELLED"
        PROVE  EndingOf(r)'
    BY <1>0, <1>n, <1>1, EndIsConsistent
  <1>2. CASE LoopTop(r) \/ BeginStep(r)
    BY <1>0, <1>1, <1>2, Codes, GoingOnIsConsistent DEF LoopTop, BeginStep
  <1>3. CASE Invoke(r)
    BY <1>0, <1>3, TimeOutIsConsistent, GoingOnIsConsistent DEF Invoke
  <1>4. CASE AcquireSlot(r)
    BY <1>0, <1>4, GoingOnIsConsistent DEF AcquireSlot, result
  <1>5. CASE StopWaiting(r)
    BY <1>0, <1>5, TimeOutIsConsistent DEF StopWaiting
  <1>6. CASE GiveUp(r)
    BY <1>0, <1>6, TimeOutIsConsistent DEF GiveUp
  <1>7. CASE AnswerTooLate(r)
    BY <1>1, <1>7, Codes DEF AnswerTooLate
  <1>8. CASE RetryMalformed(r)
    BY <1>0, <1>1, <1>8, Codes, GoingOnIsConsistent DEF RetryMalformed
  <1>9. CASE ProviderError(r)
    BY <1>0, <1>1, <1>9, Codes, TimeOutIsConsistent DEF ProviderError
  <1>10. CASE AcceptAction(r)
    BY <1>0, <1>10, GoingOnIsConsistent DEF AcceptAction, result
  <1>11. CASE RefuseTool(r)
    BY <1>1, <1>11, Codes DEF RefuseTool
  <1>12. CASE CallTool(r)
    BY <1>0, <1>1, <1>12, Codes, GoingOnIsConsistent DEF CallTool
  <1>13. CASE Abstain(r)
    BY <1>1, <1>13, Codes DEF Abstain
  <1>14. CASE Verify(r)
    <2>1. ASSUME NEW x \in Candidate, accepted' = [accepted EXCEPT ![r] = x],
                 End(r, "completed", "none")
          PROVE  EndingOf(r)'
      <3>1. accepted'[r] # NoBank
        BY <2>1, RowsAreNoBank DEF TypeOK
      <3> QED
        BY <1>0, <2>1, <3>1, Codes, EndIsConsistent
    <2> QED
      BY <1>1, <1>14, <2>1, Codes DEF Verify
  <1> QED
    BY <1>2, <1>3, <1>4, <1>5, <1>6, <1>7, <1>8, <1>9, <1>10, <1>11, <1>12, <1>13,
       <1>14 DEF Explore

\* The thread of a run accepts for that run only.
LEMMA AcceptanceIsLocal ==
  ASSUME TypeOK, NEW r \in Run, Explore(r), NEW q \in Run \ {r}
  PROVE  accepted'[q] = accepted[q]
  BY DEF TypeOK, Explore, LoopTop, BeginStep, Invoke, AcquireSlot, StopWaiting, GiveUp,
     AnswerTooLate, RetryMalformed, ProviderError, AcceptAction, RefuseTool, CallTool,
     Abstain, Verify, result

\* Each run ends once, with a status that fits its code and with an accepted row
\* exactly if it is completed: what its finalization relies on.
THEOREM EndingsConsistent == Spec => []EndingsAreConsistent
  <1>1. Init => EndingsAreConsistent
    BY DEF Init, EndingsAreConsistent, EndingOf
  <1>2. ASSUME TypeOK, EndingsAreConsistent, [Next]_vars
        PROVE  EndingsAreConsistent'
    <2>1. CASE UNCHANGED <<pc, result>>
      BY <1>2, <2>1 DEF result, EndingsAreConsistent, EndingOf
    <2>2. ASSUME NEW r \in Run, Explore(r)
          PROVE  EndingsAreConsistent'
      <3>1. \A q \in Run \ {r} : EndingOf(q)'
        BY <1>2, <2>2, ExploreIsLocal, AcceptanceIsLocal
        DEF EndingsAreConsistent, EndingOf
      <3> QED
        BY <1>2, <2>2, <3>1, ExploreIsConsistent DEF EndingsAreConsistent
    <2> QED
      BY <1>2, <2>1, <2>2 DEF Next, vars, ProviderReturns, Cancel, Deadline
  <1> QED
    BY <1>1, <1>2, TypeCorrect, PTL DEF Spec

\* A provider that returns after its run has given up, and a late cancel() or
\* deadline, change nothing of what that run ended with.
EndedRunsStand ==
    \A r \in Run : pc[r] = "ended" =>
        /\ pc'[r] = "ended" /\ ending'[r] = ending[r] /\ accepted'[r] = accepted[r]
        /\ steps'[r] = steps[r] /\ step'[r] = step[r]

EndedRunsAreFinal == [][EndedRunsStand]_vars

\* Whatever arrives late, an ended run stays as it ended.
THEOREM EndedIsFinal == Spec => EndedRunsAreFinal
  <1>1. ASSUME TypeOK, Next
        PROVE  EndedRunsStand
    <2>1. ASSUME NEW r \in Run, Explore(r)
          PROVE  EndedRunsStand
      BY <1>1, <2>1, ExploreIsLocal, RecordIsLocal, AcceptanceIsLocal DEF EndedRunsStand
    <2>2. ASSUME NEW r \in Run, ProviderReturns(r) \/ Cancel(r) \/ Deadline(r)
          PROVE  EndedRunsStand
      BY <2>2 DEF ProviderReturns, Cancel, Deadline, evidence, result, EndedRunsStand
    <2> QED
      BY <1>1, <2>1, <2>2 DEF Next
  <1> QED
    BY <1>1, TypeCorrect, PTL DEF Spec, EndedRunsAreFinal

-----------------------------------------------------------------------------
(***************************************************************************)
(* Who cancels a run.                                                      *)
(***************************************************************************)
\* The event is set by cancel(), or by a run that gave up on its call when its
\* deadline had passed, which ended that run.
CancellationHasCause ==
    \A r \in Run :
        /\ cancel_event[r] => \/ cancelled_at[r] <= MaxSteps
                              \/ expired[r] /\ pc[r] = "ended" /\ call[r] # "none"
        /\ ending[r][1] = "cancelled" => cancel_event[r]

\* A run is recorded as cancelled because somebody cancelled it, or because its
\* provider call was still in flight when its deadline passed; nothing else is
\* recorded so.
CancelledForAReason ==
    \A r \in Run : ending[r][1] = "cancelled" =>
        \/ cancelled_at[r] <= MaxSteps
        \/ expired[r] /\ call[r] # "none"

\* An ending as cancelled needs the event; no other step of a run sets it.
LEMMA ExploreCancels ==
  ASSUME TypeOK, EndingsAreConsistent, NEW r \in Run, Explore(r)
  PROVE  \/ /\ UNCHANGED <<cancel_event, cancelled_at, expired>>
            /\ \A q \in Run : call[q] # "none" => call'[q] # "none"
            /\ ending'[r][1] = "cancelled" => cancel_event[r]
         \/ GiveUp(r)
  <1>0. ending[r][1] # "cancelled"
    BY ExploreIsLocal DEF EndingsAreConsistent, EndingOf
  <1>1. ASSUME NEW status, NEW code, End(r, status, code)
        PROVE  ending'[r][1] = status
    BY <1>1 DEF End, TypeOK
  <1>2. CASE LoopTop(r) \/ BeginStep(r)
    BY <1>0, <1>1, <1>2 DEF LoopTop, BeginStep, outside, provider
  <1>3. CASE Invoke(r) \/ StopWaiting(r) \/ ProviderError(r)
    BY <1>0, <1>1, <1>3 DEF Invoke, StopWaiting, ProviderError, TimedOut, outside,
                            provider, TypeOK
  <1>4. CASE AcquireSlot(r) \/ AcceptAction(r)
    BY <1>0, <1>4 DEF AcquireSlot, AcceptAction, outside, provider, result, TypeOK
  <1>5. CASE AnswerTooLate(r) \/ RefuseTool(r) \/ Abstain(r) \/ Verify(r)
    BY <1>0, <1>1, <1>5 DEF AnswerTooLate, RefuseTool, Abstain, Verify, outside,
                            provider
  <1>6. CASE RetryMalformed(r) \/ CallTool(r)
    BY <1>0, <1>1, <1>6 DEF RetryMalformed, CallTool, outside, provider
  <1> QED
    BY <1>2, <1>3, <1>4, <1>5, <1>6 DEF Explore

LEMMA NextCause ==
  ASSUME TypeOK, EndingsAreConsistent, CancellationHasCause, [Next]_vars
  PROVE  CancellationHasCause'
  <1>1. CASE UNCHANGED vars
    BY <1>1 DEF vars, provider, outside, result, CancellationHasCause
  <1>2. ASSUME NEW r \in Run, Explore(r), ~GiveUp(r)
        PROVE  CancellationHasCause'
    <2>1. /\ UNCHANGED <<cancel_event, cancelled_at, expired>>
          /\ \A q \in Run : call[q] # "none" => call'[q] # "none"
          /\ ending'[r][1] = "cancelled" => cancel_event[r]
      BY <1>2, ExploreCancels
    <2>2. /\ pc[r] # "ended"
          /\ \A q \in Run \ {r} : pc'[q] = pc[q] /\ ending'[q] = ending[q]
      BY <1>2, ExploreIsLocal
    <2> QED
      BY <2>1, <2>2 DEF CancellationHasCause
  <1>3. ASSUME NEW r \in Run, GiveUp(r)
        PROVE  CancellationHasCause'
    <2>1. /\ cancel_event' = [cancel_event EXCEPT ![r] = TRUE]
          /\ UNCHANGED <<cancelled_at, expired, call>>
          /\ expired[r] /\ call[r] # "none"
      BY <1>3 DEF GiveUp, provider
    <2>2. pc'[r] = "ended"
      BY <1>3 DEF GiveUp, TimedOut, End, Goto, TypeOK
    <2>3. \A q \in Run \ {r} : pc'[q] = pc[q] /\ ending'[q] = ending[q]
      BY <1>3, ExploreIsLocal DEF Explore
    <2> QED
      BY <2>1, <2>2, <2>3 DEF CancellationHasCause, TypeOK
  <1>4. ASSUME NEW r \in Run, Cancel(r)
        PROVE  CancellationHasCause'
    <2>1. /\ Admitted(r) <= MaxSteps
          /\ cancel_event' = [cancel_event EXCEPT ![r] = TRUE]
          /\ cancelled_at' = [cancelled_at EXCEPT ![r] = Admitted(r)]
          /\ UNCHANGED <<pc, expired, call, ending>>
      BY <1>4, LimitsAssumption DEF Cancel, Admitted, provider, result, TypeOK
    <2> QED
      BY <2>1 DEF CancellationHasCause, TypeOK
  <1>5. ASSUME NEW r \in Run, ProviderReturns(r) \/ Deadline(r)
        PROVE  CancellationHasCause'
    <2>1. UNCHANGED <<pc, cancel_event, cancelled_at, ending>>
      BY <1>5 DEF ProviderReturns, Deadline, outside, result
    <2>2. \A q \in Run : /\ expired[q] => expired'[q]
                         /\ call[q] # "none" => call'[q] # "none"
      BY <1>5 DEF ProviderReturns, Deadline, provider, outside, TypeOK
    <2> QED
      BY <2>1, <2>2 DEF CancellationHasCause
  <1> QED
    BY <1>1, <1>2, <1>3, <1>4, <1>5 DEF Next

LEMMA InitCause == Init => CancellationHasCause
  BY DEF Init, CancellationHasCause

\* The exact extent of the departure from docs/evaluation.md: the only runs
\* counted as cancelled that nobody cancelled are those abandoned in mid-call.
THEOREM CancelledWithReason == Spec => []CancelledForAReason
  <1>1. TypeOK /\ EndingsAreConsistent /\ CancellationHasCause /\ [Next]_vars
           => CancellationHasCause'
    BY NextCause
  <1>2. CancellationHasCause => CancelledForAReason
    BY DEF CancellationHasCause, CancelledForAReason
  <1> QED
    BY <1>1, <1>2, InitCause, TypeCorrect, EndingsConsistent, PTL DEF Spec

-----------------------------------------------------------------------------
(***************************************************************************)
(* How much work is left.                                                  *)
(***************************************************************************)
\* The steps of its thread that a run may still take: six per iteration of the
\* loop, and those left of the present one.
Stage == [invoking |-> 6, waiting |-> 5, joining |-> 4, acting |-> 3, loop |-> 2,
          beginning |-> 1, ended |-> 0]
WorkLeft(r) == 6 * (MaxSteps - step[r]) + Stage[pc[r]]

\* Only the thread of a run moves it, and each of its steps uses up work; once its
\* deadline has passed it finishes the iteration it is in and begins no other, and
\* so does a cancelled run that is not just beginning one.
WorkIsUsedUp ==
    \A r \in Run :
        \/ UNCHANGED <<pc[r], step[r]>>
        \/ /\ WorkLeft(r)' < WorkLeft(r)
           /\ expired[r] \/ (cancel_event[r] /\ pc[r] # "beginning") =>
                 step'[r] = step[r] /\ Stage[pc'[r]] < Stage[pc[r]]

WorkOnlyShrinks == [][WorkIsUsedUp]_vars

LEMMA ExploreWorks ==
  ASSUME TypeOK, TypeOK', Progress, NEW r \in Run, Explore(r)
  PROVE  /\ WorkLeft(r)' < WorkLeft(r)
         /\ expired[r] \/ (cancel_event[r] /\ pc[r] # "beginning") =>
               step'[r] = step[r] /\ Stage[pc'[r]] < Stage[pc[r]]
  <1>1. \/ UNCHANGED step /\ Stage[pc'[r]] < Stage[pc[r]]
        \/ /\ ~expired[r]
           /\ step[r] < MaxSteps
           /\ step' = [step EXCEPT ![r] = @ + 1]
           /\ pc[r] = "beginning" /\ pc'[r] = "invoking"
    <2>1. ASSUME NEW status, NEW code, End(r, status, code), pc[r] # "ended"
          PROVE  Stage[pc'[r]] < Stage[pc[r]]
      BY <2>1 DEF End, Goto, Stage, TypeOK
    <2>2. ASSUME NEW event, TimedOut(r, event), pc[r] # "ended"
          PROVE  Stage[pc'[r]] < Stage[pc[r]]
      BY <2>1, <2>2 DEF TimedOut
    <2>3. CASE LoopTop(r)
      BY <2>1, <2>3 DEF LoopTop, Goto, Stage, TypeOK
    <2>b. CASE BeginStep(r)
      BY <2>1, <2>b DEF BeginStep, Progress, Goto, TypeOK
    <2>4. CASE Invoke(r) \/ StopWaiting(r) \/ GiveUp(r)
      BY <2>2, <2>4 DEF Invoke, StopWaiting, GiveUp, Goto, Stage, TypeOK
    <2>5. CASE AcquireSlot(r) \/ AcceptAction(r)
      BY <2>5 DEF AcquireSlot, AcceptAction, Joined, Goto, Stage, TypeOK
    <2>6. CASE AnswerTooLate(r) \/ RefuseTool(r) \/ Abstain(r) \/ Verify(r)
      BY <2>1, <2>6 DEF AnswerTooLate, RefuseTool, Abstain, Verify, Joined, Acting
    <2>7. CASE RetryMalformed(r) \/ CallTool(r)
      <3>1. UNCHANGED step /\ pc[r] \in {"joining", "acting"}
        BY <2>7 DEF RetryMalformed, CallTool, Joined, Acting
      <3>2. \/ Goto(r, "loop")
            \/ \E status, code : End(r, status, code)
        BY <2>7 DEF RetryMalformed, CallTool
      <3>3. CASE Goto(r, "loop")
        BY <3>1, <3>3 DEF Goto, Stage, TypeOK
      <3> QED BY <2>1, <3>1, <3>2, <3>3
    <2>8. CASE ProviderError(r)
      BY <2>1, <2>2, <2>8 DEF ProviderError, Joined
    <2> QED
      BY <2>3, <2>b, <2>4, <2>5, <2>6, <2>7, <2>8 DEF Explore
  <1>2. /\ step[r] \in 0 .. MaxSteps /\ MaxSteps \in Nat
        /\ Stage[pc[r]] \in 0 .. 6 /\ Stage[pc'[r]] \in 0 .. 6
    <2>1. step[r] \in 0 .. MaxSteps /\ MaxSteps \in Nat
      BY LimitsAssumption DEF TypeOK
    <2>2. /\ pc[r] \in {"invoking", "waiting", "joining", "acting", "loop",
                        "beginning", "ended"}
          /\ pc'[r] \in {"invoking", "waiting", "joining", "acting", "loop",
                         "beginning", "ended"}
      BY DEF TypeOK
    <2> QED BY <2>1, <2>2 DEF Stage
  <1>3. CASE UNCHANGED step /\ Stage[pc'[r]] < Stage[pc[r]]
    BY <1>2, <1>3 DEF WorkLeft
  <1>4. CASE /\ ~expired[r]
             /\ step[r] < MaxSteps
             /\ step' = [step EXCEPT ![r] = @ + 1]
             /\ pc[r] = "beginning" /\ pc'[r] = "invoking"
    <2>1. step'[r] = step[r] + 1 /\ Stage[pc'[r]] = 6 /\ Stage[pc[r]] = 1
      BY <1>4 DEF TypeOK, Stage
    <2> QED
      BY <1>2, <1>4, <2>1 DEF WorkLeft
  <1> QED
    BY <1>1, <1>3, <1>4

\* A run takes at most 6 * MaxSteps + 2 steps of its own, at most six after its
\* deadline passed and seven after it was cancelled: it cannot go round for ever.
THEOREM WorkShrinks == Spec => WorkOnlyShrinks
  <1>1. ASSUME TypeOK, TypeOK', Progress, Next
        PROVE  WorkIsUsedUp
    <2>1. ASSUME NEW r \in Run, Explore(r)
          PROVE  WorkIsUsedUp
      BY <1>1, <2>1, ExploreWorks, ExploreIsLocal, RecordIsLocal DEF WorkIsUsedUp
    <2>2. ASSUME NEW r \in Run, ProviderReturns(r) \/ Cancel(r) \/ Deadline(r)
          PROVE  WorkIsUsedUp
      BY <2>2 DEF ProviderReturns, Cancel, Deadline, WorkIsUsedUp
    <2> QED
      BY <1>1, <2>1, <2>2 DEF Next
  <1> QED
    BY <1>1, TypeCorrect, PTL DEF Spec, WorkOnlyShrinks
=============================================================================
