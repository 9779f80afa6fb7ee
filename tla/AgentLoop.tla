----------------------------- MODULE AgentLoop -----------------------------
(***************************************************************************)
(* The exploration of one investigation: the loop of                       *)
(* InvestigationWorkflowService.investigate and _invoke_model, in          *)
(* backend/app/application/investigation.py.  Each run has its own thread; *)
(* every model call runs in a further thread behind one provider slot that *)
(* all runs share.  A run gives up on a call at its deadline, but the      *)
(* provider thread goes on and keeps the slot until the provider returns.  *)
(*                                                                         *)
(* What the model answers is arbitrary.  Which tool requests are refused,  *)
(* and the canonical controls of the verifier, are open choices; what a    *)
(* hypothesis must have observed and cited is not.                         *)
(***************************************************************************)
EXTENDS Integers, FiniteSets, Sequences

CONSTANTS
    Run,                \* investigations that passed _scope
    Tool,               \* the closed tool registry
    AbstainTool,        \* its abstain tool
    RequiredTool,       \* the tools an accepted run must have used
    Record,             \* allowlisted source records
    Candidate,          \* the candidate bank records among them
    MaxSteps,           \* max_steps
    MaxSchemaRetries,   \* max_schema_retries
    Observes,           \* Observes[t]: the sets of record ids t may return
    NoTool, NoBank

ASSUME LoopAssumption ==
    /\ IsFiniteSet(Run)
    /\ AbstainTool \in Tool
    /\ RequiredTool \subseteq Tool \ {AbstainTool}
    /\ Candidate \subseteq Record
    /\ MaxSteps \in Nat \ {0}
    /\ MaxSchemaRetries \in Nat
    /\ Observes \in [Tool -> SUBSET SUBSET Record]
    /\ NoTool \notin Tool
    /\ NoBank \notin Record

\* The source records a hypothesis on x must cite: x itself, the aggregate's
\* members and the linked ledger and posting records.
RequiredCitations(x) == (Record \ Candidate) \cup {x}

\* What next_action returns or raises: a tool request, an abstention or a
\* hypothesis, or one of the errors the loop tells apart.
ModelError == {"ModelRequestTooLargeError", "ModelResponseError",
               "ModelTimeoutError", "ModelUnavailableError", "Exception"}
Answers == Tool \cup ModelError \cup {"abstain", "hypothesis"}

AgentStep == [number : 1 .. MaxSteps,
              action : {"tool_call", "invalid", "hypothesis", "abstain"},
              tool   : Tool \cup {NoTool},
              ids    : SUBSET Record]

Status == {"exploring", "completed", "abstained", "rejected", "failed",
           "cancelled"}

\* Codes of refused tools, and of abstentions, are not told apart.
FailureCode == {"none", "BUDGET_EXHAUSTED", "CANCELLED", "MODEL_TIMEOUT",
                "SCHEMA_FAILURE", "REQUEST_PAYLOAD_TOO_LARGE",
                "PROVIDER_UNAVAILABLE", "INVESTIGATION_FAILED", "TOOL_REFUSED",
                "EVIDENCE_PAYLOAD_TOO_LARGE", "ABSTAINED", "VERIFIER_REJECTED"}

VARIABLES
    pc,             \* where the run's thread is
    step,           \* the step counter
    steps,          \* the recorded AgentSteps
    schema_failures,
    observed,       \* source records returned by tools
    observed_tools, \* tools that returned
    cancel_event,   \* is its cancel event set?
    cancelled_at,   \* the last step admitted when cancel() was called,
                    \* or MaxSteps + 1
    expired,        \* has its deadline passed?
    call,           \* its latest provider thread: none, running or returned
    answer,         \* what that thread left
    slot,           \* permits left of _provider_slot
    ending,         \* the status and failure code of the run
    accepted        \* the bank row the verifier accepted, or NoBank

evidence == <<steps, observed, observed_tools>>
provider == <<call, answer, slot>>
outside == <<cancel_event, cancelled_at, expired>>
result == <<ending, accepted>>
vars == <<pc, step, schema_failures, evidence, provider, outside, result>>

Init ==
    /\ pc = [r \in Run |-> "loop"]
    /\ step = [r \in Run |-> 0]
    /\ steps = [r \in Run |-> <<>>]
    /\ schema_failures = [r \in Run |-> 0]
    /\ observed = [r \in Run |-> {}]
    /\ observed_tools = [r \in Run |-> {}]
    /\ cancel_event = [r \in Run |-> FALSE]
    /\ cancelled_at = [r \in Run |-> MaxSteps + 1]
    /\ expired = [r \in Run |-> FALSE]
    /\ call = [r \in Run |-> "none"]
    /\ answer = [r \in Run |-> "Exception"]
    /\ slot = 1
    /\ ending = [r \in Run |-> <<"exploring", "none">>]
    /\ accepted = [r \in Run |-> NoBank]

-----------------------------------------------------------------------------
Goto(r, label) == pc' = [pc EXCEPT ![r] = label]

\* The loop is left with a status and a failure code.
End(r, status, code) ==
    /\ Goto(r, "ended")
    /\ ending' = [ending EXCEPT ![r] = <<status, code>>]

\* Append the AgentStep of the current step.
Note(r, action, tool, ids) ==
    steps' = [steps EXCEPT ![r] = Append(@,
        [number |-> step[r], action |-> action, tool |-> tool, ids |-> ids])]

\* The head of the loop: steps left, then cancellation.  No lock is held, so
\* cancel() and the clock may come in before the step begins.
LoopTop(r) ==
    /\ pc[r] = "loop"
    /\ \/ /\ step[r] = MaxSteps
          /\ End(r, "abstained", "BUDGET_EXHAUSTED")
       \/ /\ step[r] < MaxSteps /\ cancel_event[r]
          /\ End(r, "cancelled", "CANCELLED")
       \/ /\ step[r] < MaxSteps /\ ~cancel_event[r]
          /\ Goto(r, "beginning")
          /\ UNCHANGED ending
    /\ UNCHANGED <<step, schema_failures, evidence, provider, outside, accepted>>

\* Then time.  The step counter is the thread's own, so that counting the step
\* needs no action apart from the look at the clock.
BeginStep(r) ==
    /\ pc[r] = "beginning"
    /\ \/ /\ expired[r]
          /\ End(r, "abstained", "BUDGET_EXHAUSTED")
          /\ UNCHANGED step
       \/ /\ ~expired[r]
          /\ step' = [step EXCEPT ![r] = @ + 1]
          /\ Goto(r, "invoking")
          /\ UNCHANGED ending
    /\ UNCHANGED <<schema_failures, evidence, provider, outside, accepted>>

\* The handler of ModelTimeoutError, for an event that is set or not.
TimedOut(r, event) ==
    IF event THEN End(r, "cancelled", "CANCELLED")
             ELSE End(r, "failed", "MODEL_TIMEOUT")

\* A call that relies on the loop's own look at the event.
InvokeUncancelled(r) ==
    /\ pc[r] = "invoking"
    /\ \/ /\ expired[r]
          /\ TimedOut(r, cancel_event[r])
       \/ /\ ~expired[r]
          /\ Goto(r, "waiting")
          /\ UNCHANGED ending
    /\ UNCHANGED <<step, schema_failures, evidence, provider, outside, accepted>>

\* _invoke_model looks at the clock and at the event once more.
Invoke(r) ==
    /\ pc[r] = "invoking"
    /\ \/ /\ expired[r] \/ cancel_event[r]
          /\ TimedOut(r, cancel_event[r])
       \/ /\ ~expired[r] /\ ~cancel_event[r]
          /\ Goto(r, "waiting")
          /\ UNCHANGED ending
    /\ UNCHANGED <<step, schema_failures, evidence, provider, outside, accepted>>

\* acquire(timeout=remaining): the slot is taken and the provider thread starts.
AcquireSlot(r) ==
    /\ pc[r] = "waiting"
    /\ slot > 0
    /\ slot' = slot - 1
    /\ call' = [call EXCEPT ![r] = "running"]
    /\ Goto(r, "joining")
    /\ UNCHANGED <<step, schema_failures, evidence, answer, outside, result>>

\* An acquire with no timeout.
NeverStopsWaiting(r) == FALSE /\ UNCHANGED vars

\* The slot was not free before the deadline.  A cancellation wakes nobody.
StopWaiting(r) ==
    /\ pc[r] = "waiting"
    /\ slot = 0 /\ expired[r]
    /\ TimedOut(r, cancel_event[r])
    /\ UNCHANGED <<step, schema_failures, evidence, provider, outside, accepted>>

\* The slot is released only by a provider that answers.
ReleaseAfterResult(r, a) == IF a \in ModelError THEN slot ELSE slot + 1

\* The finally clause of the provider thread.
Release(r, a) == slot + 1

\* The provider thread ends, in time or not.  When its run has given up on it,
\* what it leaves is never looked at.
ProviderReturns(r) ==
    /\ call[r] = "running"
    /\ \E a \in Answers :
        /\ answer' = [answer EXCEPT ![r] = a]
        /\ slot' = Release(r, a)
    /\ call' = [call EXCEPT ![r] = "returned"]
    /\ UNCHANGED <<pc, step, schema_failures, evidence, outside, result>>

\* join(deadline) came back with the thread still alive: the run sets its own
\* cancel event, for the provider to see, and raises ModelTimeoutError.
GiveUp(r) ==
    /\ pc[r] = "joining"
    /\ call[r] = "running" /\ expired[r]
    /\ cancel_event' = [cancel_event EXCEPT ![r] = TRUE]
    /\ TimedOut(r, cancel_event'[r])
    /\ UNCHANGED <<step, schema_failures, evidence, provider, cancelled_at,
                   expired, accepted>>

-----------------------------------------------------------------------------
\* An answer that came in time; the clock is read again before it is used.
Joined(r, set) ==
    pc[r] = "joining" /\ call[r] = "returned" /\ answer[r] \in set

\* The deadline passed while the answer was on its way.
AnswerTooLate(r) ==
    /\ Joined(r, Answers \ ModelError)
    /\ expired[r]
    /\ End(r, "abstained", "BUDGET_EXHAUSTED")
    /\ UNCHANGED <<step, schema_failures, evidence, provider, outside, accepted>>

\* One retry fewer than configured.
RetriesExhaustedEarly(n) == n >= MaxSchemaRetries

\* Malformed answers are retried until the steps run out.
RetriesNeverExhausted(n) == FALSE

RetriesExhausted(n) == n > MaxSchemaRetries

\* An answer that is not a valid action is recorded, and retried a few times.
RetryMalformed(r) ==
    LET n == schema_failures[r] + 1 IN
    /\ Joined(r, {"ModelResponseError"})
    /\ schema_failures' = [schema_failures EXCEPT ![r] = n]
    /\ Note(r, "invalid", NoTool, {})
    /\ IF RetriesExhausted(n) THEN End(r, "abstained", "SCHEMA_FAILURE")
                              ELSE Goto(r, "loop") /\ UNCHANGED ending
    /\ UNCHANGED <<step, observed, observed_tools, provider, outside, accepted>>

\* The other errors end the run at once.
ProviderError(r) ==
    /\ \/ /\ Joined(r, {"ModelRequestTooLargeError"})
          /\ End(r, "rejected", "REQUEST_PAYLOAD_TOO_LARGE")
       \/ /\ Joined(r, {"ModelUnavailableError"})
          /\ End(r, "failed", "PROVIDER_UNAVAILABLE")
       \/ /\ Joined(r, {"Exception"})
          /\ End(r, "failed", "INVESTIGATION_FAILED")
       \/ /\ Joined(r, {"ModelTimeoutError"})
          /\ TimedOut(r, cancel_event[r])
    /\ UNCHANGED <<step, schema_failures, evidence, provider, outside, accepted>>

\* A valid action: the clock was read before the deadline, so the action is
\* carried out even if the deadline passes meanwhile.
AcceptAction(r) ==
    /\ Joined(r, Answers \ ModelError)
    /\ ~expired[r]
    /\ Goto(r, "acting")
    /\ UNCHANGED <<step, schema_failures, evidence, provider, outside, result>>

Acting(r, set) == pc[r] = "acting" /\ answer[r] \in set

\* The request is too large, unknown, malformed or out of scope: the registry
\* refuses it and the run ends; an error the registry does not name fails it.
RefuseTool(r) ==
    /\ Acting(r, Tool)
    /\ \/ /\ Note(r, "invalid", answer[r], {})
          /\ End(r, "rejected", "TOOL_REFUSED")
       \/ /\ End(r, "failed", "INVESTIGATION_FAILED")
          /\ UNCHANGED steps
    /\ UNCHANGED <<step, schema_failures, observed, observed_tools, provider,
                   outside, accepted>>

\* A registered tool returns ids.  The accumulated trace may exceed the payload
\* limit; the abstain tool ends the run.
CallTool(r) ==
    LET t == answer[r] IN
    /\ Acting(r, Tool)
    /\ \E ids \in Observes[t] :
        /\ observed' = [observed EXCEPT ![r] = @ \cup ids]
        /\ observed_tools' = [observed_tools EXCEPT ![r] = @ \cup {t}]
        /\ \/ /\ Note(r, "invalid", t, {})
              /\ End(r, "rejected", "EVIDENCE_PAYLOAD_TOO_LARGE")
           \/ /\ Note(r, "tool_call", t, ids)
              /\ IF t = AbstainTool
                 THEN End(r, "abstained", "ABSTAINED")
                 ELSE Goto(r, "loop") /\ UNCHANGED ending
    /\ UNCHANGED <<step, schema_failures, provider, outside, accepted>>

Abstain(r) ==
    /\ Acting(r, {"abstain"})
    /\ Note(r, "abstain", NoTool, {})
    /\ End(r, "abstained", "ABSTAINED")
    /\ UNCHANGED <<step, schema_failures, observed, observed_tools, provider,
                   outside, accepted>>

\* A verifier that trusts the citations.
GroundedByCitation(r, x, cited) ==
    /\ RequiredTool \subseteq observed_tools[r]
    /\ RequiredCitations(x) \subseteq cited

\* The evidence verify_hypothesis demands: the required tools were used, every
\* cited record was returned by one, and everything required is cited.
Grounded(r, x, cited) ==
    /\ RequiredTool \subseteq observed_tools[r]
    /\ cited \subseteq observed[r]
    /\ RequiredCitations(x) \subseteq cited

\* A hypothesis that row x pays the settlement ends the run, whatever becomes
\* of it; an ill-formed source record may make the verifier raise.
Verify(r) ==
    /\ Acting(r, {"hypothesis"})
    /\ \/ /\ \E x \in Candidate, cited \in SUBSET Record :
                /\ Grounded(r, x, cited)
                /\ accepted' = [accepted EXCEPT ![r] = x]
          /\ Note(r, "hypothesis", NoTool, {})
          /\ End(r, "completed", "none")
       \/ /\ Note(r, "hypothesis", NoTool, {})
          /\ End(r, "rejected", "VERIFIER_REJECTED")
          /\ UNCHANGED accepted
       \/ /\ End(r, "failed", "INVESTIGATION_FAILED")
          /\ UNCHANGED <<steps, accepted>>
    /\ UNCHANGED <<step, schema_failures, observed, observed_tools, provider,
                   outside>>

-----------------------------------------------------------------------------
\* The last step that _invoke_model has admitted.
Admitted(r) == IF pc[r] = "invoking" THEN step[r] - 1 ELSE step[r]

\* cancel(run_id) from another thread, until the event is forgotten.
Cancel(r) ==
    /\ pc[r] # "ended"
    /\ cancelled_at[r] > MaxSteps
    /\ cancel_event' = [cancel_event EXCEPT ![r] = TRUE]
    /\ cancelled_at' = [cancelled_at EXCEPT ![r] = Admitted(r)]
    /\ UNCHANGED <<pc, step, schema_failures, evidence, provider, expired,
                   result>>

\* The deadline of run r, max_total_time_ms after its start.
Deadline(r) ==
    /\ ~expired[r]
    /\ expired' = [expired EXCEPT ![r] = TRUE]
    /\ UNCHANGED <<pc, step, schema_failures, evidence, provider, cancel_event,
                   cancelled_at, result>>

\* What the thread of run r does.
Explore(r) ==
    \/ LoopTop(r)
    \/ BeginStep(r)
    \/ Invoke(r)
    \/ AcquireSlot(r)
    \/ StopWaiting(r)
    \/ GiveUp(r)
    \/ AnswerTooLate(r)
    \/ RetryMalformed(r)
    \/ ProviderError(r)
    \/ AcceptAction(r)
    \/ RefuseTool(r)
    \/ CallTool(r)
    \/ Abstain(r)
    \/ Verify(r)

Next ==
    \E r \in Run : \/ Explore(r)
                  \/ ProviderReturns(r)
                  \/ Cancel(r)
                  \/ Deadline(r)

Spec == Init /\ [][Next]_vars

\* Threads are scheduled and time passes.  Nothing is assumed of the provider:
\* it may never return.
FairSpec == Spec /\ \A r \in Run : WF_vars(Explore(r)) /\ WF_vars(Deadline(r))

-----------------------------------------------------------------------------
(***************************************************************************)
(* Properties                                                              *)
(***************************************************************************)
\* Every part of a run's state is one the code can represent.
TypeOK ==
    /\ pc \in [Run -> {"loop", "beginning", "invoking", "waiting", "joining",
                       "acting", "ended"}]
    /\ step \in [Run -> 0 .. MaxSteps]
    /\ steps \in [Run -> Seq(AgentStep)]
    /\ schema_failures \in [Run -> 0 .. (MaxSchemaRetries + 1)]
    /\ observed \in [Run -> SUBSET Record]
    /\ observed_tools \in [Run -> SUBSET Tool]
    /\ cancel_event \in [Run -> BOOLEAN]
    /\ cancelled_at \in [Run -> 0 .. (MaxSteps + 1)]
    /\ expired \in [Run -> BOOLEAN]
    /\ call \in [Run -> {"none", "running", "returned"}]
    /\ answer \in [Run -> Answers]
    /\ slot \in {0, 1}
    /\ ending \in [Run -> Status \X FailureCode]
    /\ accepted \in [Run -> Candidate \cup {NoBank}]

\* The slot is free exactly when no provider call is in flight, those of runs
\* that have given up on them included: at most one call at a time, and no
\* permit is lost or returned twice, whichever way a call ends.
SlotCountsCallsInFlight ==
    slot = 1 - Cardinality({r \in Run : call[r] = "running"})

\* A run is accepted only on evidence its own record shows: each required tool
\* appears in a recorded call, every required source record was returned by
\* one of them, and the hypothesis is the last step.
AcceptanceIsOnRecord ==
    \A r \in Run : accepted[r] # NoBank =>
        LET calls == {n \in DOMAIN steps[r] : steps[r][n].action = "tool_call"}
        IN
        /\ RequiredTool \subseteq {steps[r][n].tool : n \in calls}
        /\ RequiredCitations(accepted[r]) \subseteq
               UNION {steps[r][n].ids : n \in calls}
        /\ steps[r][Len(steps[r])].action = "hypothesis"
        /\ ending[r][1] = "completed"

\* The recorded steps account for the ending: every step but the last was
\* recorded, numbered by its position; a run gives up for malformed answers
\* exactly when its record holds one more than the retries allow, and for its
\* step budget only when all steps are used, else because time ran out.
RecordExplainsEnding ==
    \A r \in Run :
        LET malformed == {n \in DOMAIN steps[r] :
                             /\ steps[r][n].action = "invalid"
                             /\ steps[r][n].tool = NoTool}
            code == ending[r][2]
        IN
        /\ \A n \in DOMAIN steps[r] : steps[r][n].number = n
        /\ Len(steps[r]) \in {step[r], step[r] - 1}
        /\ code = "SCHEMA_FAILURE" <=>
               Cardinality(malformed) = MaxSchemaRetries + 1
        /\ code = "BUDGET_EXHAUSTED" =>
               expired[r] \/ Len(steps[r]) = MaxSteps

\* Once cancel() has returned, _invoke_model admits no further step: at most one
\* more begins, which is stopped there, and no provider call, tool or recorded
\* step follows but those of the step it had already admitted.
CancelledRunMakesNoCall ==
    \A r \in Run :
        /\ step[r] <= cancelled_at[r] + 1
        /\ pc[r] \in {"waiting", "joining", "acting"} => step[r] <= cancelled_at[r]
        /\ Len(steps[r]) <= cancelled_at[r]

\* Every run ends, even if its provider call or the one that holds the slot
\* never returns: each wait is bounded by the deadline.
EveryRunEnds == \A r \in Run : <>(pc[r] = "ended")

\* A run is recorded as cancelled only if somebody cancelled it: "cancellation
\* is counted separately" from timeout and budget failures (docs/evaluation.md).
CancelledOnlyOnRequest ==
    \A r \in Run : ending[r][1] = "cancelled" => cancelled_at[r] <= MaxSteps
=============================================================================
