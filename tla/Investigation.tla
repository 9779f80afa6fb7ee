--------------------------- MODULE Investigation ---------------------------
(***************************************************************************)
(* Concurrent investigations of backend/app/application/investigation.py:  *)
(* InMemoryInvestigationRepository and the protocol that                   *)
(* InvestigationWorkflowService.investigate follows with it.               *)
(*                                                                         *)
(* The repository's methods hold its lock, so each is one atomic action;   *)
(* between them a request holds nothing but its entry in _active.  A       *)
(* request checks eligibility, begins, builds its evidence scope, lets the *)
(* untrusted model explore (module AgentLoop has that loop step by step),  *)
(* verifies a proposal against a reading of the reservations, and records  *)
(* the outcome by finalize.  Run identifiers are fresh uuids and a request *)
(* begins at most one run, so a request identifies its run.                *)
(***************************************************************************)
EXTENDS Naturals, FiniteSets

CONSTANTS
    Batch,              \* batches with a completed reconciliation result
    Settlement,         \* settlement identifiers
    Request,            \* POST investigation requests, and their runs
    Bank,               \* bank source records
    Eligible,           \* needs_review settlements no higher control blocks
    UniqueCandidate,    \* the candidates that pass the canonical bank controls
    Deterministic,      \* Deterministic[b]: bank rows the base result consumed
    AbstainText,        \* sizes of the explanation the abstain tool is given
    NoBank, NoRun, NoDecision

Key == Batch \X Settlement

ASSUME InvestigationAssumption ==
    /\ Eligible \subseteq Key
    /\ UniqueCandidate \in [Key -> SUBSET Bank]
    /\ Deterministic \in [Batch -> SUBSET Bank]
    /\ AbstainText \subseteq {"bounded", "oversize"}
    /\ NoBank \notin Bank
    /\ NoRun \notin Request

RunStatus == {"completed", "abstained", "rejected", "failed", "cancelled"}

\* Sequence numbers are drawn from one counter for all batches.
AgentRun == [id : Request, key : Key, status : RunStatus,
             verdict : {"none", "accepted", "rejected"}, sequence : Nat]
Decision == [run : Request, bank : Bank, sequence : Nat]
AuditEvent == [run : Request, key : Key, verified : BOOLEAN, sequence : Nat]

ASSUME NoDecisionAssumption == NoDecision \notin Decision

VARIABLES
    active,     \* _active: the run that owns each settlement
    runs,       \* _runs, the sequence field giving their order
    decisions,  \* _decisions
    events,     \* _events
    consumed,   \* _consumed: reserved bank rows of each batch
    sequence,   \* _sequence
    key,        \* the settlement each request is for
    pc,         \* where the request is
    proposal,   \* the bank row its model proposed
    verdict,    \* what verify_hypothesis said of it
    ending,     \* the status its exploration ended with
    text,       \* the size of the abstention it will record
    reply       \* the error it was answered with, or "run" for a stored run

repository == <<active, runs, decisions, events, consumed, sequence>>
attempt == <<proposal, verdict, ending, text>>
vars == <<repository, key, pc, attempt, reply>>

Reply == {"none", "run", "INELIGIBLE_INVESTIGATION",
          "INVESTIGATION_ALREADY_IN_PROGRESS", "INVESTIGATION_SCOPE_FAILED",
          "INVESTIGATION_FINALIZATION_RACE", "INVESTIGATION_ALREADY_ACCEPTED",
          "INVESTIGATION_FINALIZATION_FAILED", "UNHANDLED_PERSISTENCE_ERROR",
          "UNHANDLED_VALIDATION_ERROR"}

Init ==
    /\ active = [k \in Key |-> NoRun]
    /\ runs = {}
    /\ decisions = [k \in Key |-> NoDecision]
    /\ events = {}
    /\ consumed = [b \in Batch |-> {}]
    /\ sequence = 0
    /\ key \in [Request -> Key]
    /\ pc = [r \in Request |-> "received"]
    /\ proposal = [r \in Request |-> NoBank]
    /\ verdict = [r \in Request |-> "none"]
    /\ ending = [r \in Request |-> "none"]
    /\ text = [r \in Request |-> "bounded"]
    /\ reply = [r \in Request |-> "none"]

-----------------------------------------------------------------------------
Goto(r, label) == pc' = [pc EXCEPT ![r] = label]

\* The request is answered; no thread works on it any more.
Answer(r, code) == Goto(r, "answered") /\ reply' = [reply EXCEPT ![r] = code]

\* abort releases the settlement only for the run that owns it.
Released(r) ==
    IF active[key[r]] = r THEN [active EXCEPT ![key[r]] = NoRun] ELSE active

\* eligibility: no accepted decision yet, and the deterministic gate is open.
CheckEligibility(r) ==
    /\ pc[r] = "received"
    /\ \/ /\ decisions[key[r]] # NoDecision \/ key[r] \notin Eligible
          /\ Answer(r, "INELIGIBLE_INVESTIGATION")
       \/ /\ decisions[key[r]] = NoDecision /\ key[r] \in Eligible
          /\ Goto(r, "eligible")
          /\ UNCHANGED reply
    /\ UNCHANGED <<repository, key, attempt>>

\* A begin that starts a second run of the same settlement.
BeginUnguarded(r) ==
    /\ pc[r] = "eligible"
    /\ active' = [active EXCEPT ![key[r]] = r]
    /\ consumed' = [consumed EXCEPT ![key[r][1]] =
                       @ \cup Deterministic[key[r][1]]]
    /\ Goto(r, "scoping")
    /\ UNCHANGED <<runs, decisions, events, sequence, key, attempt, reply>>

\* begin: one run per settlement; the rows the base result rests on are
\* reserved.  It does not look at the decisions again.
Begin(r) ==
    LET k == key[r] IN
    /\ pc[r] = "eligible"
    /\ \/ /\ active[k] # NoRun
          /\ Answer(r, "INVESTIGATION_ALREADY_IN_PROGRESS")
          /\ UNCHANGED <<active, consumed>>
       \/ /\ active[k] = NoRun
          /\ active' = [active EXCEPT ![k] = r]
          /\ consumed' = [consumed EXCEPT ![k[1]] = @ \cup Deterministic[k[1]]]
          /\ Goto(r, "scoping")
          /\ UNCHANGED reply
    /\ UNCHANGED <<runs, decisions, events, sequence, key, attempt>>

\* _scope reads the sources again and may raise: the run is aborted.
CreateScope(r) ==
    /\ pc[r] = "scoping"
    /\ \/ /\ Goto(r, "exploring")
          /\ UNCHANGED <<active, reply>>
       \/ /\ active' = Released(r)
          /\ Answer(r, "INVESTIGATION_SCOPE_FAILED")
    /\ UNCHANGED <<runs, decisions, events, consumed, sequence, key, attempt>>

-----------------------------------------------------------------------------
\* Exploration that ends with no verified proposal: the model or the abstain
\* tool abstains, a budget or retry limit is reached, a tool request or payload
\* is refused, the provider fails or times out, or the run is cancelled.
EndWithoutProposal(r) ==
    /\ pc[r] = "exploring"
    /\ \E s \in {"abstained", "rejected", "failed", "cancelled"},
          t \in {"bounded"} \cup AbstainText :
        /\ t = "oversize" => s = "abstained"
        /\ ending' = [ending EXCEPT ![r] = s]
        /\ text' = [text EXCEPT ![r] = t]
    /\ Goto(r, "recording")
    /\ UNCHANGED <<repository, key, proposal, verdict, reply>>

\* all_bank_reuse: a row the base result or a reservation already uses.
Reused(b, x) == x \in Deterministic[b] \cup consumed[b]

\* verify_hypothesis on a proposal of row x.  It accepts only the unique row
\* that passes the canonical bank controls and is not already used; the
\* citation, observation and ledger controls may still reject it.
Propose(r, x) ==
    LET k == key[r] IN
    /\ pc[r] = "exploring"
    /\ \E v \in {"accepted", "rejected"} :
        /\ v = "accepted" => UniqueCandidate[k] = {x} /\ ~Reused(k[1], x)
        /\ verdict' = [verdict EXCEPT ![r] = v]
        /\ ending' = [ending EXCEPT ![r] =
                        IF v = "accepted" THEN "completed" ELSE "rejected"]
    /\ proposal' = [proposal EXCEPT ![r] = x]
    /\ Goto(r, "recording")
    /\ UNCHANGED <<repository, key, text, reply>>

-----------------------------------------------------------------------------
\* The record of the run is built before finalize is called and outside any
\* handler; an abstention text the record cannot hold raises there.
FailToBuildRun(r) ==
    /\ pc[r] = "recording"
    /\ text[r] = "oversize"
    /\ Answer(r, "UNHANDLED_VALIDATION_ERROR")
    /\ UNCHANGED <<repository, key, attempt>>

\* finalize's own precondition: the run still owns its settlement.
Owns(r) == active[key[r]] = r

\* Only an accepted run comes with a decision and a reservation.
Decided(r) == verdict[r] = "accepted"

\* A finalize that takes the word of the verifier.
ConflictNeverRechecked(r) == FALSE

\* The proposed row was reserved after the verifier read the reservations.
EvidenceConflict(r) ==
    Decided(r) /\ proposal[r] \in consumed[key[r][1]]

AlreadyDecided(r) ==
    Decided(r) /\ decisions[key[r]] # NoDecision

\* What finalize writes: the run, the decision if there is one, the audit event
\* numbered last, and the reserved rows; the settlement is released.
Store(r, decided, reserved, last) ==
    LET k == key[r] IN
    /\ runs' = runs \cup {[id |-> r, key |-> k, status |-> ending[r],
                           verdict |-> verdict[r], sequence |-> sequence + 1]}
    /\ decisions' =
           IF decided
           THEN [decisions EXCEPT ![k] = [run |-> r, bank |-> proposal[r],
                                          sequence |-> sequence + 2]]
           ELSE decisions
    /\ events' = events \cup {[run |-> r, key |-> k,
                               verified |-> verdict[r] = "accepted",
                               sequence |-> last]}
    /\ consumed' = [consumed EXCEPT ![k[1]] = @ \cup reserved]
    /\ sequence' = last
    /\ active' = [active EXCEPT ![k] = NoRun]

\* A commit that stores a decision for every run.
CommitAlwaysDecides(r) == Store(r, TRUE, {}, sequence + 3)

\* A commit that does not reserve the row the decision rests on.
CommitWithoutReservation(r) ==
    Store(r, Decided(r), {}, sequence + IF Decided(r) THEN 3 ELSE 2)

\* A commit that numbers the audit event as if there were no decision.
CommitWithSharedNumber(r) ==
    Store(r, Decided(r), IF Decided(r) THEN {proposal[r]} ELSE {}, sequence + 2)

\* The transaction of finalize.
Commit(r) ==
    Store(r, Decided(r), IF Decided(r) THEN {proposal[r]} ELSE {},
          sequence + IF Decided(r) THEN 3 ELSE 2)

\* A rollback that misses the reservation.
RollBackKeepingReservation(r) ==
    /\ active' = [active EXCEPT ![key[r]] = NoRun]
    /\ consumed' = IF Decided(r)
                   THEN [consumed EXCEPT ![key[r][1]] = @ \cup {proposal[r]}]
                   ELSE consumed
    /\ UNCHANGED <<runs, decisions, events, sequence>>

\* A rollback that removes whatever decision the settlement has.
RollBackDroppingDecision(r) ==
    /\ active' = [active EXCEPT ![key[r]] = NoRun]
    /\ decisions' = [decisions EXCEPT ![key[r]] = NoDecision]
    /\ UNCHANGED <<runs, events, consumed, sequence>>

\* A rollback that leaves the settlement blocked.
RollBackWithoutRelease(r) == UNCHANGED repository

\* A write of the transaction raises: everything written is undone under the
\* same lock, and the settlement is released.
RollBack(r) ==
    /\ active' = [active EXCEPT ![key[r]] = NoRun]
    /\ UNCHANGED <<runs, decisions, events, consumed, sequence>>

\* The first call of finalize, with the service's handling of each error.
Finalize(r) ==
    /\ pc[r] = "recording"
    /\ text[r] = "bounded"
    /\ \/ /\ ~Owns(r)
          /\ Answer(r, "INVESTIGATION_FINALIZATION_RACE")
          /\ UNCHANGED <<repository, attempt>>
       \/ /\ Owns(r) /\ EvidenceConflict(r)
          /\ verdict' = [verdict EXCEPT ![r] = "rejected"]
          /\ ending' = [ending EXCEPT ![r] = "rejected"]
          /\ Goto(r, "reclassified")
          /\ UNCHANGED <<repository, proposal, text, reply>>
       \/ /\ Owns(r) /\ ~EvidenceConflict(r) /\ AlreadyDecided(r)
          /\ active' = Released(r)
          /\ Answer(r, "INVESTIGATION_ALREADY_ACCEPTED")
          /\ UNCHANGED <<runs, decisions, events, consumed, sequence, attempt>>
       \/ /\ Owns(r) /\ ~EvidenceConflict(r) /\ ~AlreadyDecided(r)
          /\ \/ Commit(r) /\ Answer(r, "run")
             \/ RollBack(r) /\ Answer(r, "INVESTIGATION_FINALIZATION_FAILED")
          /\ UNCHANGED attempt
    /\ UNCHANGED key

\* The lost reservation is reported like any other error of finalize.
FinalizeByRaising(r) ==
    /\ pc[r] = "reclassified"
    /\ active' = Released(r)
    /\ Answer(r, "INVESTIGATION_ALREADY_ACCEPTED")
    /\ UNCHANGED <<runs, decisions, events, consumed, sequence, key, attempt>>

\* The second call, made from the handler of EVIDENCE_ALREADY_CONSUMED with the
\* run turned into a rejection.  Nothing catches what this call raises.
FinalizeAsRejected(r) ==
    /\ pc[r] = "reclassified"
    /\ \/ /\ ~Owns(r)
          /\ Answer(r, "INVESTIGATION_FINALIZATION_RACE")
          /\ UNCHANGED repository
       \/ /\ Owns(r)
          /\ \/ Commit(r) /\ Answer(r, "run")
             \/ RollBack(r) /\ Answer(r, "UNHANDLED_PERSISTENCE_ERROR")
    /\ UNCHANGED <<key, attempt>>

-----------------------------------------------------------------------------
Step(r) ==
    \/ CheckEligibility(r)
    \/ Begin(r)
    \/ CreateScope(r)
    \/ EndWithoutProposal(r)
    \/ \E x \in Bank : Propose(r, x)
    \/ FailToBuildRun(r)
    \/ Finalize(r)
    \/ FinalizeAsRejected(r)

Next == \E r \in Request : Step(r)

Spec == Init /\ [][Next]_vars

\* A request that is being served is served to its end: the exploration is
\* bounded by its step and time budgets (AgentLoop) and nothing else waits.
FairSpec == Spec /\ \A r \in Request : WF_vars(Step(r))

-----------------------------------------------------------------------------
(***************************************************************************)
(* Properties                                                              *)
(***************************************************************************)
\* The labels at which a request works between begin and its answer.
Working == {"scoping", "exploring", "recording", "reclassified"}

TypeOK ==
    /\ active \in [Key -> Request \cup {NoRun}]
    /\ runs \subseteq AgentRun
    /\ decisions \in [Key -> Decision \cup {NoDecision}]
    /\ events \subseteq AuditEvent
    /\ consumed \in [Batch -> SUBSET Bank]
    /\ sequence \in Nat
    /\ key \in [Request -> Key]
    /\ pc \in [Request -> Working \cup {"received", "eligible", "answered"}]
    /\ proposal \in [Request -> Bank \cup {NoBank}]
    /\ verdict \in [Request -> {"none", "accepted", "rejected"}]
    /\ ending \in [Request -> RunStatus \cup {"none"}]
    /\ text \in [Request -> {"bounded", "oversize"}]
    /\ reply \in [Request -> Reply]

\* A bank row supports at most one settlement of a batch: no two accepted
\* decisions rest on the same row, and none on a row the base result uses
\* (ADR 0010: single-use reservation, whatever runs overlap).
SingleUseEvidence ==
    \A b \in Batch, s \in Settlement : decisions[<<b, s>>] # NoDecision =>
        /\ decisions[<<b, s>>].bank \notin Deterministic[b]
        /\ \A t \in Settlement :
              (decisions[<<b, t>>] # NoDecision /\ t # s) =>
                  decisions[<<b, t>>].bank # decisions[<<b, s>>].bank

\* A reservation is there for a reason: every reserved row is used by the base
\* result or by the decision that was stored with it, so a failed or rejected
\* run never makes a row unusable.
ReservationsAreBacked ==
    \A b \in Batch : consumed[b] \subseteq Deterministic[b] \cup
        {decisions[<<b, s>>].bank :
            s \in {t \in Settlement : decisions[<<b, t>>] # NoDecision}}

\* The parts of one finalize are stored together: each run has its audit event
\* and the reverse, and a decision exists exactly when the run it names was
\* stored as accepted, with an agent_verified event and the row reserved.
FinalizedTogether ==
    /\ {<<x.id, x.key, x.verdict = "accepted">> : x \in runs} =
       {<<e.run, e.key, e.verified>> : e \in events}
    /\ \A x \in runs : x.verdict = "accepted" =>
          /\ decisions[x.key] # NoDecision
          /\ decisions[x.key].run = x.id
    /\ \A k \in Key : decisions[k] # NoDecision =>
          /\ decisions[k].bank \in consumed[k[1]]
          /\ \E x \in runs : /\ x.id = decisions[k].run
                             /\ x.key = k
                             /\ x.verdict = "accepted"

\* The numbers stored with runs, decisions and events are exactly 1..sequence,
\* each used once: they order everything that was ever recorded.
SequenceTotallyOrders ==
    LET decided == {k \in Key : decisions[k] # NoDecision}
        numbers == {x.sequence : x \in runs} \cup {e.sequence : e \in events}
                      \cup {decisions[k].sequence : k \in decided}
    IN
    /\ numbers = 1 .. sequence
    /\ Cardinality(runs) + Cardinality(events) + Cardinality(decided) = sequence

\* A settlement is owned exactly by the run some thread works on, or by one whose
\* record could not be built: there is at most one, no abort of another run
\* releases it, and nothing else leaves it blocked by a run that nobody serves.
OwnershipMatchesWork ==
    \A k \in Key, r \in Request :
        active[k] = r <=>
            /\ key[r] = k
            /\ pc[r] \in Working \/ reply[r] = "UNHANDLED_VALIDATION_ERROR"

\* finalize's remaining checks are never what stops a run: the race and the
\* second decision they guard against cannot come about.
LateChecksNeverFire ==
    \A r \in Request : reply[r] \notin
        {"INVESTIGATION_FINALIZATION_RACE", "INVESTIGATION_ALREADY_ACCEPTED"}

\* Answers of a run that was lost with the write of its record.
LostWrite == {"INVESTIGATION_FINALIZATION_FAILED", "UNHANDLED_PERSISTENCE_ERROR"}

Retained(r) == \E x \in runs : x.id = r /\ x.status = ending[r]

\* A run whose exploration ended is kept, whatever the ending (ADR 0010: failed,
\* rejected, abstained, cancelled and unavailable runs remain in the
\* repository), unless storing it failed.
EndedRunsAreRetained ==
    \A r \in Request :
        pc[r] = "answered" /\ ending[r] # "none" /\ reply[r] \notin LostWrite
            => Retained(r)

\* The same of the runs whose record could be built: no interleaving and no
\* lost race for a row makes an ending disappear.
RecordedRunsAreRetained ==
    \A r \in Request :
        /\ pc[r] = "answered" /\ ending[r] # "none"
        /\ reply[r] \notin LostWrite \cup {"UNHANDLED_VALIDATION_ERROR"}
        => Retained(r)

\* A settlement under investigation becomes free again, unless the record of
\* its run could not be built.
EverySettlementIsReleased ==
    \A r \in Request :
        pc[r] \in Working ~>
            active[key[r]] # r \/ reply[r] = "UNHANDLED_VALIDATION_ERROR"

\* The bank row each settlement was accepted on.
Evidence == [k \in Key |-> IF decisions[k] = NoDecision
                          THEN NoBank ELSE decisions[k].bank]

Accepted == INSTANCE AcceptedEvidence WITH evidence <- Evidence

\* The decisions of all interleavings are those of AcceptedEvidence.
ImplementsAcceptedEvidence == Accepted!Spec
=============================================================================
