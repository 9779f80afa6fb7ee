# Vouch: verification project

Vouch reconciles three CSV sources and a close policy (gateway movements, bank
rows, ledger lines) into settlement results, and lets a bounded, untrusted model
investigate the settlements the deterministic engine left for review.  A
proposal of the model counts only after a deterministic verifier has accepted
it.  This directory holds TLA+ modules translated from the Python source, the
TLC configurations that check them on small instances, and proofs that TLAPS
checks for all values of their constants.

Paths below are relative to the repository; `app/` is `backend/app/`.

## 1. Inventory

| Component | State | Operations | Interacts with |
|---|---|---|---|
| Batch repository and workflow (`app/application/batch_workflow.py`) | one immutable `BatchSnapshot` per batch behind a re-entrant lock: status, sources, result, failure metadata, lifecycle sequence | `create`, `get`, `put_source`, `begin_run`, `complete_run`, `fail_run`; the service's `upload_source` and `run_reconciliation` around them | API threads call it; calls ingestion (validation) and the engine outside the lock |
| Investigation repository (`app/application/investigation.py` 129-273) | `_active`, `_runs`, `_decisions`, `_events`, `_consumed`, `_sequence` behind one lock | `begin`, `abort`, `finalize` (with rollback), queries | called by `investigate`; reserves the bank rows of the base result |
| Investigation workflow (same file 1061-1564) | per request: eligibility, scope, proposal, verification; per run a cancel event | `eligibility`, `investigate`, `cancel` | repository, batch repository, agent loop |
| Agent loop, tool registry, verifier, provider slot (same file 498-1058, 1104-1165, 1269-1465; `app/infrastructure/investigation_model.py`) | step counter, recorded steps, observed records, retry counter, deadline; one provider permit shared by all runs | one step of the loop, `_invoke_model`, tool calls, `verify_hypothesis` | provider thread, which may outlive its run |
| Effective review, export, operational counters (same file 312-455, 1635-1765) | none of its own; reads decisions one at a time | `effective_review(s)`, `export`, `operational` | both repositories |
| Deterministic engine (`reconciliation.py`, `bank_matching.py`, `aggregation.py`, `ledger_controls.py`, `close_policy.py`) | local to one call; bank rows consumed as aggregates are matched in order | `reconcile` | ingestion |
| Ingestion (`app/infrastructure/ingestion.py`) | local | row parsing, duplicate and rejection classes, fingerprints | engine, upload validation |
| HTTP API (`app/api/`, `app/main.py`) | none but the two services | synchronous handlers on a thread pool, uploads in asynchronous ones | services |
| Evaluation (`backend/evaluation/`) | frozen runtime outputs on disk | run, persist, only then read labels, replay accepted runs, metrics | engine, investigation service |
| Synthetic data (`backend/synthetic_data/`) | none | seeded generation of fixtures | none at run time |
| Web client (`frontend/src/`) | upload slots, batch status, page reader | upload four sources, run, read pages, start an investigation | HTTP API |

Nothing is persisted by the service, so no part of it recovers from a crash: a
restart is an empty repository.

**What is hard.**  The API handlers run on a thread pool and hold the repository
locks only for single methods.  An upload is validated, a run reconciled and an
investigation explored and verified *between* lock sections, on data read
before.  A provider call has a deadline but its thread has not: it goes on
holding the only permit.  Cancellation, deadline and answer race.  Finalization
writes four collections and undoes them on failure.  The list `hazards` of
`PROJECT.json` names each at its line with the properties that cover it.

**What makes each component correct.**  Batches: sources collected once, sealed
once, and a result of exactly the sealed set.  Investigations: bank evidence
used once whatever overlaps, records stored together or not at all, settlements
released.  Loop: bounded, accounted for by its record, accepted only on
evidence it observed, permits balanced.  Review: a projection some moment had,
blockers never lost.  Engine: each row used once and each line once per
settlement, one state per settlement by a fixed precedence, close readiness only without blockers.
Ingestion: every row in exactly one class.  Evaluation: labels never reach the
runtime.  Client: a status never older than shown.

## 2. Plan

| Order | Modules | State |
|---|---|---|
| 1 | `BatchContract` (abstract), `BatchLifecycle` | done, proved |
| 2 | `AcceptedEvidence` (abstract), `Investigation` | done, proved |
| 3 | `AgentLoop` | done, safety proved |
| 4 | `EffectiveReview`, composed with `AcceptedEvidence` | done, proved |
| 5 | `SourceRows`, `BankMatching`, `LedgerControls`, composed by `Reconciliation`, which implements `AcceptedEvidence` | done, proved; its results fit what 4 assumes |
| 6 | `Evaluation` | done, proved |

Two abstract specifications tie the parts together.  `BatchContract` is what a
client of the batch repository may rely on.  `AcceptedEvidence` is the promise
that a settlement rests for good on one bank row that no other settlement rests
on: the engine keeps it while it matches (`Reconciliation`), the investigation
repository keeps it while it finalizes (`Investigation`), and the reviews are
checked over any behaviour of it (`EffectiveReview`).

## 3. Modules

- **`BatchLifecycle`** - `batches` is `_batches`; `pc`/`job` hold what a thread
  carries between lock sections: the artifact it will store, or the sources of
  the snapshot `begin_run` returned.  One action per lock section: `CreateBatch`,
  `PutSource`, `BeginRun`, `CompleteRun`, `FailRun`; `ReceiveUpload` and
  `Reconcile` are the unlocked parts of `upload_source` and
  `run_reconciliation`.  `CreateBatch` is refused for a clock that cannot be
  parsed; what the checks of an upload or a clock let through as an exception (a
  timestamp that overflows on its way to UTC) is answered by the framework.
  `TypeOK` is `Typed` and that a snapshot has a result only under the status
  that publishes it.  An artifact is what `put_source` compares (bytes, name,
  type); the result of a run is represented by the sources it was computed from,
  the engine being a function of them.
- **`BatchContract`** - collect, seal, publish or discard: what a client may rely on.
- **`Investigation`** - the six collections of the repository, and each
  request's place in `investigate`.  `CheckEligibility`, `Begin`, `CreateScope`,
  `EndWithoutProposal`/`Propose` (the loop, by outcome), `FailToBuildRun`,
  `Finalize`, `FinalizeAsRejected`.  `Finalize` includes the service's handling
  of each error; `Commit`/`RollBack` are the two outcomes of the transaction.
  The verifier's verdict is an open choice but for what it reads: the unique
  candidate and the reservations.
- **`AcceptedEvidence`** - a settlement is accepted once, on a row nobody else uses.
- **`AgentLoop`** - one action per step of the loop and of `_invoke_model`, the
  provider thread (`ProviderReturns`), `Cancel` and `Deadline`.  What the model
  answers is arbitrary.  The look at the cancel event (`LoopTop`), the look at
  the clock with which the step counter rises (`BeginStep`) and the second look
  at both in `_invoke_model` (`Invoke`) are apart, so a cancellation may come
  between any two of them: a step may still begin, but none is admitted past
  `Invoke`, which is what `CancelledRunMakesNoCall` says.  Payloads are abstracted to the source record ids a tool
  may return (`Observes`); refused tool requests and the verifier's canonical
  bank and ledger controls are open choices, its demands on observation and
  citation are not.  `Investigation` takes the loop by its outcome only.
- **`EffectiveReview`** - `result` is the immutable base result, `evidence` the
  decisions, which grow by steps of `AcceptedEvidence` (what `Investigation` is
  shown to implement).  A request takes the lock once per settlement
  (`Project`), then once per decision it shows (`Show`); `seen` and `shown` are
  what it read.  The projection and the close assessment are functions of
  `seen`: `Kept`, `EffectiveState`, `EffectiveExceptions`, `CloseReadiness`.
  `before` and `earlier` are history variables and guard nothing.  Values and
  explanations are left out; that a pending settlement has value matters to the
  code only when it has no permitted exception, and it always has one.
  `ReviewAssumption` states what the engine's decision (`reconciliation.py`
  275-428) implies for the exceptions of a settlement in each state.
- **`SourceRows`** - ingestion and aggregation as operators.  A source is a set
  of raw rows; `GatewaySound`, `BankSound`, `LedgerSound` say which of them are
  records, `Repeated` which share an identifier, `RejectedRows` what becomes of
  the others: a row that is malformed and repeated is rejected twice, as in the
  code.  A field and the text the source gives for it (`raw`) are apart, because
  `_normalize_identifier` may change it: `RepeatedIds` joins the texts that
  several rows share with the identifiers that several well-formed rows share,
  and a well-formed row is looked up by its identifier only.  So a well-formed
  row whose text a malformed row repeats, but whose identifier is another, stays
  a record.  `RefusedRowsProveNothing` states what holds all the same
  (`Undisputed`): no other well-formed row has the identifier, and no two rows
  have it for their text.  `Movements`, `KeyOf`,
  `Aggregate`, `Unsortable` and `BadUtr` are `aggregate_gateway`, including the
  comparison that fails when one settlement id occurs with and without a balance
  account, and the UTR that is refused as an identifier.
- **`BankMatching`** - `match_bank`: the five controls of a candidate, the exact
  rows and the plausible fallbacks, the accepted row, the reasons of the match
  and of every candidate, the deadline.
- **`LedgerControls`** - `assess_ledger`: the lines that could prove a movement
  (`MovementLines`, with the one that stays when an identifier repeats), the
  pairs of a clearing line and its counterpart, the reasons against a movement,
  the charges that only the payments describe, the controls of the settlement.
- **`Reconciliation`** - `reconcile` over these operators, one action per turn of
  a loop whose order matters: `Group`, `MatchBank` (which consumes the row it
  accepts), `Assign` (which consumes the pair of one movement), `BookCharges`,
  `Decide`, `RejectRows`, `Close`.  `book` and `read` are the input; `working` is
  what one settlement has gathered so far; `links` is `settlement_to_bank`.  A
  step that raises in the code goes to `"failed"`; `DeadlineOverflows` is the
  deadline past `datetime.max` (`MaxTime`).  `TypeOK` to `ImplementsAcceptedEvidence`
  are stated over the results, the exceptions and the close together.
- **`Evaluation`** - the two commands of `backend/evaluation/` as straight lines
  of steps into one output directory, each of which may raise (`Raise`) and leave
  its files behind.  An artifact is what it was computed from; `Validates` is
  `_persist_runtime_export` with its replay of the accepted runs, `Score` is
  `score_agent_runs`, `Files` what the manifest hashes.  The export file may be
  another one at every read, the labels and sources are frozen.  The three
  reports of `run_evaluation`, which nothing reads back, are written in one step.
- **`MC...`** - instances for TLC.  **`..._proofs`** - theorems.

Operators such as `StartableWhileRunning`, placed before the operator they
resemble and commented as what they are, are faulty variants of the code.  Each
property is checked to fail when the variant takes the place of the original.

## 4. Runs

| Run | Instance and bounds | What it shows |
|---|---|---|
| `batch_lifecycle` | 1 batch, 3 threads, 2 kinds, 2 valid artifacts and one invalid, with fairness | contract, sequence accounting, one runner, no rewrite, every run settles |
| `investigation` | 3 requests, 2 settlements, the only supporting row `x`, base row `y`, texts of both sizes, with fairness | single use, reservations, joint storage, total order, ownership, retention, release, refinement of `AcceptedEvidence` |
| `investigation_oversize` | 1 request | finding: an ended run that is not retained |
| `agent_loop` | 1 run, 5 steps, 1 retry, 3 required tools | acceptance and ending can be read off the record; a cancelled run makes no further call |
| `agent_loop_shared` | 2 runs, 2 steps, 1 tool, with fairness | permit accounting, every run ends |
| `agent_loop_cancelled` | 1 run, 2 steps | finding: a timeout recorded as a cancellation |
| `effective_review` | 2 reviews of one or all settlements, 6 base results of 2 or 3 settlements (shared ids, pending, critical, rejected row), 2 usable bank rows | recency, no regress of the close, blockers removed only by evidence |
| `effective_review_rows` | a rejected row that names a settlement | finding: its blocker is dropped |
| `effective_review_shared` | one id in two balance accounts | finding: one row supports both |
| `settlement_engine` | 2,757 books in six families: bank rows (any of six, clock around the deadline, a deadline past `MaxTime`), reviews, shared references, payouts with refunds, fee and tax, refused and excluded rows (identifiers that normalisation changes, accounts and ids with line breaks), two balance accounts | what is cleared is proven and forced, what is not is named, the close is ready only when it should be, every row is accounted for, refinement of `AcceptedEvidence` |
| `settlement_split` | the same books | finding: one pair of lines verified in two settlements |
| `evaluation` | 4 datasets (one changed on disk, one with the labels of another), 19 exports, both commands, any number of times | labels open over a proven export only, false clears counted, a sealed directory is one command's |

*Why these bounds are enough.*  Batches do not share state, so one suffices.
Three threads allow two runs against one upload, or two uploads of different
content against one run; a fourth would repeat one of these roles.  Two kinds
distinguish a complete from an incomplete batch, two artifacts a conflict from a
repetition.  Two settlements compete for one row, and three requests let two
compete for one settlement meanwhile.  Five steps hold three tool calls, one
malformed answer and a hypothesis.  Two runs are enough for one to wait while
the other's provider hangs.  Two reviews are enough for one to follow or overlap
the other, and two acceptances fall before, between and after their readings.
The engine is sequential and its books are independent, so its run is a sum over
books: two settlements are enough to compete for a row, two movements to compete
for a pair, and a family varies what one group of controls reads while the rest
of the book is in order, so that each control decides an outcome of its own.
Four datasets and nineteen exports give every check of an export one file that
only it refuses.  Requests are received once (a repetition is
another request); the only counters, steps and retries, are bounded by the code.

*Deadlock* is not checked for `Investigation`, `AgentLoop`, `EffectiveReview`
and `Reconciliation`: every request is answered and every book closed in the
end, and then nothing is left to do.  It is checked for `BatchLifecycle` and
`Evaluation`, where clients can always ask again.

*Fairness.*  `BatchLifecycle!FairSpec` and `Investigation!FairSpec`: a thread
serving a request is scheduled until it has answered; these steps need no input
and wait for nobody (the locks are held for one method).  That an exploration
ends is what `AgentLoop` shows.  `AgentLoop!FairSpec`: the run's thread is
scheduled and its deadline passes.  Nothing is assumed of the provider, which
may never return, nor of clients.

`Reconciliation` and `Evaluation` state safety only: one thread runs straight
through, and that it may fail is part of the model.

### Findings

- **An oversize abstention is lost.**  The abstain tool accepts an explanation of
  any length; the run record allows 500 characters and is built outside every
  handler (`investigation.py:1475`).  A longer text raises there: the run is not
  retained and its settlement stays in `_active`, so that it can never be
  investigated again.  ADR 0010 says that abstained runs remain in the repository.
- **A timeout is recorded as a cancellation.**  When the provider thread outlives
  the deadline, `_invoke_model` sets the run's own cancel event
  (`investigation.py:1157`), which the handler of `ModelTimeoutError` takes for
  a call of `cancel`.  `docs/evaluation.md` says that cancellation is counted
  separately from timeouts.
- **A rejected row's blocker disappears.**  The effective close keeps, of the
  base exceptions that belong to no settlement, only those without a settlement
  id (`investigation.py:1652`), but the exception of a rejected row carries the
  row's settlement_id column.  A base close blocked by such a row becomes an
  effective close that is not blocked, with no decision at all.  ADR 0010 says
  that effective projections preserve unrelated exceptions.
- **One bank row for two balance accounts.**  Decisions are keyed by settlement
  id, aggregates by settlement id and balance account; a review projects a
  decision onto every aggregate of the id.  FR-209 says single-use across the
  batch, the data contract that the balance account is a hard partition key.

- **One pair of ledger lines for two balance accounts.**  `assess_ledger` chooses
  lines by settlement id alone and remembers the used ones for one aggregate
  only (`ledger_controls.py:188`), while aggregates are per settlement id and
  balance account: the same two lines are verified for a movement of each.  The
  evaluation's gate `incompatible_record_reuse` (`metrics.py:571`) demands that
  there be none.

Further observations are part of the model and have no run, for no document
promises that a batch finishes.  A refused row whose settlement_id is white space
or holds a line break or a NUL makes `RejectRows` fail, because the exception
record takes the unchecked text for an identifier: one malformed row fails the
whole batch, where `docs/api-contract.md` lets row-level malformed records through
as rejected evidence.  A settlement id that occurs with and without a balance
account makes `Group` fail, because the keys cannot be compared; so does a UTR
with a line break in it.  A deadline past `datetime.max` fails the match
(`bank_matching.py:35` and `52`).  The theorem `BadBooksFail` says that no such
book is ever closed; that these are the only ways to fail is not claimed, and
section 6 lists others.

## 5. Proofs

All theorems hold for every value of the constants that the `ASSUME` of the
module allows, in particular for any number of threads, settlements and runs.

- **`BatchLifecycle_proofs`.**  `TypeCorrect`; `OneRunner`, `ResultIsOfStoredSources`
  from `RunInv`: a running batch has exactly one worker past `begin_run`, that
  worker carries the batch's sources, and a batch past `ready` is complete.  None
  of the properties is inductive alone: that a result is of the stored sources
  needs that they did not change under the running worker, which needs the status
  to stay `running` until that worker's own outcome.  `StoredIsNeverRewritten` is
  the action property, `Refinement` maps every step to one of `BatchContract` or
  a stutter.  `TrueAnswers`: although the repository is locked anew for every
  answer, an upload that is acknowledged is held and one refused as a conflict is
  not, and the outcome of a run is never refused.  `SequenceCounts` has
  an invariant of its own, `CountInv`: storing a source adds one kind to those held and the next number to their stamps, and an
  upload is only carried to a batch that exists, because `upload_source` has
  looked before it validates.
- **`Investigation_proofs`.**  `Invariance`: `IInv` joins types, `AttemptIsSound`
  (what a request carries fits its place), `WorkingRunOwns` (a request past
  `begin` owns its settlement) and `DecisionIsReserved` (the row of a decision is
  in the reservations, as is the base result's).  Single use then follows because
  `finalize` tests the reservations under the lock in which it writes.
  `LateChecks`: its tests for ownership and a second decision never fail.
  `Refinement` shows that `Investigation` implements `AcceptedEvidence`.
  `Ownership` holds whatever the texts: a settlement is owned by the run that
  works on it, or by one whose record could not be built, the first finding.
  Its invariant adds that a lost run still owns (`LostRunOwns`) and that whoever
  owns is working or lost (`OwnerHolds`).
  The remaining four rest on `StoringStep`: the only step that records anything
  is a transaction that commits, it records one run with its event, and a
  decision with its reservation exactly when the run is accepted.  From it follow
  `Backed`, `StoredTogether`, `RunsRetained` (with `NoEarlyEnding`: a request has
  no ending before its exploration is over) and `TotalOrder` (a transaction takes the
  next two or three numbers, and the cardinalities add up).  So does
  `JournalIsAppendOnly`: no step, one that rolls back included, changes or
  removes what is recorded.  `AnswersAreRecords` and `AcceptedAnswers` are what
  the client may conclude from the answer it got: a run it was told of is
  recorded so, and an error means that nothing of its run is.  `RequestsAdvance`
  is the safety half of `EverySettlementIsReleased`: a request takes at most six
  steps and nobody sets it back, so that fairness is all the rest.
- **`AgentLoop_proofs`.**  `TypeCorrect` carries `Progress` (a run past the loop's
  head has begun a step, one that has not ended may still fail once) because the
  number of a recorded step and the retry counter are in range only with it, and
  `SlotHolder`.  `SlotAccounting` is the permit invariant for any number of runs;
  `CancelledMakesNoCall` rests on the event staying set and on `_invoke_model`
  looking at it after the step has begun; `AcceptanceOnRecord` on
  `ObservationsAreRecorded`: until a run ends, what it observed is what its
  recorded calls returned.  `RecordExplains` on `RecordInv`: a run at the
  head of the loop has recorded every step it began and one inside the loop all
  but the last, and the malformed answers in the record are those it counted.
  `EndingsConsistent` (the status, the code and the accepted row agree) and
  `EndedIsFinal` are what `Investigation` takes for granted of a loop's outcome.
  `WorkShrinks` is the safety half of `EveryRunEnds`: every step of the run's
  thread lowers `WorkLeft`, at most `6 * MaxSteps + 2`; after the deadline at most
  six steps are left, after a cancellation seven, for a step may still begin.
- **`EffectiveReview_proofs`.**  `Invariance`: `IInv` joins types, `PhaseInv` (a
  review shows nothing before it has projected everything, and what was decided
  on its arrival stands), `ReviewIsRecent` and `EarlierInv` (what an answered
  review projected was found by every later one).  `Recency` and `NeverRegresses`
  are consequences of decisions being only added; the latter needs that more
  decisions never make the close less ready (`MoreDecisions`), which in turn
  needs that a pending settlement has no blocker.  `UnblockedByEvidence` holds
  for every base result that satisfies `ReviewAssumption`, shared ids included.
  A review reads the decisions one by one, so what it projects need not be the
  decisions of any moment; `Bracketed` says what it may be all the same: a close
  between that of its arrival and that of its answer, and no settlement cleared
  that is not.  `RowsHaveOneId` needs that a decision is about a
  settlement left to investigation, on a row of its own that the base result
  does not use (`SoundDecisions`).
- **`Reconciliation_proofs`.**  For every set of books that satisfies
  `InputAssumption` (finite sources with no row in common, aggregates and bank
  rows among those of the batch).  `Invariance`: `IInv` joins `TypeOK`,
  `AssignedInv` (what is assigned to the movements of the settlement in hand is
  within the used lines, disjoint, and proves movements that are no longer
  pending), `LinksInv` (a settlement still to be matched is linked to no row, the
  one in hand to the row of its match) and the property `LinesOnce` states.
  `Refinement` follows from `LinksInv`: a match links a settlement that had no
  row, and only to one that is not consumed.
  `DecisionInvariance` builds on it: `MatchInv` (the match in hand is one of the
  current aggregate), `ControlInv` (the ledger's reasons are ledger reasons) and
  `NamedInv` (a settlement has an exception exactly when it is not cleared, and
  all of them block or none does).  `ClearedProven` needs that an empty list of
  ledger reasons implies every ledger control (`LedgerSoundness`) and that
  nothing a later settlement does changes the facts an earlier one rests on;
  `MissingCreditTimed` that a match that accepts nothing names its reason.
  `UnclearedNamed` needs that the reasons of an uncleared settlement are never
  all explanations.

- **`ReconciliationClose_proofs`.**  The same books, looked at as a whole.
  `AccountsInvariance` joins `ProgressInv` (once the refused rows are looked at,
  every settlement has a result, and nothing but a settlement was ever linked),
  `MembersInv` (a result assigns exactly the movements of its settlement, to
  lines of it, and its bank row was among its candidates), `ExcludedInv` (what is
  excluded is what was out of scope, then also what nobody considered) and
  `CloseInv` (an exception for every refused row, and what the readiness says of
  all exceptions).  `RefusedProveNothing`, `RowsAccounted` and `ReadyCleared` are
  consequences of them; the first that a record is not repeated, by identifier or
  by text, whatever normalisation makes of the texts; that no excluded row is evidence needs that identifiers
  are unique among records and that the policy's accounts are real ones.
  `ClearedForced` has an invariant of its own, `GreedyInv`: as long as every
  movement found a pair, the lines taken are those of the assignments and each
  possible assignment agrees with them, so that a pair which is the only free
  one is the only one there is.
- **`ReconciliationResults_proofs`.**  The same books, result by result.
  `DecidedOnce`: every group gets exactly one result, and `ResultsStand`: what
  is decided, linked or excluded stays so.  `EngineEnds`: passes, settlements,
  stages and movements left form a measure that every step lowers, so every
  batch ends; `BadBooksFail` that a bad book, on which some step raises whatever
  is decided before it, ends without a close.  `OrderIndependent` rests on `TakenInv` (a match
  leaves out only rows that others had taken): a settlement that competes with
  no other for a row is given the one it would be given alone, so that the
  matching order decides contests and nothing else.  `ResultsExplain`: a
  candidate is without a reason against it exactly when it is accepted, and a
  complete proof is cleared unless its reference is in dispute.
  `EvidenceBooks`: what is assigned to a movement books its amount, role and
  side in one journal, whether its settlement is cleared or not.  `SuitReview`
  discharges, for any book, what `ExceptionsFitState` says of states and
  exceptions, the assumption under which the theorems about `EffectiveReview`
  are proved; which settlements are eligible is decided in `Investigation`.
- **`Evaluation_proofs`.**  For all datasets and exports (`ExportsAssumption`: an
  export has finitely many runs).  `Invariance`: what a command holds was
  computed from what it read, an artifact of its directory is the one it holds
  from the step that writes it on, and a manifest is of the artifacts of one
  command (`SealInv`), also when a later command wrote some of its files and
  stopped.  `LabelsAreOpenedLate` rests on the counts by which the replay
  compares settlements and rows: as many of them as runs means that no two runs
  share one.  `DiskProven` looks at the directory whatever lies side by side in
  it: the export was validated, and metrics and summary are scores of a
  validated export under the labels of its dataset, failed exactly if there is a
  false clear.

*The extent of the findings.*  A run shows that a promise is broken; a theorem
shows that nothing else breaks it.  `BoundedTextRetains`: were the abstain text
bounded like its record, every ended run would be retained.
`CancelledWithReason`: a run counted as cancelled that nobody cancelled was
abandoned in mid-call.  `NamelessRowsBlock`: a blocker is lost only if its row
names a settlement.  `UniqueIdsLinkOnce`: a row supports two settlements only if
they share an id.  `SplitIdsOnly`: two verified links share a line only if an id
is split over balance accounts.  Each hypothesis
excludes what the finding's run exhibits and nothing more.

Only model-checked: liveness (`EveryRunSettles`, `EverySettlementIsReleased`,
`EveryRunEnds`), which is out of the prover's reach here, as is `ENABLED`.  Every
safety property that a passing run checks is also a theorem.

## 6. Not modelled

`PROJECT.json` gives the reason for each component.  Left out for good:

- CSV and JSON decoding, HTTP framing, logging and pagination of immutable
  results: input and output with no state.  A file that is fatally malformed
  (unreadable, wrong header, no rows) never becomes a source; a row parses or
  does not.
- What `_normalize_identifier` does to a text (trimming, NFKC): a row has the text
  and the identifier, and nothing is assumed of how they are related.  The
  places that compare texts do so in the model: `_read_csv` looking for
  repetitions, `_row_is_provably_out_of_scope` and the duplicate check of
  `assess_ledger`.  Currencies, of which the policy admits one.
- Refusals by a result record that depend on the form of a text or the size of a
  number: a repeated ledger `line_id` with a line break (`duplicate_line_ids`), a
  UTR that NFKC changes in the aggregate, an SLA beyond what `timedelta` holds,
  sums of more digits than `str` converts.  Each raises inside `reconcile` and
  ends the batch in `fail_run`, which `BatchLifecycle!Reconcile` allows for any
  book; `Reconciliation` closes such a book.  A timestamp that overflows in
  `astimezone` (`ingestion` `common.py:174`, `parse_evaluation_clock`) fails the
  request, as `BatchLifecycle` has it.
- Ties between repeated ledger lines of one journal: `StaysOver` goes by the row
  number where the code goes by `source_record_id`, a hash.
- The audit trail, written from the finished results, and the rendering of
  links, scores, values and explanations.
- The export and the operational counters of investigations: sums over records
  that only grow.
- The batch metrics of `metrics.py` and their reports: arithmetic over frozen
  files.  Evaluations of one directory by two processes at once: the commands
  are for one user, and nothing in them locks.
- The synthetic data generator, a pure seeded program, and the web client, which
  keeps no state besides its query cache.
- A thread that cannot be started (`Thread.start` raising); the hazard list says
  what it would do.
