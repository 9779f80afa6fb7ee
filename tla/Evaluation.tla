----------------------------- MODULE Evaluation -----------------------------
(***************************************************************************)
(* The two evaluation commands of backend/evaluation/: run_evaluation and  *)
(* run_agent_evaluation, one after another into one output directory, each *)
(* of which may stop with an error at any step and leave there what it has *)
(* written.                                                                *)
(*                                                                         *)
(* An artifact is represented by what it was computed from, a run of an    *)
(* export by what the validation reads of it.  "proof" says that the run's *)
(* steps, observations and citations are complete, "bound" the dataset     *)
(* whose fingerprints and clock it carries.  The source files and labels   *)
(* of a dataset are frozen; the export file is not, and every read may     *)
(* find another one of Exports.                                            *)
(***************************************************************************)
EXTENDS Integers, FiniteSets

CONSTANTS
    Settlement, Bank, NoBank,
    Dataset,
    Data,       \* what is on disk, and what the engine makes of it, by dataset
    Exports,    \* contents of the runtime export file
    Nothing     \* an artifact that is not there, a value not read yet

\* An export is a file, with finitely many runs.
ASSUME ExportsAssumption == \A e \in Exports : IsFiniteSet(e.runs)

VARIABLES
    dir,        \* the output directory
    step,       \* what the command does next
    command,    \* the command in hand
    dataset,    \* its --dataset
    export,     \* the export it validated
    labels,     \* the labels it has opened
    metrics     \* the metrics it has computed

vars == <<dir, step, command, dataset, export, labels, metrics>>

Empty == [result |-> Nothing, export |-> Nothing, metrics |-> Nothing,
          summary |-> Nothing, seal |-> <<>>, report |-> Nothing]

Init ==
    /\ dir = Empty
    /\ step = "idle"
    /\ command = Nothing /\ dataset = Nothing
    /\ export = Nothing /\ labels = Nothing /\ metrics = Nothing

-----------------------------------------------------------------------------
(***************************************************************************)
(* Validation of an export against the result of a dataset                 *)
(***************************************************************************)
HasVerdict(r) == r.verdict # "none"
IsAccepted(r) == r.verdict = "accepted"
AcceptedRuns(e) == {r \in e.runs : IsAccepted(r)}
Rows(runs) == {r.proposed : r \in runs} \ {NoBank}

\* _deterministic_bank_evidence_ids of the result.
Linked(d) == {Data[d].link[s] : s \in Settlement} \ {NoBank}

\* _validate_provider_provenance; named, that the run has a model identifier.
ProvenanceFits(r, e) ==
    /\ r.provenance = e.provenance
    /\ r.mode = "disabled" <=> r.provenance = "disabled"
    /\ r.mode = "local" => r.named

HypothesisFits(r, d) ==
    r.proposed # NoBank =>
        r.cites /\ r.proposed \in Data[d].candidates[r.settlement]

VerdictFits(r) ==
    /\ IsAccepted(r) => r.status = "completed" /\ r.proposed # NoBank
    /\ HasVerdict(r) /\ ~IsAccepted(r) => r.status = "rejected"

\* The loop over the runs in _validate_runtime_lineage.
RunFits(r, e, d) ==
    /\ ProvenanceFits(r, e)
    /\ r.settlement \in Data[d].settlements
    /\ r.bound = d
    /\ r.state = Data[d].state[r.settlement]
    /\ r.eligible => r.state = "needs_review"
    /\ HypothesisFits(r, d)
    /\ VerdictFits(r)

\* One audit event for every run, none for another, that tells its outcome.
AuditsFit(e) ==
    /\ \A a, b \in e.audits : a.id = b.id \/ a.run = b.run => a = b
    /\ {a.run : a \in e.audits} = {r.id : r \in e.runs}
    /\ \A a \in e.audits, r \in e.runs :
          a.run = r.id =>
              a.effective = IF IsAccepted(r) THEN "cleared_with_explanation" ELSE r.state

\* A count of runs that takes one row for one acceptance.
ReuseUnseen(e) == TRUE

RowsAreDistinct(e) ==
    Cardinality(Rows(AcceptedRuns(e))) = Cardinality(AcceptedRuns(e))

\* verify_hypothesis of a complete proposal, given the rows others rest on.
Verifies(s, b, reuse, d) == b = Data[d].unique[s] /\ b \notin reuse

\* Replay that a scripted provider passes too.
ReplaysAnyProvider(r, e, d) ==
    /\ r.verdictFor = r.settlement /\ r.proof
    /\ Verifies(r.settlement, r.proposed,
                Linked(d) \cup (Rows(AcceptedRuns(e)) \ {r.proposed}), d)

\* _replay_accepted_run.
Replays(r, e, d) ==
    /\ r.provenance = "ollama"
    /\ r.verdictFor = r.settlement /\ r.proof
    /\ Verifies(r.settlement, r.proposed,
                Linked(d) \cup (Rows(AcceptedRuns(e)) \ {r.proposed}), d)

\* What _persist_runtime_export demands before it writes.
Validates(e, d) ==
    /\ e.wellFormed /\ ~e.labelled
    /\ \A r, q \in e.runs : r.id = q.id => r = q
    /\ \A r \in e.runs : RunFits(r, e, d)
    /\ AuditsFit(e)
    /\ RowsAreDistinct(e)
    /\ \A r \in AcceptedRuns(e) : Replays(r, e, d)

-----------------------------------------------------------------------------
(***************************************************************************)
(* Scoring                                                                 *)
(***************************************************************************)
Eligible(d) == {s \in Data[d].settlements : Data[d].state[s] = "needs_review"}

\* from_runs refuses a run on a settlement it could not have been eligible for.
Scorable(e, d) == \A r \in e.runs : r.eligible => r.settlement \in Eligible(d)

FalseClears(e, truth) ==
    {r.settlement : r \in {q \in AcceptedRuns(e) :
        q.settlement \in truth.blocking \/ truth.expected[q.settlement] # q.proposed}}

\* score_agent_runs.  The artifact holds counts, and no name of a dataset.
Score(e, d, truth) ==
    LET real == \E r \in e.runs : r.provenance = "ollama"
        false == FalseClears(e, truth)
    IN [runs |-> Cardinality(e.runs),
        eligible |-> Cardinality(Eligible(d)),
        invoked |-> Cardinality({r.settlement : r \in {q \in e.runs : q.eligible}}),
        accepted |-> Cardinality(AcceptedRuns(e)),
        rejected |-> Cardinality({r \in e.runs : HasVerdict(r) /\ ~IsAccepted(r)}),
        falseClears |-> IF real THEN Cardinality(false) ELSE 0,
        gate |-> IF ~real THEN "not_applicable"
                 ELSE IF false # {} THEN "failed" ELSE "passed"]

-----------------------------------------------------------------------------
(***************************************************************************)
(* The steps of the commands                                               *)
(***************************************************************************)
\* Order in which the summary comes after the manifest that lists it.
AfterAgentSealingEarly(s) ==
    CASE s = "save" -> "check"
      [] s = "check" -> "persist"
      [] s = "persist" -> "labels"
      [] s = "labels" -> "metrics"
      [] s = "metrics" -> "seal"
      [] s = "seal" -> "summary"
      [] s = "summary" -> "idle"

\* The straight line of run_agent_evaluation.
AfterAgent(s) ==
    CASE s = "save" -> "check"
      [] s = "check" -> "persist"
      [] s = "persist" -> "labels"
      [] s = "labels" -> "metrics"
      [] s = "metrics" -> "summary"
      [] s = "summary" -> "seal"
      [] s = "seal" -> "idle"

\* The straight line of run_evaluation.
AfterDeterministic(s) ==
    CASE s = "save" -> "check"
      [] s = "check" -> "labels"
      [] s = "labels" -> "report"
      [] s = "report" -> "idle"

After(c, s) == IF c = "agent" THEN AfterAgent(s) ELSE AfterDeterministic(s)

\* The command returns, or raises, and forgets what it held.
Stop ==
    /\ step' = "idle"
    /\ command' = Nothing /\ dataset' = Nothing
    /\ export' = Nothing /\ labels' = Nothing /\ metrics' = Nothing

\* A write is done: the command goes on to the next step, or returns.
Advance ==
    IF After(command, step) = "idle" THEN Stop
    ELSE /\ step' = After(command, step)
         /\ UNCHANGED <<command, dataset, export, labels, metrics>>

\* load_runtime_manifest: the input files must be those of the manifest.
Start(c, d) ==
    /\ step = "idle"
    /\ Data[d].frozen
    /\ command' = c /\ dataset' = d
    /\ step' = "save"
    /\ UNCHANGED <<dir, export, labels, metrics>>

\* reconcile, and save_runtime_result over what was there.
SaveResult ==
    /\ step = "save"
    /\ dir' = [dir EXCEPT !.result = dataset]
    /\ Advance

\* load_runtime_result and validate_runtime_result_identity.
CheckResult ==
    /\ step = "check"
    /\ dir.result = dataset
    /\ Advance
    /\ UNCHANGED dir

\* The file is read once for the batch id and once more to be validated; only
\* what the second read found is validated and written.
PersistExport ==
    /\ step = "persist"
    /\ \E first, e \in Exports :
          /\ first.wellFormed
          /\ Validates(e, dataset)
          /\ export' = e
          /\ dir' = [dir EXCEPT !.export = e]
    /\ step' = After(command, step)
    /\ UNCHANGED <<command, dataset, labels, metrics>>

\* load_ground_truth: its manifest must be of the same dataset.
LoadLabels ==
    /\ step = "labels"
    /\ Data[dataset].truth.of = dataset
    /\ labels' = Data[dataset].truth
    /\ step' = After(command, step)
    /\ UNCHANGED <<dir, command, dataset, export, metrics>>

WriteMetrics ==
    /\ step = "metrics"
    /\ Scorable(export, dataset)
    /\ metrics' = Score(export, dataset, labels)
    /\ dir' = [dir EXCEPT !.metrics = metrics']
    /\ step' = After(command, step)
    /\ UNCHANGED <<command, dataset, export, labels>>

WriteSummary ==
    /\ step = "summary"
    /\ dir' = [dir EXCEPT !.summary = [dataset |-> dataset, metrics |-> metrics]]
    /\ Advance

\* _artifact_manifest: the hashes of the three files as they are on disk now.
Files(artifacts) == <<artifacts.export, artifacts.metrics, artifacts.summary>>

WriteSeal ==
    /\ step = "seal"
    /\ dir' = [dir EXCEPT !.seal = Files(dir)]
    /\ Advance

\* run_evaluation's three reports, on files of their own that no step reads
\* back: one step stands for the three writes.
WriteReport ==
    /\ step = "report"
    /\ dir' = [dir EXCEPT !.report = dataset]
    /\ Advance

\* Any step may raise: a check that fails, a file that cannot be read or
\* written.
Raise ==
    /\ step # "idle"
    /\ Stop
    /\ UNCHANGED dir

Next ==
    \/ \E c \in {"deterministic", "agent"}, d \in Dataset : Start(c, d)
    \/ SaveResult \/ CheckResult \/ PersistExport \/ LoadLabels
    \/ WriteMetrics \/ WriteSummary \/ WriteSeal \/ WriteReport
    \/ Raise

Spec == Init /\ [][Next]_vars

-----------------------------------------------------------------------------
(***************************************************************************)
(* Properties                                                              *)
(***************************************************************************)
\* Once the labels are open, the result and the export of the command are on
\* disk, and the acceptances of the export are what the verifier would accept
\* together: no settlement twice, no row twice, none that the engine linked
\* (load_ground_truth: "only after the caller has persisted").
LabelsSeeOnlyProvenRuns ==
    labels # Nothing =>
        /\ dir.result = dataset
        /\ command = "agent" =>
              /\ dir.export = export
              /\ Rows(AcceptedRuns(export)) \cap Linked(dataset) = {}
              /\ \A r \in AcceptedRuns(export) :
                    r.proposed = Data[dataset].unique[r.settlement]
              /\ \A r, q \in AcceptedRuns(export) :
                    r.settlement = q.settlement \/ r.proposed = q.proposed => r = q

\* The zero-false-clear gate never reads "passed" or "not_applicable" over an
\* export that clears a settlement the labels keep blocked or pay by another
\* row: a provider that may not accept cannot get its acceptances this far.
FalseClearsAreCounted ==
    metrics # Nothing =>
        (FalseClears(export, labels) # {} <=> metrics.gate = "failed")

\* A directory whose manifest fits its three files holds the outcome of one
\* command: the metrics are those of this export and of the dataset that the
\* summary names, whatever earlier commands left there and wherever one died.
SealedArtifactsAreOneRun ==
    dir.seal = Files(dir) =>
        \E d \in Dataset :
            /\ dir.metrics = Score(dir.export, d, Data[d].truth)
            /\ dir.summary = [dataset |-> d, metrics |-> dir.metrics]
=============================================================================
