------------------------- MODULE Evaluation_proofs -------------------------
(***************************************************************************)
(* Proofs about Evaluation.  Each artifact of a command is on disk, and is *)
(* the one the command holds, from the step that writes it to the step     *)
(* that stops; the properties follow from that and from the validation.    *)
(***************************************************************************)
EXTENDS Evaluation, FunctionTheorems, FiniteSetTheorems, TLAPS

Checked == {"persist", "labels", "metrics", "summary", "seal", "report"}
Persisted == {"labels", "metrics", "summary", "seal"}
Scored == {"summary", "seal"}

\* Which command is at which step.
CommandInv ==
    /\ step \in {"idle", "save", "check"} \cup Checked
    /\ step # "idle" => command \in {"deterministic", "agent"} /\ dataset \in Dataset
    /\ step \in {"persist", "metrics"} \cup Scored => command = "agent"
    /\ step = "report" => command = "deterministic"

\* What is on disk is what the command holds.
HeldInv ==
    /\ step \in Checked => dir.result = dataset
    /\ step \in Persisted /\ command = "agent" =>
          dir.export = export /\ export \in Exports /\ Validates(export, dataset)
    /\ labels # Nothing => step \in {"metrics", "report"} \cup Scored
    /\ step \in {"metrics", "report"} \cup Scored => labels = Data[dataset].truth
    /\ metrics # Nothing => step \in Scored
    /\ step \in Scored =>
          metrics = Score(export, dataset, labels) /\ dir.metrics = metrics
    /\ step = "seal" => dir.summary = [dataset |-> dataset, metrics |-> metrics]

\* A manifest is of the three files of one command.
SealInv ==
    \/ dir.seal = <<>>
    \/ \E e \in Exports, d \in Dataset :
          LET score == Score(e, d, Data[d].truth) IN
          dir.seal = <<e, score, [dataset |-> d, metrics |-> score]>>

\* The directory has the six entries of the code.
DirInv ==
    \E result, exported, scores, summary, seal, report :
        dir = [result |-> result, export |-> exported, metrics |-> scores,
               summary |-> summary, seal |-> seal, report |-> report]

IInv == DirInv /\ CommandInv /\ HeldInv /\ SealInv

LEMMA InitIInv == Init => IInv
  <1> SUFFICES ASSUME Init PROVE IInv
    OBVIOUS
  <1>1. DirInv
    BY DEF Init, Empty, DirInv
  <1>2. CommandInv /\ HeldInv /\ SealInv
    BY DEF Init, Empty, CommandInv, HeldInv, SealInv, Checked, Persisted, Scored
  <1> QED BY <1>1, <1>2 DEF IInv

\* A command that stops holds nothing.
LEMMA StopHolds ==
  ASSUME IInv, Stop, dir' = dir
  PROVE  IInv'
  BY DEF Stop, IInv, DirInv, CommandInv, HeldInv, SealInv, Checked, Persisted, Scored

\* Any step keeps the entries of the directory.
LEMMA NextDir ==
  ASSUME DirInv, [Next]_vars
  PROVE  DirInv'
  BY DEF DirInv, Next, vars, Start, SaveResult, CheckResult, PersistExport, LoadLabels,
         WriteMetrics, WriteSummary, WriteSeal, WriteReport, Raise

\* The manifest is written over files of one command, and otherwise left.
LEMMA NextSeal ==
  ASSUME IInv, [Next]_vars
  PROVE  SealInv'
  <1>1. CASE WriteSeal
    <2>1. dir'.seal = <<dir.export, dir.metrics, dir.summary>>
      BY <1>1 DEF WriteSeal, Files, IInv, DirInv
    <2>2. step = "seal" /\ command = "agent" /\ dataset \in Dataset
      BY <1>1 DEF WriteSeal, IInv, CommandInv, Scored
    <2>3. /\ dir.export = export /\ export \in Exports
          /\ labels = Data[dataset].truth
          /\ metrics = Score(export, dataset, labels) /\ dir.metrics = metrics
          /\ dir.summary = [dataset |-> dataset, metrics |-> metrics]
      BY <2>2 DEF IInv, HeldInv, Persisted, Scored
    <2> QED BY <2>1, <2>2, <2>3 DEF SealInv
  <1>2. CASE ~WriteSeal
    <2>1. dir'.seal = dir.seal
      BY <1>2 DEF IInv, DirInv, Next, vars, Start, SaveResult, CheckResult, PersistExport,
             LoadLabels, WriteMetrics, WriteSummary, WriteReport, Raise
    <2> QED BY <2>1 DEF IInv, SealInv
  <1> QED BY <1>1, <1>2

LEMMA NextHeld ==
  ASSUME IInv, [Next]_vars
  PROVE  (CommandInv /\ HeldInv)'
  <1> USE DEF IInv, DirInv, CommandInv, HeldInv, Checked, Persisted, Scored
  <1>1. CASE Stop
    BY <1>1 DEF Stop
  <1>2. CASE ~Stop /\ \E c \in {"deterministic", "agent"}, d \in Dataset : Start(c, d)
    BY <1>2 DEF Start
  <1>3. CASE ~Stop /\ SaveResult
    BY <1>3 DEF SaveResult, Advance, After, AfterAgent, AfterDeterministic
  <1>4. CASE ~Stop /\ CheckResult
    BY <1>4 DEF CheckResult, Advance, After, AfterAgent, AfterDeterministic
  <1>5. CASE PersistExport
    BY <1>5 DEF PersistExport, After, AfterAgent, AfterDeterministic
  <1>6. CASE LoadLabels
    BY <1>6 DEF LoadLabels, After, AfterAgent, AfterDeterministic
  <1>7. CASE WriteMetrics
    BY <1>7 DEF WriteMetrics, After, AfterAgent, AfterDeterministic
  <1>8. CASE ~Stop /\ WriteSummary
    BY <1>8 DEF WriteSummary, Advance, After, AfterAgent, AfterDeterministic
  <1>9. CASE ~Stop /\ (WriteSeal \/ WriteReport)
    BY <1>9 DEF WriteSeal, WriteReport, Advance, After, AfterAgent, AfterDeterministic
  <1>10. CASE UNCHANGED vars
    BY <1>10 DEF vars
  <1>11. Raise => Stop
    BY DEF Raise
  <1> QED
    BY <1>1, <1>2, <1>3, <1>4, <1>5, <1>6, <1>7, <1>8, <1>9, <1>10, <1>11 DEF Next

\* The commands' invariant, for any datasets, labels and exports.
THEOREM Invariance == Spec => []IInv
  <1>1. IInv /\ [Next]_vars => IInv'
    BY NextDir, NextSeal, NextHeld DEF IInv
  <1> QED BY InitIInv, <1>1, PTL DEF Spec

-----------------------------------------------------------------------------
(***************************************************************************)
(* What validation guarantees                                              *)
(***************************************************************************)
LEMMA AcceptedIsProven ==
  ASSUME NEW e, NEW d, Validates(e, d), NEW r \in AcceptedRuns(e)
  PROVE  /\ r.provenance = "ollama" /\ r.proposed # NoBank
         /\ r.proposed = Data[d].unique[r.settlement]
         /\ r.proposed \notin Linked(d)
  BY DEF Validates, AcceptedRuns, RunFits, VerdictFits, Replays, Verifies

\* As many rows as acceptances: no two acceptances propose one row.
LEMMA AcceptedAreDistinct ==
  ASSUME NEW e \in Exports, NEW d, Validates(e, d),
         NEW r \in AcceptedRuns(e), NEW q \in AcceptedRuns(e),
         r.proposed = q.proposed
  PROVE  r = q
  <1> DEFINE A == AcceptedRuns(e)
             B == Rows(A)
             f == [x \in A |-> x.proposed]
  <1>1. IsFiniteSet(A)
    BY ExportsAssumption, FS_Subset DEF AcceptedRuns
  <1>2. f \in Surjection(A, B)
    BY AcceptedIsProven DEF Surjection, Rows
  <1>3. Cardinality(B) = Cardinality(A)
    BY DEF Validates, RowsAreDistinct
  <1> HIDE DEF A, B
  <1>4. f \in Injection(A, B)
    BY <1>1, <1>2, <1>3, FS_Surjection
  <1> QED BY <1>4 DEF Injection, IsInjective, A

\* Once the labels are open, the result and the export are on disk, and the
\* acceptances are what the verifier would accept together: whatever the datasets
\* and the contents of the export file.
THEOREM LabelsAreOpenedLate == Spec => []LabelsSeeOnlyProvenRuns
  <1>1. ASSUME IInv PROVE LabelsSeeOnlyProvenRuns
    <2> SUFFICES ASSUME labels # Nothing
                 PROVE  /\ dir.result = dataset
                        /\ command = "agent" =>
                              /\ dir.export = export
                              /\ Rows(AcceptedRuns(export)) \cap Linked(dataset) = {}
                              /\ \A r \in AcceptedRuns(export) :
                                    r.proposed = Data[dataset].unique[r.settlement]
                              /\ \A r, q \in AcceptedRuns(export) :
                                    r.settlement = q.settlement \/ r.proposed = q.proposed
                                        => r = q
      BY DEF LabelsSeeOnlyProvenRuns
    <2>1. dir.result = dataset /\ step \in {"metrics", "report"} \cup Scored
      BY <1>1 DEF IInv, HeldInv, Checked, Scored
    <2>2. ASSUME command = "agent"
          PROVE  dir.export = export /\ export \in Exports /\ Validates(export, dataset)
      <3>1. CASE step = "report"
        BY <1>1, <2>2, <3>1 DEF IInv, HeldInv, CommandInv, Checked, Scored
      <3>2. CASE step # "report"
        BY <1>1, <2>1, <2>2, <3>2 DEF IInv, HeldInv, Persisted, Scored
      <3> QED BY <3>1, <3>2
    <2>3. ASSUME command = "agent"
          PROVE  Rows(AcceptedRuns(export)) \cap Linked(dataset) = {}
      BY <2>2, <2>3, AcceptedIsProven DEF Rows
    <2>4. ASSUME command = "agent", NEW r \in AcceptedRuns(export)
          PROVE  r.proposed = Data[dataset].unique[r.settlement]
      BY <2>2, <2>4, AcceptedIsProven
    <2>5. ASSUME command = "agent", NEW r \in AcceptedRuns(export),
                 NEW q \in AcceptedRuns(export),
                 r.settlement = q.settlement \/ r.proposed = q.proposed
          PROVE  r = q
      <3>1. r.proposed = q.proposed
        BY <2>4, <2>5
      <3> QED BY <2>2, <2>5, <3>1, AcceptedAreDistinct
    <2> QED BY <2>1, <2>2, <2>3, <2>4, <2>5
  <1> QED BY <1>1, Invariance, PTL

\* The zero-false-clear gate fails exactly on the exports that contain one.
THEOREM FalseClearsCounted == Spec => []FalseClearsAreCounted
  <1>1. ASSUME IInv, metrics # Nothing
        PROVE  FalseClears(export, labels) # {} <=> metrics.gate = "failed"
    <2>1. step \in Scored /\ command = "agent"
      BY <1>1 DEF IInv, HeldInv, CommandInv
    <2>2. Validates(export, dataset) /\ metrics = Score(export, dataset, labels)
      BY <1>1, <2>1 DEF IInv, HeldInv, Persisted, Scored
    <2>3. FalseClears(export, labels) # {} => \E r \in export.runs : r.provenance = "ollama"
      BY <2>2, AcceptedIsProven DEF FalseClears, AcceptedRuns
    <2>4. metrics.gate = IF ~(\E r \in export.runs : r.provenance = "ollama")
                         THEN "not_applicable"
                         ELSE IF FalseClears(export, labels) # {} THEN "failed" ELSE "passed"
      BY <2>2 DEF Score
    <2> QED BY <2>3, <2>4
  <1>2. IInv => FalseClearsAreCounted
    BY <1>1 DEF FalseClearsAreCounted
  <1> QED BY <1>2, Invariance, PTL

\* Artifacts that fit the manifest are those of one command, wherever it or an
\* earlier one stopped.
THEOREM SealedIsOneRun == Spec => []SealedArtifactsAreOneRun
  <1>1. ASSUME IInv, dir.seal = Files(dir)
        PROVE  \E d \in Dataset :
                   /\ dir.metrics = Score(dir.export, d, Data[d].truth)
                   /\ dir.summary = [dataset |-> d, metrics |-> dir.metrics]
    <2>1. dir.seal = <<dir.export, dir.metrics, dir.summary>> /\ dir.seal # <<>>
      BY <1>1 DEF Files
    <2> DEFINE Value(e, d) == Score(e, d, Data[d].truth)
    <2>4. PICK e \in Exports, d \in Dataset :
             dir.seal = <<e, Value(e, d), [dataset |-> d, metrics |-> Value(e, d)]>>
      BY <1>1, <2>1 DEF IInv, SealInv
    <2>2. PICK score : /\ score = Score(e, d, Data[d].truth)
                       /\ dir.seal = <<e, score, [dataset |-> d, metrics |-> score]>>
      BY <2>4
    <2>3. dir.export = e /\ dir.metrics = score
             /\ dir.summary = [dataset |-> d, metrics |-> score]
      BY <2>1, <2>2
    <2> QED BY <2>2, <2>3
  <1>2. IInv => SealedArtifactsAreOneRun
    BY <1>1 DEF SealedArtifactsAreOneRun
  <1> QED BY <1>2, Invariance, PTL

-----------------------------------------------------------------------------
(***************************************************************************)
(* What lies in the output directory                                       *)
(***************************************************************************)
\* m is the score of export e of dataset d, which was validated before the labels
\* of that same dataset were opened, and its gate tells whether e has a false
\* clear.
Honest(m, e, d) ==
    /\ Validates(e, d) /\ Data[d].truth.of = d /\ Scorable(e, d)
    /\ m = Score(e, d, Data[d].truth)
    /\ m.gate = "failed" <=> FalseClears(e, Data[d].truth) # {}

\* Wherever the commands so far have died, and whichever of their artifacts lie
\* side by side: the export on disk was validated, the metrics are an honest
\* score of an export that was, and the summary carries such metrics under the
\* name of their own dataset.
DiskIsProven ==
    /\ dir.export = Nothing \/ \E d \in Dataset : Validates(dir.export, d)
    /\ dir.metrics = Nothing \/
          \E e \in Exports, d \in Dataset : Honest(dir.metrics, e, d)
    /\ dir.summary = Nothing \/
          \E e \in Exports, d \in Dataset : \E m :
              Honest(m, e, d) /\ dir.summary = [dataset |-> d, metrics |-> m]

\* The labels in hand are those of the dataset, and metrics in hand are honest.
ScoreInv ==
    /\ step \in {"metrics", "report"} \cup Scored => Data[dataset].truth.of = dataset
    /\ step \in Scored => Scorable(export, dataset)

LEMMA ScoredIsHonest ==
  ASSUME NEW e \in Exports, NEW d, Validates(e, d), Data[d].truth.of = d,
         Scorable(e, d), NEW m, m = Score(e, d, Data[d].truth)
  PROVE  Honest(m, e, d)
  <1> DEFINE false == FalseClears(e, Data[d].truth)
  <1>1. false # {} => \E r \in e.runs : r.provenance = "ollama"
    BY AcceptedIsProven DEF FalseClears, AcceptedRuns
  <1>2. m.gate = IF ~(\E r \in e.runs : r.provenance = "ollama") THEN "not_applicable"
                 ELSE IF false # {} THEN "failed" ELSE "passed"
    BY DEF Score
  <1> HIDE DEF false
  <1>3. m.gate = "failed" <=> false # {}
    BY <1>1, <1>2
  <1> QED BY <1>3 DEF Honest, false

LEMMA NextScore ==
  ASSUME IInv, ScoreInv, [Next]_vars
  PROVE  ScoreInv'
  <1> USE DEF ScoreInv, Scored
  <1>1. CASE Stop
    BY <1>1 DEF Stop
  <1>2. CASE ~Stop /\ \E c \in {"deterministic", "agent"}, d \in Dataset : Start(c, d)
    BY <1>2 DEF Start
  <1>3. CASE ~Stop /\ (SaveResult \/ CheckResult)
    BY <1>3 DEF SaveResult, CheckResult, Advance, After, AfterAgent, AfterDeterministic, IInv, CommandInv
  <1>4. CASE PersistExport
    BY <1>4 DEF PersistExport, After, AfterAgent, AfterDeterministic
  <1>5. CASE LoadLabels
    BY <1>5 DEF LoadLabels, After, AfterAgent, AfterDeterministic
  <1>6. CASE WriteMetrics
    BY <1>6 DEF WriteMetrics, After, AfterAgent, AfterDeterministic
  <1>7. CASE ~Stop /\ WriteSummary
    BY <1>7 DEF WriteSummary, Advance, After, AfterAgent, IInv, CommandInv
  <1>8. CASE ~Stop /\ WriteSeal
    BY <1>8 DEF WriteSeal, Advance, After, AfterAgent, IInv, CommandInv
  <1>9. CASE ~Stop /\ WriteReport
    BY <1>9 DEF WriteReport, Advance, After, AfterDeterministic, IInv, CommandInv
  <1>10. CASE UNCHANGED vars
    BY <1>10 DEF vars
  <1>11. Raise => Stop
    BY DEF Raise
  <1> QED
    BY <1>1, <1>2, <1>3, <1>4, <1>5, <1>6, <1>7, <1>8, <1>9, <1>10, <1>11 DEF Next

LEMMA NextDisk ==
  ASSUME IInv, ScoreInv, DiskIsProven, [Next]_vars
  PROVE  DiskIsProven'
  <1>1. CASE PersistExport
    <2>1. PICK e \in Exports : /\ Validates(e, dataset)
                               /\ dir' = [dir EXCEPT !.export = e]
      BY <1>1 DEF PersistExport
    <2>2. dataset \in Dataset
      BY <1>1 DEF PersistExport, IInv, CommandInv
    <2>3. /\ dir'.export = e /\ dir'.metrics = dir.metrics
          /\ dir'.summary = dir.summary
      BY <2>1 DEF IInv, DirInv
    <2> QED BY <2>1, <2>2, <2>3 DEF DiskIsProven
  <1>2. CASE WriteMetrics
    <2> DEFINE m == metrics'
    <2>1. /\ step = "metrics" /\ Scorable(export, dataset)
          /\ m = Score(export, dataset, labels)
          /\ dir' = [dir EXCEPT !.metrics = m]
      BY <1>2 DEF WriteMetrics
    <2>2. /\ dataset \in Dataset /\ labels = Data[dataset].truth
          /\ export \in Exports /\ Validates(export, dataset)
          /\ Data[dataset].truth.of = dataset
      BY <2>1 DEF IInv, CommandInv, HeldInv, ScoreInv, Persisted, Scored
    <2> HIDE DEF m
    <2>3. Honest(m, export, dataset)
      BY <2>1, <2>2, ScoredIsHonest
    <2>4. dir'.export = dir.export /\ dir'.metrics = m /\ dir'.summary = dir.summary
      BY <2>1 DEF IInv, DirInv
    <2> QED BY <2>2, <2>3, <2>4 DEF DiskIsProven
  <1>3. CASE WriteSummary
    <2>1. /\ step = "summary"
          /\ dir' = [dir EXCEPT !.summary = [dataset |-> dataset, metrics |-> metrics]]
      BY <1>3 DEF WriteSummary
    <2>2. /\ dataset \in Dataset /\ labels = Data[dataset].truth
          /\ export \in Exports /\ Validates(export, dataset)
          /\ Data[dataset].truth.of = dataset /\ Scorable(export, dataset)
          /\ metrics = Score(export, dataset, labels)
      BY <2>1 DEF IInv, CommandInv, HeldInv, ScoreInv, Persisted, Scored
    <2>3. Honest(metrics, export, dataset)
      BY <2>2, ScoredIsHonest
    <2>4. /\ dir'.export = dir.export /\ dir'.metrics = dir.metrics
          /\ dir'.summary = [dataset |-> dataset, metrics |-> metrics]
      BY <2>1 DEF IInv, DirInv
    <2> QED BY <2>2, <2>3, <2>4 DEF DiskIsProven
  <1>4. CASE ~PersistExport /\ ~WriteMetrics /\ ~WriteSummary
    <2>1. /\ dir'.export = dir.export /\ dir'.metrics = dir.metrics
          /\ dir'.summary = dir.summary
      BY <1>4 DEF IInv, DirInv, Next, vars, Start, SaveResult, CheckResult,
                  LoadLabels, WriteSeal, WriteReport, Raise
    <2> QED BY <2>1 DEF DiskIsProven
  <1> QED BY <1>1, <1>2, <1>3, <1>4

\* Nothing unproven gets to the directory, whatever the datasets and the contents
\* of the export file, and wherever the commands stop.
THEOREM DiskProven == Spec => []DiskIsProven
  <1>1. Init => ScoreInv /\ DiskIsProven
    BY DEF Init, Empty, ScoreInv, DiskIsProven, Scored
  <1> QED BY <1>1, NextScore, NextDisk, Invariance, PTL DEF Spec
=============================================================================
