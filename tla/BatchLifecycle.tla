--------------------------- MODULE BatchLifecycle ---------------------------
(***************************************************************************)
(* The batch repository and the batch workflow service of                  *)
(* backend/app/application/batch_workflow.py.                              *)
(*                                                                         *)
(* InMemoryBatchRepository keeps one immutable snapshot per batch behind a *)
(* reentrant lock, so each of its methods is one atomic action here.       *)
(* BatchWorkflowService works outside that lock: an upload is validated    *)
(* before the repository is asked to store it, and a run is reconciled     *)
(* between begin_run and complete_run or fail_run.  The API handlers run   *)
(* on a thread pool, so Worker threads interleave between those steps.     *)
(*                                                                         *)
(* An artifact stands for what put_source compares: bytes, file name and   *)
(* media type.  The reconciliation of a snapshot is a function of the      *)
(* sources it holds, so the sources themselves stand for its result.       *)
(***************************************************************************)
EXTENDS Naturals, FiniteSets

CONSTANTS
    Batch,          \* the fresh identifiers create() may hand out
    Worker,         \* threads that serve API requests
    SourceKind,     \* REQUIRED_SOURCE_KINDS
    Artifact,       \* uploaded contents, as put_source tells them apart
    NoArtifact,     \* no source of this kind is stored
    NoJob,          \* a worker that holds no request between two lock sections
    Defect          \* Defect[k, a]: the check that refuses a as a k, or "none"

\* The checks upload_source makes before it asks the repository; a timestamp
\* that overflows on its way to UTC escapes them, for the framework to answer.
UploadDefect == {"UPLOAD_TOO_LARGE", "INVALID_FILENAME",
                 "UNSUPPORTED_CONTENT_TYPE", "INVALID_SOURCE",
                 "INTERNAL_SERVER_ERROR"}

\* What parse_evaluation_clock refuses a clock for, overflow included.
ClockDefect == {"INVALID_EVALUATION_CLOCK", "INTERNAL_SERVER_ERROR"}

ASSUME BatchAssumption ==
    /\ NoArtifact \notin Artifact
    /\ IsFiniteSet(SourceKind)
    /\ SourceKind # {}
    /\ Defect \in [SourceKind \X Artifact -> UploadDefect \cup {"none"}]

Sources == [SourceKind -> Artifact \cup {NoArtifact}]
NoSources == [k \in SourceKind |-> NoArtifact]

BatchStatus == {"absent", "awaiting_sources", "ready", "running",
                "completed", "failed"}

\* stamp[k] is the artifact's own sequence number; failure is the sequence
\* number of the FailureMetadata, 0 when there is none.
BatchSnapshot == [status             : BatchStatus,
                  sources            : Sources,
                  stamp              : [SourceKind -> Nat],
                  result             : Sources,
                  failure            : Nat,
                  lifecycle_sequence : Nat]

Absent == [status             |-> "absent",
           sources            |-> NoSources,
           stamp              |-> [k \in SourceKind |-> 0],
           result             |-> NoSources,
           failure            |-> 0,
           lifecycle_sequence |-> 0]

\* What a worker carries from one lock section to the next: the artifact it
\* will store, or the sources of the snapshot that begin_run returned to it.
UploadJob == [batch : Batch, kind : SourceKind, artifact : Artifact]
RunJob == [batch : Batch, sources : Sources]

VARIABLES
    batches,    \* the repository: batch id to its current snapshot
    pc,         \* where each worker is between two lock sections
    job,        \* what it carries
    reply       \* the answer to the last request it finished

vars == <<batches, pc, job, reply>>

Reply == UploadDefect \cup ClockDefect \cup
    {"none", "created", "stored", "idempotent", "BATCH_NOT_FOUND",
     "SOURCES_IMMUTABLE", "SOURCE_CONFLICT", "BATCH_INCOMPLETE",
     "RUN_ALREADY_IN_PROGRESS", "INVALID_LIFECYCLE", "completed", "failed"}

Init ==
    /\ batches = [b \in Batch |-> Absent]
    /\ pc = [w \in Worker |-> "idle"]
    /\ job = [w \in Worker |-> NoJob]
    /\ reply = [w \in Worker |-> "none"]

-----------------------------------------------------------------------------
\* The request of worker w is answered with code.
Answer(w, code) ==
    /\ pc' = [pc EXCEPT ![w] = "idle"]
    /\ job' = [job EXCEPT ![w] = NoJob]
    /\ reply' = [reply EXCEPT ![w] = code]

\* Worker w goes on outside the lock, carrying j.
Carry(w, label, j) ==
    /\ pc' = [pc EXCEPT ![w] = label]
    /\ job' = [job EXCEPT ![w] = j]
    /\ reply' = [reply EXCEPT ![w] = "none"]

Held(sources) == {k \in SourceKind : sources[k] # NoArtifact}
Complete(sources) == Held(sources) = SourceKind

\* create_batch: the clock is refused, or a new identifier is given out, with
\* no sources and lifecycle sequence 1.
CreateBatch(w, b) ==
    /\ pc[w] = "idle"
    /\ \/ /\ \E code \in ClockDefect : Answer(w, code)
          /\ UNCHANGED batches
       \/ /\ batches[b].status = "absent"
          /\ batches' = [batches EXCEPT ![b] = [Absent EXCEPT
                 !.status = "awaiting_sources",
                 !.lifecycle_sequence = 1]]
          /\ Answer(w, "created")

-----------------------------------------------------------------------------
\* upload_source up to the call of put_source: the batch must exist, then
\* size, file name, media type and payload are checked outside the lock.
ReceiveUpload(w, b, k, a) ==
    /\ pc[w] = "idle"
    /\ \/ /\ batches[b].status = "absent"
          /\ Answer(w, "BATCH_NOT_FOUND")
       \/ /\ batches[b].status # "absent"
          /\ Defect[<<k, a>>] # "none"
          /\ Answer(w, Defect[<<k, a>>])
       \/ /\ batches[b].status # "absent"
          /\ Defect[<<k, a>>] = "none"
          /\ Carry(w, "storing", [batch |-> b, kind |-> k, artifact |-> a])
    /\ UNCHANGED batches

\* An upload stamped with the sequence number of the previous change.
WithSourceStaleStamp(s, k, a) ==
    LET sources == [s.sources EXCEPT ![k] = a] IN
    [s EXCEPT !.sources = sources,
              !.stamp = [s.stamp EXCEPT ![k] = s.lifecycle_sequence],
              !.status = IF Complete(sources) THEN "ready"
                                              ELSE "awaiting_sources",
              !.lifecycle_sequence = s.lifecycle_sequence + 1]

\* A batch that is ready as soon as any source is stored.
WithSourceReadyTooEarly(s, k, a) ==
    [s EXCEPT !.sources = [s.sources EXCEPT ![k] = a],
              !.stamp = [s.stamp EXCEPT ![k] = s.lifecycle_sequence + 1],
              !.status = "ready",
              !.lifecycle_sequence = s.lifecycle_sequence + 1]

\* The snapshot put_source stores for a new artifact a of kind k.
WithSource(s, k, a) ==
    LET sources == [s.sources EXCEPT ![k] = a] IN
    [s EXCEPT !.sources = sources,
              !.stamp = [s.stamp EXCEPT ![k] = s.lifecycle_sequence + 1],
              !.status = IF Complete(sources) THEN "ready"
                                              ELSE "awaiting_sources",
              !.lifecycle_sequence = s.lifecycle_sequence + 1]

\* The last upload wins.
NeverConflicts(s, k, a) == FALSE

\* A different artifact is already stored for the kind.
Conflicts(s, k, a) == s.sources[k] \notin {a, NoArtifact}

\* put_source: the status is read again under the lock; an identical artifact
\* is acknowledged without a change and a different one is refused.
PutSource(w) ==
    LET b == job[w].batch
        k == job[w].kind
        a == job[w].artifact
        s == batches[b]
        open == s.status \notin {"running", "completed", "failed"}
    IN
    /\ pc[w] = "storing"
    /\ \/ /\ ~open
          /\ Answer(w, "SOURCES_IMMUTABLE")
          /\ UNCHANGED batches
       \/ /\ open
          /\ s.sources[k] = a
          /\ Answer(w, "idempotent")
          /\ UNCHANGED batches
       \/ /\ open
          /\ Conflicts(s, k, a)
          /\ Answer(w, "SOURCE_CONFLICT")
          /\ UNCHANGED batches
       \/ /\ open
          /\ s.sources[k] # a
          /\ ~Conflicts(s, k, a)
          /\ batches' = [batches EXCEPT ![b] = WithSource(s, k, a)]
          /\ Answer(w, "stored")

-----------------------------------------------------------------------------
\* A second request starts the run of a batch that is already running.
StartableWhileRunning(status) == status \in {"ready", "running"}

\* A failed batch may be run again.
StartableAfterFailure(status) == status \in {"ready", "failed"}

Startable(status) == status = "ready"

\* What begin_run answers when it does not start a run: a completed batch
\* answers with the result it has.
RunAnswer(status) ==
    CASE status = "absent" -> "BATCH_NOT_FOUND"
      [] status = "completed" -> "completed"
      [] status = "awaiting_sources" -> "BATCH_INCOMPLETE"
      [] status = "running" -> "RUN_ALREADY_IN_PROGRESS"
      [] OTHER -> "INVALID_LIFECYCLE"

\* begin_run marks the batch running and hands the worker the sources of the
\* snapshot to reconcile.
BeginRun(w, b) ==
    LET s == batches[b] IN
    /\ pc[w] = "idle"
    /\ \/ /\ ~Startable(s.status)
          /\ Answer(w, RunAnswer(s.status))
          /\ UNCHANGED batches
       \/ /\ Startable(s.status)
          /\ batches' = [batches EXCEPT ![b] = [s EXCEPT
                 !.status = "running",
                 !.lifecycle_sequence = s.lifecycle_sequence + 1]]
          /\ Carry(w, "reconciling", [batch |-> b, sources |-> s.sources])

\* An exception of the engine escapes the service.
ReconcileUncaught(w) ==
    /\ pc[w] = "reconciling"
    /\ \/ /\ pc' = [pc EXCEPT ![w] = "completing"]
          /\ UNCHANGED <<job, reply>>
       \/ Answer(w, "none")
    /\ UNCHANGED batches

\* The reconciliation itself, outside the lock.  It returns a result or raises;
\* every Exception it raises is caught and leads to fail_run.
Reconcile(w) ==
    /\ pc[w] = "reconciling"
    /\ \E label \in {"completing", "failing"} : pc' = [pc EXCEPT ![w] = label]
    /\ UNCHANGED <<batches, job, reply>>

\* A result that is stored by a change that leaves the batch running.
CompleteRunUnmarked(w) ==
    LET b == job[w].batch
        s == batches[b]
    IN
    /\ pc[w] = "completing" /\ s.status = "running"
    /\ batches' = [batches EXCEPT ![b] = [s EXCEPT
           !.result = job[w].sources,
           !.failure = 0,
           !.lifecycle_sequence = s.lifecycle_sequence + 1]]
    /\ Answer(w, "completed")

\* complete_run stores the result of the reconciled sources.
CompleteRun(w) ==
    LET b == job[w].batch
        s == batches[b]
    IN
    /\ pc[w] = "completing"
    /\ \/ /\ s.status # "running"
          /\ Answer(w, "INVALID_LIFECYCLE")
          /\ UNCHANGED batches
       \/ /\ s.status = "running"
          /\ batches' = [batches EXCEPT ![b] = [s EXCEPT
                 !.status = "completed",
                 !.result = job[w].sources,
                 !.failure = 0,
                 !.lifecycle_sequence = s.lifecycle_sequence + 1]]
          /\ Answer(w, "completed")

\* fail_run stores no result and the metadata of the failure.
FailRun(w) ==
    LET b == job[w].batch
        s == batches[b]
    IN
    /\ pc[w] = "failing"
    /\ \/ /\ s.status # "running"
          /\ Answer(w, "INVALID_LIFECYCLE")
          /\ UNCHANGED batches
       \/ /\ s.status = "running"
          /\ batches' = [batches EXCEPT ![b] = [s EXCEPT
                 !.status = "failed",
                 !.result = NoSources,
                 !.failure = s.lifecycle_sequence + 1,
                 !.lifecycle_sequence = s.lifecycle_sequence + 1]]
          /\ Answer(w, "failed")

-----------------------------------------------------------------------------
\* The steps of a request that has been received: they need no further input.
Continue(w) == PutSource(w) \/ Reconcile(w) \/ CompleteRun(w) \/ FailRun(w)

Next ==
    \E w \in Worker :
        \/ \E b \in Batch : CreateBatch(w, b) \/ BeginRun(w, b)
        \/ \E b \in Batch, k \in SourceKind, a \in Artifact :
               ReceiveUpload(w, b, k, a)
        \/ PutSource(w)
        \/ Reconcile(w)
        \/ CompleteRun(w)
        \/ FailRun(w)

Spec == Init /\ [][Next]_vars

\* A thread that serves a request keeps running; clients owe nothing.
FairSpec == Spec /\ \A w \in Worker : WF_vars(Continue(w))

-----------------------------------------------------------------------------
(***************************************************************************)
(* Properties                                                              *)
(***************************************************************************)
\* The workers that hold the run of b between begin_run and its outcome.
Runners(b) ==
    {w \in Worker : /\ pc[w] \in {"reconciling", "completing", "failing"}
                    /\ job[w].batch = b}

\* Every snapshot and every worker has the fields the code gives it.
Typed ==
    /\ batches \in [Batch -> BatchSnapshot]
    /\ pc \in [Worker -> {"idle", "storing", "reconciling", "completing",
                          "failing"}]
    /\ job \in [Worker -> UploadJob \cup RunJob \cup {NoJob}]
    /\ \A w \in Worker :
        /\ pc[w] = "idle" => job[w] = NoJob
        /\ pc[w] = "storing" => job[w] \in UploadJob
        /\ pc[w] \notin {"idle", "storing"} => job[w] \in RunJob
    /\ reply \in [Worker -> Reply]

\* Snapshots and workers are in states the code can represent: a snapshot has a
\* result only under the status that publishes it.
TypeOK ==
    /\ Typed
    /\ \A b \in Batch :
          batches[b].result # NoSources => batches[b].status = "completed"

\* The stored result is that of the sources the batch shows, all of them
\* present: the run worked on a snapshot taken before the lock was released,
\* and no upload validated meanwhile slipped in behind it.
ResultFromStoredSources ==
    \A b \in Batch : batches[b].status = "completed" =>
        /\ Complete(batches[b].sources)
        /\ batches[b].result = batches[b].sources

\* A batch is running exactly while one thread holds its run, so the outcome of
\* a run is never refused as INVALID_LIFECYCLE and never stored twice.
OneRunnerPerBatch ==
    \A b \in Batch :
        IF batches[b].status = "running"
        THEN \E w \in Worker : Runners(b) = {w}
        ELSE Runners(b) = {}

\* lifecycle_sequence counts the changes of the batch without gaps: creation,
\* one per stored source (each source carrying its own number), the start of
\* the run and its outcome, whose failure metadata carries the last number.
SequenceAccountsForEveryChange ==
    \A b \in Batch :
        LET s == batches[b]
            stored == Cardinality(Held(s.sources))
        IN
        /\ {s.stamp[k] : k \in Held(s.sources)} = 2 .. (stored + 1)
        /\ s.lifecycle_sequence =
               CASE s.status = "absent" -> 0
                 [] s.status \in {"awaiting_sources", "ready"} -> stored + 1
                 [] s.status = "running" -> stored + 2
                 [] OTHER -> stored + 3
        /\ s.failure = IF s.status = "failed" THEN s.lifecycle_sequence ELSE 0

\* No step replaces a stored source, touches the sources once a run has started,
\* or changes a completed or failed batch in any way (SOURCES_IMMUTABLE,
\* SOURCE_CONFLICT, and a failed batch cannot be rerun).
NothingStoredIsRewritten ==
    [][\A b \in Batch :
        LET s == batches[b]
            t == batches'[b]
        IN
        /\ \A k \in Held(s.sources) :
               t.sources[k] = s.sources[k] /\ t.stamp[k] = s.stamp[k]
        /\ s.status \in {"running", "completed", "failed"} =>
               t.sources = s.sources
        /\ s.status \in {"completed", "failed"} => t = s]_vars

\* A batch that is running gets an outcome: every exception of the engine ends
\* in fail_run, so no batch is left running.
EveryRunSettles ==
    \A b \in Batch :
        batches[b].status = "running" ~>
            batches[b].status \in {"completed", "failed"}

Phase(status) ==
    CASE status \in {"absent", "awaiting_sources", "ready"} -> "collecting"
      [] status = "running" -> "sealed"
      [] status = "completed" -> "published"
      [] status = "failed" -> "discarded"

Contract == INSTANCE BatchContract WITH
    phase <- [b \in Batch |-> Phase(batches[b].status)],
    sources <- [b \in Batch |-> batches[b].sources],
    output <- [b \in Batch |-> batches[b].result]

\* The threads together keep the promise of BatchContract.
ImplementsContract == Contract!Spec
=============================================================================
