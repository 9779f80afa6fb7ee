----------------------- MODULE BatchLifecycle_proofs -----------------------
(***************************************************************************)
(* Proofs about BatchLifecycle, for any batches, threads, source kinds and *)
(* artifacts.                                                              *)
(***************************************************************************)
EXTENDS BatchLifecycle, FiniteSetTheorems, TLAPS

InRun(w) == pc[w] \in {"reconciling", "completing", "failing"}

\* Two threads never hold the run of the same batch.
RunnerIsUnique ==
    \A v, w \in Worker :
        (InRun(v) /\ InRun(w) /\ job[v].batch = job[w].batch) => v = w

\* A running batch has a thread that holds its run.
RunnerExists ==
    \A b \in Batch : batches[b].status = "running" =>
        \E w \in Worker : InRun(w) /\ job[w].batch = b

\* A thread that holds a run holds it for a running batch, whose sources are
\* still those begin_run handed out.
RunnerIsCurrent ==
    \A w \in Worker : InRun(w) =>
        /\ batches[job[w].batch].status = "running"
        /\ batches[job[w].batch].sources = job[w].sources

\* From ready on, every source is there.
SealedIsComplete ==
    \A b \in Batch :
        batches[b].status \in {"ready", "running", "completed", "failed"} =>
            Complete(batches[b].sources)

\* A batch that was never created holds nothing.
AbsentIsEmpty ==
    \A b \in Batch : batches[b].status = "absent" =>
        batches[b].sources = NoSources

\* A batch has a result, that of its sources, exactly when it is completed.
ResultWhenCompleted ==
    \A b \in Batch :
        batches[b].result = IF batches[b].status = "completed"
                            THEN batches[b].sources ELSE NoSources

-----------------------------------------------------------------------------
LEMMA NoSourcesType == NoSources \in Sources
  BY DEF NoSources, Sources

LEMMA InitType == Init => Typed
  BY NoSourcesType
  DEF Init, Typed, BatchSnapshot, BatchStatus, Absent, Reply

LEMMA WithSourceType ==
  ASSUME NEW s \in BatchSnapshot, NEW k \in SourceKind, NEW a \in Artifact
  PROVE  WithSource(s, k, a) \in BatchSnapshot
  <1> DEFINE n == s.lifecycle_sequence + 1
             sources == [s.sources EXCEPT ![k] = a]
             stamp == [s.stamp EXCEPT ![k] = n]
             status == IF Complete(sources) THEN "ready" ELSE "awaiting_sources"
  <1>1. n \in Nat
    BY DEF BatchSnapshot
  <1>2. sources \in Sources
    BY DEF BatchSnapshot, Sources
  <1>3. stamp \in [SourceKind -> Nat]
    BY <1>1 DEF BatchSnapshot
  <1>4. status \in BatchStatus
    BY DEF BatchStatus
  <1>5. WithSource(s, k, a) =
          [s EXCEPT !.sources = sources, !.stamp = stamp, !.status = status,
                    !.lifecycle_sequence = n]
    BY DEF WithSource
  <1> HIDE DEF n, sources, stamp, status
  <1> QED
    BY <1>1, <1>2, <1>3, <1>4, <1>5 DEF BatchSnapshot

\* The snapshots that the run of a batch stores.
LEMMA RunSnapshotType ==
  ASSUME NEW s \in BatchSnapshot, NEW status \in BatchStatus,
         NEW result \in Sources, NEW failure \in Nat
  PROVE  /\ s.lifecycle_sequence + 1 \in Nat
         /\ [s EXCEPT !.status = status,
                      !.lifecycle_sequence = s.lifecycle_sequence + 1]
               \in BatchSnapshot
         /\ [s EXCEPT !.status = status, !.result = result, !.failure = failure,
                      !.lifecycle_sequence = s.lifecycle_sequence + 1]
               \in BatchSnapshot
  <1> DEFINE n == s.lifecycle_sequence + 1
  <1>1. n \in Nat
    BY DEF BatchSnapshot
  <1> HIDE DEF n
  <1>2. [s EXCEPT !.status = status, !.lifecycle_sequence = n] \in BatchSnapshot
    BY <1>1 DEF BatchSnapshot
  <1>3. [s EXCEPT !.status = status, !.result = result, !.failure = failure,
                  !.lifecycle_sequence = n] \in BatchSnapshot
    BY <1>1 DEF BatchSnapshot
  <1> QED
    BY <1>1, <1>2, <1>3 DEF n

\* What the snapshots of a run keep and change.
LEMMA RunSnapshotFields ==
  ASSUME NEW s \in BatchSnapshot, NEW status, NEW result, NEW failure, NEW n
  PROVE  LET t == [s EXCEPT !.status = status, !.lifecycle_sequence = n]
             u == [s EXCEPT !.status = status, !.result = result,
                            !.failure = failure, !.lifecycle_sequence = n]
         IN  /\ t.status = status /\ u.status = status
             /\ t.sources = s.sources /\ u.sources = s.sources
             /\ t.result = s.result /\ u.result = result
             /\ t.stamp = s.stamp /\ u.stamp = s.stamp
  BY DEF BatchSnapshot

\* Every step keeps the types.
LEMMA NextType ==
  ASSUME Typed, [Next]_vars
  PROVE  Typed'
  <1> USE DEF Typed
  <1>1. ASSUME NEW w \in Worker, NEW b \in Batch, CreateBatch(w, b)
        PROVE  Typed'
    <2> DEFINE t == [Absent EXCEPT !.status = "awaiting_sources",
                                   !.lifecycle_sequence = 1]
    <2>1. t \in BatchSnapshot
      BY NoSourcesType DEF Absent, BatchSnapshot, BatchStatus
    <2> HIDE DEF t
    <2>2. ASSUME NEW code \in Reply, Answer(w, code)
          PROVE  /\ pc' = [pc EXCEPT ![w] = "idle"]
                 /\ job' = [job EXCEPT ![w] = NoJob]
                 /\ reply' \in [Worker -> Reply]
      BY <2>2 DEF Answer
    <2>3. \E code \in Reply : Answer(w, code)
      BY <1>1 DEF CreateBatch, Reply, ClockDefect
    <2>4. batches' \in [Batch -> BatchSnapshot]
      BY <1>1, <2>1 DEF CreateBatch, t
    <2> QED
      BY <2>2, <2>3, <2>4
  <1>2. ASSUME NEW w \in Worker, NEW b \in Batch, NEW k \in SourceKind,
               NEW a \in Artifact, ReceiveUpload(w, b, k, a)
        PROVE  Typed'
    <2>1. Defect[<<k, a>>] \in UploadDefect \cup {"none"}
      BY BatchAssumption
    <2>2. [batch |-> b, kind |-> k, artifact |-> a] \in UploadJob
      BY DEF UploadJob
    <2> QED
      BY <1>2, <2>1, <2>2 DEF ReceiveUpload, Answer, Carry, Reply
  <1>3. ASSUME NEW w \in Worker, PutSource(w)
        PROVE  Typed'
    <2>1. /\ job[w].batch \in Batch
          /\ job[w].kind \in SourceKind
          /\ job[w].artifact \in Artifact
      BY <1>3 DEF PutSource, UploadJob
    <2>2. WithSource(batches[job[w].batch], job[w].kind, job[w].artifact)
            \in BatchSnapshot
      BY <2>1, WithSourceType
    <2> QED
      BY <1>3, <2>1, <2>2 DEF PutSource, Answer, Reply
  <1>4. ASSUME NEW w \in Worker, NEW b \in Batch, BeginRun(w, b)
        PROVE  Typed'
    <2>1. batches[b] \in BatchSnapshot
      OBVIOUS
    <2>2. CASE ~Startable(batches[b].status)
      <3>1. RunAnswer(batches[b].status) \in Reply
        BY <2>1, <2>2 DEF RunAnswer, Reply, BatchSnapshot, BatchStatus, Startable
      <3>2. UNCHANGED batches /\ Answer(w, RunAnswer(batches[b].status))
        BY <1>4, <2>2 DEF BeginRun
      <3> QED
        BY <3>1, <3>2 DEF Answer
    <2>3. CASE Startable(batches[b].status)
      <3>1. [batch |-> b, sources |-> batches[b].sources] \in RunJob
        BY <2>1 DEF RunJob, BatchSnapshot
      <3>2. [batches[b] EXCEPT !.status = "running",
                !.lifecycle_sequence = batches[b].lifecycle_sequence + 1]
              \in BatchSnapshot
        BY <2>1, RunSnapshotType, NoSourcesType DEF BatchStatus
      <3> QED
        BY <1>4, <2>3, <3>1, <3>2 DEF BeginRun, Carry, Reply
    <2> QED
      BY <2>2, <2>3
  <1>5. ASSUME NEW w \in Worker, Reconcile(w)
        PROVE  Typed'
    BY <1>5 DEF Reconcile
  <1>6. ASSUME NEW w \in Worker, CompleteRun(w)
        PROVE  Typed'
    <2>1. job[w].batch \in Batch /\ job[w].sources \in Sources
      BY <1>6 DEF CompleteRun, RunJob
    <2>2. batches[job[w].batch] \in BatchSnapshot
      BY <2>1
    <2>3. [batches[job[w].batch] EXCEPT
              !.status = "completed", !.result = job[w].sources, !.failure = 0,
              !.lifecycle_sequence = batches[job[w].batch].lifecycle_sequence + 1]
            \in BatchSnapshot
      BY <2>1, <2>2, RunSnapshotType DEF BatchStatus
    <2> QED
      BY <1>6, <2>1, <2>3 DEF CompleteRun, Answer, Reply
  <1>7. ASSUME NEW w \in Worker, FailRun(w)
        PROVE  Typed'
    <2>1. job[w].batch \in Batch
      BY <1>7 DEF FailRun, RunJob
    <2>2. batches[job[w].batch] \in BatchSnapshot
      BY <2>1
    <2>3. [batches[job[w].batch] EXCEPT
              !.status = "failed", !.result = NoSources,
              !.failure = batches[job[w].batch].lifecycle_sequence + 1,
              !.lifecycle_sequence = batches[job[w].batch].lifecycle_sequence + 1]
            \in BatchSnapshot
      BY <2>1, <2>2, RunSnapshotType, NoSourcesType DEF BatchStatus
    <2> QED
      BY <1>7, <2>1, <2>3 DEF FailRun, Answer, Reply
  <1>8. CASE UNCHANGED vars
    BY <1>8 DEF vars
  <1> QED
    BY <1>1, <1>2, <1>3, <1>4, <1>5, <1>6, <1>7, <1>8 DEF Next

-----------------------------------------------------------------------------
\* Who runs what, and on which sources.
RunInv ==
    /\ RunnerIsUnique
    /\ RunnerExists
    /\ RunnerIsCurrent
    /\ SealedIsComplete
    /\ AbsentIsEmpty
    /\ ResultWhenCompleted

LEMMA InitRun == Init => RunInv
  BY DEF Init, RunInv, RunnerIsUnique, RunnerExists, RunnerIsCurrent,
         SealedIsComplete, AbsentIsEmpty, ResultWhenCompleted, InRun, Absent

\* A step that changes no snapshot and lets nobody enter or leave a run.
LEMMA QuietStep ==
  ASSUME Typed, RunInv, UNCHANGED batches,
         \A w \in Worker : InRun(w)' <=> InRun(w),
         \A w \in Worker : InRun(w) => job'[w] = job[w]
  PROVE  RunInv'
  BY DEF RunInv, RunnerIsUnique, RunnerExists, RunnerIsCurrent,
         SealedIsComplete, AbsentIsEmpty, ResultWhenCompleted

\* A step that changes the snapshot of a batch nobody runs, to one that is not
\* running, by a thread that holds no run.
LEMMA UnsealedStep ==
  ASSUME Typed, RunInv,
         NEW b \in Batch, NEW w \in Worker,
         batches[b].status \in {"absent", "awaiting_sources", "ready"},
         batches'[b].status \in {"awaiting_sources", "ready"},
         batches'[b].status = "ready" => Complete(batches'[b].sources),
         batches'[b].result = batches[b].result,
         \A c \in Batch \ {b} : batches'[c] = batches[c],
         ~InRun(w), ~InRun(w)',
         \A v \in Worker \ {w} : pc'[v] = pc[v] /\ job'[v] = job[v]
  PROVE  RunInv'
  <1>1. \A v \in Worker : InRun(v)' <=> InRun(v)
    BY DEF InRun
  <1>2. \A v \in Worker : InRun(v) => job'[v] = job[v] /\ job[v].batch # b
    BY DEF RunInv, RunnerIsCurrent
  <1>3. \A v \in Worker : InRun(v) => job[v].batch \in Batch
    BY DEF Typed, InRun, RunJob
  <1>4. RunnerIsUnique' /\ RunnerExists' /\ RunnerIsCurrent'
    BY <1>1, <1>2, <1>3
    DEF RunInv, RunnerIsUnique, RunnerExists, RunnerIsCurrent
  <1>5. SealedIsComplete' /\ AbsentIsEmpty' /\ ResultWhenCompleted'
    BY DEF RunInv, SealedIsComplete, AbsentIsEmpty, ResultWhenCompleted
  <1> QED
    BY <1>4, <1>5 DEF RunInv

\* A step by which the thread w that runs b leaves its run, with the outcome.
LEMMA SettlingStep ==
  ASSUME Typed, RunInv,
         NEW w \in Worker, InRun(w), ~InRun(w)',
         NEW b, b = job[w].batch,
         batches'[b].status \in {"completed", "failed"},
         batches'[b].sources = batches[b].sources,
         batches'[b].result = IF batches'[b].status = "completed"
                              THEN job[w].sources ELSE NoSources,
         \A c \in Batch \ {b} : batches'[c] = batches[c],
         \A v \in Worker \ {w} : pc'[v] = pc[v] /\ job'[v] = job[v]
  PROVE  RunInv'
  <1>1. b \in Batch
    BY DEF Typed, InRun, RunJob
  <1>2. \A v \in Worker : InRun(v)' =>
            v # w /\ InRun(v) /\ job'[v] = job[v] /\ job[v].batch # b
    BY DEF RunInv, RunnerIsUnique, InRun
  <1>3. \A v \in Worker : InRun(v) => job[v].batch \in Batch
    BY DEF Typed, InRun, RunJob
  <1>4. RunnerIsUnique' /\ RunnerIsCurrent'
    BY <1>1, <1>2, <1>3
    DEF RunInv, RunnerIsUnique, RunnerIsCurrent
  <1>5. RunnerExists'
    <2> SUFFICES ASSUME NEW c \in Batch, batches'[c].status = "running"
                 PROVE  \E v \in Worker : InRun(v)' /\ job'[v].batch = c
      BY DEF RunnerExists
    <2>1. c # b /\ batches[c].status = "running"
      OBVIOUS
    <2>2. PICK v \in Worker : InRun(v) /\ job[v].batch = c
      BY <2>1 DEF RunInv, RunnerExists
    <2>3. v # w
      BY <2>1, <2>2
    <2> QED
      BY <2>2, <2>3 DEF InRun
  <1>6. SealedIsComplete' /\ AbsentIsEmpty'
    BY DEF RunInv, SealedIsComplete, AbsentIsEmpty, RunnerIsCurrent
  <1>7. ResultWhenCompleted'
    BY DEF RunInv, ResultWhenCompleted, RunnerIsCurrent
  <1> QED
    BY <1>4, <1>5, <1>6, <1>7 DEF RunInv

\* A step by which the idle thread w takes up the run of the ready batch b.
LEMMA StartingStep ==
  ASSUME Typed, RunInv,
         NEW w \in Worker, NEW b \in Batch, ~InRun(w), InRun(w)',
         job'[w].batch = b, job'[w].sources = batches[b].sources,
         batches[b].status = "ready", batches'[b].status = "running",
         batches'[b].sources = batches[b].sources,
         batches'[b].result = batches[b].result,
         \A c \in Batch \ {b} : batches'[c] = batches[c],
         \A v \in Worker \ {w} : pc'[v] = pc[v] /\ job'[v] = job[v]
  PROVE  RunInv'
  <1>1. \A v \in Worker \ {w} :
            InRun(v)' => InRun(v) /\ job'[v] = job[v] /\ job[v].batch # b
    BY DEF RunInv, RunnerIsCurrent, InRun
  <1>2. \A v \in Worker : InRun(v) => job[v].batch \in Batch
    BY DEF Typed, InRun, RunJob
  <1>3. RunnerIsUnique' /\ RunnerIsCurrent'
    BY <1>1, <1>2 DEF RunInv, RunnerIsUnique, RunnerIsCurrent
  <1>4. RunnerExists'
    <2> SUFFICES ASSUME NEW c \in Batch, batches'[c].status = "running", c # b
                 PROVE  \E v \in Worker : InRun(v)' /\ job'[v].batch = c
      BY DEF RunnerExists
    <2>1. PICK v \in Worker : InRun(v) /\ job[v].batch = c
      BY DEF RunInv, RunnerExists
    <2> QED
      BY <2>1 DEF InRun
  <1>5. SealedIsComplete' /\ AbsentIsEmpty' /\ ResultWhenCompleted'
    BY DEF RunInv, SealedIsComplete, AbsentIsEmpty, ResultWhenCompleted
  <1> QED
    BY <1>3, <1>4, <1>5 DEF RunInv

\* Every step keeps the run invariant.
LEMMA NextRun ==
  ASSUME Typed, RunInv, [Next]_vars
  PROVE  RunInv'
  <1> USE DEF Typed
  <1>1. ASSUME NEW w \in Worker, NEW b \in Batch, CreateBatch(w, b)
        PROVE  RunInv'
    <2>1. ~InRun(w) /\ ~InRun(w)'
          /\ \A v \in Worker \ {w} : pc'[v] = pc[v] /\ job'[v] = job[v]
      BY <1>1 DEF CreateBatch, Answer, InRun
    <2>2. CASE UNCHANGED batches
      <3>1. \A v \in Worker : /\ InRun(v)' <=> InRun(v)
                              /\ InRun(v) => job'[v] = job[v]
        BY <2>1 DEF InRun
      <3> QED
        BY <2>2, <3>1, QuietStep
    <2>3. CASE ~UNCHANGED batches
      <3>1. /\ batches[b].status = "absent"
            /\ batches'[b].status = "awaiting_sources"
            /\ batches'[b].result = NoSources
            /\ \A c \in Batch \ {b} : batches'[c] = batches[c]
        BY <1>1, <2>3 DEF CreateBatch, Absent
      <3>2. batches[b].result = NoSources
        BY <3>1 DEF RunInv, ResultWhenCompleted
      <3> QED
        BY <2>1, <3>1, <3>2, UnsealedStep
    <2> QED
      BY <2>2, <2>3
  <1>2. ASSUME NEW w \in Worker, NEW b \in Batch, NEW k \in SourceKind,
               NEW a \in Artifact, ReceiveUpload(w, b, k, a)
        PROVE  RunInv'
    <2>1. /\ \A v \in Worker : InRun(v)' <=> InRun(v)
          /\ \A v \in Worker : InRun(v) => job'[v] = job[v]
          /\ UNCHANGED batches
      BY <1>2 DEF ReceiveUpload, Answer, Carry, InRun
    <2> QED
      BY <2>1, QuietStep
  <1>3. ASSUME NEW w \in Worker, PutSource(w)
        PROVE  RunInv'
    <2> DEFINE b == job[w].batch
    <2>1. b \in Batch
      BY <1>3 DEF PutSource, UploadJob
    <2>2. /\ ~InRun(w) /\ ~InRun(w)'
          /\ \A v \in Worker \ {w} : pc'[v] = pc[v] /\ job'[v] = job[v]
      BY <1>3 DEF PutSource, Answer, InRun
    <2>3. CASE UNCHANGED batches
      <3>1. \A v \in Worker : /\ InRun(v)' <=> InRun(v)
                              /\ InRun(v) => job'[v] = job[v]
        BY <2>2 DEF InRun
      <3> QED
        BY <2>3, <3>1, QuietStep
    <2>4. CASE batches' = [batches EXCEPT ![b] =
                             WithSource(@, job[w].kind, job[w].artifact)]
               /\ batches[b].status \notin {"running", "completed", "failed"}
      <3>1. batches[b] \in BatchSnapshot
        BY <2>1
      <3>2. /\ batches'[b].status \in {"ready", "awaiting_sources"}
            /\ batches'[b].status = "ready" => Complete(batches'[b].sources)
            /\ batches'[b].result = batches[b].result
        BY <2>1, <2>4, <3>1 DEF WithSource, BatchSnapshot
      <3>3. batches[b].status \in {"absent", "awaiting_sources", "ready"}
        BY <2>4, <3>1 DEF BatchSnapshot, BatchStatus
      <3>4. \A c \in Batch \ {b} : batches'[c] = batches[c]
        BY <2>4
      <3> QED
        BY <2>1, <2>2, <3>2, <3>3, <3>4, UnsealedStep
    <2> QED
      BY <1>3, <2>3, <2>4 DEF PutSource
  <1>4. ASSUME NEW w \in Worker, NEW b \in Batch, BeginRun(w, b)
        PROVE  RunInv'
    <2>1. CASE ~Startable(batches[b].status)
      <3>1. /\ \A v \in Worker : InRun(v)' <=> InRun(v)
            /\ \A v \in Worker : InRun(v) => job'[v] = job[v]
            /\ UNCHANGED batches
        BY <1>4, <2>1 DEF BeginRun, Answer, InRun
      <3> QED
        BY <3>1, QuietStep
    <2>2. CASE Startable(batches[b].status)
      <3>1. /\ ~InRun(w) /\ InRun(w)'
            /\ job'[w].batch = b /\ job'[w].sources = batches[b].sources
            /\ \A v \in Worker \ {w} : pc'[v] = pc[v] /\ job'[v] = job[v]
        BY <1>4, <2>2 DEF BeginRun, Carry, InRun
      <3>2. batches[b] \in BatchSnapshot
        OBVIOUS
      <3>3. /\ batches[b].status = "ready" /\ batches'[b].status = "running"
            /\ batches'[b].sources = batches[b].sources
            /\ batches'[b].result = batches[b].result
            /\ \A c \in Batch \ {b} : batches'[c] = batches[c]
        <4> DEFINE n == batches[b].lifecycle_sequence + 1
        <4>1. /\ batches[b].status = "ready"
              /\ batches'[b] = [batches[b] EXCEPT !.status = "running",
                                                  !.lifecycle_sequence = n]
              /\ \A c \in Batch \ {b} : batches'[c] = batches[c]
          BY <1>4, <2>2 DEF BeginRun, Startable
        <4> HIDE DEF n, Typed
        <4> QED
          BY <3>2, <4>1, RunSnapshotFields
      <3> QED
        BY <3>1, <3>3, StartingStep
    <2> QED
      BY <2>1, <2>2
  <1>5. ASSUME NEW w \in Worker, Reconcile(w)
        PROVE  RunInv'
    <2>1. /\ \A v \in Worker : InRun(v)' <=> InRun(v)
          /\ UNCHANGED <<batches, job>>
      BY <1>5 DEF Reconcile, InRun
    <2> QED
      BY <2>1, QuietStep
  <1>6. ASSUME NEW w \in Worker, CompleteRun(w) \/ FailRun(w)
        PROVE  RunInv'
    <2> DEFINE b == job[w].batch
    <2>1. /\ InRun(w) /\ ~InRun(w)'
          /\ \A v \in Worker \ {w} : pc'[v] = pc[v] /\ job'[v] = job[v]
      BY <1>6 DEF CompleteRun, FailRun, Answer, InRun
    <2>2. b \in Batch /\ batches[b].status = "running"
      BY <2>1 DEF RunInv, RunnerIsCurrent, InRun, RunJob
    <2>3. batches[b] \in BatchSnapshot
      BY <2>2
    <2>4. /\ batches'[b].status \in {"completed", "failed"}
          /\ batches'[b].sources = batches[b].sources
          /\ batches'[b].result = IF batches'[b].status = "completed"
                                  THEN job[w].sources ELSE NoSources
          /\ \A c \in Batch \ {b} : batches'[c] = batches[c]
      <3> DEFINE n == batches[b].lifecycle_sequence + 1
      <3>1. /\ \/ batches'[b] = [batches[b] EXCEPT
                       !.status = "completed", !.result = job[w].sources,
                       !.failure = 0, !.lifecycle_sequence = n]
               \/ batches'[b] = [batches[b] EXCEPT
                       !.status = "failed", !.result = NoSources,
                       !.failure = n, !.lifecycle_sequence = n]
            /\ \A c \in Batch \ {b} : batches'[c] = batches[c]
        BY <1>6, <2>2 DEF CompleteRun, FailRun
      <3> HIDE DEF b, n, Typed
      <3>2. CASE batches'[b] = [batches[b] EXCEPT
                       !.status = "completed", !.result = job[w].sources,
                       !.failure = 0, !.lifecycle_sequence = n]
        BY <2>3, <3>1, <3>2, RunSnapshotFields
      <3>3. CASE batches'[b] = [batches[b] EXCEPT
                       !.status = "failed", !.result = NoSources,
                       !.failure = n, !.lifecycle_sequence = n]
        BY <2>3, <3>1, <3>3, RunSnapshotFields
      <3> QED
        BY <3>1, <3>2, <3>3
    <2> QED
      BY <2>1, <2>4, SettlingStep
  <1>7. CASE UNCHANGED vars
    BY <1>7, QuietStep DEF vars, InRun
  <1> QED
    BY <1>1, <1>2, <1>3, <1>4, <1>5, <1>6, <1>7 DEF Next

\* Threads, runs and snapshots stay consistent in every reachable state.
THEOREM RunsAreConsistent == Spec => [](Typed /\ RunInv)
  <1>1. Init => Typed /\ RunInv
    BY InitType, InitRun
  <1>2. Typed /\ RunInv /\ [Next]_vars => (Typed /\ RunInv)'
    BY NextType, NextRun
  <1> QED
    BY <1>1, <1>2, PTL DEF Spec

\* Every snapshot and every worker is always in a state the code can represent.
THEOREM TypeCorrect == Spec => []TypeOK
  <1>1. Typed /\ RunInv => TypeOK
    BY DEF RunInv, ResultWhenCompleted, TypeOK
  <1> QED
    BY <1>1, RunsAreConsistent, PTL

\* A batch is running exactly while one thread holds its run.
THEOREM OneRunner == Spec => []OneRunnerPerBatch
  <1>1. RunInv => OneRunnerPerBatch
    BY DEF RunInv, RunnerIsUnique, RunnerExists, RunnerIsCurrent, InRun,
           OneRunnerPerBatch, Runners
  <1> QED
    BY <1>1, RunsAreConsistent, PTL

\* A completed batch shows the result of exactly the sources it shows.
THEOREM ResultIsOfStoredSources == Spec => []ResultFromStoredSources
  <1>1. RunInv => ResultFromStoredSources
    BY DEF RunInv, SealedIsComplete, ResultWhenCompleted,
           ResultFromStoredSources
  <1> QED
    BY <1>1, RunsAreConsistent, PTL

-----------------------------------------------------------------------------
\* The ways a step changes the snapshot of b.
Created(b) ==
    /\ batches[b].status = "absent" /\ batches'[b].status = "awaiting_sources"
    /\ batches'[b].sources = NoSources
    /\ batches'[b].result = batches[b].result

Stored(b) ==
    \E k \in SourceKind, a \in Artifact :
        /\ batches[b].status \in {"absent", "awaiting_sources", "ready"}
        /\ batches'[b].status \in {"awaiting_sources", "ready"}
        /\ batches[b].sources[k] = NoArtifact
        /\ batches'[b].sources = [batches[b].sources EXCEPT ![k] = a]
        /\ \A i \in SourceKind \ {k} : batches'[b].stamp[i] = batches[b].stamp[i]
        /\ batches'[b].result = batches[b].result

Started(b) ==
    /\ batches[b].status = "ready" /\ batches'[b].status = "running"
    /\ batches'[b].sources = batches[b].sources
    /\ batches'[b].stamp = batches[b].stamp
    /\ batches'[b].result = batches[b].result

Settled(b) ==
    /\ batches[b].status = "running"
    /\ batches'[b].status \in {"completed", "failed"}
    /\ batches'[b].sources = batches[b].sources
    /\ batches'[b].stamp = batches[b].stamp
    /\ batches'[b].result = IF batches'[b].status = "completed"
                            THEN batches[b].sources ELSE batches[b].result

\* A step leaves the repository alone or changes one snapshot in one of them.
LEMMA StepEffect ==
  ASSUME Typed, RunInv, [Next]_vars
  PROVE  \/ UNCHANGED batches
         \/ \E b \in Batch :
               /\ \A c \in Batch \ {b} : batches'[c] = batches[c]
               /\ Created(b) \/ Stored(b) \/ Started(b) \/ Settled(b)
  <1> DEFINE Effect(b) == /\ \A c \in Batch \ {b} : batches'[c] = batches[c]
                          /\ Created(b) \/ Stored(b) \/ Started(b) \/ Settled(b)
  <1> SUFFICES UNCHANGED batches \/ \E b \in Batch : Effect(b)
    OBVIOUS
  <1>1. ASSUME NEW w \in Worker, NEW b \in Batch, CreateBatch(w, b)
        PROVE  UNCHANGED batches \/ Effect(b)
    BY <1>1
    DEF CreateBatch, Created, Absent, Typed, RunInv, ResultWhenCompleted
  <1>2. ASSUME NEW w \in Worker, PutSource(w)
        PROVE  UNCHANGED batches \/ \E b \in Batch : Effect(b)
    <2> DEFINE b == job[w].batch
               k == job[w].kind
               a == job[w].artifact
    <2>1. b \in Batch /\ k \in SourceKind /\ a \in Artifact
      BY <1>2 DEF PutSource, UploadJob, Typed
    <2>2. CASE UNCHANGED batches
      BY <2>2
    <2>3. CASE /\ batches' = [batches EXCEPT ![b] = WithSource(batches[b], k, a)]
               /\ batches[b].status \notin {"running", "completed", "failed"}
               /\ batches[b].sources[k] # a
               /\ ~Conflicts(batches[b], k, a)
      <3>1. batches[b] \in BatchSnapshot
        BY <2>1 DEF Typed
      <3>2. batches'[b] = WithSource(batches[b], k, a)
        BY <2>1, <2>3 DEF Typed
      <3>3. batches[b].sources[k] = NoArtifact
        BY <2>3 DEF Conflicts
      <3>4. batches[b].status \in {"absent", "awaiting_sources", "ready"}
        BY <2>3, <3>1 DEF BatchSnapshot, BatchStatus
      <3>5. /\ batches'[b].sources = [batches[b].sources EXCEPT ![k] = a]
            /\ batches'[b].status \in {"awaiting_sources", "ready"}
            /\ batches'[b].result = batches[b].result
            /\ \A i \in SourceKind \ {k} :
                  batches'[b].stamp[i] = batches[b].stamp[i]
        BY <3>1, <3>2 DEF WithSource, BatchSnapshot
      <3>6. Stored(b)
        BY <2>1, <3>3, <3>4, <3>5 DEF Stored
      <3> QED
        BY <2>1, <2>3, <3>6
    <2> QED
      BY <1>2, <2>2, <2>3 DEF PutSource
  <1>3. ASSUME NEW w \in Worker, NEW b \in Batch, BeginRun(w, b)
        PROVE  UNCHANGED batches \/ Effect(b)
    <2> DEFINE n == batches[b].lifecycle_sequence + 1
    <2>1. CASE UNCHANGED batches
      BY <2>1
    <2>2. CASE /\ batches' = [batches EXCEPT ![b] =
                                [batches[b] EXCEPT !.status = "running",
                                                   !.lifecycle_sequence = n]]
               /\ batches[b].status = "ready"
      <3>1. batches[b] \in BatchSnapshot
        BY DEF Typed
      <3>2. batches'[b] = [batches[b] EXCEPT !.status = "running",
                                             !.lifecycle_sequence = n]
        BY <2>2 DEF Typed
      <3> HIDE DEF n
      <3>3. Started(b)
        <4>1. /\ batches'[b].status = "running"
              /\ batches'[b].sources = batches[b].sources
              /\ batches'[b].stamp = batches[b].stamp
              /\ batches'[b].result = batches[b].result
          BY <3>1, <3>2, RunSnapshotFields
        <4> QED
          BY <2>2, <4>1 DEF Started
      <3> QED
        BY <2>2, <3>3
    <2> QED
      BY <1>3, <2>1, <2>2 DEF BeginRun, Startable
  <1>4. ASSUME NEW w \in Worker, CompleteRun(w) \/ FailRun(w)
        PROVE  \E b \in Batch : Effect(b)
    <2> DEFINE b == job[w].batch
               n == batches[b].lifecycle_sequence + 1
    <2>1. InRun(w)
      BY <1>4 DEF CompleteRun, FailRun, InRun
    <2>2. /\ b \in Batch /\ batches[b].status = "running"
          /\ job[w].sources = batches[b].sources
          /\ batches[b].result = NoSources
      BY <2>1 DEF RunInv, RunnerIsCurrent, ResultWhenCompleted, InRun, RunJob,
                  Typed
    <2>3. batches[b] \in BatchSnapshot
      BY <2>2 DEF Typed
    <2>4. /\ \/ batches'[b] = [batches[b] EXCEPT
                     !.status = "completed", !.result = batches[b].sources,
                     !.failure = 0, !.lifecycle_sequence = n]
             \/ batches'[b] = [batches[b] EXCEPT
                     !.status = "failed", !.result = NoSources,
                     !.failure = n, !.lifecycle_sequence = n]
          /\ \A c \in Batch \ {b} : batches'[c] = batches[c]
      BY <1>4, <2>2 DEF CompleteRun, FailRun, Typed
    <2> HIDE DEF b, n
    <2>5. ASSUME batches'[b] = [batches[b] EXCEPT
                     !.status = "completed", !.result = batches[b].sources,
                     !.failure = 0, !.lifecycle_sequence = n]
          PROVE  Settled(b)
      <3>1. /\ batches'[b].status = "completed"
            /\ batches'[b].sources = batches[b].sources
            /\ batches'[b].stamp = batches[b].stamp
            /\ batches'[b].result = batches[b].sources
        BY <2>3, <2>5, RunSnapshotFields
      <3> QED
        BY <2>2, <3>1 DEF Settled
    <2>6. ASSUME batches'[b] = [batches[b] EXCEPT
                     !.status = "failed", !.result = NoSources,
                     !.failure = n, !.lifecycle_sequence = n]
          PROVE  Settled(b)
      <3>1. /\ batches'[b].status = "failed"
            /\ batches'[b].sources = batches[b].sources
            /\ batches'[b].stamp = batches[b].stamp
            /\ batches'[b].result = NoSources
        BY <2>3, <2>6, RunSnapshotFields
      <3> QED
        BY <2>2, <3>1 DEF Settled
    <2>7. Settled(b)
      BY <2>4, <2>5, <2>6
    <2> QED
      BY <2>2, <2>4, <2>7
  <1> QED
    BY <1>1, <1>2, <1>3, <1>4 DEF Next, vars, ReceiveUpload, Reconcile

\* No step replaces a stored source, touches the sources of a sealed batch or
\* changes a completed or failed one.
THEOREM StoredIsNeverRewritten == Spec => NothingStoredIsRewritten
  <1> DEFINE Kept(b) ==
        LET s == batches[b]
            t == batches'[b]
        IN
        /\ \A k \in Held(s.sources) :
               t.sources[k] = s.sources[k] /\ t.stamp[k] = s.stamp[k]
        /\ s.status \in {"running", "completed", "failed"} =>
               t.sources = s.sources
        /\ s.status \in {"completed", "failed"} => t = s
  <1>1. Typed /\ RunInv /\ [Next]_vars => [\A b \in Batch : Kept(b)]_vars
    <2> SUFFICES ASSUME Typed, RunInv, [Next]_vars, NEW b \in Batch
                 PROVE  Kept(b)
      OBVIOUS
    <2>1. CASE UNCHANGED batches \/ batches'[b] = batches[b]
      BY <2>1
    <2>2. CASE Created(b)
      BY <2>2 DEF Created, RunInv, AbsentIsEmpty, NoSources, Held
    <2>3. CASE Stored(b)
      <3>1. batches[b] \in BatchSnapshot
        BY DEF Typed
      <3> QED
        BY <2>3, <3>1 DEF Stored, Held, BatchSnapshot, Sources
    <2>4. CASE Started(b) \/ Settled(b)
      BY <2>4 DEF Started, Settled
    <2> QED
      BY <2>1, <2>2, <2>3, <2>4, StepEffect
  <1> QED
    BY <1>1, RunsAreConsistent, PTL DEF Spec, NothingStoredIsRewritten

-----------------------------------------------------------------------------
\* What SequenceAccountsForEveryChange says of one snapshot.
Accounted(s) ==
    LET stored == Cardinality(Held(s.sources)) IN
    /\ {s.stamp[k] : k \in Held(s.sources)} = 2 .. (stored + 1)
    /\ s.lifecycle_sequence =
           CASE s.status = "absent" -> 0
             [] s.status \in {"awaiting_sources", "ready"} -> stored + 1
             [] s.status = "running" -> stored + 2
             [] OTHER -> stored + 3
    /\ s.failure = IF s.status = "failed" THEN s.lifecycle_sequence ELSE 0

\* An upload is only ever carried to a batch that exists.
UploadsHaveBatch ==
    \A w \in Worker :
        pc[w] = "storing" => batches[job[w].batch].status # "absent"

CountInv == UploadsHaveBatch /\ \A b \in Batch : Accounted(batches[b])

LEMMA HeldIsFinite ==
  ASSUME NEW sources
  PROVE  /\ IsFiniteSet(Held(sources))
         /\ Cardinality(Held(sources)) \in Nat
  BY BatchAssumption, FS_Subset, FS_CardinalityType DEF Held

LEMMA NothingIsHeld == Held(NoSources) = {} /\ Cardinality(Held(NoSources)) = 0
  <1>1. Held(NoSources) = {}
    BY DEF Held, NoSources
  <1> QED
    BY <1>1, FS_EmptySet

LEMMA AbsentAccounted == Accounted(Absent)
  <1>1. {Absent.stamp[k] : k \in Held(Absent.sources)} = {}
    BY NothingIsHeld DEF Absent
  <1>2. Cardinality(Held(Absent.sources)) = 0
    BY NothingIsHeld DEF Absent
  <1> QED
    BY <1>1, <1>2 DEF Accounted, Absent

\* The numbers of a source put_source stores: the next one is its stamp.
LEMMA StoringCounts ==
  ASSUME NEW s \in BatchSnapshot, NEW k \in SourceKind, NEW a \in Artifact,
         Accounted(s), s.status \in {"awaiting_sources", "ready"},
         s.sources[k] = NoArtifact
  PROVE  Accounted(WithSource(s, k, a))
  <1> DEFINE t == WithSource(s, k, a)
             n == Cardinality(Held(s.sources))
  <1>1. /\ t.sources = [s.sources EXCEPT ![k] = a]
        /\ t.stamp = [s.stamp EXCEPT ![k] = s.lifecycle_sequence + 1]
        /\ t.status \in {"awaiting_sources", "ready"}
        /\ t.lifecycle_sequence = s.lifecycle_sequence + 1
        /\ t.failure = s.failure
    BY DEF WithSource, BatchSnapshot
  <1>2. n \in Nat /\ IsFiniteSet(Held(s.sources))
    BY HeldIsFinite
  <1>3. k \notin Held(s.sources)
    BY DEF Held
  <1>4. Held(t.sources) = Held(s.sources) \cup {k}
    BY <1>1, BatchAssumption DEF Held, BatchSnapshot, Sources
  <1>5. Cardinality(Held(t.sources)) = n + 1
    BY <1>2, <1>3, <1>4, FS_AddElement
  <1>6. s.lifecycle_sequence = n + 1 /\ s.failure = 0
    BY DEF Accounted
  <1>7. {s.stamp[i] : i \in Held(s.sources)} = 2 .. (n + 1)
    BY DEF Accounted
  <1>8. t.stamp[k] = n + 2 /\ \A i \in Held(s.sources) : t.stamp[i] = s.stamp[i]
    <2>1. s.stamp \in [SourceKind -> Nat]
      BY DEF BatchSnapshot
    <2> QED
      BY <1>1, <1>2, <1>3, <1>6, <2>1 DEF Held
  <1> HIDE DEF t, n
  <1>9. {t.stamp[i] : i \in Held(t.sources)} = (2 .. (n + 1)) \cup {n + 2}
    BY <1>4, <1>7, <1>8
  <1>10. (2 .. (n + 1)) \cup {n + 2} = 2 .. (n + 2)
    BY <1>2
  <1> QED
    BY <1>1, <1>2, <1>5, <1>6, <1>9, <1>10 DEF Accounted, t

\* The numbers of the snapshots of a run.
LEMMA RunCounts ==
  ASSUME NEW s \in BatchSnapshot, NEW t, Accounted(s),
         t.sources = s.sources, t.stamp = s.stamp,
         t.lifecycle_sequence = s.lifecycle_sequence + 1,
         \/ s.status = "ready" /\ t.status = "running" /\ t.failure = s.failure
         \/ s.status = "running" /\ t.status = "completed" /\ t.failure = 0
         \/ /\ s.status = "running" /\ t.status = "failed"
            /\ t.failure = t.lifecycle_sequence
  PROVE  Accounted(t)
  <1>1. Cardinality(Held(s.sources)) \in Nat
    BY HeldIsFinite
  <1> QED
    BY <1>1 DEF Accounted

\* Every step keeps the count of every batch.
LEMMA NextCount ==
  ASSUME Typed, RunInv, CountInv, [Next]_vars
  PROVE  CountInv'
  <1>1. \A b \in Batch : batches[b] \in BatchSnapshot /\ Accounted(batches[b])
    BY DEF Typed, CountInv
  \* A step that changes one snapshot to one that is accounted for and exists.
  <1>2. ASSUME NEW b \in Batch, NEW w \in Worker,
               \A c \in Batch \ {b} : batches'[c] = batches[c],
               Accounted(batches'[b]), batches'[b].status # "absent",
               pc'[w] # "storing",
               \A v \in Worker \ {w} : pc'[v] = pc[v] /\ job'[v] = job[v]
        PROVE  CountInv'
    <2>1. \A c \in Batch : Accounted(batches'[c])
      BY <1>1, <1>2
    <2>2. UploadsHaveBatch'
      BY <1>2 DEF CountInv, UploadsHaveBatch, Typed, UploadJob
    <2> QED
      BY <2>1, <2>2 DEF CountInv, Accounted
  \* A step that changes no snapshot.
  <1>3. ASSUME UNCHANGED batches, UploadsHaveBatch'
        PROVE  CountInv'
    BY <1>1, <1>3 DEF CountInv
  <1>4. ASSUME NEW w \in Worker, UNCHANGED batches, pc'[w] # "storing",
               \A v \in Worker \ {w} : pc'[v] = pc[v] /\ job'[v] = job[v]
        PROVE  CountInv'
    BY <1>3, <1>4 DEF CountInv, UploadsHaveBatch
  <1>5. ASSUME NEW w \in Worker, NEW b \in Batch, CreateBatch(w, b)
        PROVE  CountInv'
    <2> DEFINE t == [Absent EXCEPT !.status = "awaiting_sources",
                                   !.lifecycle_sequence = 1]
    <2>1. /\ pc'[w] # "storing"
          /\ \A v \in Worker \ {w} : pc'[v] = pc[v] /\ job'[v] = job[v]
      BY <1>5 DEF CreateBatch, Answer, Typed
    <2>2. CASE UNCHANGED batches
      BY <1>4, <2>1, <2>2
    <2>3. CASE ~UNCHANGED batches
      <3>1. /\ batches'[b] = t
            /\ \A c \in Batch \ {b} : batches'[c] = batches[c]
        BY <1>5, <2>3 DEF CreateBatch, Typed
      <3>2. /\ t.status = "awaiting_sources" /\ t.lifecycle_sequence = 1
            /\ t.sources = Absent.sources /\ t.stamp = Absent.stamp
            /\ t.failure = 0 /\ Absent.sources = NoSources
        BY DEF Absent
      <3> HIDE DEF t
      <3>3. Accounted(t)
        BY <3>2, NothingIsHeld, AbsentAccounted DEF Accounted
      <3> QED
        BY <1>2, <2>1, <3>1, <3>2, <3>3
    <2> QED
      BY <2>2, <2>3
  <1>6. ASSUME NEW w \in Worker, NEW b \in Batch, NEW k \in SourceKind,
               NEW a \in Artifact, ReceiveUpload(w, b, k, a)
        PROVE  CountInv'
    <2>1. UNCHANGED batches
      BY <1>6 DEF ReceiveUpload
    <2>2. UploadsHaveBatch'
      BY <1>6 DEF ReceiveUpload, Answer, Carry, CountInv, UploadsHaveBatch, Typed
    <2> QED
      BY <1>3, <2>1, <2>2
  <1>7. ASSUME NEW w \in Worker, PutSource(w)
        PROVE  CountInv'
    <2> DEFINE b == job[w].batch
               k == job[w].kind
               a == job[w].artifact
    <2>1. b \in Batch /\ k \in SourceKind /\ a \in Artifact
      BY <1>7 DEF PutSource, Typed, UploadJob
    <2>2. /\ pc'[w] # "storing"
          /\ \A v \in Worker \ {w} : pc'[v] = pc[v] /\ job'[v] = job[v]
      BY <1>7 DEF PutSource, Answer, Typed
    <2>3. CASE UNCHANGED batches
      BY <1>4, <2>2, <2>3
    <2>4. CASE /\ batches' = [batches EXCEPT ![b] = WithSource(batches[b], k, a)]
               /\ batches[b].status \notin {"running", "completed", "failed"}
               /\ batches[b].sources[k] # a
               /\ ~Conflicts(batches[b], k, a)
      <3>1. batches[b].status # "absent"
        BY <1>7 DEF PutSource, CountInv, UploadsHaveBatch
      <3>2. batches[b].status \in {"awaiting_sources", "ready"}
        BY <1>1, <2>1, <2>4, <3>1 DEF BatchSnapshot, BatchStatus
      <3>3. batches[b].sources[k] = NoArtifact
        BY <2>4 DEF Conflicts
      <3>4. /\ batches'[b] = WithSource(batches[b], k, a)
            /\ \A c \in Batch \ {b} : batches'[c] = batches[c]
        BY <2>1, <2>4 DEF Typed
      <3>5. Accounted(batches'[b])
        BY <1>1, <2>1, <3>2, <3>3, <3>4, StoringCounts
      <3>6. batches'[b].status # "absent"
        BY <1>1, <2>1, <3>4 DEF WithSource, BatchSnapshot
      <3> QED
        BY <1>2, <2>1, <2>2, <3>4, <3>5, <3>6
    <2> QED
      BY <1>7, <2>3, <2>4 DEF PutSource
  <1>8. ASSUME NEW w \in Worker, NEW b \in Batch, BeginRun(w, b)
        PROVE  CountInv'
    <2> DEFINE n == batches[b].lifecycle_sequence + 1
               t == [batches[b] EXCEPT !.status = "running",
                                       !.lifecycle_sequence = n]
    <2>1. /\ pc'[w] # "storing"
          /\ \A v \in Worker \ {w} : pc'[v] = pc[v] /\ job'[v] = job[v]
      BY <1>8 DEF BeginRun, Answer, Carry, Typed
    <2>2. CASE UNCHANGED batches
      BY <1>4, <2>1, <2>2
    <2>3. CASE batches' = [batches EXCEPT ![b] = t] /\ batches[b].status = "ready"
      <3>1. batches'[b] = t /\ \A c \in Batch \ {b} : batches'[c] = batches[c]
        BY <2>3 DEF Typed
      <3>2. /\ t.sources = batches[b].sources /\ t.stamp = batches[b].stamp
            /\ t.lifecycle_sequence = n /\ t.status = "running"
            /\ t.failure = batches[b].failure
        BY <1>1 DEF BatchSnapshot
      <3> HIDE DEF t
      <3>3. Accounted(t)
        BY <1>1, <2>3, <3>2, RunCounts
      <3> QED
        BY <1>2, <2>1, <3>1, <3>2, <3>3
    <2> QED
      BY <1>8, <2>2, <2>3 DEF BeginRun, Startable
  <1>9. ASSUME NEW w \in Worker, Reconcile(w)
        PROVE  CountInv'
    <2>1. UNCHANGED batches /\ UploadsHaveBatch'
      BY <1>9 DEF Reconcile, CountInv, UploadsHaveBatch, Typed
    <2> QED
      BY <1>3, <2>1
  <1>10. ASSUME NEW w \in Worker, CompleteRun(w) \/ FailRun(w)
         PROVE  CountInv'
    <2> DEFINE b == job[w].batch
               n == batches[b].lifecycle_sequence + 1
               done == [batches[b] EXCEPT
                           !.status = "completed", !.result = job[w].sources,
                           !.failure = 0, !.lifecycle_sequence = n]
               lost == [batches[b] EXCEPT
                           !.status = "failed", !.result = NoSources,
                           !.failure = n, !.lifecycle_sequence = n]
    <2>1. InRun(w)
      BY <1>10 DEF CompleteRun, FailRun, InRun
    <2>2. b \in Batch /\ batches[b].status = "running"
      BY <2>1 DEF RunInv, RunnerIsCurrent, InRun, RunJob, Typed
    <2>3. /\ batches'[b] \in {done, lost}
          /\ \A c \in Batch \ {b} : batches'[c] = batches[c]
      BY <1>10, <2>2 DEF CompleteRun, FailRun, Typed
    <2>4. /\ pc'[w] # "storing"
          /\ \A v \in Worker \ {w} : pc'[v] = pc[v] /\ job'[v] = job[v]
      BY <1>10 DEF CompleteRun, FailRun, Answer, Typed
    <2>5. /\ done.sources = batches[b].sources /\ done.stamp = batches[b].stamp
          /\ done.lifecycle_sequence = n /\ done.status = "completed"
          /\ done.failure = 0
      BY <1>1, <2>2 DEF BatchSnapshot
    <2>6. /\ lost.sources = batches[b].sources /\ lost.stamp = batches[b].stamp
          /\ lost.lifecycle_sequence = n /\ lost.status = "failed"
          /\ lost.failure = n
      BY <1>1, <2>2 DEF BatchSnapshot
    <2> HIDE DEF done, lost
    <2>7. Accounted(done)
      BY <1>1, <2>2, <2>5, RunCounts
    <2>8. Accounted(lost)
      BY <1>1, <2>2, <2>6, RunCounts
    <2> QED
      BY <1>2, <2>2, <2>3, <2>4, <2>5, <2>6, <2>7, <2>8
  <1>11. CASE UNCHANGED vars
    BY <1>3, <1>11 DEF vars, CountInv, UploadsHaveBatch
  <1> QED
    BY <1>5, <1>6, <1>7, <1>8, <1>9, <1>10, <1>11 DEF Next

\* The lifecycle sequence numbers every change of a batch, without gaps.
THEOREM SequenceCounts == Spec => []SequenceAccountsForEveryChange
  <1>1. Init => CountInv
    BY AbsentAccounted DEF Init, CountInv, UploadsHaveBatch
  <1>2. CountInv => SequenceAccountsForEveryChange
    BY DEF CountInv, Accounted, SequenceAccountsForEveryChange
  <1> QED
    BY <1>1, <1>2, NextCount, RunsAreConsistent, PTL DEF Spec

-----------------------------------------------------------------------------
LEMMA PhaseValues ==
  /\ \A status \in {"absent", "awaiting_sources", "ready"} :
        Phase(status) = "collecting"
  /\ Phase("running") = "sealed"
  /\ Phase("completed") = "published"
  /\ Phase("failed") = "discarded"
  BY DEF Phase

\* Every step of the threads is a step of the contract or none.
LEMMA StepRefines ==
  ASSUME Typed, RunInv, Typed', RunInv', [Next]_vars
  PROVE  [Contract!Next]_Contract!vars
  <1> DEFINE phase == [b \in Batch |-> Phase(batches[b].status)]
             sources == [b \in Batch |-> batches[b].sources]
             output == [b \in Batch |-> batches[b].result]
  <1>1. CASE UNCHANGED batches
    BY <1>1 DEF Contract!vars, Phase
  <1>2. ASSUME NEW b \in Batch,
               \A c \in Batch \ {b} : batches'[c] = batches[c],
               Created(b) \/ Stored(b) \/ Started(b) \/ Settled(b)
        PROVE  [Contract!Next]_Contract!vars
    <2>1. /\ phase' = [phase EXCEPT ![b] = Phase(batches'[b].status)]
          /\ sources' = [sources EXCEPT ![b] = batches'[b].sources]
          /\ output' = [output EXCEPT ![b] = batches'[b].result]
      BY <1>2
    <2>2. /\ phase[b] = Phase(batches[b].status)
          /\ sources[b] = batches[b].sources
          /\ output[b] = batches[b].result
      OBVIOUS
    <2>3. Phase(batches'[b].status) = Phase(batches[b].status) => phase' = phase
      BY <1>2
    <2>4. batches'[b].sources = batches[b].sources => sources' = sources
      BY <1>2
    <2>5. batches'[b].result = batches[b].result => output' = output
      BY <1>2
    <2>6. CASE Created(b)
      <3>1. phase' = phase
        BY <2>6, <2>3, PhaseValues DEF Created
      <3>2. batches'[b].sources = batches[b].sources
        BY <2>6 DEF Created, RunInv, AbsentIsEmpty
      <3>3. batches'[b].result = batches[b].result
        BY <2>6 DEF Created
      <3> QED
        BY <2>4, <2>5, <3>1, <3>2, <3>3 DEF Contract!vars
    <2>7. CASE Stored(b)
      <3>1. PICK k \in SourceKind, a \in Artifact :
               /\ batches[b].status \in {"absent", "awaiting_sources", "ready"}
               /\ batches'[b].status \in {"awaiting_sources", "ready"}
               /\ batches[b].sources[k] = NoArtifact
               /\ batches'[b].sources = [batches[b].sources EXCEPT ![k] = a]
               /\ batches'[b].result = batches[b].result
        BY <2>7 DEF Stored
      <3>2. phase[b] = "collecting" /\ phase' = phase
        BY <2>2, <2>3, <3>1, PhaseValues
      <3>3. sources[b][k] = NoArtifact
        BY <2>2, <3>1
      <3>4. sources' = [sources EXCEPT ![b][k] = a]
        BY <2>1, <3>1
      <3>5. output' = output
        BY <2>5, <3>1
      <3>6. Contract!Collect(b, k, a)
        BY <3>2, <3>3, <3>4, <3>5 DEF Contract!Collect
      <3> QED
        BY <3>6 DEF Contract!Next
    <2>8. CASE Started(b)
      <3>1. phase[b] = "collecting" /\ phase' = [phase EXCEPT ![b] = "sealed"]
        <4>1. batches[b].status = "ready" /\ batches'[b].status = "running"
          BY <2>8 DEF Started
        <4>2. Phase("ready") = "collecting" /\ Phase("running") = "sealed"
          BY PhaseValues
        <4> QED
          BY <2>1, <2>2, <4>1, <4>2
      <3>2. sources' = sources /\ output' = output
        <4>1. /\ batches'[b].sources = batches[b].sources
              /\ batches'[b].result = batches[b].result
          BY <2>8 DEF Started
        <4> QED
          BY <2>4, <2>5, <4>1
      <3>3. \A k \in SourceKind : sources[b][k] # NoArtifact
        <4>1. Complete(batches[b].sources)
          BY <2>8 DEF Started, RunInv, SealedIsComplete
        <4> QED
          BY <2>2, <4>1 DEF Complete, Held
      <3>4. Contract!Seal(b)
        BY <3>1, <3>2, <3>3 DEF Contract!Seal
      <3> QED
        BY <3>4 DEF Contract!Next
    <2>9. CASE Settled(b)
      <3>1. phase[b] = "sealed" /\ sources' = sources
        BY <2>9, <2>2, <2>4, PhaseValues DEF Settled
      <3>2. CASE batches'[b].status = "completed"
        <4>1. phase' = [phase EXCEPT ![b] = "published"]
          BY <2>1, <3>2, PhaseValues
        <4>2. output' = [output EXCEPT ![b] = sources[b]]
          BY <2>1, <2>9, <2>2, <3>2 DEF Settled
        <4>3. Contract!Publish(b)
          BY <3>1, <4>1, <4>2 DEF Contract!Publish
        <4> QED
          BY <4>3 DEF Contract!Next
      <3>3. CASE batches'[b].status = "failed"
        <4>1. phase' = [phase EXCEPT ![b] = "discarded"]
          BY <2>1, <3>3, PhaseValues
        <4>2. output' = output
          BY <2>9, <2>5, <3>3 DEF Settled
        <4>3. Contract!Discard(b)
          BY <3>1, <4>1, <4>2 DEF Contract!Discard
        <4> QED
          BY <4>3 DEF Contract!Next
      <3> QED
        BY <2>9, <3>2, <3>3 DEF Settled
    <2> QED
      BY <1>2, <2>6, <2>7, <2>8, <2>9
  <1> QED
    BY <1>1, <1>2, StepEffect

\* The threads together keep the promise of BatchContract.
THEOREM Refinement == Spec => ImplementsContract
  <1>1. Init => Contract!Init
    BY DEF Init, Contract!Init, Contract!Nothing, Absent, Phase, NoSources
  <1> QED
    BY <1>1, StepRefines, RunsAreConsistent, PTL
    DEF Spec, Contract!Spec, ImplementsContract

-----------------------------------------------------------------------------
(***************************************************************************)
(* What the answers say                                                    *)
(***************************************************************************)
\* The repository is locked anew when a request returns to it, and what its
\* answer says is so all the same: an upload that is acknowledged is held and one
\* that is refused as a conflict is not, and the outcome of a run is never
\* refused but stored with the sources the run was started on.
AnswersAreTrue ==
    \A w \in Worker : pc'[w] = "idle" =>
        LET j == job[w] IN
        /\ pc[w] = "storing" =>
              LET held == batches'[j.batch].sources[j.kind] IN
              /\ reply'[w] \in {"stored", "idempotent"} => held = j.artifact
              /\ reply'[w] = "SOURCE_CONFLICT" => held \notin {j.artifact, NoArtifact}
        /\ pc[w] = "completing" =>
              /\ reply'[w] = "completed" /\ batches'[j.batch].status = "completed"
              /\ batches'[j.batch].result = j.sources
        /\ pc[w] = "failing" =>
              reply'[w] = "failed" /\ batches'[j.batch].status = "failed"

\* Answers are true, however the threads interleave.
THEOREM TrueAnswers == Spec => [][AnswersAreTrue]_vars
  <1> DEFINE True(w) ==
        LET j == job[w] IN
        /\ pc[w] = "storing" =>
              LET held == batches'[j.batch].sources[j.kind] IN
              /\ reply'[w] \in {"stored", "idempotent"} => held = j.artifact
              /\ reply'[w] = "SOURCE_CONFLICT" => held \notin {j.artifact, NoArtifact}
        /\ pc[w] = "completing" =>
              /\ reply'[w] = "completed" /\ batches'[j.batch].status = "completed"
              /\ batches'[j.batch].result = j.sources
        /\ pc[w] = "failing" =>
              reply'[w] = "failed" /\ batches'[j.batch].status = "failed"
  <1>1. ASSUME Typed, RunInv, Next, NEW w \in Worker, pc'[w] = "idle"
        PROVE  True(w)
    <2> DEFINE b == job[w].batch
               k == job[w].kind
               a == job[w].artifact
               n == batches[b].lifecycle_sequence + 1
    <2>1. CASE PutSource(w)
      <3>1. pc[w] = "storing" /\ b \in Batch /\ k \in SourceKind /\ a \in Artifact
        BY <1>1, <2>1 DEF PutSource, UploadJob, Typed
      <3>2. batches[b] \in BatchSnapshot /\ w \in DOMAIN reply
        BY <1>1, <3>1 DEF Typed
      <3>3. CASE /\ batches' = [batches EXCEPT ![b] = WithSource(batches[b], k, a)]
                 /\ Answer(w, "stored")
        <4>1. batches'[b] = WithSource(batches[b], k, a)
          BY <1>1, <3>1, <3>3 DEF Typed
        <4>2. batches'[b].sources[k] = a
          BY <3>1, <3>2, <4>1 DEF WithSource, BatchSnapshot, Sources
        <4>3. reply'[w] = "stored"
          BY <3>2, <3>3 DEF Answer
        <4> QED BY <3>1, <4>2, <4>3
      <3>4. CASE UNCHANGED batches
        <4>1. \/ reply'[w] = "SOURCES_IMMUTABLE"
              \/ reply'[w] = "idempotent" /\ batches[b].sources[k] = a
              \/ reply'[w] = "SOURCE_CONFLICT" /\ Conflicts(batches[b], k, a)
              \/ reply'[w] = "stored" /\ batches' = [batches EXCEPT ![b] = WithSource(batches[b], k, a)]
          BY <2>1, <3>2 DEF PutSource, Answer
        <4>2. CASE reply'[w] = "stored" /\ batches' = [batches EXCEPT ![b] = WithSource(batches[b], k, a)]
          <5>1. batches'[b] = WithSource(batches[b], k, a)
            BY <1>1, <3>1, <4>2 DEF Typed
          <5>2. batches'[b].sources[k] = a
            BY <3>1, <3>2, <5>1 DEF WithSource, BatchSnapshot, Sources
          <5> QED BY <3>1, <4>2, <5>2
        <4> QED BY <3>1, <3>4, <4>1, <4>2 DEF Conflicts
      <3> QED BY <2>1, <3>3, <3>4 DEF PutSource
    <2>2. CASE CompleteRun(w) \/ FailRun(w)
      <3>1. InRun(w)
        BY <2>2 DEF CompleteRun, FailRun, InRun
      <3>2. b \in Batch /\ batches[b].status = "running" /\ w \in DOMAIN reply
        BY <1>1, <3>1 DEF RunInv, RunnerIsCurrent, InRun, RunJob, Typed
      <3>3. batches[b] \in BatchSnapshot
        BY <1>1, <3>2 DEF Typed
      <3>4. CASE CompleteRun(w)
        <4>1. /\ batches'[b] = [batches[b] EXCEPT
                     !.status = "completed", !.result = job[w].sources,
                     !.failure = 0, !.lifecycle_sequence = n]
              /\ reply'[w] = "completed" /\ pc[w] = "completing"
          BY <1>1, <3>2, <3>4 DEF CompleteRun, Typed, Answer
        <4> HIDE DEF n, b
        <4>2. batches'[b].status = "completed" /\ batches'[b].result = job[w].sources
          BY <3>3, <4>1, RunSnapshotFields
        <4> QED BY <4>1, <4>2 DEF b
      <3>5. CASE FailRun(w)
        <4>1. /\ batches'[b] = [batches[b] EXCEPT
                     !.status = "failed", !.result = NoSources,
                     !.failure = n, !.lifecycle_sequence = n]
              /\ reply'[w] = "failed" /\ pc[w] = "failing"
          BY <1>1, <3>2, <3>5 DEF FailRun, Typed, Answer
        <4> HIDE DEF n, b
        <4>2. batches'[b].status = "failed"
          BY <3>3, <4>1, RunSnapshotFields
        <4> QED BY <4>1, <4>2 DEF b
      <3> QED BY <2>2, <3>4, <3>5
    <2>3. CASE Reconcile(w)
      BY <1>1, <2>3 DEF Reconcile, Typed
    <2>4. CASE \/ \E c \in Batch : CreateBatch(w, c) \/ BeginRun(w, c)
               \/ \E c \in Batch, i \in SourceKind, x \in Artifact :
                     ReceiveUpload(w, c, i, x)
      <3>1. pc[w] = "idle"
        BY <2>4 DEF CreateBatch, BeginRun, ReceiveUpload
      <3> QED BY <3>1
    <2>5. CASE \E v \in Worker \ {w} :
                  \/ \E c \in Batch : CreateBatch(v, c) \/ BeginRun(v, c)
                  \/ \E c \in Batch, i \in SourceKind, x \in Artifact :
                        ReceiveUpload(v, c, i, x)
                  \/ PutSource(v) \/ Reconcile(v) \/ CompleteRun(v) \/ FailRun(v)
      <3>1. PICK v \in Worker \ {w} :
                  \/ \E c \in Batch : CreateBatch(v, c) \/ BeginRun(v, c)
                  \/ \E c \in Batch, i \in SourceKind, x \in Artifact :
                        ReceiveUpload(v, c, i, x)
                  \/ PutSource(v) \/ Reconcile(v) \/ CompleteRun(v) \/ FailRun(v)
        BY <2>5
      <3>2. \E label : pc' = [pc EXCEPT ![v] = label]
        <4>1. ASSUME NEW c \in Batch, CreateBatch(v, c) \/ BeginRun(v, c)
              PROVE  \E label : pc' = [pc EXCEPT ![v] = label]
          BY <4>1 DEF CreateBatch, BeginRun, Answer, Carry
        <4>2. ASSUME NEW c \in Batch, NEW i \in SourceKind, NEW x \in Artifact,
                     ReceiveUpload(v, c, i, x)
              PROVE  \E label : pc' = [pc EXCEPT ![v] = label]
          BY <4>2 DEF ReceiveUpload, Answer, Carry
        <4>3. CASE PutSource(v) \/ Reconcile(v) \/ CompleteRun(v) \/ FailRun(v)
          BY <4>3 DEF PutSource, Reconcile, CompleteRun, FailRun, Answer
        <4> QED BY <3>1, <4>1, <4>2, <4>3
      <3>3. pc'[w] = pc[w]
        BY <1>1, <3>1, <3>2 DEF Typed
      <3> QED BY <1>1, <3>3
    <2> QED BY <1>1, <2>1, <2>2, <2>3, <2>4, <2>5 DEF Next
  <1>2. Typed /\ RunInv /\ [Next]_vars => [AnswersAreTrue]_vars
    BY <1>1 DEF AnswersAreTrue
  <1> QED BY <1>2, RunsAreConsistent, PTL DEF Spec
=============================================================================
