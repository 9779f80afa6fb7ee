SPECIFICATION FairSpec
CONSTANTS
    Batch = {b1}
    Worker = {w1, w2, w3}
    a1 = a1
    a2 = a2
    bad = bad
    Artifact = {a1, a2, bad}
    SourceKind = {"bank", "policy"}
    NoArtifact = NoArtifact
    NoJob = NoJob
    Defect <- MCDefect
INVARIANTS
    TypeOK
    ResultFromStoredSources
    OneRunnerPerBatch
    SequenceAccountsForEveryChange
PROPERTIES
    NothingStoredIsRewritten
    EveryRunSettles
    ImplementsContract
