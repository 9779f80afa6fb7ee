\* Two settlements of "dev" compete for one row; "moved" is not what its
\* manifest says, "mislabelled" has the labels of another dataset.
CONSTANTS
    Settlement = {"s1", "s2", "s3"}
    Bank = {"b1", "b2"}
    NoBank = "none"
    Dataset = {"dev", "demo", "moved", "mislabelled"}
    Data <- MCData
    Exports <- MCExports
    Nothing = Nothing
SPECIFICATION Spec
INVARIANTS
    LabelsSeeOnlyProvenRuns
    FalseClearsAreCounted
    SealedArtifactsAreOneRun
