--------------------------- MODULE BatchContract ---------------------------
(***************************************************************************)
(* What a batch promises its clients, whatever threads serve them: sources *)
(* are collected one per kind and never replaced, the complete set is      *)
(* sealed once, and the only output ever published is the one computed     *)
(* from exactly the sealed set.  BatchLifecycle implements it.             *)
(***************************************************************************)
CONSTANTS Batch, SourceKind, Artifact, NoArtifact

VARIABLES
    phase,      \* collecting, sealed, published or discarded
    sources,    \* the sources of each batch
    output      \* what its result was computed from

vars == <<phase, sources, output>>

Nothing == [k \in SourceKind |-> NoArtifact]

Init ==
    /\ phase = [b \in Batch |-> "collecting"]
    /\ sources = [b \in Batch |-> Nothing]
    /\ output = [b \in Batch |-> Nothing]

Collect(b, k, a) ==
    /\ phase[b] = "collecting"
    /\ sources[b][k] = NoArtifact
    /\ sources' = [sources EXCEPT ![b][k] = a]
    /\ UNCHANGED <<phase, output>>

Seal(b) ==
    /\ phase[b] = "collecting"
    /\ \A k \in SourceKind : sources[b][k] # NoArtifact
    /\ phase' = [phase EXCEPT ![b] = "sealed"]
    /\ UNCHANGED <<sources, output>>

Publish(b) ==
    /\ phase[b] = "sealed"
    /\ phase' = [phase EXCEPT ![b] = "published"]
    /\ output' = [output EXCEPT ![b] = sources[b]]
    /\ UNCHANGED sources

Discard(b) ==
    /\ phase[b] = "sealed"
    /\ phase' = [phase EXCEPT ![b] = "discarded"]
    /\ UNCHANGED <<sources, output>>

Next ==
    \E b \in Batch :
        \/ \E k \in SourceKind, a \in Artifact : Collect(b, k, a)
        \/ Seal(b)
        \/ Publish(b)
        \/ Discard(b)

Spec == Init /\ [][Next]_vars
=============================================================================
