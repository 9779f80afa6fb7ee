-------------------------- MODULE MCBatchLifecycle --------------------------
(* A small instance of BatchLifecycle for TLC. *)
EXTENDS BatchLifecycle

CONSTANTS a1, a2, bad

\* a1 and a2 pass every check for every kind; bad fails one, and which one
\* depends on the kind, so that each refusal of an upload is reached.
MCDefect ==
    [x \in SourceKind \X Artifact |->
        IF x[2] # bad THEN "none"
        ELSE IF x[1] = "policy" THEN "UNSUPPORTED_CONTENT_TYPE"
        ELSE "INVALID_SOURCE"]
=============================================================================
