---------------------------- MODULE MCEvaluation ----------------------------
(***************************************************************************)
(* Two frozen datasets and one whose input files changed.  In "dev" the    *)
(* settlements s1 and s2 can each be cleared by the row b1, s3 was cleared *)
(* by the engine with b2; the labels pay s1 by b1 and keep s2 blocked.     *)
(***************************************************************************)
EXTENDS Evaluation

Dev == [frozen |-> TRUE, settlements |-> {"s1", "s2", "s3"},
    state |-> [s \in Settlement |-> IF s = "s3" THEN "auto_cleared" ELSE "needs_review"],
    candidates |-> [s1 |-> {"b1", "b2"}, s2 |-> {"b1"}, s3 |-> {"b1"}],
    link |-> [s1 |-> NoBank, s2 |-> NoBank, s3 |-> "b2"],
    unique |-> [s1 |-> "b1", s2 |-> "b1", s3 |-> "b1"],
    truth |-> [of |-> "dev", blocking |-> {"s2"},
               expected |-> [s1 |-> "b1", s2 |-> NoBank, s3 |-> "b2"]]]

Demo == [frozen |-> TRUE, settlements |-> {"s1", "s2"},
    state |-> [s \in Settlement |-> "needs_review"],
    candidates |-> [s1 |-> {"b1"}, s2 |-> {"b2"}, s3 |-> {}],
    link |-> [s \in Settlement |-> NoBank],
    unique |-> [s1 |-> "b1", s2 |-> "b2", s3 |-> NoBank],
    truth |-> [of |-> "demo", blocking |-> {},
               expected |-> [s1 |-> "b1", s2 |-> "b1", s3 |-> NoBank]]]

Moved == [Demo EXCEPT !.frozen = FALSE]
Mislabelled == [Demo EXCEPT !.truth.of = "dev"]

MCData == [dev |-> Dev, demo |-> Demo, moved |-> Moved, mislabelled |-> Mislabelled]

-----------------------------------------------------------------------------
Run(i, s, d, b, v) ==
    [id |-> i, settlement |-> s, provenance |-> "ollama", mode |-> "local", named |-> TRUE,
     bound |-> d, state |-> MCData[d].state[s], eligible |-> TRUE,
     proposed |-> b, cites |-> TRUE, verdict |-> v, verdictFor |-> s,
     status |-> CASE v = "accepted" -> "completed" [] v = "rejected" -> "rejected"
                  [] OTHER -> "abstained",
     proof |-> TRUE]

Event(r) == [id |-> r.id, run |-> r.id,
             effective |-> IF IsAccepted(r) THEN "cleared_with_explanation" ELSE r.state]

Export(runs) == [wellFormed |-> TRUE, labelled |-> FALSE, provenance |-> "ollama",
                 runs |-> runs, audits |-> {Event(r) : r \in runs}]

R1 == Run(1, "s1", "dev", "b1", "accepted")
R2 == Run(2, "s2", "dev", "b1", "accepted")
Scripted(e) == [e EXCEPT !.provenance = "scripted",
                         !.runs = {[r EXCEPT !.provenance = "scripted"] : r \in @}]
Disabled(i, s, d) == [Run(i, s, d, NoBank, "none") EXCEPT
                          !.provenance = "disabled", !.mode = "disabled",
                          !.named = FALSE]

MCExports == {
    Export({}),
    Export({R1}),                                             \* a correct clear
    Export({R2}),                                             \* a false clear
    Export({R1, Run(2, "s2", "dev", "b1", "rejected")}),
    Export({R1, R2}),                                         \* one row for two
    Export({R1, [R1 EXCEPT !.id = 2]}),                       \* one settlement twice
    Export({[R1 EXCEPT !.settlement = "s3", !.verdictFor = "s3",
                       !.state = "auto_cleared"]}),           \* eligible, and is not
    Export({Run(1, "s1", "dev", "b2", "accepted")}),          \* the engine's own row
    Export({[R1 EXCEPT !.proof = FALSE]}),
    Export({[R1 EXCEPT !.named = FALSE]}),                    \* of no model
    Export({[R1 EXCEPT !.verdictFor = "s2"]}),
    Export({[R1 EXCEPT !.status = "failed"]}),
    [Export({R1}) EXCEPT !.audits = {}],
    [Export({R1}) EXCEPT !.labelled = TRUE],
    [Export({}) EXCEPT !.wellFormed = FALSE],
    Scripted(Export({R2})),
    Scripted(Export({Run(1, "s1", "dev", NoBank, "none")})),
    [Export({Disabled(1, "s1", "dev")}) EXCEPT !.provenance = "disabled"],
    Export({Run(1, "s1", "demo", "b1", "accepted"), Run(2, "s2", "demo", "b2", "accepted")})}
=============================================================================
