------------------------- MODULE MCEffectiveReview -------------------------
(* A small instance of EffectiveReview for TLC. *)
EXTENDS EffectiveReview

CONSTANTS s1, s2, s3,       \* s3 is not in the batch
          missing, small,   \* bank exceptions, material and blocking or not
          waiting, sla,     \* a pending settlement's: bank, and pending itself
          absent, journal,  \* a critical settlement's: bank, and its ledger's
          row, named        \* blocking exceptions of rejected rows

Of(id, state, eligible, exceptions) ==
    [id |-> id, state |-> state, eligible |-> eligible,
     exceptions |-> exceptions]

Material == Of(s1, "needs_review", TRUE, {missing})
Immaterial == Of(s2, "needs_review", TRUE, {small})
Pending == Of(s2, "pending_within_sla", FALSE, {waiting, sla})
Critical == Of(s2, "critical_exception", FALSE, {absent, journal})

\* The same id in another balance account.
SharedPending == Of(s1, "pending_within_sla", FALSE, {waiting, sla})
SharedCritical == Of(s1, "critical_exception", FALSE, {journal})

With(settlements, rows) == [settlements |-> settlements, rows |-> rows]

MCResults == {
    With(<<Material, Immaterial>>, {}),
    With(<<Material, SharedPending, Immaterial>>, {}),
    With(<<Material, SharedCritical, Immaterial>>, {}),
    With(<<Material, Pending>>, {}),
    With(<<Material, Critical>>, {}),
    With(<<Material, Immaterial>>, {row})}

NamedRowResults == {With(<<Material, Immaterial>>, {named})}

SharedResults == {With(<<Material, SharedPending, Immaterial>>, {})}
=============================================================================
