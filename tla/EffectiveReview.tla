--------------------------- MODULE EffectiveReview ---------------------------
(***************************************************************************)
(* The effective views of backend/app/application/investigation.py:        *)
(* effective_review and effective_reviews project the accepted decisions   *)
(* onto the immutable base result of a batch and assess the close again.   *)
(*                                                                         *)
(* A review takes the repository's lock once per settlement, and once more *)
(* for each decision it shows, while other requests go on finalizing.      *)
(* What a finalization may add is AcceptedEvidence, which Investigation    *)
(* implements.  A settlement of the base result is an aggregate of one     *)
(* settlement id and balance account, so an id can occur more than once.   *)
(***************************************************************************)
EXTENDS Naturals, Sequences

CONSTANTS
    batch,              \* a batch with a completed reconciliation result
    Settlement,         \* settlement identifiers
    Bank, NoBank,       \* bank source records; no accepted decision
    BaseRows,           \* the bank records the base result rests on
    Reader,             \* GET effective-review requests
    Exception,          \* exception records of the base result
    Blocking,           \* those with blocking set
    BankResolved,       \* those whose reason is in _BANK_RESOLVED_REASONS
    RowException,       \* those of rejected source rows
    NamedRow,           \* those of rows with a settlement_id column
    Results,            \* base results the engine can have produced
    AllReviews          \* the request for the reviews of the whole batch

ResolutionState == {"auto_cleared", "cleared_with_explanation",
                    "pending_within_sla", "needs_review", "critical_exception"}

SettlementResult == [id : Settlement, state : ResolutionState,
                     eligible : BOOLEAN, exceptions : SUBSET Exception]

ReconciliationResult == [settlements : Seq(SettlementResult),
                         rows : SUBSET RowException]

\* What the engine's decision of a settlement says about its exceptions.
ExceptionsFitState(x) ==
    /\ x.exceptions \cap RowException = {}
    /\ x.eligible => x.state = "needs_review"
    /\ x.state = "critical_exception" =>
          \E e \in x.exceptions : e \in Blocking \ BankResolved
    /\ x.state = "pending_within_sla" => x.exceptions \cap Blocking = {}
    /\ x.state \in {"auto_cleared", "cleared_with_explanation"} =>
          x.exceptions = {}

ASSUME ReviewAssumption ==
    /\ Blocking \subseteq Exception
    /\ RowException \subseteq Exception
    /\ BankResolved \subseteq Exception \ RowException
    /\ NamedRow \subseteq RowException
    /\ Results \subseteq ReconciliationResult
    /\ \A r \in Results : \A i \in DOMAIN r.settlements :
          ExceptionsFitState(r.settlements[i])
    /\ NoBank \notin Bank
    /\ AllReviews \notin Settlement

VARIABLES
    result,     \* the batch's reconciliation result
    evidence,   \* the bank record each settlement was accepted on
    target,     \* the settlement a review is about, or AllReviews
    pc,         \* where the request is
    seen,       \* the decisions it projected, one per settlement so far
    shown,      \* the decisions it shows, read after the projection
    before,     \* history: the decisions when the request arrived
    earlier     \* history: the reviews answered before it arrived

vars == <<result, evidence, target, pc, seen, shown, before, earlier>>

Decisions == INSTANCE AcceptedEvidence
                 WITH Batch <- {batch},
                      Deterministic <- [b \in {batch} |-> BaseRows]

Index == DOMAIN result.settlements
Ids == {result.settlements[i].id : i \in Index}

Init ==
    /\ result \in Results
    /\ Decisions!Init
    /\ target \in [Reader -> Settlement \cup {AllReviews}]
    /\ pc = [c \in Reader |-> "received"]
    /\ seen = [c \in Reader |-> <<>>]
    /\ shown = [c \in Reader |-> <<>>]
    /\ before = [c \in Reader |-> [s \in Settlement |-> NoBank]]
    /\ earlier = [c \in Reader |-> {}]

-----------------------------------------------------------------------------
\* repository.accepted: one reading under the lock.
Accepted(s) == evidence[<<batch, s>>]

\* An investigation of s concerns the first settlement with that id.
Investigable(s) ==
    \E i \in Index :
        /\ result.settlements[i].id = s
        /\ result.settlements[i].eligible
        /\ \A j \in Index : j < i => result.settlements[j].id # s

\* Some request finalizes an accepted investigation of s.
Finalize(s) ==
    /\ Investigable(s)
    /\ \E x \in Bank : Decisions!Accept(batch, s, x)
    /\ UNCHANGED <<result, target, pc, seen, shown, before, earlier>>

\* A lookup that takes any settlement id for one of the batch.
AnyKnown(t) == TRUE

\* A review of a settlement the batch does not have is answered 404.
Known(t) == t = AllReviews \/ t \in Ids

Receive(c) ==
    /\ pc[c] = "received"
    /\ pc' = [pc EXCEPT ![c] = IF Known(target[c]) THEN "projecting"
                                                   ELSE "not_found"]
    /\ before' = [before EXCEPT ![c] = [s \in Settlement |-> Accepted(s)]]
    /\ earlier' = [earlier EXCEPT ![c] = {d \in Reader : pc[d] = "done"}]
    /\ UNCHANGED <<result, evidence, target, seen, shown>>

\* A projection of the requested settlement's decision only.
RequestedOnly(c, s) ==
    IF target[c] \in {s, AllReviews} THEN Accepted(s) ELSE NoBank

\* The decision a review projects onto settlement s.
Projected(c, s) == Accepted(s)

\* The projection reads the decision of every settlement, one after another.
Project(c) ==
    LET n == Len(seen[c]) + 1 IN
    /\ pc[c] = "projecting"
    /\ \/ /\ n \in Index
          /\ seen' = [seen EXCEPT ![c] =
                Append(@, Projected(c, result.settlements[n].id))]
          /\ UNCHANGED pc
       \/ /\ n \notin Index
          /\ pc' = [pc EXCEPT ![c] = "showing"]
          /\ UNCHANGED seen
    /\ UNCHANGED <<result, evidence, target, shown, before, earlier>>

\* The settlements a review shows, in order.
Listed(c) == IF target[c] = AllReviews
             THEN [i \in Index |-> result.settlements[i].id]
             ELSE <<target[c]>>

\* A review that shows what it had read before projecting.
ShownFromStart(c, s) == before[c][s]

\* The accepted_decision field is read again.
Shown(c, s) == Accepted(s)

Show(c) ==
    LET n == Len(shown[c]) + 1 IN
    /\ pc[c] = "showing"
    /\ \/ /\ n \in DOMAIN Listed(c)
          /\ shown' = [shown EXCEPT ![c] = Append(@, Shown(c, Listed(c)[n]))]
          /\ UNCHANGED pc
       \/ /\ n \notin DOMAIN Listed(c)
          /\ pc' = [pc EXCEPT ![c] = "done"]
          /\ UNCHANGED shown
    /\ UNCHANGED <<result, evidence, target, seen, before, earlier>>

-----------------------------------------------------------------------------
\* A projection that clears whatever was accepted.
KeepNothing(i, d) ==
    IF d = NoBank THEN result.settlements[i].exceptions ELSE {}

\* _project_effective_settlement with decision d: its bank exceptions go,
Kept(i, d) ==
    IF d = NoBank THEN result.settlements[i].exceptions
                  ELSE result.settlements[i].exceptions \ BankResolved

\* and it is cleared unless a blocker stays.
EffectiveState(i, d) ==
    IF d # NoBank /\ Kept(i, d) \cap Blocking = {}
    THEN "cleared_with_explanation" ELSE result.settlements[i].state

\* The exceptions of the effective close: those of the settlements, and those
\* of the base result that name no settlement.
EffectiveExceptions(ds) ==
    (UNION {Kept(i, ds[i]) : i \in Index}) \cup (result.rows \ NamedRow)

\* _close_assessment.  A rejected row's reason is never a permitted one.
CloseReadiness(ds) ==
    IF EffectiveExceptions(ds) \cap Blocking # {} THEN "blocked"
    ELSE IF \/ EffectiveExceptions(ds) \ RowException # {}
            \/ \E i \in Index : EffectiveState(i, ds[i]) = "pending_within_sla"
         THEN "ready_with_exceptions" ELSE "ready"

-----------------------------------------------------------------------------
Next == \/ \E s \in Settlement : Finalize(s)
        \/ \E c \in Reader : Receive(c) \/ Project(c) \/ Show(c)

Spec == Init /\ [][Next]_vars

-----------------------------------------------------------------------------
(***************************************************************************)
(* Properties                                                              *)
(***************************************************************************)
\* The types of the variables; a review in progress is of a known settlement
\* and has projected no more settlements than there are.
TypeOK ==
    /\ result \in Results
    /\ evidence \in [{batch} \X Settlement -> Bank \cup {NoBank}]
    /\ target \in [Reader -> Settlement \cup {AllReviews}]
    /\ pc \in [Reader -> {"received", "not_found", "projecting", "showing",
                          "done"}]
    /\ seen \in [Reader -> Seq(Bank \cup {NoBank})]
    /\ shown \in [Reader -> Seq(Bank \cup {NoBank})]
    /\ before \in [Reader -> [Settlement -> Bank \cup {NoBank}]]
    /\ earlier \in [Reader -> SUBSET Reader]
    /\ \A c \in Reader :
          /\ Len(seen[c]) <= Len(result.settlements)
          /\ pc[c] \in {"projecting", "showing", "done"} =>
                target[c] \in Ids \cup {AllReviews}
          /\ pc[c] \in {"showing", "done"} =>
                Len(seen[c]) = Len(result.settlements)

\* Every decision there was on arrival is projected, and what is projected
\* stands.
RecentlySeen(c) ==
    \A i \in DOMAIN seen[c] :
        LET s == result.settlements[i].id IN
        /\ before[c][s] # NoBank => seen[c][i] = before[c][s]
        /\ seen[c][i] # NoBank => Accepted(s) = seen[c][i]

\* Every decision that is shown stands, and one that was projected on a
\* settlement is shown with it.
RecentlyShown(c) ==
    \A n \in DOMAIN shown[c] :
        LET s == Listed(c)[n] IN
        /\ shown[c][n] # NoBank => Accepted(s) = shown[c][n]
        /\ \A i \in DOMAIN seen[c] :
              (result.settlements[i].id = s /\ seen[c][i] # NoBank) =>
                  shown[c][n] = seen[c][i]

\* Whatever is finalized while a review reads, its decisions are recent and in
\* order: every decision there was when it arrived is projected, every decision
\* it projected on a settlement it shows next to it, and all of them stand now.
ReviewIsRecent == \A c \in Reader : RecentlySeen(c) /\ RecentlyShown(c)

Rank == [blocked |-> 0, ready_with_exceptions |-> 1, ready |-> 2]

\* Reviews never go back: one that arrives after another was answered reports a
\* close at least as ready and keeps every settlement the other showed cleared,
\* whichever settlement each of them is about.
CloseNeverRegresses ==
    \A d \in Reader : pc[d] = "done" => \A c \in earlier[d] :
        /\ Rank[CloseReadiness(seen[c])] <= Rank[CloseReadiness(seen[d])]
        /\ \A i \in Index :
              EffectiveState(i, seen[c][i]) = "cleared_with_explanation" =>
                  EffectiveState(i, seen[d][i]) = "cleared_with_explanation"

\* Only accepted bank evidence removes a blocker: a review that reports the
\* close unblocked has, for every blocking exception of a settlement, a bank
\* reason and a decision that stands, and no row that names no settlement
\* blocks.  A critical settlement stays critical.
UnblockedOnlyByEvidence ==
    \A c \in Reader : pc[c] = "done" =>
        /\ \A i \in Index :
              result.settlements[i].state = "critical_exception" =>
                  EffectiveState(i, seen[c][i]) = "critical_exception"
        /\ CloseReadiness(seen[c]) # "blocked" =>
              /\ (result.rows \ NamedRow) \cap Blocking = {}
              /\ \A i \in Index :
                    \A e \in result.settlements[i].exceptions \cap Blocking :
                        /\ e \in BankResolved
                        /\ Accepted(result.settlements[i].id) # NoBank

\* Effective projections preserve unrelated exceptions (ADR 0010): a rejected
\* row that blocks the base close blocks the effective one.
RowBlockersArePreserved ==
    \A c \in Reader :
        (pc[c] = "done" /\ result.rows \cap Blocking # {}) =>
            CloseReadiness(seen[c]) = "blocked"

\* Accepted bank evidence is single-use across the batch (FR-209): a review
\* links one bank record to one settlement.
OneSettlementPerRow ==
    \A c \in Reader : \A i, j \in DOMAIN seen[c] :
        (seen[c][i] # NoBank /\ seen[c][i] = seen[c][j]) => i = j
=============================================================================
