SPECIFICATION Spec
CONSTANTS
    candidates = candidates
    ledger = ledger
    aggregate = aggregate
    movement = movement
    abstain = abstain
    bank = bank
    entry = entry
    Run = {r1}
    Tool = {candidates, abstain}
    AbstainTool = abstain
    RequiredTool = {candidates}
    Record = {bank}
    Candidate = {bank}
    MaxSteps = 2
    MaxSchemaRetries = 0
    Observes <- MCObserves
    NoTool = NoTool
    NoBank = NoBank
CHECK_DEADLOCK FALSE
INVARIANTS
    CancelledOnlyOnRequest
