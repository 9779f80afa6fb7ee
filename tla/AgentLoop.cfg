SPECIFICATION Spec
CONSTANTS
    candidates = candidates
    ledger = ledger
    aggregate = aggregate
    movement = movement
    abstain = abstain
    bank = bank
    entry = entry
    Run = {r1}
    Tool = {candidates, aggregate, ledger, abstain}
    AbstainTool = abstain
    RequiredTool = {candidates, aggregate, ledger}
    Record = {bank, entry, movement}
    Candidate = {bank}
    MaxSteps = 5
    MaxSchemaRetries = 1
    Observes <- MCObserves
    NoTool = NoTool
    NoBank = NoBank
CHECK_DEADLOCK FALSE
INVARIANTS
    TypeOK
    AcceptanceIsOnRecord
    RecordExplainsEnding
    CancelledRunMakesNoCall
