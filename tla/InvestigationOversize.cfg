SPECIFICATION FairSpec
CONSTANTS
    b1 = b1
    s1 = s1
    s2 = s2
    x = x
    y = y
    Batch = {b1}
    Settlement = {s1, s2}
    Request = {r1}
    Bank = {x, y}
    NoBank = NoBank
    NoRun = NoRun
    NoDecision = NoDecision
    Eligible <- MCEligible
    UniqueCandidate <- MCUniqueCandidate
    Deterministic <- MCDeterministic
    AbstainText = {"bounded", "oversize"}
CHECK_DEADLOCK FALSE
INVARIANTS
    EndedRunsAreRetained
