SPECIFICATION Spec
CONSTANTS
    Books <- MCBooks
    Key <- MCKey
    BankId <- MCBankId
    Tolerance = 1
    Sla = 2
    MaterialAbsolute = 10
    MaterialBps = 5000
    MaxTime = 10
CHECK_DEADLOCK FALSE
INVARIANTS
    TypeOK
    LinesProveOneMovement
    ClearedEvidenceIsForced
    ClearedIsProven
    MissingCreditIsTimed
    UnclearedIsNamed
    ReadyMeansCleared
    RefusedRowsProveNothing
    EveryRowIsAccounted
PROPERTIES
    ImplementsAcceptedEvidence
