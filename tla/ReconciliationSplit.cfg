SPECIFICATION Spec
CONSTANTS
    Books <- SplitBooks
    Key <- MCKey
    BankId <- MCBankId
    Tolerance = 1
    Sla = 2
    MaterialAbsolute = 10
    MaterialBps = 5000
    MaxTime = 10
CHECK_DEADLOCK FALSE
INVARIANT NoIncompatibleReuse
