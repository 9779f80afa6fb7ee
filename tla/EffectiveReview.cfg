SPECIFICATION Spec
CONSTANTS
    batch = batch
    s1 = s1
    s2 = s2
    s3 = s3
    missing = missing
    small = small
    waiting = waiting
    sla = sla
    absent = absent
    journal = journal
    row = row
    named = named
    Settlement = {s1, s2, s3}
    Bank = {x, y, z}
    NoBank = NoBank
    BaseRows = {z}
    Reader = {c1, c2}
    Exception = {missing, small, waiting, sla, absent, journal,
                 row, named}
    Blocking = {missing, absent, journal, row, named}
    BankResolved = {missing, small, waiting, absent}
    RowException = {row, named}
    NamedRow = {named}
    Results <- MCResults
    AllReviews = AllReviews
CHECK_DEADLOCK FALSE
INVARIANTS
    TypeOK
    ReviewIsRecent
    CloseNeverRegresses
    UnblockedOnlyByEvidence
