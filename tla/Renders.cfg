\* One friend, two renders, a budget of one: every kind of sweep, and crashes.
SPECIFICATION FairSpec
CONSTANTS
    Friends = {alice}
    Images = {i1, i2}
    Sweeps <- AllSweeps
    RETENTION = 2
    URL_TTL = 1
    MaxBytes = 1
    MaxTime = 3
INVARIANTS
    TypeOK
    AnswersKept
    OrphansOnlyRaced
PROPERTIES
    BudgetMet
    AgedReclaimed
