SPECIFICATION Spec
CONSTANTS
    Pairs = {k1}
    Requests = {r1, r2}
    MaxTime = 1
    SeedDays = {2}
    Adjustments <- MCAdjustments
    RequestDays = {1, 2}
    MaxBatchSequence = 2
    MaxFailures = 1
    MaxTransactions = 2
INVARIANTS BalanceIsConserved VersionNamesContent
PROPERTY AcceptedStaysAccepted
CHECK_DEADLOCK FALSE
