\* Batches, late, repeated and simultaneous, beside a refresh of the same pair,
\* over an HCM that changes and forgets.
SPECIFICATION FairSpec
CONSTANTS
    Pairs = {k1}
    Requests = {}
    MaxTime = 1
    SeedDays = {1}
    Adjustments = {1}
    SourceVersions = {0, 1, 2}
    NoVersion = NoVersion
    NoProjection = NoProjection
    Posts = {p1, p2}
    Refreshes = {f1}
    HcmResets = TRUE
    MaxChanges = 2
    MaxFaults = 1
INVARIANT TypeOK
PROPERTIES BatchesInOrder BatchNeverClobbersFresher ReplayHasSameContent
    DriftIsRepaired RefreshingRepairs
CHECK_DEADLOCK FALSE
