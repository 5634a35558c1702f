SPECIFICATION Spec
CONSTANTS
    i1 = i1
    Calls = {c1}
    Instances = {i1}
    Home <- OneInstance
    Pairs = {k1}
    Requests = {r1}
    RequestDays = {1}
    SeedDays = {2}
    Adjustments <- Debits
    SourceVersions = {0, 1, 2}
    NoVersion = NoVersion
    NoProjection = NoProjection
    ServedOperations = {"approve", "reject"}
    FailingOperations = {}
    Posts = {p1}
    Refreshes = {f1}
    MaxTime = 1
    MaxFaults = 1
    MaxFailures = 1
    MaxChanges = 2
INVARIANT RowsAreReadings
PROPERTY BatchNeverClobbersFresher
CHECK_DEADLOCK FALSE
