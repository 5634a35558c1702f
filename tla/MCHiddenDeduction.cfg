SPECIFICATION Spec
CONSTANTS
    i1 = i1
    Calls = {c1}
    Instances = {i1}
    Home <- OneInstance
    Pairs = {k1}
    Requests = {r1}
    RequestDays = {1}
    SeedDays = {2}
    Adjustments <- Debits
    SourceVersions = {0, 1, 2}
    NoVersion = NoVersion
    NoProjection = NoProjection
    ServedOperations = {"approve"}
    FailingOperations = {}
    Posts = {p1}
    Refreshes = {}
    MaxTime = 3
    MaxFaults = 0
    MaxFailures = 1
    MaxChanges = 2
PROPERTY NoBatchHidesADeduction
CHECK_DEADLOCK FALSE
