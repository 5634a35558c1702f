\* Two refreshes of one pair, the older answer written last.
SPECIFICATION Spec
CONSTANTS
    Pairs = {k1}
    Requests = {}
    MaxTime = 2
    SeedDays = {1}
    Adjustments = {1}
    SourceVersions = {0, 1, 2}
    NoVersion = NoVersion
    NoProjection = NoProjection
    Posts = {p1}
    Refreshes = {f1, f2}
    HcmResets = FALSE
    MaxChanges = 2
    MaxFaults = 0
PROPERTY RefreshOverwritesStaleOnly
CHECK_DEADLOCK FALSE
