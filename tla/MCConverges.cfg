\* Retries of a deduction whose commit was lost, with balance to spare.
SPECIFICATION FairSpec
CONSTANTS
    c1 = c1
    c2 = c2
    i1 = i1
    i2 = i2
    Calls = {c1, c2}
    Instances = {i1}
    Home <- OneInstance
    Pairs = {k1}
    Requests = {r1, r2}
    RequestDays = {1}
    SeedDays = {3}
    Adjustments <- MCAdjustments
    SourceVersions = {}
    NoVersion = NoVersion
    NoProjection = NoProjection
    ServedOperations = {"approve"}
    FailingOperations = {"SUBMIT_TIME_OFF"}
    HcmResets = FALSE
    MaxTime = 1
    MaxFaults = 2
    MaxFailures = 1
    MaxBatchSequence = 0
PROPERTIES EveryCallIsAnswered DeductionConverges ProjectionNeverOlder
CHECK_DEADLOCK FALSE
