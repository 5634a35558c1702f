\* Expected violation: a manager's rejection lands between the deduction and
\* the commit of an approval of the same request.
SPECIFICATION Spec
CONSTANTS
    c1 = c1
    c2 = c2
    i1 = i1
    i2 = i2
    Calls = {c1, c2}
    Instances = {i1}
    Home <- OneInstance
    Pairs = {k1}
    Requests = {r1, r2}
    RequestDays = {1, 2}
    SeedDays = {2}
    Adjustments <- MCAdjustments
    SourceVersions = {}
    NoVersion = NoVersion
    NoProjection = NoProjection
    ServedOperations = {"approve", "reject"}
    FailingOperations = {}
    HcmResets = FALSE
    MaxTime = 0
    MaxFaults = 0
    MaxFailures = 1
    MaxBatchSequence = 0
SYMMETRY CallSymmetry
INVARIANT RejectedNotDeducted
CHECK_DEADLOCK FALSE
