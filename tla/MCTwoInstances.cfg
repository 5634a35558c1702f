\* Two instances over one database and one HCM that may forget: the gates do
\* not exclude each other and the record of deductions may be lost, so only
\* the unique audit and the conditional updates are left.
SPECIFICATION Spec
CONSTANTS
    c1 = c1
    c2 = c2
    i1 = i1
    i2 = i2
    Calls = {c1, c2}
    Instances = {i1, i2}
    Home <- TwoInstances
    Pairs = {k1}
    Requests = {r1}
    RequestDays = {1}
    SeedDays = {0, 1}
    Adjustments <- MCAdjustments
    SourceVersions = {}
    NoVersion = NoVersion
    NoProjection = NoProjection
    ServedOperations = {"approve", "reject"}
    FailingOperations = {"GET_BALANCE", "SUBMIT_TIME_OFF"}
    HcmResets = TRUE
    MaxTime = 0
    MaxFaults = 1
    MaxFailures = 1
    MaxBatchSequence = 2
INVARIANTS DeductedOnce AuditMatchesRequest AuditOpenAtOutcome DeductionHasAudit
    AnswersAreTrue
PROPERTY FinalIsFinal
CHECK_DEADLOCK FALSE
