\* One instance as shipped, over an HCM that outlives it: approvals and
\* rejections race, HCM balances change, one write fails or the process dies.
SPECIFICATION Spec
CONSTANTS
    c1 = c1
    c2 = c2
    i1 = i1
    i2 = i2
    Calls = {c1, c2}
    Instances = {i1}
    Home <- OneInstance
    Pairs = {k1}
    Requests = {r1, r2}
    RequestDays = {1, 2}
    SeedDays = {2}
    Adjustments <- MCAdjustments
    SourceVersions = {}
    NoVersion = NoVersion
    NoProjection = NoProjection
    ServedOperations = {"approve", "reject"}
    FailingOperations = {"GET_BALANCE", "SUBMIT_TIME_OFF"}
    HcmResets = FALSE
    MaxTime = 0
    MaxFaults = 1
    MaxFailures = 1
    MaxBatchSequence = 2
SYMMETRY CallSymmetry
INVARIANTS TypeOK ApprovedWasDeducted DeductedOnce AuditMatchesRequest
    DeductionHasAudit FailedAuditNotDeducted RefusedNotDeducted OneApprovalPerPair
    LinesAreCallsInFlight AnswersAreTrue
PROPERTIES FinalIsFinal ImplementsLifecycle
CHECK_DEADLOCK FALSE
