\* Duplicates, retries and conflicting orders under one key, beside orders
\* without one.
SPECIFICATION Spec
CONSTANTS
    Calls = {c1, c2, c3}
    Keys = {key1}
    NoKey = NoKey
    Pairs = {k1}
    RequestDays = {1, 2}
    ProjectedDays = {0, 2}
    NoProjection = NoProjection
    MaxChanges = 1
    MaxFaults = 1
SYMMETRY CallSymmetry
INVARIANTS SameKeySameRequest ConflictIsTrue RetryIsReplayed
PROPERTY ImplementsLedger
CHECK_DEADLOCK FALSE
