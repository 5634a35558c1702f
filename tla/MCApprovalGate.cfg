SPECIFICATION Spec
CONSTANTS
    Calls = {c1, c2, c3, c4}
    Keys = {k1, k2}
    None = None
INVARIANTS TailIsLastPending OldestWorksAlone
PROPERTIES ImplementsMutex EveryoneGetsTheirTurn
CHECK_DEADLOCK FALSE
