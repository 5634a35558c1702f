------------------------- MODULE MCTimeOffApproval --------------------------
EXTENDS TimeOffApproval, TLC
CONSTANTS i1, i2, c1, c2
OneInstance == [c \in Calls |-> i1]
TwoInstances == [c \in Calls |-> IF c = c1 THEN i1 ELSE i2]
MCAdjustments == {-1, 1}
CallSymmetry == Permutations(Calls)
=============================================================================
