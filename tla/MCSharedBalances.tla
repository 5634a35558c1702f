-------------------------- MODULE MCSharedBalances --------------------------
EXTENDS SharedBalances
CONSTANTS i1
OneInstance == [c \in Calls |-> i1]
Debits == {-1}
=============================================================================
