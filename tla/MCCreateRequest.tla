-------------------------- MODULE MCCreateRequest ---------------------------
EXTENDS CreateRequest, TLC

\* Calls are interchangeable in the safety properties.
CallSymmetry == Permutations(Calls)
=============================================================================
