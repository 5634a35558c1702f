---------------------------- MODULE MCHcmClients ----------------------------
EXTENDS HcmClients
\* a credit and a debit that together cross zero
MCAdjustments == {-1, 1}
=============================================================================
