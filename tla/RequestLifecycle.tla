-------------------------- MODULE RequestLifecycle --------------------------
(***************************************************************************)
(* What the service promises of a request, with no HTTP calls, gates,      *)
(* audits or HCM protocol in sight: a request is PENDING until it is       *)
(* APPROVED or REJECTED, once; the HCM charges it at most once; and it is  *)
(* approved under the transaction it was charged with.                     *)
(***************************************************************************)
EXTENDS Naturals

CONSTANT Requests

VARIABLES
    status,     \* [Requests -> {"PENDING", "APPROVED", "REJECTED"}]
    charges,    \* the HCM transactions that charged a request
    approval    \* the transaction a request was approved with, 0 for none

lifecycleVars == <<status, charges, approval>>

Init == /\ status = [r \in Requests |-> "PENDING"]
        /\ charges = [r \in Requests |-> {}]
        /\ approval = [r \in Requests |-> 0]

Fresh(t) == t > 0 /\ \A r \in Requests : t \notin charges[r]

Charge(r) == /\ charges[r] = {}
             /\ \E t \in charges'[r] : Fresh(t) /\ charges' = [charges EXCEPT ![r] = {t}]
             /\ UNCHANGED <<status, approval>>

Approve(r) == /\ status[r] = "PENDING"
              /\ status' = [status EXCEPT ![r] = "APPROVED"]
              /\ \E t \in charges[r] : approval' = [approval EXCEPT ![r] = t]
              /\ UNCHANGED charges

Reject(r) == /\ status[r] = "PENDING"
             /\ status' = [status EXCEPT ![r] = "REJECTED"]
             /\ UNCHANGED <<charges, approval>>

Next == \E r \in Requests : Charge(r) \/ Approve(r) \/ Reject(r)

Spec == Init /\ [][Next]_lifecycleVars
=============================================================================
