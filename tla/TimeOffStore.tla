---------------------------- MODULE TimeOffStore ----------------------------
(***************************************************************************)
(* The tables of ReadyOn that an approval touches, and the repositories    *)
(* that write them (src/src/persistence).  Each write is one statement or  *)
(* one transaction, so it is one atomic action; a conditional write that   *)
(* matches no row (count === 0) is a disabled action, and the caller has   *)
(* an action of its own for that answer.  Timestamps that nothing compares *)
(* (createdAt, updatedAt, approvedAt, attemptedAt...) and message texts    *)
(* are left out.                                                           *)
(***************************************************************************)
EXTENDS BalanceStore

CONSTANT
    RequestDays         \* day counts a request may ask for

ASSUME RequestDaysAssumption == RequestDays \subseteq Nat \ {0}

VARIABLES
    requests,       \* time_off_requests, by id
    audits          \* hcm_transaction_audits, by external request id

storeVars == <<requests, audits, projections>>

\* FAILED is declared too, but no service writes it.
RequestStatus == {"PENDING", "APPROVED", "REJECTED"}
AuditStatus == {"NONE", "STARTED", "COMPLETED", "FAILED"}   \* NONE: no row
FailureCodes == {"NONE", "INSUFFICIENT_BALANCE", "INVALID_EMPLOYEE_LOCATION"}

\* hcmTransactionId 0 is null: MockHcm numbers transactions from 1.
Request == [pair: Pairs, days: RequestDays, status: RequestStatus,
            hcmTransactionId: Nat, failureCode: FailureCodes]
Audit == [status: AuditStatus, hcmTransactionId: Nat]

StoreTypeOK ==
    /\ requests \in [Requests -> Request]
    /\ audits \in [Requests -> Audit]
    /\ ProjectionsTypeOK

NewRequest(k, d) == [pair |-> k, days |-> d, status |-> "PENDING",
                     hcmTransactionId |-> 0, failureCode |-> "NONE"]

NoAudit == [status |-> "NONE", hcmTransactionId |-> 0]

StoreInit ==
    /\ requests \in [Requests -> {NewRequest(k, d) : k \in Pairs, d \in RequestDays}]
    /\ audits = [r \in Requests |-> NoAudit]
    /\ projections = [k \in Pairs |-> NoProjection]

\* Mutant: the update is not conditional on PENDING.
UpdateStatusAlways(r, status) ==
    /\ requests' = [requests EXCEPT ![r].status = status,
                                    ![r].hcmTransactionId = 0,
                                    ![r].failureCode = "NONE"]
    /\ UNCHANGED <<audits, projections>>

\* TimeOffRequestRepository.updateStatus, used for a manager's rejection.
UpdateStatus(r, status) ==
    /\ requests[r].status = "PENDING"
    /\ requests' = [requests EXCEPT ![r].status = status,
                                    ![r].hcmTransactionId = 0,
                                    ![r].failureCode = "NONE"]
    /\ UNCHANGED <<audits, projections>>

\* HcmTransactionAuditRepository.createAttempt; externalRequestId is unique.
CreateAttempt(r) ==
    /\ audits[r].status = "NONE"
    /\ audits' = [audits EXCEPT ![r] = [status |-> "STARTED", hcmTransactionId |-> 0]]
    /\ UNCHANGED <<requests, projections>>

\* The balances row left by upsertBalanceProjection: the source version of the
\* row in place is kept.
Synced(row, reading) == Row(reading, VersionOf(row))

(***************************************************************************)
(* TimeOffRequestLifecycleRepository.finalizeApprovalOutcome: one          *)
(* transaction over the request, its audit when one is named (else         *)
(* auditStatus is "NONE"), and the pair's projection when there is a       *)
(* reading.  The transaction commits only if the request is PENDING and    *)
(* the named audit STARTED.                                                *)
(***************************************************************************)
FinalizeApprovalOutcome(r, status, txn, failureCode, auditStatus, readings) ==
    LET k == requests[r].pair IN
    /\ requests[r].status = "PENDING"
    /\ auditStatus # "NONE" => audits[r].status = "STARTED"
    /\ requests' = [requests EXCEPT ![r].status = status,
                                    ![r].hcmTransactionId = txn,
                                    ![r].failureCode = failureCode]
    /\ audits' = IF auditStatus = "NONE" THEN audits
                 ELSE [audits EXCEPT ![r] = [status |-> auditStatus,
                                             hcmTransactionId |-> txn]]
    /\ \/ readings = {} /\ UNCHANGED projections
       \/ \E reading \in readings :
            projections' = [projections EXCEPT ![k] = Synced(@, reading)]
=============================================================================
