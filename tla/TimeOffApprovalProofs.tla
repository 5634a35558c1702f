----------------------- MODULE TimeOffApprovalProofs ------------------------
(***************************************************************************)
(* What holds of TimeOffApproval for any number of calls, instances, pairs *)
(* and requests, and any bounds.                                           *)
(***************************************************************************)
EXTENDS TimeOffApproval, MockHcmProofs

USE SeedDaysAssumption, AdjustmentsAssumption, RequestDaysAssumption

CallsTypeOK ==
    /\ pc \in [Calls -> Steps]
    /\ target \in [Calls -> Requests]
    /\ submission \in [Calls -> SUBSET Submission]
    /\ rejection \in [Calls -> Rejection]
    /\ outcome \in [Calls -> Outcomes]
    /\ Gate!QueueTypeOK

-----------------------------------------------------------------------------
(* Types: the tables.                                                      *)

(* The tables start well typed.                                            *)
LEMMA StoreInitTyping == StoreInit => StoreTypeOK
    BY DEF StoreInit, StoreTypeOK, ProjectionsTypeOK, NewRequest, Request, RequestStatus,
           FailureCodes, NoAudit, Audit, AuditStatus

(* Request, audit and projection close at once (finalizeApprovalOutcome).  *)
LEMMA FinalizeTyping ==
    ASSUME NEW r \in Requests, NEW status \in RequestStatus, NEW txn \in Nat,
           NEW code \in FailureCodes, NEW auditStatus \in AuditStatus,
           NEW readings \in SUBSET Reading, StoreTypeOK,
           FinalizeApprovalOutcome(r, status, txn, code, auditStatus, readings)
    PROVE  StoreTypeOK'
<1> DEFINE k == requests[r].pair
<1>0. requests[r] \in Request /\ k \in Pairs
    BY DEF StoreTypeOK, Request
<1>1. requests' \in [Requests -> Request]
    BY <1>0 DEF FinalizeApprovalOutcome, StoreTypeOK, Request
<1>2. audits' \in [Requests -> Audit]
    BY DEF FinalizeApprovalOutcome, StoreTypeOK, Audit
<1>3. projections' \in [Pairs -> Projection \cup {NoProjection}]
    <2>1. CASE UNCHANGED projections
        BY <2>1 DEF StoreTypeOK, ProjectionsTypeOK
    <2>2. ASSUME NEW reading \in readings,
                 projections' = [projections EXCEPT ![k] = Synced(@, reading)]
          PROVE  projections' \in [Pairs -> Projection \cup {NoProjection}]
        <3>1. VersionOf(projections[k]) \in SourceVersions \cup {NoVersion}
            BY <1>0 DEF VersionOf, StoreTypeOK, ProjectionsTypeOK, Projection
        <3>2. Synced(projections[k], reading) \in Projection
            BY <3>1 DEF Synced, Row, Projection, Reading
        <3> QED
            BY <2>2, <3>2, <1>0 DEF StoreTypeOK, ProjectionsTypeOK
    <2> QED
        BY <2>1, <2>2 DEF FinalizeApprovalOutcome
<1> QED
    BY <1>1, <1>2, <1>3 DEF StoreTypeOK, ProjectionsTypeOK

(* A conditional update of the status (updateStatusIfCurrent).             *)
LEMMA UpdateStatusTyping ==
    ASSUME NEW r \in Requests, StoreTypeOK, UpdateStatus(r, "REJECTED")
    PROVE  StoreTypeOK'
<1>1. requests[r] \in Request
    BY DEF StoreTypeOK
<1>2. requests' \in [Requests -> Request]
    BY <1>1 DEF StoreTypeOK, UpdateStatus, Request, RequestStatus, FailureCodes
<1> QED
    BY <1>2 DEF StoreTypeOK, ProjectionsTypeOK, UpdateStatus

(* A new audit row (createAttempt).                                        *)
LEMMA CreateAttemptTyping ==
    ASSUME NEW r \in Requests, StoreTypeOK, CreateAttempt(r)
    PROVE  StoreTypeOK'
    BY DEF StoreTypeOK, ProjectionsTypeOK, CreateAttempt, Audit, AuditStatus

(* A step that leaves the tables alone.                                    *)
LEMMA StoreUnchangedTyping ==
    ASSUME StoreTypeOK, UNCHANGED storeVars
    PROVE  StoreTypeOK'
    BY DEF StoreTypeOK, ProjectionsTypeOK, storeVars

-----------------------------------------------------------------------------
(* Types: the calls.                                                       *)

(* The key a call queues under is one of the gate's.                       *)
LEMMA GateKeyTyping ==
    ASSUME NEW c \in Calls, CallsTypeOK, StoreTypeOK
    PROVE  /\ target[c] \in Requests
           /\ requests[target[c]] \in Request
           /\ requests[target[c]].pair \in Pairs
           /\ GateKey(c) \in GateKeys
    BY HomeAssumption DEF CallsTypeOK, StoreTypeOK, Request, GateKey, GateKeys

(* A call moves on to its next await.                                      *)
LEMMA ContinueTyping ==
    ASSUME NEW c \in Calls, NEW from, NEW to \in Steps, CallsTypeOK,
           Continue(c, from, to)
    PROVE  CallsTypeOK'
    BY DEF CallsTypeOK, Continue, Goto, Gate!QueueTypeOK

(* A call decides on a rejection it will persist.                          *)
LEMMA DecideTyping ==
    ASSUME NEW c \in Calls, NEW from, NEW to \in Steps, NEW code \in FailureCodes,
           NEW auditStatus \in {"NONE", "FAILED"}, NEW readings \in SUBSET Reading,
           CallsTypeOK, DecideRejection(c, from, to, code, auditStatus, readings)
    PROVE  CallsTypeOK'
    BY DEF CallsTypeOK, DecideRejection, Goto, Rejection, Gate!QueueTypeOK

(* A call answers.                                                         *)
LEMMA RespondTyping ==
    ASSUME NEW c \in Calls, NEW from, NEW answer \in Outcomes, CallsTypeOK,
           Respond(c, from, answer), Gate!QueueTypeOK'
    PROVE  CallsTypeOK'
<1>1. "idle" \in Steps
    BY DEF Steps
<1>2. NoRejection \in Rejection
    BY DEF NoRejection, Rejection, FailureCodes
<1> QED
    BY <1>1, <1>2 DEF CallsTypeOK, Respond, Goto

(* Handing a gate on keeps every queue a sequence of calls.                *)
LEMMA LeaveTyping ==
    ASSUME NEW c \in Calls, NEW k \in GateKeys, Gate!QueueTypeOK, Gate!Leave(c, k)
    PROVE  Gate!QueueTypeOK'
<1>1. queue[k] \in Seq(Calls) /\ queue[k] # <<>>
    BY DEF Gate!QueueTypeOK, Gate!Leave, Gate!Holds
<1>2. Tail(queue[k]) \in Seq(Calls)
    BY <1>1
<1> QED
    BY <1>2 DEF Gate!QueueTypeOK, Gate!Leave

(* A call answers and hands its gate on (the finally block).               *)
LEMMA RespondAndLeaveTyping ==
    ASSUME NEW c \in Calls, NEW from, NEW answer \in Outcomes, CallsTypeOK,
           StoreTypeOK, RespondAndLeave(c, from, answer)
    PROVE  CallsTypeOK'
<1>1. Gate!QueueTypeOK'
    BY GateKeyTyping, LeaveTyping DEF RespondAndLeave, CallsTypeOK
<1> QED
    BY <1>1, RespondTyping DEF RespondAndLeave

(* A step that leaves the calls alone.                                     *)
LEMMA CallsUnchangedTyping ==
    ASSUME CallsTypeOK, UNCHANGED callVars
    PROVE  CallsTypeOK'
    BY DEF CallsTypeOK, callVars, Gate!QueueTypeOK

(* A reading of a balance is well typed.                                   *)
LEMMA ReadNowTyping ==
    ASSUME NEW k \in Pairs, HcmTypeOK, now \in Nat
    PROVE  ReadNow(k) \in Reading
    BY DEF ReadNow, Reading, HcmTypeOK

-----------------------------------------------------------------------------
(* Types: the steps.                                                       *)

\* TypeOK, part by part.
Typed == now \in Nat /\ faults \in Nat /\ HcmTypeOK /\ StoreTypeOK /\ CallsTypeOK

LEMMA TypeSplit == TypeOK <=> Typed /\ TransactionsGiven
    BY DEF TypeOK, Typed, CallsTypeOK

(* The service starts well typed.                                          *)
LEMMA InitTyping == Init => TypeOK
<1> SUFFICES ASSUME Init PROVE TypeOK
    OBVIOUS
<1>1. HcmTypeOK /\ StoreTypeOK
    BY HcmInitTyping, StoreInitTyping DEF Init
<1>2. NoRejection \in Rejection
    BY DEF NoRejection, Rejection, FailureCodes
<1>3. CallsTypeOK
    BY <1>2, RequestsAssumption
       DEF Init, CallsTypeOK, Steps, Outcomes, Gate!QueueInit, Gate!QueueTypeOK
<1>4. TransactionsGiven
    BY DEF Init, HcmInit, StoreInit, TransactionsGiven, NewRequest, NoAudit
<1> QED
    BY <1>1, <1>3, <1>4, TypeSplit DEF Init, Typed

(* Serving a call takes no time, but for a deduction that reads the clock  *)
(* before and after.                                                       *)
LEMMA ServedInTime ==
    ASSUME now \in Nat, NEW c \in Calls, Serve(c)
    PROVE  now' \in Nat /\ now <= now'
<1>1. CASE now' = now
    BY <1>1
<1>2. CASE SubmitTimeOff(c)
    BY <1>1, <1>2, ClockMovesOn DEF SubmitTimeOff, SubmitAccepted
<1> QED
    BY <1>1, <1>2
       DEF Serve, EnterGate, ReloadRequest, CheckBalance, FindAudit, CreateAudit,
           RereadRacedAudit, ReadLatestBalance, StampBalance, FinalizeApproval,
           ResolveNoop, PersistRejection, UpdateToRejected

(* Each step of a call that is served.                                     *)
LEMMA ServeTyping ==
    ASSUME TypeOK, NEW c \in Calls, Serve(c)
    PROVE  Typed'
<1> DEFINE r == target[c]
           k == requests[r].pair
           d == requests[r].days
<1>0. /\ now \in Nat /\ faults \in Nat
      /\ HcmTypeOK /\ StoreTypeOK /\ CallsTypeOK
    BY TypeSplit DEF Typed
<1>1. r \in Requests /\ k \in Pairs /\ d \in Nat
    BY <1>0, GateKeyTyping DEF Request
<1>2. /\ WithinGate \subseteq Steps /\ "updateStatus" \in Steps
      /\ {"APPROVED", "REJECTED", "HCM_UNAVAILABLE", "INVALID_REQUEST_STATE"} \subseteq Outcomes
      /\ FailureCodes \subseteq Outcomes
    BY DEF Steps, WithinGate, Outcomes, FailureCodes
<1>3. now' \in Nat /\ faults' \in Nat
    <2>1. faults' = faults
        BY DEF Serve, EnterGate, ReloadRequest, CheckBalance, FindAudit, CreateAudit,
               RereadRacedAudit, SubmitTimeOff, ReadLatestBalance, StampBalance,
               FinalizeApproval, ResolveNoop, PersistRejection, UpdateToRejected
    <2> QED
        BY <1>0, <2>1, ServedInTime
<1>4. SUFFICES HcmTypeOK' /\ StoreTypeOK' /\ CallsTypeOK'
    BY <1>3 DEF Typed
<1>5. ASSUME UNCHANGED hcmVars PROVE HcmTypeOK'
    BY <1>0, <1>5, HcmUnchangedTyping
<1>6. ASSUME UNCHANGED storeVars PROVE StoreTypeOK'
    BY <1>0, <1>6, StoreUnchangedTyping
<1>7. ASSUME NEW from, NEW to \in Steps, Continue(c, from, to) PROVE CallsTypeOK'
    BY <1>0, <1>7, ContinueTyping
<1>8. ASSUME NEW from, NEW answer \in Outcomes, RespondAndLeave(c, from, answer)
      PROVE  CallsTypeOK'
    BY <1>0, <1>8, RespondAndLeaveTyping
<1>a. CASE EnterGate(c)
    BY <1>2, <1>5, <1>6, <1>7, <1>a DEF EnterGate, WithinGate
<1>b. CASE ReloadRequest(c)
    BY <1>2, <1>5, <1>6, <1>7, <1>8, <1>b DEF ReloadRequest, WithinGate
<1>c. CASE CheckBalance(c)
    <2>1. ReadNow(k) \in Reading
        BY <1>0, <1>1, ReadNowTyping
    <2>2. HcmTypeOK'
        BY <1>0, <1>5, <1>c, FailureTyping
           DEF CheckBalance, GetBalanceFound, GetBalanceUnknown, GetBalanceUnavailable, Operations
    <2>3. CallsTypeOK'
        BY <1>0, <1>2, <1>7, <1>8, <1>c, <2>1, DecideTyping
           DEF CheckBalance, WithinGate, FailureCodes
    <2> QED
        BY <1>6, <1>c, <2>2, <2>3 DEF CheckBalance
<1>d. CASE FindAudit(c)
    BY <1>2, <1>5, <1>6, <1>7, <1>8, <1>d DEF FindAudit, WithinGate
<1>e. CASE CreateAudit(c)
    <2>1. StoreTypeOK'
        BY <1>0, <1>1, <1>6, <1>e, CreateAttemptTyping DEF CreateAudit
    <2> QED
        BY <1>2, <1>5, <1>7, <1>e, <2>1 DEF CreateAudit, WithinGate
<1>f. CASE RereadRacedAudit(c)
    BY <1>2, <1>5, <1>6, <1>7, <1>8, <1>f DEF RereadRacedAudit, WithinGate
<1>g. CASE SubmitTimeOff(c)
    <2>1. ASSUME NEW s \in Submission, KeepSubmission(c, s) PROVE CallsTypeOK'
        BY <1>0, <1>2, <2>1
           DEF KeepSubmission, CallsTypeOK, Goto, Gate!QueueTypeOK, WithinGate
    <2>2. CASE \E s \in processedRequests : SubmitReplayed(s, r, k, d) /\ KeepSubmission(c, s)
        BY <1>0, <1>5, <1>6, <1>g, <2>1, <2>2 DEF SubmitReplayed, HcmTypeOK, SubmitTimeOff
    <2>3. CASE SubmitAccepted(r, k, d) /\ KeepSubmission(c, Accepted(r, k, d))
        BY <1>0, <1>1, <1>6, <1>g, <2>1, <2>3, AcceptedTyping DEF SubmitTimeOff
    <2>4. CASE SubmitInsufficient(r, k, d) /\ Continue(c, "submit", "readBalance")
        BY <1>2, <1>5, <1>6, <1>7, <1>g, <2>4 DEF SubmitInsufficient, SubmitTimeOff, WithinGate
    <2>5. CASE /\ SubmitUnknown(r, k)
               /\ DecideRejection(c, "submit", "persist", "INVALID_EMPLOYEE_LOCATION",
                                  "FAILED", {})
        <3>1. CallsTypeOK'
            BY <1>0, <1>2, <2>5, DecideTyping DEF FailureCodes, WithinGate
        <3> QED
            BY <1>5, <1>6, <1>g, <2>5, <3>1 DEF SubmitUnknown, SubmitTimeOff
    <2>6. CASE /\ SubmitUnavailable(r) \/ SubmitConflict(r, k, d)
               /\ RespondAndLeave(c, "submit", "HCM_UNAVAILABLE")
        BY <1>0, <1>2, <1>5, <1>6, <1>8, <1>g, <2>6, FailureTyping
           DEF SubmitUnavailable, SubmitConflict, SubmitTimeOff, Operations
    <2> QED
        BY <1>g, <2>2, <2>3, <2>4, <2>5, <2>6 DEF SubmitTimeOff
<1>h. CASE ReadLatestBalance(c)
    <2>1. {ReadNow(k)} \in SUBSET Reading
        BY <1>0, <1>1, ReadNowTyping
    <2>2. HcmTypeOK'
        BY <1>0, <1>5, <1>h, FailureTyping
           DEF ReadLatestBalance, GetBalanceFound, GetBalanceUnknown, GetBalanceUnavailable,
               Operations
    <2>3. CallsTypeOK'
        <3>1. "stampBalance" \in Steps /\ "persist" \in Steps
            BY <1>2 DEF WithinGate
        <3>2. "INSUFFICIENT_BALANCE" \in FailureCodes
            BY DEF FailureCodes
        <3>3. PICK to \in {"stampBalance", "persist"}, readings \in {{ReadNow(k)}, {}} :
                 DecideRejection(c, "readBalance", to, "INSUFFICIENT_BALANCE", "FAILED", readings)
            BY <1>h DEF ReadLatestBalance
        <3> QED
            BY <1>0, <2>1, <3>1, <3>2, <3>3, DecideTyping
    <2> QED
        BY <1>6, <1>h, <2>2, <2>3 DEF ReadLatestBalance
<1>m. CASE StampBalance(c)
    <2> DEFINE stamped == {[reading EXCEPT !.lastSyncedAt = now] : reading \in rejection[c].readings}
    <2>1. rejection[c] \in Rejection
        BY <1>0 DEF CallsTypeOK
    <2>2. stamped \in SUBSET Reading
        BY <1>0, <2>1 DEF Rejection, Reading
    <2>3. DecideRejection(c, "stampBalance", "persist", rejection[c].code,
                          rejection[c].auditStatus, stamped)
        BY <1>m DEF StampBalance
    <2> HIDE DEF stamped
    <2>4. CallsTypeOK'
        BY <1>0, <1>2, <2>1, <2>2, <2>3, DecideTyping DEF Rejection, WithinGate
    <2> QED
        BY <1>5, <1>6, <1>m, <2>4 DEF StampBalance
<1>i. CASE FinalizeApproval(c)
    <2>1. submission[c] \subseteq Submission
        BY <1>0 DEF CallsTypeOK
    <2>2. ASSUME NEW s \in submission[c]
          PROVE  /\ s.txn \in Nat
                 /\ {[availableDays |-> s.remaining, lastSyncedAt |-> s.processedAt]}
                        \in SUBSET Reading
        BY <2>1 DEF Submission, Reading
    <2>3. StoreTypeOK'
        BY <1>0, <1>1, <1>6, <1>i, <2>2, FinalizeTyping
           DEF FinalizeApproval, RequestStatus, FailureCodes, AuditStatus
    <2> QED
        BY <1>2, <1>5, <1>7, <1>8, <1>i, <2>3 DEF FinalizeApproval, WithinGate
<1>j. CASE ResolveNoop(c)
    BY <1>2, <1>5, <1>6, <1>8, <1>j DEF ResolveNoop
<1>k. CASE PersistRejection(c)
    <2>1. rejection[c] \in Rejection
        BY <1>0 DEF CallsTypeOK
    <2>2. StoreTypeOK'
        BY <1>0, <1>1, <1>6, <1>k, <2>1, FinalizeTyping
           DEF PersistRejection, RequestStatus, AuditStatus, Rejection
    <2>3. rejection[c].code \in Outcomes
        BY <1>2, <2>1 DEF Rejection
    <2> QED
        BY <1>2, <1>5, <1>8, <1>k, <2>2, <2>3 DEF PersistRejection
<1>l. CASE UpdateToRejected(c)
    <2>1. StoreTypeOK'
        BY <1>0, <1>1, <1>6, <1>l, UpdateStatusTyping DEF UpdateToRejected
    <2>2. Gate!QueueTypeOK'
        BY <1>0, <1>l DEF UpdateToRejected, CallsTypeOK, Gate!QueueTypeOK
    <2>3. CallsTypeOK'
        BY <1>0, <1>2, <1>l, <2>2, RespondTyping DEF UpdateToRejected
    <2> QED
        BY <1>5, <1>l, <2>1, <2>3 DEF UpdateToRejected
<1> QED
    BY <1>a, <1>b, <1>c, <1>d, <1>e, <1>f, <1>g, <1>h, <1>i, <1>j, <1>k, <1>l, <1>m
       DEF Serve

(* Each step of the system.                                                *)
LEMMA NextTyping ==
    ASSUME TypeOK, [Next]_vars
    PROVE  Typed'
<1>0. /\ now \in Nat /\ faults \in Nat
      /\ HcmTypeOK /\ StoreTypeOK /\ CallsTypeOK
    BY TypeSplit DEF Typed
<1>1. /\ {"idle", "queued", "updateStatus"} \subseteq Steps
      /\ {"NONE", "INVALID_REQUEST_STATE", "PERSISTENCE_ERROR", "CRASHED"} \subseteq Outcomes
    BY DEF Steps, Outcomes
<1>2. SUFFICES /\ now' \in Nat /\ faults' \in Nat
               /\ HcmTypeOK' /\ StoreTypeOK' /\ CallsTypeOK'
    BY DEF Typed
<1>3. ASSUME UNCHANGED hcmVars PROVE HcmTypeOK'
    BY <1>0, <1>3, HcmUnchangedTyping
<1>4. ASSUME UNCHANGED storeVars PROVE StoreTypeOK'
    BY <1>0, <1>4, StoreUnchangedTyping
<1>5. ASSUME UNCHANGED callVars PROVE CallsTypeOK'
    BY <1>0, <1>5, CallsUnchangedTyping
<1>a. ASSUME NEW c \in Calls, NEW r \in Requests, ApproveRequest(c, r)
      PROVE  Typed'
    <2>1. <<Home[c], requests[r].pair>> \in GateKeys
        BY <1>0, HomeAssumption DEF StoreTypeOK, Request, GateKeys
    <2>2. Gate!QueueTypeOK'
        BY <1>0, <1>a, <2>1 DEF ApproveRequest, Gate!Join, Gate!QueueTypeOK, CallsTypeOK
    <2>3. CallsTypeOK'
        BY <1>0, <1>1, <1>a, <2>2 DEF ApproveRequest, CallsTypeOK, Goto
    <2> QED
        BY <1>0, <1>3, <1>4, <1>a, <2>3 DEF ApproveRequest, Typed
<1>b. ASSUME NEW c \in Calls, NEW r \in Requests, RejectRequest(c, r)
      PROVE  Typed'
    <2>1. CallsTypeOK'
        BY <1>0, <1>1, <1>b DEF RejectRequest, CallsTypeOK, Goto, Gate!QueueTypeOK
    <2> QED
        BY <1>0, <1>3, <1>4, <1>b, <2>1 DEF RejectRequest, Typed
<1>c. ASSUME NEW c \in Calls, PersistenceFails(c)
      PROVE  Typed'
    <2>1. CallsTypeOK'
        <3>1. CASE RespondAndLeave(c, pc[c], "PERSISTENCE_ERROR")
            BY <1>0, <1>1, <3>1, RespondAndLeaveTyping
        <3>2. CASE Respond(c, "updateStatus", "PERSISTENCE_ERROR") /\ UNCHANGED queue
            <4>1. Gate!QueueTypeOK'
                BY <1>0, <3>2 DEF CallsTypeOK, Gate!QueueTypeOK
            <4> QED
                BY <1>0, <1>1, <3>2, <4>1, RespondTyping
        <3> QED
            BY <1>c, <3>1, <3>2 DEF PersistenceFails
    <2>2. StoreTypeOK'
        BY <1>0, <1>4, <1>c, GateKeyTyping, UpdateStatusTyping DEF PersistenceFails
    <2> QED
        BY <1>0, <1>3, <1>c, <2>1, <2>2 DEF PersistenceFails, Typed
<1>d. ASSUME NEW i \in Instances, Restart(i)
      PROVE  Typed'
    <2>1. HcmTypeOK'
        BY <1>0, <1>3, <1>d, ResetTyping DEF Restart
    <2>2. NoRejection \in Rejection
        BY DEF NoRejection, Rejection, FailureCodes
    <2>3. CallsTypeOK'
        BY <1>0, <1>1, <1>d, <2>2 DEF Restart, CallsTypeOK, Gate!QueueTypeOK
    <2> QED
        BY <1>0, <1>4, <1>d, <2>1, <2>3 DEF Restart, Typed
<1>e. CASE HcmReset
    BY <1>0, <1>4, <1>5, <1>e, ResetTyping DEF HcmReset
<1>f. ASSUME NEW k \in Pairs, NEW delta \in Adjustments, HcmAdjusts(k, delta)
      PROVE  Typed'
    BY <1>0, <1>4, <1>5, <1>f, AdjustTyping DEF HcmAdjusts, Typed
<1>g. ASSUME NEW op \in FailingOperations, HcmWillFail(op)
      PROVE  Typed'
    BY <1>0, <1>4, <1>5, <1>g, FailureTyping, FailingOperationsAssumption
       DEF HcmWillFail, Typed
<1>h. CASE TimePasses
    BY <1>0, <1>3, <1>4, <1>5, <1>h DEF TimePasses, Tick
<1>i. CASE UNCHANGED vars
    BY <1>0, <1>3, <1>4, <1>5, <1>i DEF vars
<1> QED
    BY <1>a, <1>b, <1>c, <1>d, <1>e, <1>f, <1>g, <1>h, <1>i, ServeTyping
       DEF Next, Typed

-----------------------------------------------------------------------------
(* What a step may do.                                                     *)

ApprovedBy(c) ==
    /\ pc[c] = "finalize"
    /\ pc'[c] = "idle"
    /\ \E s \in submission[c] :
          FinalizeApprovalOutcome(target[c], "APPROVED", s.txn, "NONE", "COMPLETED",
              {[availableDays |-> s.remaining, lastSyncedAt |-> s.processedAt]})

RejectedBy(c) ==
    /\ pc[c] = "persist"
    /\ pc'[c] = "idle"
    /\ FinalizeApprovalOutcome(target[c], "REJECTED", 0, rejection[c].code,
                               rejection[c].auditStatus, rejection[c].readings)

(* The tables change in four ways only.                                    *)
LEMMA StoreMoves ==
    ASSUME TypeOK, [Next]_vars
    PROVE  \/ UNCHANGED storeVars
           \/ \E c \in Calls : \/ CreateAttempt(target[c])
                               \/ UpdateStatus(target[c], "REJECTED")
                               \/ ApprovedBy(c)
                               \/ RejectedBy(c)
<1>1. ASSUME NEW c \in Calls, Serve(c)
      PROVE  \/ UNCHANGED storeVars
             \/ CreateAttempt(target[c]) \/ UpdateStatus(target[c], "REJECTED")
             \/ ApprovedBy(c) \/ RejectedBy(c)
    <2>1. CASE FinalizeApproval(c)
        BY <2>1 DEF FinalizeApproval, ApprovedBy, RespondAndLeave, Respond, Goto, TypeOK
    <2>2. CASE PersistRejection(c)
        BY <2>2 DEF PersistRejection, RejectedBy, RespondAndLeave, Respond, Goto, TypeOK
    <2> QED
        BY <1>1, <2>1, <2>2
           DEF Serve, EnterGate, ReloadRequest, CheckBalance, FindAudit, CreateAudit,
               RereadRacedAudit, SubmitTimeOff, ReadLatestBalance, StampBalance,
               ResolveNoop, UpdateToRejected
<1>2. CASE UNCHANGED vars
    BY <1>2 DEF vars, storeVars
<1> QED
    BY <1>1, <1>2 DEF Next, ApproveRequest, RejectRequest, PersistenceFails, Restart,
       HcmReset, HcmAdjusts, HcmWillFail, TimePasses

\* The HCM accepts the submission of call c.
AcceptedFor(c) ==
    LET r == target[c] IN
    /\ pc[c] = "submit"
    /\ pc'[c] = "finalize"
    /\ target'[c] = r
    /\ SubmitAccepted(r, requests[r].pair, requests[r].days)

(* The record of the HCM grows by one accepted submission at a time, made  *)
(* by a call that leaves the tables alone, and is lost only by a reset.    *)
LEMMA HcmMoves ==
    ASSUME TypeOK, [Next]_vars
    PROVE  \/ UNCHANGED processedRequests /\ transactions' = transactions
           \/ HcmResets /\ processedRequests' = {} /\ transactions' = transactions
           \/ \E c \in Calls : AcceptedFor(c) /\ UNCHANGED storeVars
<1> DEFINE Kept == UNCHANGED processedRequests /\ transactions' = transactions
           Lost == HcmResets /\ processedRequests' = {} /\ transactions' = transactions
<1>1. ASSUME UNCHANGED hcmVars PROVE Kept
    BY <1>1 DEF hcmVars
<1>2. ASSUME NEW op, ConsumeTransientFailure(op) PROVE Kept
    BY <1>2 DEF ConsumeTransientFailure
<1>3. ASSUME NEW c \in Calls, Serve(c)
      PROVE  Kept \/ (AcceptedFor(c) /\ UNCHANGED storeVars)
    <2>1. CASE CheckBalance(c)
        BY <1>1, <1>2, <2>1 DEF CheckBalance, GetBalanceFound, GetBalanceUnknown,
                                GetBalanceUnavailable
    <2>2. CASE ReadLatestBalance(c)
        BY <1>1, <1>2, <2>2 DEF ReadLatestBalance, GetBalanceFound, GetBalanceUnknown,
                                GetBalanceUnavailable
    <2>3. CASE SubmitTimeOff(c)
        BY <1>1, <1>2, <2>3 DEF SubmitTimeOff, AcceptedFor, SubmitReplayed, SubmitInsufficient,
                                SubmitUnknown, SubmitUnavailable, SubmitConflict,
                                KeepSubmission, Goto, TypeOK
    <2> QED
        BY <1>1, <1>3, <2>1, <2>2, <2>3
           DEF Serve, EnterGate, ReloadRequest, FindAudit, CreateAudit, RereadRacedAudit,
               StampBalance, FinalizeApproval, ResolveNoop, PersistRejection, UpdateToRejected
<1>4. ASSUME Reset PROVE processedRequests' = {} /\ transactions' = transactions
    BY <1>4 DEF Reset
<1>5. CASE UNCHANGED vars
    BY <1>1, <1>5 DEF vars
<1>6. ASSUME NEW k, NEW delta, HcmAdjusts(k, delta) PROVE Kept
    BY <1>6 DEF HcmAdjusts, AdjustAccepted
<1>7. ASSUME NEW op, HcmWillFail(op) PROVE Kept
    BY <1>7 DEF HcmWillFail, ScheduleTransientFailure
<1>8. ASSUME NEW i, Restart(i) PROVE Kept \/ Lost
    BY <1>1, <1>4, <1>8 DEF Restart
<1>9. CASE HcmReset
    BY <1>4, <1>9 DEF HcmReset
<1> QED
    BY <1>1, <1>3, <1>5, <1>6, <1>7, <1>8, <1>9
       DEF Next, ApproveRequest, RejectRequest, PersistenceFails, TimePasses

\* Call d keeps its submission and moves on, or stays where it is.
KeepsSubmission(d) ==
    /\ submission'[d] = submission[d]
    /\ \/ pc'[d] = pc[d] /\ target'[d] = target[d]
       \/ pc[d] = "finalize" /\ pc'[d] = "noop" /\ target'[d] = target[d]
       \/ pc[d] \notin {"finalize", "noop"}

\* Call d receives s from the HCM: replayed from its record, or new on it.
Receives(d, s) ==
    LET r == target[d] IN
    /\ submission'[d] = {s}
    /\ pc'[d] = "finalize"
    /\ target'[d] = target[d]
    /\ \/ /\ s \in Processed(r)
          /\ SameFingerprint(s, requests[r].pair, requests[r].days)
          /\ UNCHANGED processedRequests
       \/ AcceptedFor(d) /\ s = Accepted(r, requests[r].pair, requests[r].days)

(* A call loses its submission, keeps it, or receives one.                 *)
LEMMA SubmissionMoves ==
    ASSUME TypeOK, [Next]_vars, NEW d \in Calls
    PROVE  submission'[d] = {} \/ KeepsSubmission(d) \/ \E s : Receives(d, s)
<1> DEFINE Moved == submission'[d] = {} \/ KeepsSubmission(d) \/ \E s : Receives(d, s)
<1>0. /\ pc \in [Calls -> Steps] /\ target \in [Calls -> Requests]
      /\ submission \in [Calls -> SUBSET Submission]
    BY DEF TypeOK
<1>1. ASSUME UNCHANGED callVars PROVE Moved
    BY <1>1 DEF callVars, KeepsSubmission
<1>2. ASSUME NEW c \in Calls, NEW from, NEW answer, Respond(c, from, answer) PROVE Moved
    BY <1>0, <1>2 DEF Respond, Goto, KeepsSubmission
<1>3. ASSUME NEW c \in Calls, NEW from, NEW to,
             from \notin {"finalize", "noop"}, Continue(c, from, to)
      PROVE  Moved
    BY <1>0, <1>3 DEF Continue, Goto, KeepsSubmission
<1>4. ASSUME NEW c \in Calls, NEW from, from \notin {"finalize", "noop"},
             NEW to, NEW code, NEW auditStatus, NEW readings,
             DecideRejection(c, from, to, code, auditStatus, readings)
      PROVE  Moved
    BY <1>0, <1>4 DEF DecideRejection, Goto, KeepsSubmission
<1>5. ASSUME NEW c \in Calls, Continue(c, "finalize", "noop") PROVE Moved
    BY <1>0, <1>5 DEF Continue, Goto, KeepsSubmission
<1>6. ASSUME NEW c \in Calls, SubmitTimeOff(c) PROVE Moved
    <2> DEFINE r == target[c]
               k == requests[r].pair
               n == requests[r].days
    <2>1. ASSUME NEW s, KeepSubmission(c, s), c # d PROVE Moved
        BY <1>0, <2>1 DEF KeepSubmission, Goto, KeepsSubmission
    <2>2. ASSUME NEW s \in processedRequests, SubmitReplayed(s, r, k, n), KeepSubmission(c, s)
          PROVE  Moved
        <3>1. CASE c # d
            BY <2>1, <2>2, <3>1
        <3>2. CASE c = d
            <4>1. Receives(d, s)
                BY <1>0, <2>2, <3>2
                   DEF KeepSubmission, Goto, Receives, SubmitReplayed, hcmVars
            <4> QED
                BY <4>1
        <3> QED
            BY <3>1, <3>2
    <2>3. ASSUME SubmitAccepted(r, k, n), KeepSubmission(c, Accepted(r, k, n)) PROVE Moved
        <3>1. CASE c # d
            BY <2>1, <2>3, <3>1
        <3>2. CASE c = d
            <4>1. Receives(d, Accepted(r, k, n))
                BY <1>0, <2>3, <3>2 DEF KeepSubmission, Goto, Receives, AcceptedFor
            <4> QED
                BY <4>1
        <3> QED
            BY <3>1, <3>2
    <2> QED
        BY <1>2, <1>3, <1>4, <1>6, <2>2, <2>3 DEF SubmitTimeOff, RespondAndLeave
<1>7. ASSUME NEW c \in Calls, Serve(c) PROVE Moved
    <2>1. CASE EnterGate(c) \/ ReloadRequest(c) \/ FindAudit(c) \/ CreateAudit(c)
                 \/ RereadRacedAudit(c) \/ ResolveNoop(c) \/ UpdateToRejected(c)
        BY <1>2, <1>3, <2>1 DEF EnterGate, ReloadRequest, FindAudit, CreateAudit,
           RereadRacedAudit, ResolveNoop, UpdateToRejected, RespondAndLeave
    <2>2. CASE CheckBalance(c) \/ ReadLatestBalance(c) \/ StampBalance(c)
        BY <1>2, <1>3, <1>4, <2>2
           DEF CheckBalance, ReadLatestBalance, StampBalance, RespondAndLeave
    <2>3. CASE FinalizeApproval(c) \/ PersistRejection(c)
        BY <1>2, <1>5, <2>3 DEF FinalizeApproval, PersistRejection, RespondAndLeave
    <2> QED
        BY <1>6, <1>7, <2>1, <2>2, <2>3 DEF Serve
<1>8. ASSUME NEW c \in Calls, NEW r \in Requests, ApproveRequest(c, r) \/ RejectRequest(c, r)
      PROVE  Moved
    BY <1>0, <1>8 DEF ApproveRequest, RejectRequest, Goto, KeepsSubmission
<1>9. ASSUME NEW c \in Calls, PersistenceFails(c) PROVE Moved
    BY <1>2, <1>9 DEF PersistenceFails, RespondAndLeave
<1>10. ASSUME NEW i \in Instances, Restart(i) PROVE Moved
    BY <1>0, <1>10 DEF Restart, KeepsSubmission
<1>11. CASE UNCHANGED vars
    BY <1>1, <1>11 DEF vars, callVars
<1> QED
    BY <1>1, <1>7, <1>8, <1>9, <1>10, <1>11
       DEF Next, HcmReset, HcmAdjusts, HcmWillFail, TimePasses

-----------------------------------------------------------------------------
(* Types: the transaction ids.                                             *)

(* Ids are given out by accepted submissions only, and go from there to    *)
(* the caller and from the caller to its request and audit.                *)
LEMMA TransactionsStep ==
    ASSUME TypeOK, [Next]_vars
    PROVE  TransactionsGiven'
<1>0. /\ transactions \in Nat /\ processedRequests \subseteq Submission
      /\ target \in [Calls -> Requests] /\ submission \in [Calls -> SUBSET Submission]
      /\ requests \in [Requests -> Request] /\ audits \in [Requests -> Audit]
    BY DEF TypeOK, HcmTypeOK, StoreTypeOK
<1>1. ASSUME NEW c \in Calls, AcceptedFor(c)
      PROVE  LET s == Accepted(target[c], requests[target[c]].pair, requests[target[c]].days)
             IN  /\ transactions' = transactions + 1 /\ s.txn = transactions'
                 /\ processedRequests' = processedRequests \cup {s}
    BY <1>0, <1>1 DEF AcceptedFor, SubmitAccepted, Accepted
<1>2. transactions' \in Nat /\ transactions <= transactions'
    BY <1>0, <1>1, HcmMoves
<1>3. \A s \in processedRequests' : s.txn \in 1..transactions'
    <2>1. \A s \in processedRequests : s.txn \in 1..transactions'
        BY <1>0, <1>2 DEF TypeOK, TransactionsGiven
    <2> QED
        BY <1>0, <1>1, <1>2, <2>1, HcmMoves
<1>4. ASSUME NEW c \in Calls, NEW s \in submission'[c]
      PROVE  s.txn \in 1..transactions'
    <2>1. CASE KeepsSubmission(c)
        <3>1. s.txn \in 1..transactions
            BY <1>4, <2>1 DEF KeepsSubmission, TypeOK, TransactionsGiven
        <3> QED
            BY <1>0, <1>2, <3>1
    <2>2. ASSUME NEW t, Receives(c, t) PROVE s.txn \in 1..transactions'
        <3>1. s = t
            BY <1>4, <2>2 DEF Receives
        <3>2. t \in processedRequests'
            BY <1>1, <2>2 DEF Receives, Processed
        <3> QED
            BY <1>3, <3>1, <3>2
    <2> QED
        BY <1>4, <2>1, <2>2, SubmissionMoves
<1>5. ASSUME NEW r \in Requests
      PROVE  /\ requests'[r].hcmTransactionId \in 0..transactions'
             /\ audits'[r].hcmTransactionId \in 0..transactions'
    <2> DEFINE Given == /\ requests'[r].hcmTransactionId \in 0..transactions'
                        /\ audits'[r].hcmTransactionId \in 0..transactions'
    <2>1. /\ requests[r].hcmTransactionId \in 0..transactions'
          /\ audits[r].hcmTransactionId \in 0..transactions'
        BY <1>0, <1>2 DEF TypeOK, TransactionsGiven
    <2>2. 0 \in 0..transactions'
        BY <1>2
    <2>3. CASE UNCHANGED storeVars
        BY <2>1, <2>3 DEF storeVars
    <2>4. ASSUME NEW q \in Requests, CreateAttempt(q) \/ UpdateStatus(q, "REJECTED")
          PROVE  Given
        BY <1>0, <2>1, <2>2, <2>4 DEF CreateAttempt, UpdateStatus, Request
    <2>5. ASSUME NEW q \in Requests, NEW txn \in 0..transactions', NEW status, NEW code,
                 NEW auditStatus, NEW readings,
                 FinalizeApprovalOutcome(q, status, txn, code, auditStatus, readings)
          PROVE  Given
        BY <1>0, <2>1, <2>5 DEF FinalizeApprovalOutcome, Request
    <2>6. ASSUME NEW c \in Calls, ApprovedBy(c) PROVE Given
        <3>1. \A s \in submission[c] : s.txn \in 0..transactions'
            BY <1>0, <1>2 DEF TypeOK, TransactionsGiven
        <3> QED
            BY <1>0, <2>5, <2>6, <3>1 DEF ApprovedBy
    <2>7. ASSUME NEW c \in Calls, RejectedBy(c) PROVE Given
        BY <1>0, <2>2, <2>5, <2>7 DEF RejectedBy
    <2> QED
        BY <1>0, <2>3, <2>4, <2>6, <2>7, StoreMoves
<1> QED
    BY <1>3, <1>4, <1>5 DEF TransactionsGiven

(* Whatever the numbers of calls, instances, pairs and requests, no step   *)
(* of the service or of the HCM stores a value out of its type; in         *)
(* particular no balance is ever negative.                                 *)
THEOREM TypeCorrect == Spec => []TypeOK
<1>1. Init => TypeOK
    BY InitTyping
<1>2. TypeOK /\ [Next]_vars => TypeOK'
    <2> SUFFICES ASSUME TypeOK, [Next]_vars PROVE TypeOK'
        OBVIOUS
    <2> QED
        BY NextTyping, TransactionsStep DEF TypeOK, Typed, CallsTypeOK
<1> QED
    BY <1>1, <1>2, PTL DEF Spec

-----------------------------------------------------------------------------
(* The gate.  A served call stays inside, leaves, enters, or is a          *)
(* rejection, which never was inside.                                      *)

StaysInside(c) == /\ pc[c] \in WithinGate
                  /\ \E to \in WithinGate : pc' = [pc EXCEPT ![c] = to]
                  /\ UNCHANGED <<target, queue>>

GoesOut(c) == /\ pc[c] \in WithinGate
              /\ pc' = [pc EXCEPT ![c] = "idle"]
              /\ Gate!Leave(c, GateKey(c))
              /\ UNCHANGED target

StaysOutside(c) == /\ pc[c] = "updateStatus"
                   /\ pc' = [pc EXCEPT ![c] = "idle"]
                   /\ UNCHANGED <<target, queue>>

(* What a step does to a call's place: before, behind or past the gate.    *)
LEMMA ServeMoves ==
    ASSUME TypeOK, NEW c \in Calls, Serve(c)
    PROVE  EnterGate(c) \/ StaysInside(c) \/ GoesOut(c) \/ StaysOutside(c)
<1>1. ASSUME NEW from \in WithinGate, NEW to \in WithinGate, Continue(c, from, to)
      PROVE  StaysInside(c)
    BY <1>1 DEF Continue, Goto, StaysInside
<1>2. ASSUME NEW from \in WithinGate, NEW answer, RespondAndLeave(c, from, answer)
      PROVE  GoesOut(c)
    BY <1>2 DEF RespondAndLeave, Respond, Goto, GoesOut
<1>3. ASSUME NEW from \in WithinGate, NEW to \in WithinGate, NEW code, NEW auditStatus,
             NEW readings, DecideRejection(c, from, to, code, auditStatus, readings)
      PROVE  StaysInside(c)
    BY <1>3 DEF DecideRejection, Goto, StaysInside
<1>a. CASE ReloadRequest(c)
    BY <1>a, <1>1, <1>2 DEF ReloadRequest, WithinGate
<1>b. CASE CheckBalance(c)
    BY <1>b, <1>1, <1>2, <1>3 DEF CheckBalance, WithinGate
<1>c. CASE FindAudit(c)
    BY <1>c, <1>1, <1>2 DEF FindAudit, WithinGate
<1>d. CASE CreateAudit(c)
    BY <1>d, <1>1 DEF CreateAudit, WithinGate
<1>e. CASE RereadRacedAudit(c)
    BY <1>e, <1>1, <1>2 DEF RereadRacedAudit, WithinGate
<1>f. CASE SubmitTimeOff(c)
    <2>1. ASSUME NEW s, KeepSubmission(c, s) PROVE StaysInside(c)
        BY <2>1 DEF KeepSubmission, Goto, StaysInside, WithinGate
    <2> QED
        BY <1>f, <1>1, <1>2, <1>3, <2>1 DEF SubmitTimeOff, WithinGate
<1>g. CASE ReadLatestBalance(c) \/ StampBalance(c)
    BY <1>g, <1>3 DEF ReadLatestBalance, StampBalance, WithinGate
<1>h. CASE FinalizeApproval(c)
    BY <1>h, <1>1, <1>2 DEF FinalizeApproval, WithinGate
<1>i. CASE ResolveNoop(c)
    BY <1>i, <1>2 DEF ResolveNoop, WithinGate
<1>j. CASE PersistRejection(c)
    BY <1>j, <1>2 DEF PersistRejection, WithinGate
<1>k. CASE UpdateToRejected(c)
    BY <1>k DEF UpdateToRejected, Respond, Goto, StaysOutside
<1> QED
    BY <1>a, <1>b, <1>c, <1>d, <1>e, <1>f, <1>g, <1>h, <1>i, <1>j, <1>k DEF Serve

(* No step changes what a request asks for.                                *)
LEMMA RequestsFixed ==
    ASSUME TypeOK, [Next]_vars
    PROVE  \A r \in Requests : /\ requests'[r].pair = requests[r].pair
                               /\ requests'[r].days = requests[r].days
<1> DEFINE Fixed == \A r \in Requests : /\ requests'[r].pair = requests[r].pair
                                        /\ requests'[r].days = requests[r].days
<1>0. /\ requests \in [Requests -> Request] /\ target \in [Calls -> Requests]
    BY DEF TypeOK, StoreTypeOK
<1>1. ASSUME UNCHANGED storeVars PROVE Fixed
    BY <1>1 DEF storeVars
<1>2. ASSUME NEW r \in Requests, NEW status, NEW txn, NEW code, NEW auditStatus, NEW readings,
             FinalizeApprovalOutcome(r, status, txn, code, auditStatus, readings)
      PROVE  Fixed
    BY <1>0, <1>2 DEF FinalizeApprovalOutcome, Request
<1>3. ASSUME NEW r \in Requests, NEW status, UpdateStatus(r, status)
      PROVE  Fixed
    BY <1>0, <1>3 DEF UpdateStatus, Request
<1>4. ASSUME NEW r \in Requests, CreateAttempt(r) PROVE Fixed
    BY <1>4 DEF CreateAttempt
<1>5. ASSUME NEW c \in Calls, Serve(c) PROVE Fixed
    <2>1. target[c] \in Requests
        BY <1>0
    <2> QED
        BY <1>1, <1>2, <1>3, <1>4, <1>5, <2>1
           DEF Serve, EnterGate, ReloadRequest, CheckBalance, FindAudit, CreateAudit,
               RereadRacedAudit, SubmitTimeOff, ReadLatestBalance, StampBalance,
               FinalizeApproval, ResolveNoop, PersistRejection, UpdateToRejected
<1>6. CASE UNCHANGED vars
    BY <1>1, <1>6 DEF vars, storeVars
<1> QED
    BY <1>0, <1>1, <1>3, <1>5, <1>6 DEF Next, ApproveRequest, RejectRequest, PersistenceFails, Restart,
       HcmReset, HcmAdjusts, HcmWillFail, TimePasses

(* The gate's invariant is inductive.                                      *)
LEMMA GateStep ==
    ASSUME TypeOK, OneApprovalPerPair, [Next]_vars
    PROVE  OneApprovalPerPair'
<1>0. /\ pc \in [Calls -> Steps] /\ target \in [Calls -> Requests]
      /\ queue \in [GateKeys -> Seq(Calls)]
      /\ \A d \in Calls : GateKey(d) \in GateKeys
    BY GateKeyTyping DEF TypeOK, CallsTypeOK, Gate!QueueTypeOK
<1>1. \A d \in Calls : target'[d] = target[d] => GateKey(d)' = GateKey(d)
    BY <1>0, RequestsFixed DEF GateKey
<1>2. "idle" \notin WithinGate /\ "queued" \notin WithinGate /\ "updateStatus" \notin WithinGate
    BY DEF WithinGate
<1>a. ASSUME NEW c \in Calls, EnterGate(c) PROVE OneApprovalPerPair'
    BY <1>0, <1>1, <1>a
       DEF EnterGate, Continue, Goto, OneApprovalPerPair, Gate!Holds
<1>b. ASSUME NEW c \in Calls, StaysInside(c) PROVE OneApprovalPerPair'
    BY <1>0, <1>1, <1>b DEF StaysInside, OneApprovalPerPair, Gate!Holds
<1>c. ASSUME NEW c \in Calls, GoesOut(c) PROVE OneApprovalPerPair'
    <2> SUFFICES ASSUME NEW d \in Calls, pc'[d] \in WithinGate
                 PROVE  Gate!Holds(d, GateKey(d))'
        BY DEF OneApprovalPerPair
    <2>1. d # c /\ pc[d] \in WithinGate /\ target'[d] = target[d]
        BY <1>0, <1>2, <1>c DEF GoesOut
    <2>2. GateKey(d) # GateKey(c)
        BY <2>1, <1>c DEF GoesOut, OneApprovalPerPair, Gate!Holds, Gate!Leave
    <2>3. queue'[GateKey(d)] = queue[GateKey(d)]
        BY <1>0, <1>c, <2>2 DEF GoesOut, Gate!Leave
    <2> QED
        BY <1>1, <2>1, <2>3 DEF OneApprovalPerPair, Gate!Holds
<1>d. ASSUME NEW c \in Calls, StaysOutside(c) PROVE OneApprovalPerPair'
    BY <1>0, <1>1, <1>2, <1>d DEF StaysOutside, OneApprovalPerPair, Gate!Holds
<1>e. ASSUME NEW c \in Calls, Serve(c) PROVE OneApprovalPerPair'
    BY <1>a, <1>b, <1>c, <1>d, <1>e, ServeMoves
<1>f. ASSUME NEW c \in Calls, NEW r \in Requests, ApproveRequest(c, r)
      PROVE  OneApprovalPerPair'
    <2> DEFINE key == <<Home[c], requests[r].pair>>
    <2>0. key \in GateKeys
        BY HomeAssumption DEF TypeOK, StoreTypeOK, Request, GateKeys
    <2> SUFFICES ASSUME NEW d \in Calls, pc'[d] \in WithinGate
                 PROVE  Gate!Holds(d, GateKey(d))'
        BY DEF OneApprovalPerPair
    <2>1. d # c /\ pc[d] \in WithinGate /\ target'[d] = target[d]
        BY <1>0, <1>2, <1>f DEF ApproveRequest, Goto
    <2>2. queue[GateKey(d)] # <<>> /\ Head(queue[GateKey(d)]) = d
        BY <2>1 DEF OneApprovalPerPair, Gate!Holds
    <2>3. \/ queue'[GateKey(d)] = queue[GateKey(d)]
          \/ queue'[GateKey(d)] = Append(queue[GateKey(d)], c)
        BY <1>0, <1>f, <2>0 DEF ApproveRequest, Gate!Join
    <2>4. queue[GateKey(d)] \in Seq(Calls)
        BY <1>0
    <2> QED
        BY <1>1, <2>1, <2>2, <2>3, <2>4 DEF Gate!Holds
<1>g. ASSUME NEW c \in Calls, NEW r \in Requests, RejectRequest(c, r)
      PROVE  OneApprovalPerPair'
    BY <1>0, <1>1, <1>2, <1>g
       DEF RejectRequest, Goto, OneApprovalPerPair, Gate!Holds
<1>h. ASSUME NEW c \in Calls, PersistenceFails(c) PROVE OneApprovalPerPair'
    <2>1. CASE /\ pc[c] \in DatabaseSteps \ {"updateStatus"}
               /\ RespondAndLeave(c, pc[c], "PERSISTENCE_ERROR")
        <3>1. GoesOut(c)
            BY <2>1 DEF RespondAndLeave, Respond, Goto, GoesOut, DatabaseSteps
        <3> QED
            BY <1>c, <3>1
    <2>2. CASE Respond(c, "updateStatus", "PERSISTENCE_ERROR") /\ UNCHANGED queue
        <3>1. StaysOutside(c)
            BY <2>2 DEF Respond, Goto, StaysOutside
        <3> QED
            BY <1>d, <3>1
    <2> QED
        BY <1>h, <2>1, <2>2 DEF PersistenceFails
<1>i. ASSUME NEW i \in Instances, Restart(i) PROVE OneApprovalPerPair'
    <2> SUFFICES ASSUME NEW d \in Calls, pc'[d] \in WithinGate
                 PROVE  Gate!Holds(d, GateKey(d))'
        BY DEF OneApprovalPerPair
    <2>1. Home[d] # i /\ pc[d] \in WithinGate /\ target'[d] = target[d]
        BY <1>0, <1>2, <1>i DEF Restart
    <2>2. GateKey(d)[1] # i
        BY <2>1 DEF GateKey
    <2>3. queue'[GateKey(d)] = queue[GateKey(d)]
        BY <1>0, <1>i, <2>2 DEF Restart
    <2> QED
        BY <1>1, <2>1, <2>3 DEF OneApprovalPerPair, Gate!Holds
<1>j. ASSUME UNCHANGED callVars PROVE OneApprovalPerPair'
    BY <1>0, <1>1, <1>j DEF callVars, OneApprovalPerPair, Gate!Holds
<1> QED
    BY <1>e, <1>f, <1>g, <1>h, <1>i, <1>j
       DEF Next, HcmReset, HcmAdjusts, HcmWillFail, TimePasses, vars, callVars

(* In every instance, at most one approval per pair is past the gate, and  *)
(* it is the one whose turn it is, for any number of calls and through     *)
(* every early return, failed write and crash (runExclusive).              *)
THEOREM GateExcludes == Spec => []OneApprovalPerPair
<1>1. Init => OneApprovalPerPair
    BY DEF Init, OneApprovalPerPair, WithinGate
<1>2. TypeOK /\ OneApprovalPerPair /\ [Next]_vars => OneApprovalPerPair'
    BY GateStep
<1> QED
    BY <1>1, <1>2, TypeCorrect, PTL DEF Spec

-----------------------------------------------------------------------------
(* The lines of the gates.  A call in flight is in one place of one line.  *)

InFlight(c) == pc[c] \in WithinGate \cup {"queued"}

\* Call c is in the line of k.
InLine(c, k) == \E i \in 1..Len(queue[k]) : queue[k][i] = c

\* Call d is in flight, and this is its line.
BelongsTo(d, k) == InFlight(d) /\ GateKey(d) = k

(* Who is not in flight is in no line, and who is in flight in no other.   *)
LEMMA NotInLine ==
    ASSUME LinesAreCallsInFlight, NEW c, NEW k \in GateKeys, ~InFlight(c) \/ GateKey(c) # k
    PROVE  ~InLine(c, k)
    BY DEF LinesAreCallsInFlight, InLine, InFlight

(* A step that leaves lines and keys alone, and who is in flight.          *)
LEMMA SameLines ==
    ASSUME TypeOK, LinesAreCallsInFlight, UNCHANGED queue,
           \A c \in Calls : InFlight(c)' = InFlight(c),
           \A c \in Calls : InFlight(c) => GateKey(c)' = GateKey(c)
    PROVE  LinesAreCallsInFlight'
<1>0. \A k \in GateKeys : queue[k] \in Seq(Calls)
    BY DEF TypeOK, Gate!QueueTypeOK
<1>1. ASSUME NEW k \in GateKeys, NEW i \in 1..Len(queue[k])
      PROVE  queue[k][i] \in Calls
    BY <1>0, <1>1
<1> QED
    BY <1>1 DEF LinesAreCallsInFlight, InFlight

(* The gate is passed on: the first of a line is gone, everybody else      *)
(* moves up by one.                                                        *)
LEMMA LeavingKeepsLines ==
    ASSUME TypeOK, LinesAreCallsInFlight, NEW c \in Calls, GoesOut(c),
           \A d \in Calls : target'[d] = target[d] => GateKey(d)' = GateKey(d)
    PROVE  LinesAreCallsInFlight'
<1> DEFINE own == GateKey(c)
           line(k) == queue[k]
<1>0. /\ pc \in [Calls -> Steps] /\ queue \in [GateKeys -> Seq(Calls)]
      /\ own \in GateKeys
    BY GateKeyTyping DEF TypeOK, CallsTypeOK, Gate!QueueTypeOK
<1>1. /\ \A d \in Calls : GateKey(d)' = GateKey(d)
      /\ \A d \in Calls : d # c => pc'[d] = pc[d]
      /\ ~InFlight(c)'
    BY <1>0 DEF GoesOut, InFlight, WithinGate
<1>2. /\ queue[own] # <<>> /\ Head(queue[own]) = c
      /\ queue'[own] = Tail(queue[own])
      /\ \A k \in GateKeys : k # own => queue'[k] = queue[k]
    BY <1>0 DEF GoesOut, Gate!Leave, Gate!Holds
<1>3. /\ Len(queue[own]) \in Nat \ {0} /\ queue[own][1] = c
      /\ Len(queue'[own]) = Len(queue[own]) - 1
      /\ \A i \in 1..Len(queue'[own]) : queue'[own][i] = queue[own][i + 1]
    BY <1>0, <1>2
<1>4. \A i \in 2..Len(queue[own]) : queue[own][i] # c
    <2> SUFFICES ASSUME NEW i \in 2..Len(queue[own]), queue[own][i] = c PROVE FALSE
        OBVIOUS
    <2>1. i \in 1..Len(queue[own]) /\ 1 \in 1..Len(queue[own]) /\ i # 1
        BY <1>3
    <2>2. queue[own][i] = queue[own][1] => i = 1
        BY <1>0, <2>1 DEF LinesAreCallsInFlight
    <2> QED
        BY <1>3, <2>1, <2>2
<1>5. ASSUME NEW k \in GateKeys, NEW i \in 1..Len(queue'[k]), NEW j \in 1..Len(queue'[k])
      PROVE  /\ \E d \in Calls : d = queue'[k][i] /\ BelongsTo(d, k)'
             /\ queue'[k][i] = queue'[k][j] => i = j
    <2>1. CASE k = own
        <3>1. /\ i + 1 \in 2..Len(queue[own]) /\ j + 1 \in 2..Len(queue[own])
              /\ queue'[k][i] = queue[own][i + 1] /\ queue'[k][j] = queue[own][j + 1]
            <4>1. /\ i \in 1..Len(queue'[own]) /\ j \in 1..Len(queue'[own])
                  /\ queue'[k] = queue'[own]
                BY <1>5, <2>1
            <4>2. /\ i \in 1..(Len(queue[own]) - 1) /\ j \in 1..(Len(queue[own]) - 1)
                BY <1>3, <4>1
            <4> QED
                BY <1>3, <4>1, <4>2
        <3>2. queue[own][i + 1] \in Calls \ {c}
            BY <1>0, <1>4, <3>1
        <3>3. /\ InFlight(queue[own][i + 1]) /\ GateKey(queue[own][i + 1]) = own
              /\ queue[own][i + 1] = queue[own][j + 1] => i + 1 = j + 1
            BY <1>0, <1>3, <3>1 DEF LinesAreCallsInFlight, InFlight
        <3> QED
            BY <1>1, <2>1, <3>1, <3>2, <3>3 DEF BelongsTo, InFlight
    <2>2. CASE k # own
        <3>1. queue'[k] = queue[k] /\ queue[k][i] \in Calls
            BY <1>0, <1>2, <1>5, <2>2
        <3>2. /\ InFlight(queue[k][i]) /\ GateKey(queue[k][i]) = k
              /\ queue[k][i] = queue[k][j] => i = j
            BY <1>5, <3>1 DEF LinesAreCallsInFlight, InFlight
        <3>3. queue[k][i] # c
            BY <2>2, <3>2
        <3> QED
            BY <1>1, <2>2, <3>1, <3>2, <3>3 DEF BelongsTo, InFlight
    <2> QED
        BY <2>1, <2>2
<1>6. ASSUME NEW d \in Calls, InFlight(d)' PROVE InLine(d, GateKey(d))'
    <2>1. d # c /\ InFlight(d) /\ GateKey(d)' = GateKey(d) /\ GateKey(d) \in GateKeys
        BY <1>1, <1>6, GateKeyTyping DEF InFlight, TypeOK, CallsTypeOK
    <2>2. PICK i \in 1..Len(queue[GateKey(d)]) : queue[GateKey(d)][i] = d
        BY <2>1 DEF LinesAreCallsInFlight, InFlight
    <2>3. CASE GateKey(d) = own
        <3>1. i - 1 \in 1..Len(queue'[own]) /\ queue'[own][i - 1] = queue[own][(i - 1) + 1]
            BY <1>3, <2>1, <2>2, <2>3
        <3>2. queue[own][(i - 1) + 1] = d
            BY <2>2, <2>3
        <3> QED
            BY <2>1, <2>3, <3>1, <3>2 DEF InLine
    <2>4. CASE GateKey(d) # own
        BY <1>2, <2>1, <2>2, <2>4 DEF InLine
    <2> QED
        BY <2>3, <2>4
<1> QED
    BY <1>5, <1>6 DEF LinesAreCallsInFlight, InFlight, InLine, BelongsTo

(* A call asks for its key: it is in no line yet, and is put behind one.   *)
LEMMA JoiningKeepsLines ==
    ASSUME TypeOK, LinesAreCallsInFlight, NEW c \in Calls, NEW r \in Requests,
           ApproveRequest(c, r), \A d \in Calls : target'[d] = target[d] => GateKey(d)' = GateKey(d)
    PROVE  LinesAreCallsInFlight'
<1> DEFINE own == <<Home[c], requests[r].pair>>
<1>0. /\ pc \in [Calls -> Steps] /\ queue \in [GateKeys -> Seq(Calls)]
      /\ target \in [Calls -> Requests] /\ own \in GateKeys
    BY HomeAssumption DEF TypeOK, Gate!QueueTypeOK, StoreTypeOK, Request, GateKeys
<1>1. /\ GateKey(c)' = own /\ InFlight(c)' /\ ~InFlight(c)
      /\ \A d \in Calls : d # c => pc'[d] = pc[d] /\ GateKey(d)' = GateKey(d)
    BY <1>0 DEF ApproveRequest, Goto, GateKey, InFlight, WithinGate, storeVars
<1>2. /\ queue'[own] = Append(queue[own], c)
      /\ \A k \in GateKeys : k # own => queue'[k] = queue[k]
    BY <1>0 DEF ApproveRequest, Gate!Join
<1>3. /\ Len(queue[own]) \in Nat /\ Len(queue'[own]) = Len(queue[own]) + 1
      /\ queue'[own][Len(queue[own]) + 1] = c
      /\ \A i \in 1..Len(queue[own]) : queue'[own][i] = queue[own][i]
    BY <1>0, <1>2
<1>4. \A k \in GateKeys : \A i \in 1..Len(queue[k]) :
         \E d \in Calls : d = queue[k][i] /\ d # c /\ BelongsTo(d, k)'
    <2> SUFFICES ASSUME NEW k \in GateKeys, NEW i \in 1..Len(queue[k])
                 PROVE  \E d \in Calls : d = queue[k][i] /\ d # c /\ BelongsTo(d, k)'
        OBVIOUS
    <2>1. queue[k][i] \in Calls \ {c}
        BY <1>0, <1>1, NotInLine DEF InLine
    <2>2. InFlight(queue[k][i]) /\ GateKey(queue[k][i]) = k
        BY DEF LinesAreCallsInFlight, InFlight
    <2> QED
        BY <1>1, <2>1, <2>2 DEF InFlight, BelongsTo
<1>5. ASSUME NEW k \in GateKeys, NEW i \in 1..Len(queue'[k]), NEW j \in 1..Len(queue'[k])
      PROVE  /\ \E d \in Calls : d = queue'[k][i] /\ BelongsTo(d, k)'
             /\ queue'[k][i] = queue'[k][j] => i = j
    <2>1. CASE k # own
        <3>1. queue'[k] = queue[k] /\ (queue[k][i] = queue[k][j] => i = j)
            BY <1>2, <1>5, <2>1 DEF LinesAreCallsInFlight
        <3> QED
            BY <1>4, <1>5, <3>1
    <2>2. CASE k = own
        <3> DEFINE n == Len(queue[own])
        <3>1. /\ i \in 1..n \/ i = n + 1
              /\ j \in 1..n \/ j = n + 1
            BY <1>3, <1>5, <2>2
        <3>2. /\ i \in 1..n => queue'[k][i] = queue[own][i] /\ queue[own][i] # c
              /\ j \in 1..n => queue'[k][j] = queue[own][j] /\ queue[own][j] # c
              /\ i = n + 1 => queue'[k][i] = c
              /\ j = n + 1 => queue'[k][j] = c
            BY <1>0, <1>3, <1>4, <2>2
        <3>3. queue'[k][i] = queue'[k][j] => i = j
            <4>1. i \in 1..n /\ j \in 1..n => (queue[own][i] = queue[own][j] => i = j)
                BY <1>0 DEF LinesAreCallsInFlight
            <4> QED
                BY <3>1, <3>2, <4>1
        <3>4. \E d \in Calls : d = queue'[k][i] /\ BelongsTo(d, k)'
            BY <1>0, <1>1, <1>4, <2>2, <3>1, <3>2 DEF BelongsTo
        <3> QED
            BY <3>3, <3>4
    <2> QED
        BY <2>1, <2>2
<1>6. ASSUME NEW d \in Calls, InFlight(d)' PROVE InLine(d, GateKey(d))'
    <2>1. CASE d = c
        BY <1>1, <1>3, <2>1 DEF InLine
    <2>2. CASE d # c
        <3>1. InFlight(d) /\ GateKey(d)' = GateKey(d) /\ GateKey(d) \in GateKeys
            BY <1>1, <1>6, <2>2, GateKeyTyping DEF InFlight, TypeOK, CallsTypeOK
        <3>2. PICK i \in 1..Len(queue[GateKey(d)]) : queue[GateKey(d)][i] = d
            BY <3>1 DEF LinesAreCallsInFlight, InFlight
        <3>3. i \in 1..Len(queue'[GateKey(d)]) /\ queue'[GateKey(d)][i] = d
            <4>1. CASE GateKey(d) = own
                <5>1. i \in 1..Len(queue[own]) /\ queue[own][i] = d
                    BY <3>2, <4>1
                <5>2. i \in 1..Len(queue'[own]) /\ queue'[own][i] = d
                    BY <1>3, <5>1
                <5> QED
                    BY <4>1, <5>2
            <4>2. CASE GateKey(d) # own
                BY <1>2, <3>1, <3>2, <4>2
            <4> QED
                BY <4>1, <4>2
        <3> QED
            BY <3>1, <3>3 DEF InLine
    <2> QED
        BY <2>1, <2>2
<1> QED
    BY <1>5, <1>6 DEF LinesAreCallsInFlight, InFlight, InLine, BelongsTo

(* The process dies with its gate; the lines of the other instances stay.  *)
LEMMA DeathKeepsLines ==
    ASSUME TypeOK, LinesAreCallsInFlight, NEW i \in Instances, Restart(i),
           \A d \in Calls : target'[d] = target[d] => GateKey(d)' = GateKey(d)
    PROVE  LinesAreCallsInFlight'
<1>0. /\ pc \in [Calls -> Steps] /\ queue \in [GateKeys -> Seq(Calls)]
    BY DEF TypeOK, Gate!QueueTypeOK
<1>1. \A d \in Calls : /\ GateKey(d)' = GateKey(d) /\ GateKey(d)[1] = Home[d]
                       /\ Home[d] = i => ~InFlight(d)'
                       /\ Home[d] # i => InFlight(d)' = InFlight(d)
    BY <1>0 DEF Restart, GateKey, InFlight, WithinGate
<1>2. \A k \in GateKeys : /\ k[1] = i => queue'[k] = <<>>
                          /\ k[1] # i => queue'[k] = queue[k]
    BY <1>0 DEF Restart
<1>3. ASSUME NEW k \in GateKeys, NEW m \in 1..Len(queue'[k]), NEW n \in 1..Len(queue'[k])
      PROVE  /\ \E d \in Calls : d = queue'[k][m] /\ BelongsTo(d, k)'
             /\ queue'[k][m] = queue'[k][n] => m = n
    <2>1. k[1] # i /\ queue'[k] = queue[k] /\ queue[k][m] \in Calls
        BY <1>0, <1>2, <1>3
    <2>2. /\ InFlight(queue[k][m]) /\ GateKey(queue[k][m]) = k
          /\ queue[k][m] = queue[k][n] => m = n
        BY <1>3, <2>1 DEF LinesAreCallsInFlight, InFlight
    <2> QED
        BY <1>1, <2>1, <2>2 DEF BelongsTo
<1>4. ASSUME NEW d \in Calls, InFlight(d)' PROVE InLine(d, GateKey(d))'
    <2>1. Home[d] # i /\ InFlight(d) /\ GateKey(d) \in GateKeys
        BY <1>1, <1>4, GateKeyTyping DEF TypeOK, CallsTypeOK
    <2>2. queue'[GateKey(d)] = queue[GateKey(d)]
        BY <1>1, <1>2, <2>1
    <2> QED
        BY <1>1, <2>1, <2>2 DEF LinesAreCallsInFlight, InFlight, InLine, BelongsTo
<1> QED
    BY <1>3, <1>4 DEF LinesAreCallsInFlight, InFlight, InLine, BelongsTo

LEMMA LinesStep ==
    ASSUME TypeOK, LinesAreCallsInFlight, [Next]_vars
    PROVE  LinesAreCallsInFlight'
<1>0. /\ pc \in [Calls -> Steps] /\ target \in [Calls -> Requests]
    BY DEF TypeOK
<1>1. \A d \in Calls : target'[d] = target[d] => GateKey(d)' = GateKey(d)
    BY <1>0, RequestsFixed DEF GateKey
<1>a. ASSUME NEW c \in Calls, EnterGate(c) \/ StaysInside(c) \/ StaysOutside(c)
      PROVE  LinesAreCallsInFlight'
    <2>1. UNCHANGED queue /\ \A d \in Calls : /\ InFlight(d)' = InFlight(d)
                                             /\ GateKey(d)' = GateKey(d)
        BY <1>0, <1>1, <1>a
           DEF EnterGate, Continue, Goto, StaysInside, StaysOutside, InFlight, WithinGate
    <2> QED
        BY <2>1, SameLines
<1>b. ASSUME NEW c \in Calls, GoesOut(c) PROVE LinesAreCallsInFlight'
    BY <1>1, <1>b, LeavingKeepsLines
<1>c. ASSUME NEW c \in Calls, NEW r \in Requests, RejectRequest(c, r)
      PROVE  LinesAreCallsInFlight'
    <2>1. /\ UNCHANGED queue /\ \A d \in Calls : InFlight(d)' = InFlight(d)
          /\ ~InFlight(c) /\ \A d \in Calls : d # c => target'[d] = target[d]
        BY <1>0, <1>c DEF RejectRequest, Goto, InFlight, WithinGate
    <2> QED
        BY <1>1, <2>1, SameLines
<1>d. ASSUME NEW c \in Calls, PersistenceFails(c) PROVE LinesAreCallsInFlight'
    <2>1. GoesOut(c) \/ StaysOutside(c)
        BY <1>d DEF PersistenceFails, RespondAndLeave, Respond, Goto, GoesOut, StaysOutside,
                    DatabaseSteps
    <2> QED
        BY <1>a, <1>b, <2>1
<1>e. ASSUME UNCHANGED callVars PROVE LinesAreCallsInFlight'
    <2>1. UNCHANGED queue /\ \A d \in Calls : /\ InFlight(d)' = InFlight(d)
                                             /\ GateKey(d)' = GateKey(d)
        BY <1>1, <1>e DEF callVars, InFlight
    <2> QED
        BY <2>1, SameLines
<1>f. ASSUME NEW c \in Calls, Serve(c) PROVE LinesAreCallsInFlight'
    BY <1>a, <1>b, <1>f, ServeMoves
<1> QED
    BY <1>1, <1>c, <1>d, <1>e, <1>f, JoiningKeepsLines, DeathKeepsLines
       DEF Next, HcmReset, HcmAdjusts, HcmWillFail, TimePasses, vars, callVars

(* Who waits at a gate waits for calls in flight: with any number of calls *)
(* and instances, through early returns, failures and crashes, no line     *)
(* holds a call that is gone or a call twice, and no call is forgotten.    *)
THEOREM LinesHoldTheLiving == Spec => []LinesAreCallsInFlight
<1>1. Init => LinesAreCallsInFlight
    BY GateKeyTyping DEF Init, LinesAreCallsInFlight, WithinGate, Gate!QueueInit
<1>2. TypeOK /\ LinesAreCallsInFlight /\ [Next]_vars => LinesAreCallsInFlight'
    BY LinesStep
<1> QED
    BY <1>1, <1>2, TypeCorrect, PTL DEF Spec

-----------------------------------------------------------------------------
(***************************************************************************)
(* What becomes of requests: the tables of ReadyOn beside the record of    *)
(* the HCM.                                                                *)
(*                                                                         *)
(* The argument.  StoreMoves, HcmMoves, SubmissionMoves and RejectionMoves *)
(* say what a step may do to each part of the state.  Inv then states what *)
(* the locals of a call promise: a submission it holds is positive and, if *)
(* the HCM keeps its record, on that record for this very request; and a   *)
(* refusal that closes an audit has a code.  Nothing here depends on the   *)
(* gate, so it holds of several instances over one database too.           *)
(***************************************************************************)

(* A call forgets its refusal, keeps its code, or decides on one with one. *)
LEMMA RejectionMoves ==
    ASSUME TypeOK, [Next]_vars, NEW d \in Calls
    PROVE  \/ rejection'[d] = NoRejection
           \/ /\ rejection'[d].code = rejection[d].code
              /\ rejection'[d].auditStatus = rejection[d].auditStatus
           \/ rejection'[d].code # "NONE"
<1> DEFINE Moved == \/ rejection'[d] = NoRejection
                    \/ /\ rejection'[d].code = rejection[d].code
                       /\ rejection'[d].auditStatus = rejection[d].auditStatus
                    \/ rejection'[d].code # "NONE"
<1>0. rejection \in [Calls -> Rejection]
    BY DEF TypeOK
<1>1. ASSUME UNCHANGED rejection PROVE Moved
    BY <1>1
<1>2. ASSUME NEW c \in Calls, NEW from, NEW answer, Respond(c, from, answer) PROVE Moved
    BY <1>0, <1>2 DEF Respond
<1>3. ASSUME NEW c \in Calls, NEW from, NEW to, Continue(c, from, to) PROVE Moved
    BY <1>1, <1>3 DEF Continue
<1>4. ASSUME NEW c \in Calls, NEW from, NEW to, NEW auditStatus, NEW readings,
             NEW code \in {"INSUFFICIENT_BALANCE", "INVALID_EMPLOYEE_LOCATION"},
             DecideRejection(c, from, to, code, auditStatus, readings)
      PROVE  Moved
    BY <1>0, <1>4 DEF DecideRejection
<1>5. ASSUME NEW c \in Calls, Serve(c) PROVE Moved
    <2>1. CASE EnterGate(c) \/ ReloadRequest(c) \/ FindAudit(c) \/ CreateAudit(c)
                 \/ RereadRacedAudit(c) \/ ResolveNoop(c) \/ UpdateToRejected(c)
        BY <1>2, <1>3, <2>1 DEF EnterGate, ReloadRequest, FindAudit, CreateAudit,
           RereadRacedAudit, ResolveNoop, UpdateToRejected, RespondAndLeave
    <2>2. CASE CheckBalance(c) \/ ReadLatestBalance(c)
        BY <1>2, <1>3, <1>4, <2>2 DEF CheckBalance, ReadLatestBalance, RespondAndLeave
    <2>5. CASE StampBalance(c)
        BY <1>0, <2>5 DEF StampBalance, DecideRejection
    <2>3. CASE FinalizeApproval(c) \/ PersistRejection(c)
        BY <1>2, <1>3, <2>3 DEF FinalizeApproval, PersistRejection, RespondAndLeave
    <2>4. CASE SubmitTimeOff(c)
        BY <1>1, <1>2, <1>3, <1>4, <2>4 DEF SubmitTimeOff, KeepSubmission, RespondAndLeave
    <2> QED
        BY <1>5, <2>1, <2>2, <2>3, <2>4, <2>5 DEF Serve
<1>6. ASSUME NEW c \in Calls, PersistenceFails(c) PROVE Moved
    BY <1>2, <1>6 DEF PersistenceFails, RespondAndLeave
<1>7. ASSUME NEW i \in Instances, Restart(i) PROVE Moved
    BY <1>0, <1>7 DEF Restart
<1> QED
    BY <1>1, <1>5, <1>6, <1>7
       DEF Next, ApproveRequest, RejectRequest, HcmReset, HcmAdjusts, HcmWillFail,
           TimePasses, callVars, vars

-----------------------------------------------------------------------------
(* The invariant.                                                          *)

\* The transactions on the HCM's record were given out by it.
TransactionsAreKnown == \A s \in processedRequests : s.txn \in 1..transactions

\* A submission a call holds is a real one, about to be finalized; and it is on
\* the HCM's record unless the HCM may have forgotten it.
Backed(c) ==
    \A s \in submission[c] :
        /\ pc[c] \in {"finalize", "noop"}
        /\ s.txn > 0
        /\ HcmResets \/ /\ s \in Processed(target[c])
                        /\ SameFingerprint(s, requests[target[c]].pair,
                                           requests[target[c]].days)

\* A refusal that closes the audit has a code.
ClosesWithCode(c) ==
    rejection[c].auditStatus = "FAILED" => rejection[c].code # "NONE"

Inv ==
    /\ DeductedOnce
    /\ TransactionsAreKnown
    /\ AuditMatchesRequest
    /\ \A c \in Calls : Backed(c) /\ ClosesWithCode(c)

(* The invariant holds at the start.                                       *)
LEMMA InvInit == Init => Inv
<1> SUFFICES ASSUME Init PROVE Inv
    OBVIOUS
<1>1. DeductedOnce /\ TransactionsAreKnown
    BY DEF Init, HcmInit, DeductedOnce, TransactionsAreKnown
<1>2. AuditMatchesRequest
    <2> SUFFICES ASSUME NEW r \in Requests
                 PROVE  /\ requests[r].status = "PENDING" /\ requests[r].hcmTransactionId = 0
                        /\ audits[r] = NoAudit
        BY DEF AuditMatchesRequest, NoAudit
    <2> QED
        BY DEF Init, StoreInit, NewRequest
<1>3. \A c \in Calls : Backed(c) /\ ClosesWithCode(c)
    BY DEF Init, Backed, ClosesWithCode, NoRejection
<1> QED
    BY <1>1, <1>2, <1>3 DEF Inv

(* Only one submission per request is ever on the HCM's record: a replay   *)
(* adds none, and a new one needs an empty record (submitTimeOff).         *)
LEMMA RecordStep ==
    ASSUME TypeOK, Inv, [Next]_vars
    PROVE  DeductedOnce' /\ TransactionsAreKnown'
<1>0. transactions \in Nat
    BY DEF TypeOK, HcmTypeOK
<1>1. CASE UNCHANGED processedRequests /\ transactions' = transactions
    BY <1>1 DEF Inv, DeductedOnce, TransactionsAreKnown
<1>2. CASE processedRequests' = {}
    BY <1>2 DEF DeductedOnce, TransactionsAreKnown
<1>3. ASSUME NEW c \in Calls, AcceptedFor(c)
      PROVE  DeductedOnce' /\ TransactionsAreKnown'
    <2> DEFINE new == Accepted(target[c], requests[target[c]].pair, requests[target[c]].days)
    <2>1. /\ processedRequests' = processedRequests \cup {new}
          /\ transactions' = transactions + 1
          /\ \A s \in processedRequests : s.ext # target[c]
        BY <1>3 DEF AcceptedFor, SubmitAccepted, NewSubmission, Processed
    <2>2. new.ext = target[c] /\ new.txn = transactions + 1
        BY DEF Accepted
    <2>3. DeductedOnce'
        BY <2>1, <2>2 DEF Inv, DeductedOnce
    <2>4. TransactionsAreKnown'
        BY <1>0, <2>1, <2>2 DEF Inv, TransactionsAreKnown
    <2> QED
        BY <2>3, <2>4
<1> QED
    BY <1>1, <1>2, <1>3, HcmMoves

(* The audit and its request change together, or the audit is only opened. *)
LEMMA AuditStep ==
    ASSUME TypeOK, Inv, [Next]_vars
    PROVE  AuditMatchesRequest'
<1>0. requests \in [Requests -> Request] /\ audits \in [Requests -> Audit]
      /\ target \in [Calls -> Requests]
    BY DEF TypeOK, StoreTypeOK
<1>1. CASE UNCHANGED storeVars
    BY <1>1 DEF Inv, AuditMatchesRequest, storeVars
<1>2. ASSUME NEW c \in Calls, CreateAttempt(target[c]) PROVE AuditMatchesRequest'
    BY <1>0, <1>2 DEF Inv, AuditMatchesRequest, CreateAttempt
<1>3. ASSUME NEW c \in Calls, UpdateStatus(target[c], "REJECTED") PROVE AuditMatchesRequest'
    BY <1>0, <1>3 DEF Inv, AuditMatchesRequest, UpdateStatus, Request
<1>4. ASSUME NEW c \in Calls, ApprovedBy(c) PROVE AuditMatchesRequest'
    <2>1. PICK s \in submission[c] :
              /\ s.txn > 0
              /\ requests' = [requests EXCEPT ![target[c]].status = "APPROVED",
                                             ![target[c]].hcmTransactionId = s.txn,
                                             ![target[c]].failureCode = "NONE"]
              /\ audits' = [audits EXCEPT ![target[c]] = [status |-> "COMPLETED",
                                                         hcmTransactionId |-> s.txn]]
        BY <1>4 DEF ApprovedBy, FinalizeApprovalOutcome, Inv, Backed
    <2>2. s.txn \in Nat
        BY DEF TypeOK, Submission
    <2> QED
        BY <1>0, <2>1, <2>2 DEF Inv, AuditMatchesRequest, Request
<1>5. ASSUME NEW c \in Calls, RejectedBy(c) PROVE AuditMatchesRequest'
    <2> DEFINE r == target[c]
    <2>1. /\ requests[r].status = "PENDING"
          /\ requests' = [requests EXCEPT ![r].status = "REJECTED",
                                         ![r].hcmTransactionId = 0,
                                         ![r].failureCode = rejection[c].code]
        BY <1>5 DEF RejectedBy, FinalizeApprovalOutcome
    <2>2. \/ audits' = audits
          \/ /\ rejection[c].auditStatus = "FAILED" /\ rejection[c].code # "NONE"
             /\ audits' = [audits EXCEPT ![r] = [status |-> "FAILED", hcmTransactionId |-> 0]]
        BY <1>5 DEF RejectedBy, FinalizeApprovalOutcome, Inv, ClosesWithCode, TypeOK, Rejection
    <2> QED
        BY <1>0, <2>1, <2>2 DEF Inv, AuditMatchesRequest, Request
<1> QED
    BY <1>1, <1>2, <1>3, <1>4, <1>5, StoreMoves

(* A submission stays on the HCM's record of its request, with the pair    *)
(* and days it was made for, until the call that holds it has used it.     *)
LEMMA BackedStep ==
    ASSUME TypeOK, Inv, [Next]_vars, NEW d \in Calls
    PROVE  Backed(d)'
<1>0. /\ target \in [Calls -> Requests] /\ target[d] \in Requests
      /\ requests \in [Requests -> Request] /\ transactions \in Nat
    BY DEF TypeOK, StoreTypeOK, HcmTypeOK
<1>1. \A r \in Requests : /\ requests'[r].pair = requests[r].pair
                          /\ requests'[r].days = requests[r].days
    BY RequestsFixed
<1>2. HcmResets \/ processedRequests \subseteq processedRequests'
    <2>1. ASSUME NEW c \in Calls, AcceptedFor(c) PROVE processedRequests \subseteq processedRequests'
        BY <2>1 DEF AcceptedFor, SubmitAccepted
    <2> QED
        BY <2>1, HcmMoves
<1>3. CASE submission'[d] = {}
    BY <1>3 DEF Backed
<1>4. CASE KeepsSubmission(d)
    BY <1>0, <1>1, <1>2, <1>4 DEF KeepsSubmission, Inv, Backed, Processed, SameFingerprint
<1>5. ASSUME NEW s, Receives(d, s) PROVE Backed(d)'
    <2> DEFINE r == target[d]
    <2>1. /\ submission'[d] = {s} /\ pc'[d] = "finalize" /\ target'[d] = r
        BY <1>5 DEF Receives
    <2>2. /\ s.txn > 0 /\ s \in processedRequests' /\ s.ext = r
          /\ SameFingerprint(s, requests[r].pair, requests[r].days)
        <3>1. CASE /\ s \in Processed(r) /\ UNCHANGED processedRequests
                   /\ SameFingerprint(s, requests[r].pair, requests[r].days)
            BY <1>0, <3>1 DEF Processed, Inv, TransactionsAreKnown
        <3>2. CASE AcceptedFor(d) /\ s = Accepted(r, requests[r].pair, requests[r].days)
            BY <1>0, <3>2 DEF AcceptedFor, SubmitAccepted, Accepted, SameFingerprint
        <3> QED
            BY <1>5, <3>1, <3>2 DEF Receives
    <2> QED
        BY <1>0, <1>1, <2>1, <2>2 DEF Backed, Processed, SameFingerprint
<1> QED
    BY <1>3, <1>4, <1>5, SubmissionMoves

(* The invariant is kept by every step.                                    *)
LEMMA InvStep == TypeOK /\ Inv /\ [Next]_vars => Inv'
<1> SUFFICES ASSUME TypeOK, Inv, [Next]_vars PROVE Inv'
    OBVIOUS
<1>1. ASSUME NEW d \in Calls PROVE ClosesWithCode(d)'
    BY RejectionMoves DEF Inv, ClosesWithCode, NoRejection
<1> QED
    BY <1>1, RecordStep, AuditStep, BackedStep DEF Inv

(* The invariant always holds (approveRequestWithinGate, rejectRequest).   *)
THEOREM InvHolds == Spec => []Inv
    BY InvInit, InvStep, TypeCorrect, PTL DEF Spec

-----------------------------------------------------------------------------
(* The theorems.                                                           *)

(* The HCM deducts a request at most once, however often and by however    *)
(* many instances its approval is retried (DeductedOnce).                  *)
THEOREM RequestsDeductedOnce == Spec => []DeductedOnce
<1>1. Inv => DeductedOnce
    BY DEF Inv
<1> QED
    BY <1>1, InvHolds, PTL

(* The audit and the request always tell the same story, through every     *)
(* race, crash and reset (finalizeApprovalOutcome is one transaction).     *)
THEOREM AuditsMatchRequests == Spec => []AuditMatchesRequest
<1>1. Inv => AuditMatchesRequest
    BY DEF Inv
<1> QED
    BY <1>1, InvHolds, PTL

DecidedStay == \A r \in Requests : requests[r].status # "PENDING" => requests'[r] = requests[r]

(* Every write to a request is conditional on PENDING.                     *)
LEMMA DecidedStays ==
    ASSUME TypeOK, [Next]_vars
    PROVE  DecidedStay
<1>1. requests \in [Requests -> Request]
    BY DEF TypeOK, StoreTypeOK
<1>2. ASSUME NEW c \in Calls, UpdateStatus(target[c], "REJECTED") PROVE DecidedStay
    BY <1>1, <1>2 DEF UpdateStatus, DecidedStay
<1>3. ASSUME NEW c \in Calls, ApprovedBy(c) PROVE DecidedStay
    BY <1>1, <1>3 DEF ApprovedBy, FinalizeApprovalOutcome, DecidedStay
<1>4. ASSUME NEW c \in Calls, RejectedBy(c) PROVE DecidedStay
    BY <1>1, <1>4 DEF RejectedBy, FinalizeApprovalOutcome, DecidedStay
<1> QED
    BY <1>2, <1>3, <1>4, StoreMoves DEF CreateAttempt, storeVars, DecidedStay

(* An approved or rejected request never changes again: every write to a   *)
(* request is conditional on PENDING.                                      *)
THEOREM FinalRequestsStay == Spec => FinalIsFinal
<1>1. TypeOK /\ [Next]_vars => [DecidedStay]_vars
    BY DecidedStays
<1> QED
    BY <1>1, TypeCorrect, PTL DEF Spec, FinalIsFinal, DecidedStay

-----------------------------------------------------------------------------
(* Audits and answers.                                                     *)

\* A call that is about to submit has seen or made the audit row.
AuditedAtSubmit(c) == pc[c] = "submit" => audits[target[c]].status # "NONE"

\* Call d is where it was.
Untouched(d) == /\ pc'[d] = pc[d] /\ target'[d] = target[d]
                /\ rejection'[d] = rejection[d] /\ submission'[d] = submission[d]
                /\ outcome'[d] = outcome[d]

(* A step that serves another call leaves this one where it is.            *)
LEMMA OthersAreUntouched ==
    ASSUME TypeOK, NEW c \in Calls, NEW d \in Calls, c # d,
           Serve(c) \/ PersistenceFails(c)
    PROVE  Untouched(d)
<1>0. /\ pc \in [Calls -> Steps] /\ target \in [Calls -> Requests]
      /\ submission \in [Calls -> SUBSET Submission]
      /\ rejection \in [Calls -> Rejection] /\ outcome \in [Calls -> Outcomes]
    BY DEF TypeOK
<1>1. ASSUME NEW from, NEW answer, Respond(c, from, answer) PROVE Untouched(d)
    BY <1>0, <1>1 DEF Respond, Goto, Untouched
<1>2. ASSUME NEW from, NEW to, Continue(c, from, to) PROVE Untouched(d)
    BY <1>0, <1>2 DEF Continue, Goto, Untouched
<1>3. ASSUME NEW from, NEW to, NEW code, NEW auditStatus, NEW readings,
             DecideRejection(c, from, to, code, auditStatus, readings)
      PROVE  Untouched(d)
    BY <1>0, <1>3 DEF DecideRejection, Goto, Untouched
<1>4. ASSUME NEW s, KeepSubmission(c, s) PROVE Untouched(d)
    BY <1>0, <1>4 DEF KeepSubmission, Goto, Untouched
<1>5. CASE EnterGate(c) \/ ReloadRequest(c) \/ FindAudit(c) \/ CreateAudit(c)
             \/ RereadRacedAudit(c) \/ ResolveNoop(c) \/ UpdateToRejected(c)
             \/ PersistenceFails(c)
    BY <1>1, <1>2, <1>5 DEF EnterGate, ReloadRequest, FindAudit, CreateAudit,
       RereadRacedAudit, ResolveNoop, UpdateToRejected, PersistenceFails, RespondAndLeave
<1>6. CASE CheckBalance(c) \/ ReadLatestBalance(c) \/ StampBalance(c)
    BY <1>1, <1>2, <1>3, <1>6
       DEF CheckBalance, ReadLatestBalance, StampBalance, RespondAndLeave
<1>7. CASE FinalizeApproval(c) \/ PersistRejection(c)
    BY <1>1, <1>2, <1>7 DEF FinalizeApproval, PersistRejection, RespondAndLeave
<1>8. CASE SubmitTimeOff(c)
    BY <1>1, <1>2, <1>3, <1>4, <1>8 DEF SubmitTimeOff, RespondAndLeave
<1> QED
    BY <1>5, <1>6, <1>7, <1>8 DEF Serve

(* A call gets further only by its own steps.                              *)
LEMMA CallMoves ==
    ASSUME TypeOK, [Next]_vars, NEW d \in Calls
    PROVE  Untouched(d) \/ Serve(d) \/ pc'[d] \notin WithinGate
<1>0. /\ pc \in [Calls -> Steps] /\ target \in [Calls -> Requests]
      /\ submission \in [Calls -> SUBSET Submission]
      /\ rejection \in [Calls -> Rejection] /\ outcome \in [Calls -> Outcomes]
    BY DEF TypeOK
<1>1. ASSUME UNCHANGED callVars PROVE Untouched(d)
    BY <1>1 DEF callVars, Untouched
<1>2. ASSUME NEW c \in Calls, NEW r \in Requests, ApproveRequest(c, r) \/ RejectRequest(c, r)
      PROVE  Untouched(d) \/ pc'[d] \notin WithinGate
    BY <1>0, <1>2 DEF ApproveRequest, RejectRequest, Goto, Untouched, WithinGate
<1>3. ASSUME PersistenceFails(d) PROVE pc'[d] \notin WithinGate
    BY <1>0, <1>3 DEF PersistenceFails, RespondAndLeave, Respond, Goto, WithinGate
<1>4. ASSUME NEW i \in Instances, Restart(i) PROVE Untouched(d) \/ pc'[d] \notin WithinGate
    BY <1>0, <1>4 DEF Restart, Untouched, WithinGate
<1> QED
    BY <1>1, <1>2, <1>3, <1>4, OthersAreUntouched
       DEF Next, HcmReset, HcmAdjusts, HcmWillFail, TimePasses, vars, callVars

(* A call that gets as far as submitting has just seen the audit open, or  *)
(* opened it (findOrCreateApprovalAudit).                                  *)
LEMMA EntersSubmit ==
    ASSUME TypeOK, NEW d \in Calls, Serve(d), pc'[d] = "submit"
    PROVE  target'[d] = target[d] /\ audits'[target[d]].status = "STARTED"
<1>0. /\ pc \in [Calls -> Steps] /\ target[d] \in Requests
      /\ audits \in [Requests -> Audit]
    BY DEF TypeOK, StoreTypeOK
<1>1. ASSUME NEW from, NEW answer, Respond(d, from, answer) PROVE FALSE
    BY <1>0, <1>1 DEF Respond, Goto
<1>2. ASSUME NEW from, NEW to, to # "submit", Continue(d, from, to) PROVE FALSE
    BY <1>0, <1>2 DEF Continue, Goto
<1>3. ASSUME NEW from, NEW to, to # "submit", NEW code, NEW auditStatus, NEW readings,
             DecideRejection(d, from, to, code, auditStatus, readings)
      PROVE  FALSE
    BY <1>0, <1>3 DEF DecideRejection, Goto
<1>4. ASSUME NEW s, KeepSubmission(d, s) PROVE FALSE
    BY <1>0, <1>4 DEF KeepSubmission, Goto
<1>5. CASE FindAudit(d) \/ RereadRacedAudit(d)
    BY <1>1, <1>2, <1>5 DEF FindAudit, RereadRacedAudit, RespondAndLeave, Continue, storeVars
<1>6. CASE CreateAudit(d)
    BY <1>0, <1>2, <1>6 DEF CreateAudit, CreateAttempt, Continue
<1>7. CASE EnterGate(d) \/ ReloadRequest(d) \/ ResolveNoop(d) \/ UpdateToRejected(d)
             \/ FinalizeApproval(d) \/ PersistRejection(d)
    BY <1>1, <1>2, <1>7 DEF EnterGate, ReloadRequest, ResolveNoop, UpdateToRejected,
       FinalizeApproval, PersistRejection, RespondAndLeave
<1>8. CASE CheckBalance(d) \/ ReadLatestBalance(d) \/ StampBalance(d)
    BY <1>1, <1>2, <1>3, <1>8
       DEF CheckBalance, ReadLatestBalance, StampBalance, RespondAndLeave
<1>9. CASE SubmitTimeOff(d)
    BY <1>1, <1>2, <1>3, <1>4, <1>9 DEF SubmitTimeOff, RespondAndLeave
<1> QED
    BY <1>5, <1>6, <1>7, <1>8, <1>9 DEF Serve

(* An audit row is never removed.                                          *)
LEMMA AuditsStay ==
    ASSUME TypeOK, [Next]_vars, NEW r \in Requests, audits[r].status # "NONE"
    PROVE  audits'[r].status # "NONE"
<1>0. audits \in [Requests -> Audit] /\ rejection \in [Calls -> Rejection]
    BY DEF TypeOK, StoreTypeOK
<1>1. ASSUME NEW c \in Calls, ApprovedBy(c) PROVE audits'[r].status # "NONE"
    BY <1>0, <1>1 DEF ApprovedBy, FinalizeApprovalOutcome
<1>2. ASSUME NEW c \in Calls, RejectedBy(c) PROVE audits'[r].status # "NONE"
    BY <1>0, <1>2 DEF RejectedBy, FinalizeApprovalOutcome, Rejection
<1> QED
    BY <1>0, <1>1, <1>2, StoreMoves DEF storeVars, CreateAttempt, UpdateStatus

(* An attempt is audited before it is submitted, and the row stays.        *)
LEMMA AuditedStep ==
    ASSUME TypeOK, DeductionHasAudit, \A c \in Calls : AuditedAtSubmit(c), [Next]_vars
    PROVE  DeductionHasAudit' /\ \A c \in Calls : AuditedAtSubmit(c)'
<1>0. /\ target \in [Calls -> Requests] /\ processedRequests \subseteq Submission
    BY DEF TypeOK, HcmTypeOK
<1>1. ASSUME NEW d \in Calls PROVE AuditedAtSubmit(d)'
    <2>1. CASE Untouched(d)
        BY <1>0, <2>1, AuditsStay DEF AuditedAtSubmit, Untouched
    <2>2. CASE Serve(d)
        BY <2>2, EntersSubmit DEF AuditedAtSubmit
    <2> QED
        BY <2>1, <2>2, CallMoves DEF AuditedAtSubmit, WithinGate
<1>2. ASSUME NEW s \in processedRequests' PROVE audits'[s.ext].status # "NONE"
    <2>1. CASE s \in processedRequests
        <3>1. s.ext \in Requests
            BY <1>0, <2>1 DEF Submission
        <3> QED
            BY <2>1, <3>1, AuditsStay DEF DeductionHasAudit
    <2>2. CASE s \notin processedRequests
        <3>1. PICK c \in Calls : AcceptedFor(c) /\ UNCHANGED storeVars
            BY <2>2, HcmMoves
        <3>2. s.ext = target[c] /\ audits[target[c]].status # "NONE"
            BY <2>2, <3>1 DEF AcceptedFor, SubmitAccepted, Accepted, AuditedAtSubmit
        <3> QED
            BY <3>1, <3>2 DEF storeVars
    <2> QED
        BY <2>1, <2>2
<1> QED
    BY <1>1, <1>2 DEF DeductionHasAudit

(* Whatever the HCM deducted, an audit row was made before and is still    *)
(* there, with any number of instances, crashes and resets.                *)
THEOREM DeductionsHaveAudits == Spec => []DeductionHasAudit
<1> DEFINE AInv == DeductionHasAudit /\ \A c \in Calls : AuditedAtSubmit(c)
<1>1. Init => AInv
    BY DEF Init, HcmInit, DeductionHasAudit, AuditedAtSubmit
<1>2. TypeOK /\ AInv /\ [Next]_vars => AInv'
    BY AuditedStep
<1>3. AInv => DeductionHasAudit
    OBVIOUS
<1> QED
    BY <1>1, <1>2, <1>3, TypeCorrect, PTL DEF Spec

\* A call that has the answer to its submission and may close the audit.
Answered(c) ==
    \/ pc[c] \in {"readBalance", "finalize"}
    \/ pc[c] \in {"stampBalance", "persist"} /\ rejection[c].auditStatus = "FAILED"

\* The audit row it is about to close is there.
AuditedAtOutcome(c) == Answered(c) => audits[target[c]].status # "NONE"

(* A call has an answer only because it submitted.                         *)
LEMMA EntersAnswered ==
    ASSUME TypeOK, NEW d \in Calls, Serve(d), Answered(d)'
    PROVE  target'[d] = target[d] /\ (pc[d] = "submit" \/ Answered(d))
<1>0. pc \in [Calls -> Steps] /\ rejection \in [Calls -> Rejection]
    BY DEF TypeOK
<1>1. ASSUME NEW from, NEW answer, Respond(d, from, answer) PROVE FALSE
    BY <1>0, <1>1 DEF Respond, Goto, Answered
<1>2. ASSUME NEW from, NEW to, to \notin {"readBalance", "stampBalance", "finalize", "persist"},
             Continue(d, from, to)
      PROVE  FALSE
    BY <1>0, <1>2 DEF Continue, Goto, Answered
<1>3. ASSUME NEW from, NEW to, to \notin {"readBalance", "finalize"}, NEW code, NEW readings,
             DecideRejection(d, from, to, code, "NONE", readings)
      PROVE  FALSE
    BY <1>0, <1>3 DEF DecideRejection, Goto, Answered
<1>5. CASE SubmitTimeOff(d)
    BY <1>1, <1>5 DEF SubmitTimeOff, RespondAndLeave, KeepSubmission, Goto,
       Continue, DecideRejection
<1>6. CASE ReadLatestBalance(d)
    BY <1>6 DEF ReadLatestBalance, DecideRejection, Goto, Answered
<1>9. CASE StampBalance(d)
    BY <1>0, <1>9 DEF StampBalance, DecideRejection, Goto, Answered
<1>7. CASE CheckBalance(d)
    BY <1>1, <1>2, <1>3, <1>7 DEF CheckBalance, RespondAndLeave
<1>8. CASE EnterGate(d) \/ ReloadRequest(d) \/ FindAudit(d) \/ CreateAudit(d)
             \/ RereadRacedAudit(d) \/ ResolveNoop(d) \/ UpdateToRejected(d)
             \/ FinalizeApproval(d) \/ PersistRejection(d)
    BY <1>1, <1>2, <1>8 DEF EnterGate, ReloadRequest, FindAudit, CreateAudit,
       RereadRacedAudit, ResolveNoop, UpdateToRejected, FinalizeApproval,
       PersistRejection, RespondAndLeave
<1> QED
    BY <1>5, <1>6, <1>7, <1>8, <1>9 DEF Serve

(* The row a call submitted under is still there when it closes it.        *)
LEMMA AuditedAtOutcomeStep ==
    ASSUME TypeOK, NEW d \in Calls, AuditedAtSubmit(d), AuditedAtOutcome(d), [Next]_vars
    PROVE  AuditedAtOutcome(d)'
<1>0. target[d] \in Requests
    BY DEF TypeOK
<1>1. CASE Untouched(d)
    BY <1>0, <1>1, AuditsStay DEF AuditedAtOutcome, Answered, Untouched
<1>2. CASE Serve(d)
    <2> SUFFICES ASSUME Answered(d)' PROVE audits'[target'[d]].status # "NONE"
        BY DEF AuditedAtOutcome
    <2>1. target'[d] = target[d] /\ (pc[d] = "submit" \/ Answered(d))
        BY <1>2, EntersAnswered
    <2>2. audits[target[d]].status # "NONE"
        BY <2>1 DEF AuditedAtSubmit, AuditedAtOutcome
    <2> QED
        BY <1>0, <2>1, <2>2, AuditsStay
<1>3. CASE pc'[d] \notin WithinGate
    BY <1>3 DEF AuditedAtOutcome, Answered, WithinGate
<1> QED
    BY <1>1, <1>2, <1>3, CallMoves

(* Whoever is about to close a pending request finds its audit open, with  *)
(* any number of instances: finalizeApprovalOutcome never rolls a          *)
(* confirmed deduction back because of its audit.  The row is there since  *)
(* the submission, and a closed row never belongs to a pending request.    *)
THEOREM AuditsAreOpenAtOutcome == Spec => []AuditOpenAtOutcome
<1> DEFINE AInv == /\ DeductionHasAudit
                   /\ \A c \in Calls : AuditedAtSubmit(c) /\ AuditedAtOutcome(c)
<1>1. Init => AInv
    BY DEF Init, HcmInit, DeductionHasAudit, AuditedAtSubmit, AuditedAtOutcome, Answered
<1>2. TypeOK /\ AInv /\ [Next]_vars => AInv'
    BY AuditedStep, AuditedAtOutcomeStep
<1>3. TypeOK /\ AInv /\ AuditMatchesRequest => AuditOpenAtOutcome
    <2> SUFFICES ASSUME TypeOK, AInv, AuditMatchesRequest, NEW c \in Calls, Answered(c),
                        requests[target[c]].status = "PENDING"
                 PROVE  audits[target[c]].status = "STARTED"
        BY DEF AuditOpenAtOutcome, Answered
    <2>1. target[c] \in Requests /\ audits[target[c]] \in Audit
        BY DEF TypeOK, StoreTypeOK
    <2>2. audits[target[c]].status # "NONE"
        BY DEF AuditedAtOutcome
    <2>3. audits[target[c]].status \notin {"COMPLETED", "FAILED"}
        BY <2>1 DEF AuditMatchesRequest
    <2> QED
        BY <2>1, <2>2, <2>3 DEF Audit, AuditStatus
<1> QED
    BY <1>1, <1>2, <1>3, TypeCorrect, AuditsMatchRequests, PTL DEF Spec

\* What was answered is so of the request.
Says(answer, request) ==
    /\ answer = "APPROVED" => request.status = "APPROVED"
    /\ answer = "REJECTED" => request.status = "REJECTED"
    /\ answer \in FailureCodes \ {"NONE"} =>
          request.status = "REJECTED" /\ request.failureCode = answer
    /\ answer = "INVALID_REQUEST_STATE" => request.status # "PENDING"

AnswerTrue(c) == Says(outcome[c], requests[target[c]])

(* The property, call by call.                                             *)
LEMMA AnswersSplit == AnswersAreTrue <=> \A c \in Calls : AnswerTrue(c)
    BY DEF AnswersAreTrue, AnswerTrue, Says, FailureCodes

\* A finalization that changed nothing found the request decided.
DecidedAtNoop(c) == pc[c] = "noop" => requests[target[c]].status # "PENDING"

(* A call finds its finalization lost only to a decision.                  *)
LEMMA NoopStep ==
    ASSUME TypeOK, NEW d \in Calls, DecidedAtNoop(d), [Next]_vars
    PROVE  DecidedAtNoop(d)'
<1>0. /\ pc \in [Calls -> Steps] /\ target[d] \in Requests
      /\ requests \in [Requests -> Request]
    BY DEF TypeOK, StoreTypeOK
<1>1. ASSUME NEW from, NEW answer, Respond(d, from, answer) PROVE pc'[d] # "noop"
    BY <1>0, <1>1 DEF Respond, Goto
<1>2. ASSUME NEW from, NEW to, to # "noop", Continue(d, from, to) PROVE pc'[d] # "noop"
    BY <1>0, <1>2 DEF Continue, Goto
<1>3. ASSUME NEW from, NEW to, to # "noop", NEW code, NEW auditStatus, NEW readings,
             DecideRejection(d, from, to, code, auditStatus, readings)
      PROVE  pc'[d] # "noop"
    BY <1>0, <1>3 DEF DecideRejection, Goto
<1>4. ASSUME NEW s, KeepSubmission(d, s) PROVE pc'[d] # "noop"
    BY <1>0, <1>4 DEF KeepSubmission, Goto
<1>5. CASE FinalizeApproval(d)
    BY <1>0, <1>1, <1>5 DEF FinalizeApproval, RespondAndLeave, Continue, storeVars, DecidedAtNoop
<1>6. CASE EnterGate(d) \/ ReloadRequest(d) \/ FindAudit(d) \/ CreateAudit(d)
             \/ RereadRacedAudit(d) \/ ResolveNoop(d) \/ UpdateToRejected(d)
             \/ PersistRejection(d)
    BY <1>1, <1>2, <1>6 DEF EnterGate, ReloadRequest, FindAudit, CreateAudit, DecidedAtNoop,
       RereadRacedAudit, ResolveNoop, UpdateToRejected, PersistRejection, RespondAndLeave
<1>7. CASE CheckBalance(d) \/ ReadLatestBalance(d) \/ StampBalance(d)
    BY <1>1, <1>2, <1>3, <1>7 DEF CheckBalance, ReadLatestBalance, StampBalance,
       RespondAndLeave, DecidedAtNoop
<1>8. CASE SubmitTimeOff(d)
    BY <1>1, <1>2, <1>3, <1>4, <1>8 DEF SubmitTimeOff, RespondAndLeave, DecidedAtNoop
<1>9. CASE Untouched(d)
    BY <1>0, <1>9, DecidedStays DEF Untouched, DecidedAtNoop, DecidedStay
<1> QED
    BY <1>5, <1>6, <1>7, <1>8, <1>9, CallMoves DEF Serve, DecidedAtNoop, WithinGate

(* Each answer states what the call has just read or written.              *)
LEMMA AnswerStep ==
    ASSUME TypeOK, NEW d \in Calls, AnswerTrue(d), DecidedAtNoop(d), [Next]_vars
    PROVE  AnswerTrue(d)'
<1>0. /\ pc \in [Calls -> Steps] /\ target \in [Calls -> Requests]
      /\ outcome \in [Calls -> Outcomes] /\ requests \in [Requests -> Request]
      /\ rejection \in [Calls -> Rejection]
    BY DEF TypeOK, StoreTypeOK
<1> DEFINE r == target[d]
<1>1. ASSUME outcome'[d] = outcome[d], target'[d] = target[d] PROVE AnswerTrue(d)'
    <2>1. requests[r].status # "PENDING" => requests'[r] = requests[r]
        BY <1>0, DecidedStays DEF DecidedStay
    <2> QED
        BY <1>1, <2>1 DEF AnswerTrue, Says, FailureCodes
<1>2. ASSUME NEW from, NEW answer, Respond(d, from, answer), Says(answer, requests'[r])
      PROVE  AnswerTrue(d)'
    BY <1>0, <1>2 DEF Respond, AnswerTrue
<1>3. ASSUME NEW from, NEW to, Continue(d, from, to) PROVE AnswerTrue(d)'
    BY <1>1, <1>3 DEF Continue
<1>4. ASSUME NEW from, NEW to, NEW code, NEW auditStatus, NEW readings,
             DecideRejection(d, from, to, code, auditStatus, readings)
      PROVE  AnswerTrue(d)'
    BY <1>1, <1>4 DEF DecideRejection
<1>5. /\ Says("HCM_UNAVAILABLE", requests'[r]) /\ Says("PERSISTENCE_ERROR", requests'[r])
      /\ Says("CRASHED", requests'[r]) /\ Says("NONE", requests'[r])
    BY DEF Says, FailureCodes
<1>a. CASE EnterGate(d) \/ FindAudit(d) \/ CreateAudit(d) \/ RereadRacedAudit(d)
    BY <1>2, <1>3, <1>5, <1>a DEF EnterGate, FindAudit, CreateAudit, RereadRacedAudit,
       RespondAndLeave
<1>b. CASE CheckBalance(d) \/ ReadLatestBalance(d) \/ StampBalance(d)
    BY <1>2, <1>3, <1>4, <1>5, <1>b
       DEF CheckBalance, ReadLatestBalance, StampBalance, RespondAndLeave
<1>c. CASE SubmitTimeOff(d)
    BY <1>1, <1>2, <1>3, <1>4, <1>5, <1>c DEF SubmitTimeOff, KeepSubmission, RespondAndLeave
<1>d. CASE ReloadRequest(d) \/ ResolveNoop(d)
    <2>1. requests' = requests
        BY <1>d DEF ReloadRequest, ResolveNoop, storeVars
    <2>2. requests[r].status = "APPROVED" => Says("APPROVED", requests'[r])
        BY <2>1 DEF Says, FailureCodes
    <2>3. requests[r].status \in {"REJECTED", "PENDING", "APPROVED"}
        BY <1>0 DEF Request, RequestStatus
    <2>4. requests[r].status = "REJECTED" => Says("INVALID_REQUEST_STATE", requests'[r])
        BY <2>1 DEF Says, FailureCodes
    <2> QED
        BY <1>2, <1>3, <1>d, <2>2, <2>3, <2>4
           DEF ReloadRequest, ResolveNoop, RespondAndLeave, Goto, DecidedAtNoop, Respond
<1>e. CASE FinalizeApproval(d)
    <2>1. ASSUME NEW s, FinalizeApprovalOutcome(r, "APPROVED", s.txn, "NONE", "COMPLETED",
                   {[availableDays |-> s.remaining, lastSyncedAt |-> s.processedAt]})
          PROVE  Says("APPROVED", requests'[r])
        BY <1>0, <2>1 DEF FinalizeApprovalOutcome, Says, FailureCodes
    <2> QED
        BY <1>2, <1>3, <1>e, <2>1 DEF FinalizeApproval, RespondAndLeave
<1>f. CASE PersistRejection(d)
    <2> DEFINE failure == rejection[d]
    <2>1. ASSUME FinalizeApprovalOutcome(r, "REJECTED", 0, failure.code,
                                         failure.auditStatus, failure.readings)
          PROVE  Says(failure.code, requests'[r])
        BY <1>0, <2>1 DEF FinalizeApprovalOutcome, Says, FailureCodes, Rejection
    <2>2. ASSUME requests[r].status # "PENDING", UNCHANGED storeVars
          PROVE  Says("INVALID_REQUEST_STATE", requests'[r])
        BY <2>2 DEF Says, FailureCodes, storeVars
    <2> QED
        BY <1>2, <1>f, <2>1, <2>2 DEF PersistRejection, RespondAndLeave
<1>g. CASE UpdateToRejected(d)
    <2>1. ASSUME UpdateStatus(r, "REJECTED") PROVE Says("REJECTED", requests'[r])
        BY <1>0, <2>1 DEF UpdateStatus, Says, FailureCodes
    <2>2. ASSUME requests[r].status # "PENDING", UNCHANGED storeVars
          PROVE  Says("INVALID_REQUEST_STATE", requests'[r])
        BY <2>2 DEF Says, FailureCodes, storeVars
    <2> QED
        BY <1>2, <1>g, <2>1, <2>2 DEF UpdateToRejected
<1>h. ASSUME NEW c \in Calls, c # d, Serve(c) \/ PersistenceFails(c) PROVE AnswerTrue(d)'
    BY <1>1, <1>h, OthersAreUntouched DEF Untouched
<1>i. ASSUME PersistenceFails(d) PROVE AnswerTrue(d)'
    BY <1>2, <1>5, <1>i DEF PersistenceFails, RespondAndLeave
<1>j. ASSUME NEW c \in Calls, NEW q \in Requests, ApproveRequest(c, q) PROVE AnswerTrue(d)'
    BY <1>0, <1>1, <1>j DEF ApproveRequest, AnswerTrue, Says, FailureCodes
<1>k. ASSUME NEW c \in Calls, NEW q \in Requests, RejectRequest(c, q) PROVE AnswerTrue(d)'
    BY <1>0, <1>1, <1>k DEF RejectRequest, AnswerTrue, Says, FailureCodes, storeVars
<1>l. ASSUME NEW i \in Instances, Restart(i) PROVE AnswerTrue(d)'
    BY <1>0, <1>1, <1>l DEF Restart, AnswerTrue, Says, FailureCodes
<1>m. ASSUME UNCHANGED callVars PROVE AnswerTrue(d)'
    BY <1>1, <1>m DEF callVars
<1> QED
    BY <1>a, <1>b, <1>c, <1>d, <1>e, <1>f, <1>g, <1>h, <1>i, <1>j, <1>k, <1>l, <1>m
       DEF Next, Serve, HcmReset, HcmAdjusts, HcmWillFail, TimePasses, vars, callVars

(* Whatever a call answered is still so, with any number of instances and  *)
(* through crashes and resets (approveRequest, rejectRequest).             *)
THEOREM AnswersStayTrue == Spec => []AnswersAreTrue
<1> DEFINE AllTrue == \A c \in Calls : AnswerTrue(c) /\ DecidedAtNoop(c)
<1>1. Init => AllTrue
    BY DEF Init, AnswerTrue, Says, FailureCodes, DecidedAtNoop
<1>2. TypeOK /\ AllTrue /\ [Next]_vars => AllTrue'
    BY AnswerStep, NoopStep
<1>3. AllTrue => AnswersAreTrue
    BY AnswersSplit
<1> QED
    BY <1>1, <1>2, <1>3, TypeCorrect, PTL DEF Spec

-----------------------------------------------------------------------------
(* With an HCM that never forgets.                                         *)

(* An HCM that is not reset forgets no submission.                         *)
LEMMA RecordGrows ==
    ASSUME ~HcmResets, TypeOK, [Next]_vars
    PROVE  processedRequests \subseteq processedRequests'
<1>1. ASSUME NEW c \in Calls, AcceptedFor(c) PROVE processedRequests \subseteq processedRequests'
    BY <1>1 DEF AcceptedFor, SubmitAccepted
<1> QED
    BY <1>1, HcmMoves

(* A step that approves finds the deduction on the record.                 *)
LEMMA ApprovedStep ==
    ASSUME ~HcmResets, TypeOK, Inv, ApprovedWasDeducted, [Next]_vars
    PROVE  ApprovedWasDeducted'
<1> DEFINE Deducted(q) == \E s \in Processed(q) :
                              /\ s.txn = requests[q].hcmTransactionId
                              /\ SameFingerprint(s, requests[q].pair, requests[q].days)
<1> SUFFICES ASSUME NEW r \in Requests, requests'[r].status = "APPROVED"
             PROVE  Deducted(r)'
    BY DEF ApprovedWasDeducted
<1>0. /\ requests \in [Requests -> Request] /\ target \in [Calls -> Requests]
      /\ requests'[r].pair = requests[r].pair /\ requests'[r].days = requests[r].days
    BY RequestsFixed DEF TypeOK, StoreTypeOK
<1>1. CASE requests[r].status = "APPROVED"
    <2>1. requests'[r] = requests[r]
        BY <1>0, <1>1, StoreMoves
           DEF storeVars, CreateAttempt, UpdateStatus, ApprovedBy, RejectedBy,
               FinalizeApprovalOutcome
    <2> QED
        BY <1>1, <2>1, RecordGrows DEF ApprovedWasDeducted, Processed, SameFingerprint
<1>2. CASE requests[r].status # "APPROVED"
    <2>1. PICK c \in Calls : ApprovedBy(c) /\ target[c] = r
        <3>1. requests' # requests
            BY <1>2
        <3>2. ASSUME NEW c \in Calls, RejectedBy(c) PROVE FALSE
            BY <1>0, <1>2, <3>2 DEF RejectedBy, FinalizeApprovalOutcome
        <3>3. ASSUME NEW c \in Calls, UpdateStatus(target[c], "REJECTED") PROVE FALSE
            BY <1>0, <1>2, <3>3 DEF UpdateStatus
        <3>4. PICK c \in Calls : ApprovedBy(c)
            BY <3>1, <3>2, <3>3, StoreMoves DEF storeVars, CreateAttempt
        <3>5. target[c] = r
            BY <1>0, <1>2, <3>4 DEF ApprovedBy, FinalizeApprovalOutcome
        <3> QED
            BY <3>4, <3>5
    <2>2. PICK s \in submission[c] : requests'[r].hcmTransactionId = s.txn
        BY <1>0, <2>1 DEF ApprovedBy, FinalizeApprovalOutcome
    <2>3. s \in Processed(r) /\ SameFingerprint(s, requests[r].pair, requests[r].days)
        BY <2>1, <2>2 DEF Inv, Backed
    <2> QED
        BY <1>0, <2>2, <2>3, RecordGrows DEF Processed, SameFingerprint
<1> QED
    BY <1>1, <1>2

(* Nothing is approved that the HCM did not deduct: the transaction of an  *)
(* approved request is on the HCM's record, for the pair and days of that  *)
(* request (TRD 8: the deduction comes before the commit).                 *)
THEOREM ApprovalsWereDeducted ==
    ASSUME ~HcmResets PROVE Spec => []ApprovedWasDeducted
<1>1. Init => ApprovedWasDeducted
    BY DEF Init, StoreInit, NewRequest, ApprovedWasDeducted
<1>2. TypeOK /\ Inv /\ ApprovedWasDeducted /\ [Next]_vars => ApprovedWasDeducted'
    BY ApprovedStep
<1> QED
    BY <1>1, <1>2, TypeCorrect, InvHolds, PTL DEF Spec

(* Every step is one of the lifecycle: a charge, an approval under the     *)
(* charge, a rejection, or nothing to do with the request's fate.          *)
LEMMA LifecycleStep ==
    ASSUME ~HcmResets, TypeOK, Inv, [Next]_vars
    PROVE  [Lifecycle!Next]_(Lifecycle!lifecycleVars)
<1> DEFINE txns(q) == {s.txn : s \in Processed(q)}
           charges == [q \in Requests |-> txns(q)]
           status == [q \in Requests |-> requests[q].status]
           approval == [q \in Requests |-> requests[q].hcmTransactionId]
<1>0. /\ requests \in [Requests -> Request] /\ target \in [Calls -> Requests]
      /\ transactions \in Nat
    BY DEF TypeOK, StoreTypeOK, HcmTypeOK
<1>1. ASSUME NEW c \in Calls, AcceptedFor(c), UNCHANGED storeVars
      PROVE  \E r \in Requests : Lifecycle!Charge(r)
    <2>a. PICK r \in Requests : r = target[c]
        BY <1>0
    <2>b. PICK t \in Nat : t = transactions + 1
        BY <1>0
    <2>1. PICK new : /\ processedRequests' = processedRequests \cup {new}
                     /\ new.ext = r /\ new.txn = t
        <3> DEFINE accepted == Accepted(r, requests[r].pair, requests[r].days)
        <3>1. processedRequests' = processedRequests \cup {accepted}
            BY <1>1, <2>a DEF AcceptedFor, SubmitAccepted
        <3>2. accepted.ext = r /\ accepted.txn = t
            BY <2>b DEF Accepted
        <3> QED
            BY <3>1, <3>2
    <2>2. Processed(r) = {}
        BY <1>1, <2>a, <2>b DEF AcceptedFor, SubmitAccepted, NewSubmission
    <2>c. \A s \in processedRequests : s.ext # r
        BY <2>2 DEF Processed
    <2>d. Processed(r)' = {new}
        BY <2>1, <2>c DEF Processed
    <2>e. ASSUME NEW q \in Requests, q # r PROVE Processed(q)' = Processed(q)
        BY <2>1, <2>e DEF Processed
    <2>4. txns(r)' = {t}
        BY <2>1, <2>d
    <2>5. \A q \in Requests \ {r} : txns(q)' = txns(q)
        BY <2>e
    <2>6. txns(r) = {}
        BY <2>2
    <2>7. t > 0 /\ \A q \in Requests : t \notin txns(q)
        BY <1>0, <2>b DEF Inv, TransactionsAreKnown, Processed
    <2>8. UNCHANGED <<status, approval>>
        BY <1>1 DEF storeVars
    <2>9. charges' = [charges EXCEPT ![r] = {t}]
        <3> HIDE DEF txns
        <3> QED
            BY <2>4, <2>5
    <2>10. charges[r] = {} /\ charges'[r] = {t} /\ \A q \in Requests : t \notin charges[q]
        BY <2>4, <2>6, <2>7
    <2>11. t \in charges'[r] /\ Lifecycle!Fresh(t)
        BY <2>7, <2>10 DEF Lifecycle!Fresh
    <2> QED
        BY <2>a, <2>8, <2>9, <2>10, <2>11 DEF Lifecycle!Charge
<1>2. ASSUME UNCHANGED processedRequests PROVE UNCHANGED charges
    BY <1>2 DEF Processed
<1>3. ASSUME UNCHANGED requests PROVE UNCHANGED <<status, approval>>
    BY <1>3
<1>4. ASSUME NEW c \in Calls, UpdateStatus(target[c], "REJECTED") \/ RejectedBy(c),
             UNCHANGED charges
      PROVE  \E r \in Requests : Lifecycle!Reject(r)
    <2>1. PICK r \in Requests : r = target[c]
        BY <1>0
    <2>2. /\ requests[r].status = "PENDING"
          /\ \A q \in Requests \ {r} : requests'[q] = requests[q]
          /\ requests'[r].status = "REJECTED" /\ requests'[r].hcmTransactionId = 0
        <3>1. CASE UpdateStatus(r, "REJECTED")
            BY <1>0, <3>1 DEF UpdateStatus
        <3>2. CASE FinalizeApprovalOutcome(r, "REJECTED", 0, rejection[c].code,
                       rejection[c].auditStatus, rejection[c].readings)
            BY <1>0, <3>2 DEF FinalizeApprovalOutcome
        <3> QED
            BY <1>4, <2>1, <3>1, <3>2 DEF RejectedBy
    <2>3. requests[r].hcmTransactionId = 0
        BY <2>2 DEF Inv, AuditMatchesRequest
    <2>4. status[r] = "PENDING" /\ status' = [status EXCEPT ![r] = "REJECTED"]
        <3>1. status'[r] = "REJECTED" /\ \A q \in Requests \ {r} : status'[q] = status[q]
            BY <2>2
        <3> QED
            BY <2>2, <3>1
    <2>5. approval' = approval
        <3>1. \A q \in Requests : requests'[q].hcmTransactionId = requests[q].hcmTransactionId
            BY <2>2, <2>3
        <3> QED
            BY <3>1
    <2> QED
        BY <1>4, <2>1, <2>4, <2>5 DEF Lifecycle!Reject
<1>5. ASSUME NEW c \in Calls, ApprovedBy(c), UNCHANGED charges
      PROVE  \E r \in Requests : Lifecycle!Approve(r)
    <2>1. PICK r \in Requests : r = target[c]
        BY <1>0
    <2>2. PICK s \in submission[c] :
              FinalizeApprovalOutcome(r, "APPROVED", s.txn, "NONE", "COMPLETED",
                  {[availableDays |-> s.remaining, lastSyncedAt |-> s.processedAt]})
        BY <1>5, <2>1 DEF ApprovedBy
    <2>3. s \in Processed(r)
        BY <2>1, <2>2 DEF Inv, Backed
    <2>4. /\ requests[r].status = "PENDING"
          /\ \A q \in Requests \ {r} : requests'[q] = requests[q]
          /\ requests'[r].status = "APPROVED" /\ requests'[r].hcmTransactionId = s.txn
        BY <1>0, <2>2 DEF FinalizeApprovalOutcome
    <2>5. status[r] = "PENDING" /\ status' = [status EXCEPT ![r] = "APPROVED"]
        <3>1. status'[r] = "APPROVED" /\ \A q \in Requests \ {r} : status'[q] = status[q]
            BY <2>4
        <3> QED
            BY <2>4, <3>1
    <2>6. s.txn \in charges[r] /\ approval' = [approval EXCEPT ![r] = s.txn]
        <3>1. approval'[r] = s.txn /\ \A q \in Requests \ {r} : approval'[q] = approval[q]
            BY <2>4
        <3> QED
            BY <2>3, <3>1
    <2> QED
        BY <1>5, <2>1, <2>5, <2>6 DEF Lifecycle!Approve
<1>6. CASE UNCHANGED processedRequests
    <2>1. UNCHANGED charges
        BY <1>2, <1>6
    <2>2. CASE UNCHANGED storeVars \/ \E c \in Calls : CreateAttempt(target[c])
        BY <1>3, <2>1, <2>2 DEF storeVars, CreateAttempt, Lifecycle!lifecycleVars
    <2>3. ASSUME NEW c \in Calls,
                 UpdateStatus(target[c], "REJECTED") \/ ApprovedBy(c) \/ RejectedBy(c)
          PROVE  Lifecycle!Next
        BY <1>4, <1>5, <2>1, <2>3 DEF Lifecycle!Next
    <2> QED
        BY <2>2, <2>3, StoreMoves
<1>7. ASSUME NEW c \in Calls, AcceptedFor(c), UNCHANGED storeVars
      PROVE  Lifecycle!Next
    BY <1>1, <1>7 DEF Lifecycle!Next
<1> QED
    BY <1>6, <1>7, HcmMoves

(* Initial states map to initial states of RequestLifecycle.               *)
LEMMA LifecycleInit == Init => Lifecycle!Init
    BY DEF Init, StoreInit, HcmInit, Processed, NewRequest, Lifecycle!Init

(* The approval protocol implements the abstract lifecycle: a request is   *)
(* charged at most once and decided once, and approved only under the      *)
(* transaction the HCM charged it with.                                    *)
THEOREM ApprovalIsLifecycle ==
    ASSUME ~HcmResets PROVE Spec => ImplementsLifecycle
<1>1. TypeOK /\ Inv /\ [Next]_vars => [Lifecycle!Next]_(Lifecycle!lifecycleVars)
    BY LifecycleStep
<1> QED
    BY <1>1, LifecycleInit, TypeCorrect, InvHolds, PTL
       DEF Spec, ImplementsLifecycle, Lifecycle!Spec
=============================================================================
