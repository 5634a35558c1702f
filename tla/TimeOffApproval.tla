-------------------------- MODULE TimeOffApproval ---------------------------
(***************************************************************************)
(* Approving and rejecting time-off requests: TimeOffRequestService        *)
(* (src/src/time-off/time-off-request.service.ts) over its repositories,   *)
(* the HCM and the approval gate.                                          *)
(*                                                                         *)
(* A call is one HTTP request being served.  It advances from one await to *)
(* the next: every step below is the code between two awaits, so reading   *)
(* a row, calling the HCM and committing a transaction are separate steps  *)
(* that other calls, HCM-side changes and crashes may come between.  The   *)
(* service may run as several instances over one database and one HCM;     *)
(* each instance has its own gate.  The shipped deployment has one.        *)
(***************************************************************************)
EXTENDS MockHcm, TimeOffStore, Sequences

CONSTANTS
    Calls,              \* HTTP requests in flight
    Instances,          \* processes running the service
    Home,               \* [Calls -> Instances]: which one serves a call
    ServedOperations,   \* subset of {"approve", "reject"}
    FailingOperations,  \* HCM operations whose failures are scheduled
    HcmResets,          \* TRUE: the HCM lives in the process and resets with it
    MaxFaults,          \* bound: failed database writes, crashes and resets
    MaxFailures,        \* bound: queued HCM failures per operation
    MaxBatchSequence    \* bound: HCM-side balance changes

ASSUME RequestsAssumption == Requests # {}
ASSUME HomeAssumption == Home \in [Calls -> Instances]
ASSUME FailingOperationsAssumption == FailingOperations \subseteq Operations
ASSUME HcmResetsAssumption == HcmResets \in BOOLEAN

VARIABLES
    pc,             \* the step each call is about to take
    target,         \* the request it is about
    submission,     \* the HCM's answer to its submission; at most one
    rejection,      \* the rejection it is about to persist
    outcome,        \* what the last finished call answered
    queue,          \* the gates: waiting and running calls, per gate key
    faults          \* how many faults have happened

callVars == <<pc, target, submission, rejection, outcome, queue>>
vars == <<now, hcmVars, storeVars, callVars, faults>>

GateKeys == Instances \X Pairs

Gate == INSTANCE KeyedMutex WITH Keys <- GateKeys

GateKey(c) == <<Home[c], requests[target[c]].pair>>

\* Steps taken inside the gate, and those among them that use the database.
WithinGate == {"reload", "check", "findAudit", "createAudit", "rereadAudit",
               "submit", "readBalance", "stampBalance", "finalize", "noop", "persist"}
DatabaseSteps == (WithinGate \ {"check", "submit", "readBalance", "stampBalance"})
                 \cup {"updateStatus"}
Steps == WithinGate \cup {"idle", "queued", "updateStatus"}

Outcomes == {"NONE", "APPROVED", "REJECTED", "INSUFFICIENT_BALANCE",
             "INVALID_EMPLOYEE_LOCATION", "HCM_UNAVAILABLE",
             "INVALID_REQUEST_STATE", "PERSISTENCE_ERROR", "CRASHED"}

Rejection == [code: FailureCodes, auditStatus: {"NONE", "FAILED"},
              readings: SUBSET Reading]
NoRejection == [code |-> "NONE", auditStatus |-> "NONE", readings |-> {}]

Init ==
    /\ now = 0
    /\ HcmInit
    /\ StoreInit
    /\ pc = [c \in Calls |-> "idle"]
    /\ target = [c \in Calls |-> CHOOSE r \in Requests : TRUE]
    /\ submission = [c \in Calls |-> {}]
    /\ rejection = [c \in Calls |-> NoRejection]
    /\ outcome = [c \in Calls |-> "NONE"]
    /\ Gate!QueueInit
    /\ faults = 0

-----------------------------------------------------------------------------
(* How a call moves.                                                       *)

Goto(c, from, to) == pc[c] = from /\ pc' = [pc EXCEPT ![c] = to]

\* The response: the call's locals are gone.
Respond(c, from, answer) ==
    /\ Goto(c, from, "idle")
    /\ outcome' = [outcome EXCEPT ![c] = answer]
    /\ submission' = [submission EXCEPT ![c] = {}]
    /\ rejection' = [rejection EXCEPT ![c] = NoRejection]
    /\ UNCHANGED target

\* Mutant: a response that forgets the gate.
RespondAndStay(c, from, answer) ==
    /\ Respond(c, from, answer)
    /\ UNCHANGED queue

\* Leaving the gated work, by return or by throw, passes the gate on.
RespondAndLeave(c, from, answer) ==
    /\ Respond(c, from, answer)
    /\ Gate!Leave(c, GateKey(c))

Continue(c, from, to) ==
    /\ Goto(c, from, to)
    /\ UNCHANGED <<target, submission, rejection, outcome, queue>>

\* The failure persistRejectedApproval will store.
DecideRejection(c, from, to, code, auditStatus, readings) ==
    /\ Goto(c, from, to)
    /\ rejection' = [rejection EXCEPT ![c] = [code |-> code, auditStatus |-> auditStatus,
                                              readings |-> readings]]
    /\ UNCHANGED <<target, submission, outcome, queue>>

ReadNow(k) == [availableDays |-> balances[k], lastSyncedAt |-> now]

-----------------------------------------------------------------------------
(* POST /time-off-requests/:id/approve                                     *)

\* findRequestOrThrow, then runExclusive up to its first await.
ApproveRequest(c, r) ==
    /\ "approve" \in ServedOperations
    /\ Goto(c, "idle", "queued")
    /\ target' = [target EXCEPT ![c] = r]
    /\ outcome' = [outcome EXCEPT ![c] = "NONE"]
    /\ Gate!Join(c, <<Home[c], requests[r].pair>>)
    /\ UNCHANGED <<now, hcmVars, storeVars, submission, rejection, faults>>

\* Mutant: a call does not wait for its turn.
EnterGateAtOnce(c) ==
    /\ Continue(c, "queued", "reload")
    /\ UNCHANGED <<now, hcmVars, storeVars, faults>>

EnterGate(c) ==
    /\ Gate!Holds(c, GateKey(c))
    /\ Continue(c, "queued", "reload")
    /\ UNCHANGED <<now, hcmVars, storeVars, faults>>

ReloadRequest(c) ==
    /\ \/ /\ requests[target[c]].status = "PENDING"
          /\ Continue(c, "reload", "check")
       \/ /\ requests[target[c]].status = "APPROVED"
          /\ RespondAndLeave(c, "reload", "APPROVED")
       \/ /\ requests[target[c]].status = "REJECTED"
          /\ RespondAndLeave(c, "reload", "INVALID_REQUEST_STATE")
    /\ UNCHANGED <<now, hcmVars, storeVars, faults>>

\* checkedAt and the HCM's balance are taken in the same instant.
CheckBalance(c) ==
    LET r == target[c]
        k == requests[r].pair IN
    /\ \/ /\ GetBalanceFound(k)
          /\ balances[k] >= requests[r].days
          /\ Continue(c, "check", "findAudit")
       \/ /\ GetBalanceFound(k)
          /\ balances[k] < requests[r].days
          /\ DecideRejection(c, "check", "persist", "INSUFFICIENT_BALANCE", "NONE",
                             {ReadNow(k)})
       \/ /\ GetBalanceUnknown(k)
          /\ DecideRejection(c, "check", "persist", "INVALID_EMPLOYEE_LOCATION", "NONE", {})
       \/ /\ GetBalanceUnavailable
          /\ RespondAndLeave(c, "check", "HCM_UNAVAILABLE")
    /\ UNCHANGED <<now, storeVars, faults>>

\* Mutant: the attempt is not audited before it is submitted.
FindAuditOrNot(c) ==
    /\ audits[target[c]].status \in {"NONE", "STARTED"}
    /\ Continue(c, "findAudit", "submit")
    /\ UNCHANGED <<now, hcmVars, storeVars, faults>>

\* Mutant: an audit that exists, STARTED or not, stops the retry.
FindAuditStrict(c) ==
    /\ \/ audits[target[c]].status = "NONE" /\ Continue(c, "findAudit", "createAudit")
       \/ /\ audits[target[c]].status # "NONE"
          /\ RespondAndLeave(c, "findAudit", "HCM_UNAVAILABLE")
    /\ UNCHANGED <<now, hcmVars, storeVars, faults>>

FindAudit(c) ==
    LET audit == audits[target[c]] IN
    /\ \/ audit.status = "NONE" /\ Continue(c, "findAudit", "createAudit")
       \/ audit.status = "STARTED" /\ Continue(c, "findAudit", "submit")
       \/ /\ audit.status \in {"COMPLETED", "FAILED"}
          /\ RespondAndLeave(c, "findAudit", "HCM_UNAVAILABLE")
    /\ UNCHANGED <<now, hcmVars, storeVars, faults>>

\* The unique index decides between two instances creating the same audit.
CreateAudit(c) ==
    /\ \/ /\ CreateAttempt(target[c])
          /\ Continue(c, "createAudit", "submit")
       \/ /\ audits[target[c]].status # "NONE"
          /\ Continue(c, "createAudit", "rereadAudit")
          /\ UNCHANGED storeVars
    /\ UNCHANGED <<now, hcmVars, faults>>

RereadRacedAudit(c) ==
    /\ \/ /\ audits[target[c]].status = "STARTED"
          /\ Continue(c, "rereadAudit", "submit")
       \/ /\ audits[target[c]].status # "STARTED"
          /\ RespondAndLeave(c, "rereadAudit", "HCM_UNAVAILABLE")
    /\ UNCHANGED <<now, hcmVars, storeVars, faults>>

KeepSubmission(c, s) ==
    /\ Goto(c, "submit", "finalize")
    /\ submission' = [submission EXCEPT ![c] = {s}]
    /\ UNCHANGED <<target, rejection, outcome, queue>>

\* Mutant: a replay is answered with a transaction of its own.
SubmitTimeOffRebuilt(c) ==
    LET r == target[c]
        k == requests[r].pair
        d == requests[r].days IN
    /\ \/ /\ \E s \in processedRequests :
               SubmitReplayed(s, r, k, d) /\ KeepSubmission(c, Accepted(r, k, d))
          /\ UNCHANGED now
       \/ SubmitAccepted(r, k, d) /\ KeepSubmission(c, Accepted(r, k, d))
    /\ UNCHANGED <<storeVars, faults>>

\* The external request id is the request's own id.
SubmitTimeOff(c) ==
    LET r == target[c]
        k == requests[r].pair
        d == requests[r].days IN
    /\ \/ SubmitAccepted(r, k, d) /\ KeepSubmission(c, Accepted(r, k, d))
       \/ /\ UNCHANGED now
          /\ \/ \E s \in processedRequests :
                  SubmitReplayed(s, r, k, d) /\ KeepSubmission(c, s)
             \/ SubmitInsufficient(r, k, d) /\ Continue(c, "submit", "readBalance")
             \/ /\ SubmitUnknown(r, k)
                /\ DecideRejection(c, "submit", "persist", "INVALID_EMPLOYEE_LOCATION",
                                   "FAILED", {})
             \/ /\ SubmitUnavailable(r) \/ SubmitConflict(r, k, d)
                /\ RespondAndLeave(c, "submit", "HCM_UNAVAILABLE")
    /\ UNCHANGED <<storeVars, faults>>

\* tryLoadLatestBalanceProjection: a failure here is swallowed.
ReadLatestBalance(c) ==
    LET k == requests[target[c]].pair
        Decide(to, readings) == DecideRejection(c, "readBalance", to,
                                                "INSUFFICIENT_BALANCE", "FAILED", readings) IN
    /\ \/ GetBalanceFound(k) /\ Decide("stampBalance", {ReadNow(k)})
       \/ GetBalanceUnknown(k) /\ Decide("persist", {})
       \/ GetBalanceUnavailable /\ Decide("persist", {})
    /\ UNCHANGED <<now, storeVars, faults>>

\* Its lastSyncedAt is the clock after the await, not when the HCM answered.
StampBalance(c) ==
    LET failure == rejection[c] IN
    /\ DecideRejection(c, "stampBalance", "persist", failure.code, failure.auditStatus,
           {[reading EXCEPT !.lastSyncedAt = now] : reading \in failure.readings})
    /\ UNCHANGED <<now, hcmVars, storeVars, faults>>

\* The confirmed deduction is stored, or the request was finalized meanwhile.
FinalizeApproval(c) ==
    LET r == target[c] IN
    /\ \/ \E s \in submission[c] :
            /\ FinalizeApprovalOutcome(r, "APPROVED", s.txn, "NONE", "COMPLETED",
                   {[availableDays |-> s.remaining, lastSyncedAt |-> s.processedAt]})
            /\ RespondAndLeave(c, "finalize", "APPROVED")
       \/ /\ requests[r].status # "PENDING"
          /\ Continue(c, "finalize", "noop")
          /\ UNCHANGED storeVars
    /\ UNCHANGED <<now, hcmVars, faults>>

\* Mutant: a lost finalization is taken for an approval.
ResolveNoopAsApproved(c) ==
    /\ RespondAndLeave(c, "noop", "APPROVED")
    /\ UNCHANGED <<now, hcmVars, storeVars, faults>>

ResolveNoop(c) ==
    /\ \/ /\ requests[target[c]].status = "APPROVED"
          /\ RespondAndLeave(c, "noop", "APPROVED")
       \/ /\ requests[target[c]].status # "APPROVED"
          /\ RespondAndLeave(c, "noop", "INVALID_REQUEST_STATE")
    /\ UNCHANGED <<now, hcmVars, storeVars, faults>>

PersistRejection(c) ==
    LET r == target[c]
        failure == rejection[c] IN
    /\ \/ /\ FinalizeApprovalOutcome(r, "REJECTED", 0, failure.code,
                                     failure.auditStatus, failure.readings)
          /\ RespondAndLeave(c, "persist", failure.code)
       \/ /\ requests[r].status # "PENDING"
          /\ RespondAndLeave(c, "persist", "INVALID_REQUEST_STATE")
          /\ UNCHANGED storeVars
    /\ UNCHANGED <<now, hcmVars, faults>>

-----------------------------------------------------------------------------
(* POST /time-off-requests/:id/reject: not behind the gate.                *)

RejectRequest(c, r) ==
    /\ "reject" \in ServedOperations
    /\ target' = [target EXCEPT ![c] = r]
    /\ \/ /\ requests[r].status = "PENDING"
          /\ Goto(c, "idle", "updateStatus")
          /\ outcome' = [outcome EXCEPT ![c] = "NONE"]
       \/ /\ requests[r].status # "PENDING"
          /\ Goto(c, "idle", "idle")
          /\ outcome' = [outcome EXCEPT ![c] = "INVALID_REQUEST_STATE"]
    /\ UNCHANGED <<now, hcmVars, storeVars, submission, rejection, queue, faults>>

UpdateToRejected(c) ==
    LET r == target[c] IN
    /\ \/ /\ UpdateStatus(r, "REJECTED")
          /\ Respond(c, "updateStatus", "REJECTED")
       \/ /\ requests[r].status # "PENDING"
          /\ Respond(c, "updateStatus", "INVALID_REQUEST_STATE")
          /\ UNCHANGED storeVars
    /\ UNCHANGED <<now, hcmVars, queue, faults>>

-----------------------------------------------------------------------------
(* What happens to the service from outside.                               *)

\* A statement or transaction fails and is rolled back (SQLite busy, disk full).
\* A manager's rejection may be committed when reading it back fails.
PersistenceFails(c) ==
    /\ faults < MaxFaults
    /\ faults' = faults + 1
    /\ \/ /\ pc[c] \in DatabaseSteps \ {"updateStatus"}
          /\ RespondAndLeave(c, pc[c], "PERSISTENCE_ERROR")
          /\ UNCHANGED storeVars
       \/ /\ Respond(c, "updateStatus", "PERSISTENCE_ERROR")
          /\ UpdateStatus(target[c], "REJECTED") \/ UNCHANGED storeVars
          /\ UNCHANGED queue
    /\ UNCHANGED <<now, hcmVars>>

\* The process dies: its calls and its gate are gone, the tables stay, and
\* the HCM is reset with it when it lives inside the process.
Restart(i) ==
    LET dead == {c \in Calls : Home[c] = i} IN
    /\ faults < MaxFaults
    /\ faults' = faults + 1
    /\ pc' = [c \in Calls |-> IF c \in dead THEN "idle" ELSE pc[c]]
    /\ outcome' = [c \in Calls |-> IF c \in dead /\ pc[c] # "idle" THEN "CRASHED"
                                                                  ELSE outcome[c]]
    /\ submission' = [c \in Calls |-> IF c \in dead THEN {} ELSE submission[c]]
    /\ rejection' = [c \in Calls |-> IF c \in dead THEN NoRejection ELSE rejection[c]]
    /\ queue' = [k \in GateKeys |-> IF k[1] = i THEN <<>> ELSE queue[k]]
    /\ IF HcmResets THEN Reset ELSE UNCHANGED hcmVars
    /\ UNCHANGED <<now, target, storeVars>>

\* An HCM that resets on its own (a new seed), while calls are in flight.
HcmReset ==
    /\ HcmResets
    /\ faults < MaxFaults
    /\ faults' = faults + 1
    /\ Reset
    /\ UNCHANGED <<now, storeVars, callVars>>

HcmAdjusts(k, delta) ==
    /\ batchSequence < MaxBatchSequence
    /\ AdjustAccepted(k, delta)
    /\ UNCHANGED <<now, storeVars, callVars, faults>>

HcmWillFail(op) ==
    /\ transientFailures[op] < MaxFailures
    /\ ScheduleTransientFailure(op)
    /\ UNCHANGED <<now, storeVars, callVars, faults>>

TimePasses == Tick /\ UNCHANGED <<hcmVars, storeVars, callVars, faults>>

-----------------------------------------------------------------------------
\* A step the service takes by itself once a call has begun.
Serve(c) ==
    \/ EnterGate(c)
    \/ ReloadRequest(c)
    \/ CheckBalance(c)
    \/ FindAudit(c)
    \/ CreateAudit(c)
    \/ RereadRacedAudit(c)
    \/ SubmitTimeOff(c)
    \/ ReadLatestBalance(c)
    \/ StampBalance(c)
    \/ FinalizeApproval(c)
    \/ ResolveNoop(c)
    \/ PersistRejection(c)
    \/ UpdateToRejected(c)

Next ==
    \/ \E c \in Calls, r \in Requests : ApproveRequest(c, r) \/ RejectRequest(c, r)
    \/ \E c \in Calls : Serve(c) \/ PersistenceFails(c)
    \/ \E i \in Instances : Restart(i)
    \/ HcmReset
    \/ \E k \in Pairs, delta \in Adjustments : HcmAdjusts(k, delta)
    \/ \E op \in FailingOperations : HcmWillFail(op)
    \/ TimePasses

Spec == Init /\ [][Next]_vars

\* The event loop runs every continuation that is ready; clients, faults and
\* the HCM's own changes are not obliged to happen.
FairSpec == Spec /\ \A c \in Calls : WF_vars(Serve(c))
-----------------------------------------------------------------------------
\* No table, record or call holds a transaction id the HCM has not given out.
TransactionsGiven ==
    /\ \A s \in processedRequests : s.txn \in 1..transactions
    /\ \A c \in Calls : \A s \in submission[c] : s.txn \in 1..transactions
    /\ \A r \in Requests : /\ requests[r].hcmTransactionId \in 0..transactions
                           /\ audits[r].hcmTransactionId \in 0..transactions

(* Every variable keeps its type: no write stores a negative balance, a    *)
(* transaction id the HCM never gave, or a call in an unknown step.        *)
TypeOK ==
    /\ now \in Nat
    /\ HcmTypeOK
    /\ StoreTypeOK
    /\ pc \in [Calls -> Steps]
    /\ target \in [Calls -> Requests]
    /\ submission \in [Calls -> SUBSET Submission]
    /\ rejection \in [Calls -> Rejection]
    /\ outcome \in [Calls -> Outcomes]
    /\ Gate!QueueTypeOK
    /\ faults \in Nat
    /\ TransactionsGiven

(* An approved request was deducted in the HCM: its transaction is on the  *)
(* HCM's record for this very request, pair and number of days, whatever   *)
(* crashed, failed or raced on the way (TRD 8: deduct before committing    *)
(* APPROVED; finalizeApprovalOutcome).                                     *)
ApprovedWasDeducted ==
    \A r \in Requests : requests[r].status = "APPROVED" =>
        \E s \in Processed(r) :
            /\ s.txn = requests[r].hcmTransactionId
            /\ SameFingerprint(s, requests[r].pair, requests[r].days)

(* Within one life of the HCM it deducts a request at most once, however   *)
(* often its approval is retried, by whichever instance (the request id as *)
(* externalRequestId).  A reset empties its record; a retry that is then   *)
(* deducted once more is the first of the new life.                        *)
DeductedOnce ==
    \A s, t \in processedRequests : s.ext = t.ext => s = t

(* The audit row tells the truth about its request: COMPLETED exactly when *)
(* it is approved, under the same transaction; FAILED only when it was     *)
(* rejected for a recorded reason.  So a request that can still be         *)
(* approved never has a closed audit, which would block it for good        *)
(* (findOrCreateApprovalAudit gives up on any audit that is not STARTED).  *)
AuditMatchesRequest ==
    \A r \in Requests :
        LET request == requests[r]
            audit == audits[r] IN
        /\ request.status = "APPROVED" <=> audit.status = "COMPLETED"
        /\ audit.hcmTransactionId = request.hcmTransactionId
        /\ request.status = "APPROVED" <=> request.hcmTransactionId # 0
        /\ audit.status = "FAILED" =>
              request.status = "REJECTED" /\ request.failureCode # "NONE"

(* A deduction always leaves an audit row behind, made before it: evidence *)
(* survives the loss of the answer, of the commit or of the process (the   *)
(* attempt is audited before submitTimeOff).                               *)
DeductionHasAudit ==
    \A s \in processedRequests : audits[s.ext].status # "NONE"

(* Whoever is about to close a pending request finds its audit open, so    *)
(* finalizeApprovalOutcome never throws "HCM approval audit could not be   *)
(* finalized.": a deducted request is never left behind an error that each *)
(* retry would meet again, even when instances share nothing but the table.*)
AuditOpenAtOutcome ==
    \A c \in Calls :
        /\ pc[c] = "finalize" \/ (pc[c] = "persist" /\ rejection[c].auditStatus = "FAILED")
        /\ requests[target[c]].status = "PENDING"
        => audits[target[c]].status = "STARTED"

(* An audit closed as FAILED was right: the HCM holds no deduction for the *)
(* request.  Only the gate makes this so: the refusal and the FAILED row   *)
(* are steps apart, and a second approval of the same request let in       *)
(* between could be accepted (approveRequest runs under runExclusive).     *)
FailedAuditNotDeducted ==
    \A r \in Requests : audits[r].status = "FAILED" => Processed(r) = {}

(* HCM and ReadyOn agree: a rejected request was not deducted.             *)
RejectedNotDeducted ==
    \A r \in Requests : requests[r].status = "REJECTED" => Processed(r) = {}

(* The same of refusals (rejections with a failure code), beside managers' *)
(* rejections and failing HCM calls: until a write fails or the process    *)
(* dies, no request that was refused had been charged or ever will be.     *)
RefusedNotDeducted ==
    \A r \in Requests :
        faults = 0 /\ requests[r].status = "REJECTED" /\ requests[r].failureCode # "NONE"
            => Processed(r) = {}

(* Per instance and pair, one call at a time is past the gate, and it is   *)
(* the one whose turn it is: an early return, a throw or a failed write    *)
(* never leaves the gate with two calls inside (runExclusive).             *)
OneApprovalPerPair ==
    \A c \in Calls : pc[c] \in WithinGate => Gate!Holds(c, GateKey(c))

(* Who waits at a gate waits for calls in flight: each line holds, once,   *)
(* every call that is queued for or past its key, and nobody else.  A call *)
(* that is answered, fails or dies never keeps its place, and none is left *)
(* in flight without one (runExclusive releases in a finally).             *)
LinesAreCallsInFlight ==
    LET InFlight(c) == pc[c] \in WithinGate \cup {"queued"} IN
    /\ \A k \in GateKeys : \A i, j \in 1..Len(queue[k]) :
          /\ InFlight(queue[k][i]) /\ GateKey(queue[k][i]) = k
          /\ queue[k][i] = queue[k][j] => i = j
    /\ \A c \in Calls : InFlight(c) =>
          \E i \in 1..Len(queue[GateKey(c)]) : queue[GateKey(c)][i] = c

(* What a call answered is still true: APPROVED means approved, a refusal  *)
(* for balance or dimension means rejected with that code, and a state     *)
(* conflict means the request is no longer pending.                        *)
AnswersAreTrue ==
    \A c \in Calls :
        LET request == requests[target[c]] IN
        CASE outcome[c] = "APPROVED" -> request.status = "APPROVED"
          [] outcome[c] = "REJECTED" -> request.status = "REJECTED"
          [] outcome[c] \in FailureCodes \ {"NONE"} ->
                request.status = "REJECTED" /\ request.failureCode = outcome[c]
          [] outcome[c] = "INVALID_REQUEST_STATE" -> request.status # "PENDING"
          [] OTHER -> TRUE

(* An approved or rejected request never changes again, whichever calls,   *)
(* retries and instances are still on their way (the conditional updates   *)
(* WHERE status = 'PENDING').                                              *)
FinalIsFinal ==
    [][\A r \in Requests : requests[r].status # "PENDING" =>
          requests'[r] = requests[r] ]_vars

(* A projection never goes back in time: each approval or rejection stores *)
(* a reading of the HCM at least as recent as the one in place, until a    *)
(* commit is lost; the retry then stores what the HCM answered at first.   *)
ProjectionNeverOlder ==
    [][\A k \in Pairs :
          faults' = 0 /\ projections[k] # NoProjection =>
             projections'[k].lastSyncedAt >= projections[k].lastSyncedAt]_vars

(* The approval protocol implements the lifecycle of a request.            *)
Lifecycle == INSTANCE RequestLifecycle WITH
    status <- [r \in Requests |-> requests[r].status],
    charges <- [r \in Requests |-> {s.txn : s \in Processed(r)}],
    approval <- [r \in Requests |-> requests[r].hcmTransactionId]
ImplementsLifecycle == Lifecycle!Spec

(* Every call is answered: no early return or throw leaves the gate shut,  *)
(* and no two calls wait for each other.                                   *)
EveryCallIsAnswered == \A c \in Calls : (pc[c] # "idle") ~> (pc[c] = "idle")

(* A deduction whose commit was lost is not forgotten: if clients keep     *)
(* retrying the approval, the request is approved under it (TRD 581: "a    *)
(* retry converges by reusing the same external request id").  True where  *)
(* the balance left still covers the request; see RejectedNotDeducted.     *)
DeductionConverges ==
    \A r \in Requests :
        ([]<>(\E c \in Calls : target[c] = r /\ pc[c] = "queued"))
            => ((Processed(r) # {} /\ requests[r].status = "PENDING")
                    ~> (requests[r].status = "APPROVED"))
=============================================================================
