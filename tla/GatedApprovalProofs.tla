------------------------ MODULE GatedApprovalProofs -------------------------
(***************************************************************************)
(* What only the gate makes true: theorems about TimeOffApproval with one  *)
(* instance (OneHome), as the service is shipped, for any number of calls, *)
(* pairs and requests, and any bounds.                                     *)
(*                                                                         *)
(* The argument.  Two calls past the gate never serve the same pair        *)
(* (GateKeepsOut), so what one has seen inside it stays so until it acts:  *)
(* the audit is open when it submits (OpenAtSubmit), a refusal that will   *)
(* close the audit finds nothing deducted (UnchargedRefusal), and until    *)
(* something fails nothing is deducted for a request that a call is still  *)
(* working on (Uncharged), because who deducted it would still be inside   *)
(* (Charging).                                                             *)
(***************************************************************************)
EXTENDS TimeOffApprovalProofs

OneHome == \A c, d \in Calls : Home[c] = Home[d]

(* Past the gate a pair has one call.                                      *)
LEMMA GateKeepsOut ==
    ASSUME OneHome, OneApprovalPerPair, NEW c \in Calls, NEW d \in Calls,
           pc[c] \in WithinGate, pc[d] \in WithinGate,
           requests[target[c]].pair = requests[target[d]].pair
    PROVE  c = d
    BY DEF OneHome, OneApprovalPerPair, GateKey, Gate!Holds

(* A submission is recorded under the request of its call only.            *)
LEMMA AcceptedElsewhere ==
    ASSUME NEW c \in Calls, AcceptedFor(c), NEW r, target[c] # r
    PROVE  Processed(r)' = Processed(r)
<1> DEFINE new == Accepted(target[c], requests[target[c]].pair, requests[target[c]].days)
<1>1. processedRequests' = processedRequests \cup {new}
    BY DEF AcceptedFor, SubmitAccepted
<1>2. new.ext # r
    BY DEF Accepted
<1> QED
    BY <1>1, <1>2 DEF Processed

\* A call on its way to a refusal that closes the audit as FAILED.
Refusing(c) ==
    \/ pc[c] \in {"readBalance", "stampBalance"}
    \/ pc[c] = "persist" /\ rejection[c].auditStatus = "FAILED"

(* A call that gets to a refusal that closes the audit has been told by    *)
(* the HCM that nothing was deducted, or keeps what it was told.           *)
LEMMA EntersRefusal ==
    ASSUME TypeOK, NEW d \in Calls, Serve(d), Refusing(d)'
    PROVE  /\ target'[d] = target[d] /\ UNCHANGED processedRequests
           /\ Processed(target[d]) = {} \/ Refusing(d)
<1>0. pc \in [Calls -> Steps] /\ rejection \in [Calls -> Rejection]
    BY DEF TypeOK
<1>1. ASSUME NEW from, NEW answer, Respond(d, from, answer) PROVE FALSE
    BY <1>0, <1>1 DEF Respond, Goto, Refusing
<1>2. ASSUME NEW from, NEW to, to \notin {"readBalance", "stampBalance", "persist"},
             Continue(d, from, to)
      PROVE  FALSE
    BY <1>0, <1>2 DEF Continue, Goto, Refusing
<1>3. ASSUME NEW from, NEW code, NEW readings,
             DecideRejection(d, from, "persist", code, "NONE", readings)
      PROVE  FALSE
    BY <1>0, <1>3 DEF DecideRejection, Goto, Refusing
<1>4. ASSUME NEW s, KeepSubmission(d, s) PROVE FALSE
    BY <1>0, <1>4 DEF KeepSubmission, Goto, Refusing
<1>5. CASE SubmitTimeOff(d)
    BY <1>1, <1>4, <1>5 DEF SubmitTimeOff, RespondAndLeave, SubmitInsufficient,
       SubmitUnknown, NewSubmission, Continue, DecideRejection, hcmVars
<1>6. CASE ReadLatestBalance(d)
    BY <1>6 DEF ReadLatestBalance, DecideRejection, Goto, GetBalanceFound, Refusing,
       GetBalanceUnknown, GetBalanceUnavailable, ConsumeTransientFailure, hcmVars
<1>9. CASE StampBalance(d)
    BY <1>9 DEF StampBalance, DecideRejection, Goto, Refusing, hcmVars
<1>7. CASE CheckBalance(d)
    BY <1>1, <1>2, <1>3, <1>7 DEF CheckBalance, RespondAndLeave
<1>8. CASE EnterGate(d) \/ ReloadRequest(d) \/ FindAudit(d) \/ CreateAudit(d)
             \/ RereadRacedAudit(d) \/ ResolveNoop(d) \/ UpdateToRejected(d)
             \/ FinalizeApproval(d) \/ PersistRejection(d)
    BY <1>1, <1>2, <1>8 DEF EnterGate, ReloadRequest, FindAudit, CreateAudit,
       RereadRacedAudit, ResolveNoop, UpdateToRejected, FinalizeApproval,
       PersistRejection, RespondAndLeave
<1> QED
    BY <1>5, <1>6, <1>7, <1>8, <1>9 DEF Serve

-----------------------------------------------------------------------------
(* Audits closed as FAILED.                                                *)

\* The audit of a call that is about to submit is open.
OpenAtSubmit(c) == pc[c] = "submit" => audits[target[c]].status = "STARTED"

\* Nothing was deducted for a request whose audit will be closed as FAILED.
UnchargedRefusal(c) == Refusing(c) => Processed(target[c]) = {}

GateInv ==
    /\ OneApprovalPerPair
    /\ FailedAuditNotDeducted
    /\ \A c \in Calls : OpenAtSubmit(c) /\ UnchargedRefusal(c)

(* Nobody else closes the audit while a call is about to submit.           *)
LEMMA OpenStep ==
    ASSUME OneHome, TypeOK, GateInv, [Next]_vars, NEW d \in Calls
    PROVE  OpenAtSubmit(d)'
<1>0. /\ target \in [Calls -> Requests] /\ audits \in [Requests -> Audit]
    BY DEF TypeOK, StoreTypeOK
<1>1. CASE Serve(d)
    BY <1>1, EntersSubmit DEF OpenAtSubmit
<1>2. CASE Untouched(d) /\ pc[d] = "submit"
    <2>1. audits[target[d]].status = "STARTED" /\ target'[d] = target[d]
        BY <1>2 DEF GateInv, OpenAtSubmit, Untouched
    <2>2. ASSUME NEW c \in Calls, ApprovedBy(c) \/ RejectedBy(c) PROVE target[c] # target[d]
        <3>1. c # d /\ pc[c] \in WithinGate /\ pc[d] \in WithinGate
            BY <1>2, <2>2 DEF ApprovedBy, RejectedBy, WithinGate
        <3> QED
            BY <3>1, GateKeepsOut DEF GateInv
    <2>3. audits'[target[d]] = audits[target[d]]
        <3>1. ASSUME NEW c \in Calls, ApprovedBy(c) \/ RejectedBy(c)
              PROVE  audits'[target[d]] = audits[target[d]]
            BY <1>0, <2>2, <3>1 DEF ApprovedBy, RejectedBy, FinalizeApprovalOutcome
        <3> QED
            BY <1>0, <2>1, <3>1, StoreMoves DEF storeVars, CreateAttempt, UpdateStatus
    <2> QED
        BY <2>1, <2>3 DEF OpenAtSubmit
<1> QED
    BY <1>1, <1>2, CallMoves DEF OpenAtSubmit, Untouched, WithinGate

(* Nobody else submits the request while a call is about to refuse it.     *)
LEMMA RefusalStep ==
    ASSUME OneHome, TypeOK, GateInv, [Next]_vars, NEW d \in Calls
    PROVE  UnchargedRefusal(d)'
<1>1. CASE Serve(d)
    BY <1>1, EntersRefusal DEF GateInv, UnchargedRefusal, Processed
<1>2. CASE Untouched(d) /\ Refusing(d)
    <2>1. Processed(target[d]) = {} /\ target'[d] = target[d]
        BY <1>2 DEF GateInv, UnchargedRefusal, Untouched
    <2>2. ASSUME NEW c \in Calls, AcceptedFor(c) PROVE target[c] # target[d]
        <3>1. c # d /\ pc[c] \in WithinGate /\ pc[d] \in WithinGate
            BY <1>2, <2>2 DEF AcceptedFor, Refusing, WithinGate
        <3> QED
            BY <3>1, GateKeepsOut DEF GateInv
    <2>3. ASSUME NEW c \in Calls, AcceptedFor(c) PROVE Processed(target[d])' = {}
        BY <2>1, <2>2, <2>3, AcceptedElsewhere DEF Processed
    <2>4. Processed(target[d])' = {}
        BY <2>1, <2>3, HcmMoves DEF Processed
    <2> QED
        BY <2>1, <2>4 DEF UnchargedRefusal
<1> QED
    BY <1>1, <1>2, CallMoves DEF UnchargedRefusal, Refusing, Untouched, WithinGate

(* A FAILED audit is written by a call that knows nothing was deducted,    *)
(* and nothing is submitted under it later.                                *)
LEMMA FailedStep ==
    ASSUME TypeOK, GateInv, [Next]_vars
    PROVE  FailedAuditNotDeducted'
<1> SUFFICES ASSUME NEW r \in Requests, audits'[r].status = "FAILED"
             PROVE  Processed(r)' = {}
    BY DEF FailedAuditNotDeducted, Processed
<1>0. /\ target \in [Calls -> Requests] /\ audits \in [Requests -> Audit]
    BY DEF TypeOK, StoreTypeOK
<1>1. CASE audits[r].status = "FAILED"
    <2>1. ASSUME NEW c \in Calls, AcceptedFor(c) PROVE target[c] # r
        BY <1>1, <2>1 DEF AcceptedFor, GateInv, OpenAtSubmit
    <2>2. ASSUME NEW c \in Calls, AcceptedFor(c) PROVE Processed(r)' = {}
        BY <1>1, <2>1, <2>2, AcceptedElsewhere DEF GateInv, FailedAuditNotDeducted
    <2> QED
        BY <1>1, <2>2, HcmMoves DEF Processed, GateInv, FailedAuditNotDeducted
<1>2. CASE audits[r].status # "FAILED"
    <2>1. ASSUME NEW c \in Calls, ApprovedBy(c) PROVE FALSE
        BY <1>0, <1>2, <2>1 DEF ApprovedBy, FinalizeApprovalOutcome
    <2>a. ASSUME NEW c \in Calls, CreateAttempt(target[c]) PROVE FALSE
        BY <1>0, <1>2, <2>a DEF CreateAttempt
    <2>2. PICK c \in Calls : RejectedBy(c)
        BY <1>2, <2>1, <2>a, StoreMoves DEF storeVars, UpdateStatus
    <2>3. target[c] = r /\ pc[c] = "persist" /\ rejection[c].auditStatus = "FAILED"
        BY <1>0, <1>2, <2>2 DEF RejectedBy, FinalizeApprovalOutcome
    <2>4. Processed(r) = {}
        BY <2>3 DEF GateInv, UnchargedRefusal, Refusing
    <2> QED
        BY <1>2, <2>4, HcmMoves DEF Processed, storeVars
<1> QED
    BY <1>1, <1>2

(* An audit closed as FAILED was right: for no request it names did the    *)
(* HCM deduct anything.  Of two instances this is false (runExclusive).    *)
THEOREM FailedAuditsAreRight ==
    ASSUME OneHome PROVE Spec => []FailedAuditNotDeducted
<1>1. Init => GateInv
    BY DEF Init, StoreInit, NoAudit, HcmInit, GateInv, OneApprovalPerPair, WithinGate,
           FailedAuditNotDeducted, OpenAtSubmit, UnchargedRefusal, Refusing
<1>2. TypeOK /\ GateInv /\ [Next]_vars => GateInv'
    BY GateStep, OpenStep, RefusalStep, FailedStep DEF GateInv
<1>3. GateInv => FailedAuditNotDeducted
    BY DEF GateInv
<1> QED
    BY <1>1, <1>2, <1>3, TypeCorrect, PTL DEF Spec

-----------------------------------------------------------------------------
(* Until something fails.                                                  *)

\* The steps of a call between finding the request PENDING and its answer
\* from the HCM, and those of a refusal.
Deciding == {"check", "findAudit", "createAudit", "rereadAudit", "submit",
             "readBalance", "stampBalance", "persist"}

Refused(r) == requests[r].status = "REJECTED" /\ requests[r].failureCode # "NONE"

\* What a call decides about is neither deducted nor refused.
Uncharged(c) ==
    faults = 0 /\ pc[c] \in Deciding => Processed(target[c]) = {} /\ ~Refused(target[c])

\* A request that is deducted and not yet decided is being finalized.
Charging(r) ==
    faults = 0 /\ Processed(r) # {} /\ requests[r].status = "PENDING" =>
        \E c \in Calls : pc[c] = "finalize" /\ target[c] = r

CalmInv ==
    /\ RefusedNotDeducted
    /\ \A c \in Calls : Uncharged(c)
    /\ \A r \in Requests : Charging(r)

(* Until something fails nothing is reset and no process dies.             *)
LEMMA NoFaultYet ==
    ASSUME TypeOK, [Next]_vars, faults' = 0
    PROVE  /\ faults = 0
           /\ \A d \in Calls : \/ Untouched(d) \/ Serve(d)
                               \/ pc[d] = "idle" /\ pc'[d] \notin WithinGate
<1>0. /\ faults \in Nat /\ pc \in [Calls -> Steps] /\ target \in [Calls -> Requests]
      /\ outcome \in [Calls -> Outcomes]
    BY DEF TypeOK
<1> DEFINE Fine == /\ faults = 0
                   /\ \A d \in Calls : \/ Untouched(d) \/ Serve(d)
                                       \/ pc[d] = "idle" /\ pc'[d] \notin WithinGate
<1>1. ASSUME NEW c \in Calls, Serve(c) PROVE Fine
    <2>1. UNCHANGED faults
        BY <1>1 DEF Serve, EnterGate, ReloadRequest, CheckBalance, FindAudit, CreateAudit,
           RereadRacedAudit, SubmitTimeOff, ReadLatestBalance, StampBalance, FinalizeApproval,
           ResolveNoop, PersistRejection, UpdateToRejected
    <2> QED
        BY <1>1, <2>1, OthersAreUntouched
<1>2. ASSUME NEW c \in Calls, NEW r \in Requests, ApproveRequest(c, r) \/ RejectRequest(c, r)
      PROVE  Fine
    BY <1>0, <1>2 DEF ApproveRequest, RejectRequest, Goto, Untouched, WithinGate
<1>3. ASSUME UNCHANGED <<callVars, faults>> PROVE Fine
    BY <1>3 DEF callVars, Untouched
<1>4. ASSUME faults' = faults + 1 PROVE FALSE
    BY <1>0, <1>4
<1> QED
    BY <1>1, <1>2, <1>3, <1>4 DEF Next, PersistenceFails, Restart, HcmReset, HcmAdjusts,
       HcmWillFail, TimePasses, vars

(* A call starts deciding when it finds the request PENDING.               *)
LEMMA EntersDeciding ==
    ASSUME TypeOK, NEW d \in Calls, Serve(d), pc'[d] \in Deciding
    PROVE  /\ target'[d] = target[d]
           /\ \/ pc[d] \in Deciding
              \/ /\ pc[d] = "reload" /\ requests[target[d]].status = "PENDING"
                 /\ UNCHANGED <<requests, processedRequests>>
<1>0. pc \in [Calls -> Steps]
    BY DEF TypeOK
<1>1. ASSUME NEW from, NEW answer, Respond(d, from, answer) PROVE FALSE
    BY <1>0, <1>1 DEF Respond, Goto, Deciding
<1>2. ASSUME NEW from \in Deciding, NEW to, Continue(d, from, to)
      PROVE  pc[d] \in Deciding /\ target'[d] = target[d]
    BY <1>2 DEF Continue, Goto
<1>3. ASSUME NEW from \in Deciding, NEW to, NEW code, NEW auditStatus, NEW readings,
             DecideRejection(d, from, to, code, auditStatus, readings)
      PROVE  pc[d] \in Deciding /\ target'[d] = target[d]
    BY <1>3 DEF DecideRejection, Goto
<1>4. ASSUME NEW s, KeepSubmission(d, s) PROVE FALSE
    BY <1>0, <1>4 DEF KeepSubmission, Goto, Deciding
<1>5. CASE CheckBalance(d) \/ ReadLatestBalance(d) \/ StampBalance(d)
    BY <1>1, <1>2, <1>3, <1>5
       DEF CheckBalance, ReadLatestBalance, StampBalance, RespondAndLeave, Deciding
<1>6. CASE FindAudit(d) \/ CreateAudit(d) \/ RereadRacedAudit(d)
    BY <1>1, <1>2, <1>6 DEF FindAudit, CreateAudit, RereadRacedAudit, RespondAndLeave, Deciding
<1>7. CASE SubmitTimeOff(d)
    BY <1>1, <1>2, <1>3, <1>4, <1>7 DEF SubmitTimeOff, RespondAndLeave, Deciding
<1>8. CASE ReloadRequest(d)
    BY <1>1, <1>8 DEF ReloadRequest, RespondAndLeave, Continue, Goto, storeVars, hcmVars
<1>9. CASE EnterGate(d) \/ ResolveNoop(d) \/ UpdateToRejected(d) \/ FinalizeApproval(d)
             \/ PersistRejection(d)
    <2>1. ASSUME NEW from, NEW to \in {"reload", "noop"}, Continue(d, from, to) PROVE FALSE
        BY <1>0, <2>1 DEF Continue, Goto, Deciding
    <2> QED
        BY <1>1, <1>9, <2>1 DEF EnterGate, ResolveNoop, UpdateToRejected, FinalizeApproval,
           PersistRejection, RespondAndLeave
<1> QED
    BY <1>5, <1>6, <1>7, <1>8, <1>9 DEF Serve

(* While a call decides, nobody deducts or refuses its request.            *)
LEMMA UnchargedStep ==
    ASSUME OneHome, TypeOK, OneApprovalPerPair, CalmInv, [Next]_vars, NEW d \in Calls
    PROVE  Uncharged(d)'
<1> SUFFICES ASSUME faults' = 0, pc'[d] \in Deciding
             PROVE  Processed(target[d])' = {} /\ ~Refused(target[d])'
    BY DEF Uncharged
<1> DEFINE r == target[d]
<1>0. /\ target \in [Calls -> Requests] /\ requests \in [Requests -> Request]
      /\ faults = 0 /\ Deciding \subseteq WithinGate
    BY NoFaultYet DEF TypeOK, StoreTypeOK, Deciding, WithinGate
<1>1. Untouched(d) \/ Serve(d)
    BY <1>0, NoFaultYet
<1>2. target'[d] = r
    BY <1>1, EntersDeciding DEF Untouched
<1>3. CASE pc[d] = "reload" /\ requests[r].status = "PENDING"
             /\ UNCHANGED <<requests, processedRequests>>
    <2>1. Processed(r) = {}
        <3> SUFFICES ASSUME Processed(r) # {}
                     PROVE  FALSE
            OBVIOUS
        <3>1. PICK c \in Calls : pc[c] = "finalize" /\ target[c] = r
            BY <1>0, <1>3 DEF CalmInv, Charging
        <3> QED
            BY <1>3, <3>1, GateKeepsOut DEF WithinGate
    <2> QED
        BY <1>2, <1>3, <2>1 DEF Processed, Refused
<1>4. CASE pc[d] \in Deciding
    <2>1. Processed(r) = {} /\ ~Refused(r)
        BY <1>0, <1>4 DEF CalmInv, Uncharged
    <2>2. ASSUME NEW c \in Calls, AcceptedFor(c) \/ RejectedBy(c) PROVE target[c] # r
        <3>1. pc[c] \in WithinGate /\ c # d
            <4>1. pc[c] \in WithinGate /\ pc'[c] \in {"finalize", "idle"}
                BY <2>2 DEF AcceptedFor, RejectedBy, WithinGate
            <4> QED
                BY <4>1 DEF Deciding
        <3> QED
            BY <1>0, <1>4, <3>1, GateKeepsOut
    <2>3. Processed(r)' = {}
        <3>1. ASSUME NEW c \in Calls, AcceptedFor(c) PROVE Processed(r)' = {}
            BY <1>2, <2>1, <2>2, <3>1, AcceptedElsewhere DEF Processed
        <3> QED
            BY <1>2, <2>1, <3>1, HcmMoves DEF Processed
    <2>4. ~Refused(r)'
        <3>1. ASSUME NEW c \in Calls, UpdateStatus(target[c], "REJECTED") PROVE ~Refused(r)'
            BY <1>0, <1>2, <2>1, <3>1 DEF UpdateStatus, Refused
        <3>2. ASSUME NEW c \in Calls, ApprovedBy(c) PROVE ~Refused(r)'
            BY <1>0, <1>2, <2>1, <3>2 DEF ApprovedBy, FinalizeApprovalOutcome, Refused
        <3>3. ASSUME NEW c \in Calls, RejectedBy(c) PROVE ~Refused(r)'
            BY <1>0, <1>2, <2>1, <2>2, <3>3 DEF RejectedBy, FinalizeApprovalOutcome, Refused
        <3> QED
            BY <1>2, <2>1, <3>1, <3>2, <3>3, StoreMoves DEF storeVars, CreateAttempt, Refused
    <2> QED
        BY <2>3, <2>4
<1> QED
    BY <1>1, <1>3, <1>4, EntersDeciding DEF Untouched

(* A call that holds a deduction leaves only with the request decided.     *)
LEMMA FinalizeStep ==
    ASSUME TypeOK, [Next]_vars, faults' = 0, NEW c \in Calls, pc[c] = "finalize",
           requests'[target[c]].status = "PENDING"
    PROVE  pc'[c] = "finalize" /\ target'[c] = target[c]
<1>0. /\ target \in [Calls -> Requests] /\ requests \in [Requests -> Request]
    BY DEF TypeOK, StoreTypeOK
<1>1. CASE Serve(c)
    <2>1. FinalizeApproval(c)
        BY <1>1 DEF Serve, EnterGate, ReloadRequest, CheckBalance, FindAudit, CreateAudit,
           RereadRacedAudit, SubmitTimeOff, ReadLatestBalance, StampBalance, ResolveNoop,
           PersistRejection, UpdateToRejected, RespondAndLeave, Respond, Continue, DecideRejection,
           KeepSubmission, Goto
    <2>2. requests'[target[c]].status # "PENDING"
        <3>1. ASSUME NEW s, FinalizeApprovalOutcome(target[c], "APPROVED", s.txn, "NONE",
                       "COMPLETED", {[availableDays |-> s.remaining,
                                      lastSyncedAt |-> s.processedAt]})
              PROVE  requests'[target[c]].status # "PENDING"
            BY <1>0, <3>1 DEF FinalizeApprovalOutcome
        <3> QED
            BY <2>1, <3>1 DEF FinalizeApproval, storeVars
    <2> QED
        BY <2>2
<1> QED
    BY <1>1, NoFaultYet DEF Untouched

(* A deduction appears with the call that finalizes it.                    *)
LEMMA ChargingStep ==
    ASSUME TypeOK, CalmInv, [Next]_vars, NEW r \in Requests
    PROVE  Charging(r)'
<1> SUFFICES ASSUME faults' = 0, Processed(r)' # {}, requests'[r].status = "PENDING"
             PROVE  \E c \in Calls : pc'[c] = "finalize" /\ target'[c] = r
    BY DEF Charging
<1>1. faults = 0 /\ requests[r].status = "PENDING"
    BY NoFaultYet, DecidedStays DEF DecidedStay
<1>2. CASE Processed(r) # {}
    <2>1. PICK c \in Calls : pc[c] = "finalize" /\ target[c] = r
        BY <1>1, <1>2 DEF CalmInv, Charging
    <2> QED
        BY <2>1, FinalizeStep
<1>3. CASE Processed(r) = {}
    <2>1. PICK c \in Calls : AcceptedFor(c)
        BY <1>3, HcmMoves DEF Processed
    <2>2. target[c] = r
        BY <1>3, <2>1, AcceptedElsewhere
    <2> QED
        BY <2>1, <2>2 DEF AcceptedFor
<1> QED
    BY <1>2, <1>3

(* A refusal is written by a call that is deciding, and nothing is         *)
(* submitted for a refused request later.                                  *)
LEMMA RefusedStep ==
    ASSUME TypeOK, CalmInv, [Next]_vars
    PROVE  RefusedNotDeducted'
<1> SUFFICES ASSUME NEW r \in Requests, faults' = 0, Refused(r)'
             PROVE  Processed(r)' = {}
    BY DEF RefusedNotDeducted, Refused
<1>0. /\ target \in [Calls -> Requests] /\ requests \in [Requests -> Request] /\ faults = 0
    BY NoFaultYet DEF TypeOK, StoreTypeOK
<1>1. CASE Refused(r)
    <2>1. Processed(r) = {}
        BY <1>0, <1>1 DEF CalmInv, RefusedNotDeducted, Refused
    <2>2. ASSUME NEW c \in Calls, AcceptedFor(c) PROVE target[c] # r
        BY <1>0, <1>1, <2>2 DEF AcceptedFor, CalmInv, Uncharged, Deciding
    <2>3. ASSUME NEW c \in Calls, AcceptedFor(c) PROVE Processed(r)' = {}
        BY <2>1, <2>2, <2>3, AcceptedElsewhere
    <2> QED
        BY <2>1, <2>3, HcmMoves DEF Processed
<1>2. CASE ~Refused(r)
    <2>1. ASSUME NEW c \in Calls, UpdateStatus(target[c], "REJECTED") PROVE FALSE
        BY <1>0, <1>2, <2>1 DEF UpdateStatus, Refused
    <2>2. ASSUME NEW c \in Calls, ApprovedBy(c) PROVE FALSE
        BY <1>0, <1>2, <2>2 DEF ApprovedBy, FinalizeApprovalOutcome, Refused
    <2>3. PICK c \in Calls : RejectedBy(c)
        BY <1>2, <2>1, <2>2, StoreMoves DEF storeVars, CreateAttempt, Refused
    <2>4. target[c] = r /\ pc[c] = "persist"
        BY <1>0, <1>2, <2>3 DEF RejectedBy, FinalizeApprovalOutcome, Refused
    <2>5. Processed(r) = {}
        BY <1>0, <2>4 DEF CalmInv, Uncharged, Deciding
    <2> QED
        BY <1>2, <2>5, HcmMoves DEF Processed, storeVars, Refused
<1> QED
    BY <1>1, <1>2

(* The invariant holds throughout.                                         *)
LEMMA CalmHolds ==
    ASSUME OneHome PROVE Spec => []CalmInv
<1>1. Init => CalmInv
    BY DEF Init, StoreInit, NewRequest, HcmInit, CalmInv, RefusedNotDeducted, Uncharged,
           Charging, Processed, Deciding
<1>2. TypeOK /\ OneApprovalPerPair /\ CalmInv /\ [Next]_vars => CalmInv'
    BY UnchargedStep, ChargingStep, RefusedStep DEF CalmInv
<1> QED
    BY <1>1, <1>2, TypeCorrect, GateExcludes, PTL DEF Spec

(* Until a write fails or the process dies, a request refused for its      *)
(* balance or dimension was not charged and never will be, beside managers'*)
(* rejections, failing HCM calls and balances that change (runExclusive).  *)
THEOREM RefusalsAreUncharged ==
    ASSUME OneHome PROVE Spec => []RefusedNotDeducted
<1>1. CalmInv => RefusedNotDeducted
    BY DEF CalmInv
<1> QED
    BY <1>1, CalmHolds, PTL

-----------------------------------------------------------------------------
(* Projections.                                                            *)

\* A reading taken at this instant is not older than the row of the pair.
NotOlder(t, k) == projections[k] # NoProjection => projections[k].lastSyncedAt <= t

\* What a call is about to store is not older than the row in place.
Fresher(c) ==
    LET k == requests[target[c]].pair IN
    /\ pc[c] = "finalize" => \A s \in submission[c] :
                                s.processedAt <= now /\ NotOlder(s.processedAt, k)
    /\ pc[c] = "persist" => \A g \in rejection[c].readings :
                                g.lastSyncedAt <= now /\ NotOlder(g.lastSyncedAt, k)

FreshInv ==
    faults = 0 => /\ \A k \in Pairs : NotOlder(now, k)
                  /\ \A c \in Calls : Fresher(c)

(* Time does not run backwards.                                            *)
LEMMA NowMoves ==
    ASSUME TypeOK, [Next]_vars
    PROVE  now \in Nat /\ now' \in Nat /\ now <= now'
<1>1. now \in Nat
    BY DEF TypeOK
<1>2. UNCHANGED now \/ now' = now + 1 \/ \E c \in Calls : Serve(c)
    BY DEF Next, ApproveRequest, RejectRequest, PersistenceFails, Restart, HcmReset,
       HcmAdjusts, HcmWillFail, TimePasses, Tick, vars
<1> QED
    BY <1>1, <1>2, ServedInTime

\* Call c stores a reading taken at instant t.
Stores(c, t) ==
    LET k == requests[target[c]].pair IN
    /\ \/ /\ pc[c] = "finalize"
          /\ \E s \in submission[c] : t = s.processedAt
       \/ /\ pc[c] = "persist"
          /\ \E g \in rejection[c].readings : t = g.lastSyncedAt
    /\ pc'[c] = "idle"
    /\ \E row : projections' = [projections EXCEPT ![k] = row] /\ row.lastSyncedAt = t

(* Projections are written by a call that ends, with what it held.         *)
LEMMA ProjectionMoves ==
    ASSUME TypeOK, [Next]_vars
    PROVE  UNCHANGED projections \/ \E c \in Calls, t \in Nat : Stores(c, t)
<1>0. /\ submission \in [Calls -> SUBSET Submission] /\ rejection \in [Calls -> Rejection]
    BY DEF TypeOK
<1>1. ASSUME NEW c \in Calls, ApprovedBy(c)
      PROVE  \E t \in Nat : Stores(c, t)
    <2> DEFINE k == requests[target[c]].pair
    <2>1. PICK s \in submission[c] :
              FinalizeApprovalOutcome(target[c], "APPROVED", s.txn, "NONE", "COMPLETED",
                  {[availableDays |-> s.remaining, lastSyncedAt |-> s.processedAt]})
        BY <1>1 DEF ApprovedBy
    <2> DEFINE reading == [availableDays |-> s.remaining, lastSyncedAt |-> s.processedAt]
               row == Synced(projections[k], reading)
    <2>2. projections' = [projections EXCEPT ![k] = row]
        BY <2>1 DEF FinalizeApprovalOutcome
    <2>3. row.lastSyncedAt = s.processedAt /\ s.processedAt \in Nat
        BY <1>0 DEF Synced, Row, Submission
    <2> HIDE DEF row
    <2>4. Stores(c, s.processedAt)
        BY <1>1, <2>2, <2>3 DEF Stores, ApprovedBy
    <2> QED
        BY <2>3, <2>4
<1>2. ASSUME NEW c \in Calls, RejectedBy(c), projections' # projections
      PROVE  \E t \in Nat : Stores(c, t)
    <2> DEFINE k == requests[target[c]].pair
    <2>1. PICK g \in rejection[c].readings :
              projections' = [projections EXCEPT ![k] = Synced(@, g)]
        BY <1>2 DEF RejectedBy, FinalizeApprovalOutcome
    <2> DEFINE row == Synced(projections[k], g)
    <2>2. projections' = [projections EXCEPT ![k] = row]
        BY <2>1
    <2>3. row.lastSyncedAt = g.lastSyncedAt /\ g.lastSyncedAt \in Nat
        BY <1>0 DEF Synced, Row, Rejection, Reading
    <2> HIDE DEF row
    <2>4. Stores(c, g.lastSyncedAt)
        BY <1>2, <2>2, <2>3 DEF Stores, RejectedBy
    <2> QED
        BY <2>3, <2>4
<1> QED
    BY <1>1, <1>2, StoreMoves DEF storeVars, CreateAttempt, UpdateStatus

(* What a call comes to hold is dated as the step begins: the HCM answers  *)
(* from its record only what it had deducted before.                       *)
LEMMA EntersHolding ==
    ASSUME TypeOK, NEW d \in Calls, Serve(d), pc'[d] \in {"finalize", "persist"},
           pc[d] = "submit" => Processed(target[d]) = {}
    PROVE  /\ target'[d] = target[d] /\ UNCHANGED storeVars
           /\ pc'[d] = "finalize" => \A s \in submission'[d] : s.processedAt = now
           /\ pc'[d] = "persist" => \A g \in rejection'[d].readings : g.lastSyncedAt = now
<1>0. /\ pc \in [Calls -> Steps] /\ rejection \in [Calls -> Rejection]
      /\ submission \in [Calls -> SUBSET Submission]
    BY DEF TypeOK
<1> DEFINE r == target[d]
           k == requests[r].pair
           n == requests[r].days
           Held == /\ target'[d] = target[d]
                   /\ pc'[d] = "finalize" => \A s \in submission'[d] : s.processedAt = now
                   /\ pc'[d] = "persist" => \A g \in rejection'[d].readings : g.lastSyncedAt = now
<1>1. ASSUME NEW from, NEW answer, Respond(d, from, answer) PROVE FALSE
    BY <1>0, <1>1 DEF Respond, Goto
<1>2. ASSUME NEW from, NEW to, to \notin {"finalize", "persist"}, Continue(d, from, to)
      PROVE  FALSE
    BY <1>0, <1>2 DEF Continue, Goto
<1>3. ASSUME NEW from, NEW code, NEW auditStatus, NEW readings \in {{}, {ReadNow(k)}},
             DecideRejection(d, from, "persist", code, auditStatus, readings)
      PROVE  Held
    <2>1. \A g \in readings : g.lastSyncedAt = now
        BY <1>3 DEF ReadNow
    <2>2. pc'[d] = "persist" /\ rejection'[d].readings = readings /\ target' = target
        BY <1>0, <1>3 DEF DecideRejection, Goto
    <2> QED
        BY <2>1, <2>2
<1>4. CASE SubmitTimeOff(d)
    <2>1. ASSUME NEW s \in processedRequests, SubmitReplayed(s, r, k, n), KeepSubmission(d, s)
          PROVE  FALSE
        BY <2>1 DEF SubmitReplayed, KeepSubmission, Goto
    <2>2. ASSUME KeepSubmission(d, Accepted(r, k, n)) PROVE Held
        <3>1. Accepted(r, k, n).processedAt = now
            BY DEF Accepted
        <3>2. pc'[d] = "finalize" /\ submission'[d] = {Accepted(r, k, n)} /\ target' = target
            BY <1>0, <2>2 DEF KeepSubmission, Goto
        <3> QED
            BY <3>1, <3>2
    <2> QED
        BY <1>1, <1>2, <1>3, <1>4, <2>1, <2>2 DEF SubmitTimeOff, RespondAndLeave
<1>5. CASE CheckBalance(d) \/ ReadLatestBalance(d)
    <2>1. ASSUME NEW from, NEW code, NEW auditStatus, NEW readings,
                 DecideRejection(d, from, "stampBalance", code, auditStatus, readings)
          PROVE  FALSE
        BY <1>0, <2>1 DEF DecideRejection, Goto
    <2> QED
        BY <1>1, <1>2, <1>3, <1>5, <2>1 DEF CheckBalance, ReadLatestBalance, RespondAndLeave
<1>7. CASE StampBalance(d)
    BY <1>0, <1>7 DEF StampBalance, DecideRejection, Goto, Rejection, Reading
<1>6. CASE EnterGate(d) \/ ReloadRequest(d) \/ FindAudit(d) \/ CreateAudit(d)
             \/ RereadRacedAudit(d) \/ ResolveNoop(d) \/ UpdateToRejected(d)
             \/ FinalizeApproval(d) \/ PersistRejection(d)
    BY <1>1, <1>2, <1>6 DEF EnterGate, ReloadRequest, FindAudit, CreateAudit,
       RereadRacedAudit, ResolveNoop, UpdateToRejected, FinalizeApproval,
       PersistRejection, RespondAndLeave
<1> QED
    BY <1>4, <1>5, <1>6, <1>7 DEF Serve

(* Until something fails, what a call holds stays fresher than the row.    *)
LEMMA FresherStep ==
    ASSUME OneHome, TypeOK, OneApprovalPerPair, CalmInv, FreshInv, [Next]_vars,
           faults' = 0, NEW d \in Calls
    PROVE  Fresher(d)'
<1> DEFINE k == requests[target[d]].pair
<1>0. /\ faults = 0 /\ now \in Nat /\ now' \in Nat /\ now <= now'
      /\ target \in [Calls -> Requests] /\ projections \in [Pairs -> Projection \cup {NoProjection}]
      /\ submission \in [Calls -> SUBSET Submission] /\ rejection \in [Calls -> Rejection]
      /\ requests \in [Requests -> Request]
    BY NoFaultYet, NowMoves DEF TypeOK, StoreTypeOK, ProjectionsTypeOK
<1>1. target'[d] = target[d] => requests'[target'[d]].pair = k
    BY <1>0, RequestsFixed
<1>k. k \in Pairs
    BY <1>0 DEF Request
<1>2. CASE Serve(d) /\ pc'[d] \in {"finalize", "persist"}
    <2>1. pc[d] = "submit" => Processed(target[d]) = {}
        BY <1>0 DEF CalmInv, Uncharged, Deciding
    <2>2. /\ target'[d] = target[d] /\ UNCHANGED projections
          /\ pc'[d] = "finalize" => \A s \in submission'[d] : s.processedAt = now
          /\ pc'[d] = "persist" => \A g \in rejection'[d].readings : g.lastSyncedAt = now
        BY <1>2, <2>1, EntersHolding DEF storeVars
    <2>3. NotOlder(now, k) /\ now <= now'
        BY <1>0, <1>k DEF FreshInv
    <2> QED
        BY <1>1, <2>2, <2>3 DEF Fresher, NotOlder
<1>3. CASE Untouched(d) /\ pc[d] \in {"finalize", "persist"}
    <2>1. projections'[k] = projections[k]
        <3>1. ASSUME NEW c \in Calls, NEW t, Stores(c, t) PROVE projections'[k] = projections[k]
            <4>1. c # d /\ pc[c] \in WithinGate /\ pc[d] \in WithinGate
                BY <1>3, <3>1 DEF Stores, Untouched, WithinGate
            <4>2. requests[target[c]].pair # k
                BY <4>1, GateKeepsOut
            <4> QED
                BY <1>0, <1>k, <3>1, <4>2 DEF Stores
        <3> QED
            BY <3>1, ProjectionMoves
    <2>2. Fresher(d)
        BY <1>0 DEF FreshInv
    <2>3. \A s \in submission[d] : s.processedAt \in Nat
        BY <1>0 DEF Submission
    <2>4. \A g \in rejection[d].readings : g.lastSyncedAt \in Nat
        BY <1>0 DEF Rejection, Reading
    <2>5. \A t \in Nat : t <= now => t <= now'
        BY <1>0
    <2> QED
        BY <1>1, <1>3, <2>1, <2>2, <2>3, <2>4, <2>5 DEF Fresher, NotOlder, Untouched
<1> QED
    BY <1>0, <1>2, <1>3, NoFaultYet DEF Fresher, Untouched, WithinGate

(* Until something fails, no row is dated in the future or before the row  *)
(* it replaces.                                                            *)
LEMMA RowsStep ==
    ASSUME TypeOK, FreshInv, [Next]_vars, faults' = 0, NEW k \in Pairs
    PROVE  /\ NotOlder(now, k)'
           /\ projections[k] # NoProjection
                => projections'[k].lastSyncedAt >= projections[k].lastSyncedAt
<1>0. /\ faults = 0 /\ now \in Nat /\ now' \in Nat /\ now <= now'
      /\ projections \in [Pairs -> Projection \cup {NoProjection}]
    BY NoFaultYet, NowMoves DEF TypeOK, StoreTypeOK, ProjectionsTypeOK
<1>1. NotOlder(now, k) /\ (projections[k] # NoProjection => projections[k].lastSyncedAt \in Nat)
    BY <1>0 DEF FreshInv, Projection
<1>2. CASE projections'[k] = projections[k]
    BY <1>0, <1>1, <1>2 DEF NotOlder
<1>3. CASE projections'[k] # projections[k]
    <2>1. PICK c \in Calls, t \in Nat : Stores(c, t)
        BY <1>3, ProjectionMoves
    <2>2. PICK row : /\ projections' = [projections EXCEPT ![requests[target[c]].pair] = row]
                     /\ row.lastSyncedAt = t
        BY <2>1 DEF Stores
    <2>3. requests[target[c]].pair = k /\ projections'[k] = row
        BY <1>0, <1>3, <2>2
    <2>4. Fresher(c)
        BY <1>0 DEF FreshInv
    <2>5. t <= now /\ NotOlder(t, k)
        BY <2>1, <2>3, <2>4 DEF Stores, Fresher
    <2> QED
        BY <1>0, <1>1, <2>2, <2>3, <2>5 DEF NotOlder
<1> QED
    BY <1>2, <1>3

(* Until something fails, each approval or rejection stores a reading at   *)
(* least as recent as the one in place, in every order of the calls that   *)
(* the gate allows (finalizeApprovalOutcome).                              *)
THEOREM ProjectionsMoveForward ==
    ASSUME OneHome PROVE Spec => ProjectionNeverOlder
<1> DEFINE Forward == \A k \in Pairs :
              faults' = 0 /\ projections[k] # NoProjection =>
                 projections'[k].lastSyncedAt >= projections[k].lastSyncedAt
<1>1. Init => FreshInv
    BY DEF Init, StoreInit, FreshInv, NotOlder, Fresher
<1>2. TypeOK /\ OneApprovalPerPair /\ CalmInv /\ FreshInv /\ [Next]_vars => FreshInv'
    BY FresherStep, RowsStep DEF FreshInv
<1>3. TypeOK /\ FreshInv /\ [Next]_vars => [Forward]_vars
    BY RowsStep
<1> QED
    BY <1>1, <1>2, <1>3, TypeCorrect, GateExcludes, CalmHolds, PTL
       DEF Spec, ProjectionNeverOlder
=============================================================================
