--------------------------- MODULE SharedBalances ----------------------------
(***************************************************************************)
(* The whole service over one balances table and one HCM: approvals and    *)
(* rejections (TimeOffApproval) beside batches and refreshes               *)
(* (Reconciliation), in one process.  Every writer of a row has its own    *)
(* notion of how fresh it is: an approval stores what the HCM answered     *)
(* when it deducted, dated by the HCM, under the source version of the row *)
(* in place; a refresh stores what it read, dated by its own clock; a      *)
(* batch stores a snapshot, dated by the clock of whoever applies it, if   *)
(* no row is fresher.                                                      *)
(*                                                                         *)
(* The HCM keeps its record here, so its batch sequence numbers its states *)
(* and serves as edition.  asOf, deductedAt and readAt are history: which  *)
(* state of the HCM a row shows, which one a deduction made, and which one *)
(* a call that will reject has read.                                       *)
(***************************************************************************)
EXTENDS MockHcm, TimeOffStore, Sequences, FiniteSets

CONSTANTS
    Calls, Instances, Home, ServedOperations, FailingOperations,
    Posts, Refreshes,
    MaxFaults, MaxFailures,
    MaxChanges          \* bound: changes of the HCM, deductions among them

\* One process serves every call, and there is some request to ask about.
ASSUME OneProcessAssumption == \A c \in Calls, i \in Instances : Home[c] = i
ASSUME RequestsAssumption == Requests # {}
\* A row is a row whatever version of the HCM it carries: deductions raise it too.
ASSUME NoRowAssumption ==
    NoProjection \notin [availableDays: Nat, lastSyncedAt: Nat,
                         sourceVersion: Nat \cup {NoVersion}]

VARIABLES
    pc, target, submission, rejection, outcome, queue,      \* approvals
    runs, published, post, refresh,                         \* reconciliation
    faults, asOf, deductedAt, readAt

Approvals == INSTANCE TimeOffApproval
    WITH HcmResets <- FALSE, MaxBatchSequence <- MaxChanges

Reconciling == INSTANCE Reconciliation
    WITH HcmResets <- FALSE, edition <- batchSequence

approvalVars == <<requests, audits, pc, target, submission, rejection, outcome, queue>>
reconcilingVars == <<runs, post, refresh>>
sharedVars == <<now, hcmVars, projections, approvalVars, reconcilingVars, published,
                faults, asOf, deductedAt, readAt>>

Init ==
    /\ Approvals!Init
    /\ Reconciling!Init
    /\ deductedAt = [r \in Requests |-> 0]
    /\ readAt = [c \in Calls |-> 0]

-----------------------------------------------------------------------------
\* The state of the HCM that a call stores when it closes its request.
StoredEdition(c) ==
    CASE pc[c] = "finalize" -> {deductedAt[target[c]]}
      [] pc[c] = "persist" /\ rejection[c].readings # {} -> {readAt[c]}
      [] OTHER -> {}

\* History of a step of call c.
Noted(c) ==
    LET r == target[c]
        k == requests[r].pair IN
    /\ published' = published \cup {Reconciling!Latest'}
    /\ deductedAt' = IF processedRequests' = processedRequests THEN deductedAt
                     ELSE [deductedAt EXCEPT ![r] = batchSequence']
    /\ readAt' = [readAt EXCEPT ![c] =
          CASE pc[c] = "stampBalance" /\ pc'[c] = "persist" -> @
            [] pc[c] # "stampBalance" /\ pc'[c] \in {"stampBalance", "persist"} -> batchSequence
            [] OTHER -> 0]
    /\ asOf' = [asOf EXCEPT ![k] = IF requests' = requests \/ StoredEdition(c) = {} THEN @
                                   ELSE CHOOSE e \in StoredEdition(c) : TRUE]

Approve(c) ==
    /\ \/ \E r \in Requests : Approvals!ApproveRequest(c, r) \/ Approvals!RejectRequest(c, r)
       \/ Approvals!Serve(c)
       \/ Approvals!PersistenceFails(c)
    /\ Noted(c)
    /\ UNCHANGED reconcilingVars

\* Batches and refreshes, HCM-side changes, and the clock.
Reconcile ==
    /\ Reconciling!Proceed
    /\ UNCHANGED <<approvalVars, deductedAt, readAt>>

\* One process: everything in flight is lost at once.
ProcessDies ==
    /\ \E i \in Instances : Approvals!Restart(i)
    /\ Reconciling!ProcessDies
    /\ readAt' = [c \in Calls |-> 0]
    /\ UNCHANGED deductedAt

Next ==
    \/ \E c \in Calls : Approve(c)
    \/ Reconcile
    \/ ProcessDies

Spec == Init /\ [][Next]_sharedVars
-----------------------------------------------------------------------------
(* Whoever wrote a row last, it is an answer the HCM gave: the balance the *)
(* pair had in the state asOf names, dated when every earlier state had    *)
(* begun, so by its date no batch of an earlier state is newer.  Its own   *)
(* state may begin later than its date: the HCM dates a deduction before   *)
(* the batch version it makes.                                             *)
RowsAreReadings ==
    \A k \in Pairs : projections[k] # NoProjection =>
        /\ \E s \in published :
              /\ s.edition = asOf[k]
              /\ k \in DOMAIN s.balances
              /\ s.balances[k] = projections[k].availableDays
        /\ \A s \in published :
              s.edition < asOf[k] => s.effectiveAt <= projections[k].lastSyncedAt

(* A batch never replaces a later state of the HCM, approvals beside it:   *)
(* TRD 724.  As in Reconciliation, but for a row dated no later than the   *)
(* run whose version it carries; no reset can excuse it here.              *)
BatchNeverClobbersFresher ==
    [][\A k \in Pairs : runs' # runs /\ asOf'[k] < asOf[k] =>
                           Reconciling!DatedByItsRun(k)]_sharedVars

(* TRD 724 again, of what matters most: a row that shows an approved       *)
(* deduction and is dated after a batch was made still shows it when that  *)
(* batch has been applied, even where no two instants coincide.  Checked   *)
(* as a violation: the deduction can be dated before the run that wrote    *)
(* the row in place completed, and be stored after it.                     *)
NoBatchHidesADeduction ==
    [][\A r \in Requests, run \in runs' \ runs :
          LET k == requests[r].pair
              row == projections[k] IN
          /\ requests[r].status = "APPROVED"
          /\ deductedAt[r] <= asOf[k]
          /\ run.effectiveAt < row.lastSyncedAt
          /\ \A old \in runs : old.completedAt # row.lastSyncedAt
          => deductedAt[r] <= asOf'[k]]_sharedVars
=============================================================================
