------------------------ MODULE SharedBalancesProofs ------------------------
(***************************************************************************)
(* What holds of one balances table that approvals, batches and refreshes  *)
(* all write (SharedBalances), for any number of calls, posts, refreshes,  *)
(* pairs and requests, and any bounds.                                     *)
(*                                                                         *)
(* The argument.  Whoever writes a row holds an answer of the HCM, and an  *)
(* answer is about a state the HCM has published: ShownIn.  A submission   *)
(* on record shows the state its deduction made (RecordShown), and a call  *)
(* about to store one holds it from that record (CallHolds); a refusal     *)
(* shows the state it was decided in; a batch is a published state; a      *)
(* refresh shows the state it read (RefreshHolds).  Later states join the  *)
(* published ones (Extends) and time passes, so what was shown once stays  *)
(* shown.                                                                  *)
(***************************************************************************)
EXTENDS SharedBalances, MockHcmProofs

USE OneProcessAssumption, RequestsAssumption, RequestDaysAssumption, NoRowAssumption

Versions == Nat \cup {NoVersion}

\* Some state in P gave pair k these days under edition e, and by the instant
\* at all states before it had begun.
ShownIn(P, k, e, days, at) ==
    /\ \E s \in P :
          /\ s.edition = e
          /\ k \in DOMAIN s.balances
          /\ s.balances[k] = days
    /\ \A s \in P : s.edition < e => s.effectiveAt <= at

\* The states in Q are those in P and others that came after them.
Extends(P, Q) ==
    /\ P \subseteq Q
    /\ \A s \in Q \ P, t \in P : ~(s.edition < t.edition)

\* The states are numbered and dated in the order the HCM took them.
StatesOK ==
    /\ Reconciling!Latest \in published
    /\ \A s \in published :
          /\ s.version \in Nat
          /\ s.edition \in 0..batchSequence
          /\ s.effectiveAt \in 0..effectiveAt
          /\ \A k \in DOMAIN s.balances : s.balances[k] \in Nat
    /\ \A s, t \in published : s.edition <= t.edition => s.effectiveAt <= t.effectiveAt

HcmOK ==
    /\ now \in Nat
    /\ HcmTypeOK
    /\ effectiveAt <= now
    /\ StatesOK

RequestsOK == requests \in [Requests -> Request]

Rows == [availableDays: Nat, lastSyncedAt: Nat, sourceVersion: Versions]

\* There is no row for pair k yet, or it shows the state numbered e.
RowShown(row, k, e, P) ==
    \/ row = NoProjection /\ e = 0
    \/ row \in Rows /\ ShownIn(P, k, e, row.availableDays, row.lastSyncedAt)

RowsOK ==
    /\ DOMAIN projections = Pairs
    /\ DOMAIN asOf = Pairs
    /\ \A k \in Pairs : RowShown(projections[k], k, asOf[k], published)

RecordShown ==
    /\ DOMAIN deductedAt = Requests
    /\ \A s \in processedRequests :
          ShownIn(published, s.pair, deductedAt[s.ext], s.remaining, s.processedAt)

LocalsOK ==
    /\ pc \in [Calls -> Approvals!Steps]
    /\ target \in [Calls -> Requests]
    /\ submission \in [Calls -> SUBSET Submission]
    /\ rejection \in [Calls -> Approvals!Rejection]

\* The steps at which a call holds the reading of a refusal.
Refusing == {"stampBalance", "persist"}

\* What call c is about to store.
CallHolds(c) ==
    LET k == requests[target[c]].pair IN
    /\ \A s \in submission[c] :
          /\ pc[c] \in {"finalize", "noop"}
          /\ s \in processedRequests
          /\ s.ext = target[c]
          /\ s.pair = k
    /\ \A reading \in rejection[c].readings :
          /\ pc[c] \in Refusing
          /\ ShownIn(published, k, readAt[c], reading.availableDays,
                     IF pc[c] = "stampBalance" THEN now ELSE reading.lastSyncedAt)

CallsOK ==
    /\ LocalsOK
    /\ DOMAIN readAt = Calls
    /\ \A c \in Calls : CallHolds(c)

Posting(P) == [stage: {"idle", "findRun", "findLatest", "apply", "reread"},
               batch: P \cup {Reconciling!NoBatch}, processedAt: Nat]

PostHolds(x, P) ==
    /\ x.stage # "idle" => x.batch \in P
    /\ x.stage = "apply" => x.batch.effectiveAt <= x.processedAt

PostsOK ==
    /\ DOMAIN post = Posts
    /\ \A p \in Posts :
          /\ post[p] \in Posting(published)
          /\ PostHolds(post[p], published)

RefreshHolds(x, P, clock) ==
    /\ x.stage # "idle" => x.pair \in Pairs
    /\ x.stage \in {"stamp", "upsert"} =>
          ShownIn(P, x.pair, x.reading.edition, x.reading.availableDays,
                  IF x.stage = "stamp" THEN clock ELSE x.reading.lastSyncedAt)

Refreshing == [stage: {"idle", "getBalance", "stamp", "upsert"},
               pair: Pairs \cup {{}}, version: Versions,
               reading: [availableDays: Nat, lastSyncedAt: Nat, edition: Nat]]

RefreshesOK ==
    /\ DOMAIN refresh = Refreshes
    /\ \A f \in Refreshes :
          /\ refresh[f] \in Refreshing
          /\ RefreshHolds(refresh[f], published, now)

RunsOK ==
    \A run \in runs :
        /\ run.completedAt \in Nat
        /\ \E s \in published : s.edition = run.edition /\ s.effectiveAt = run.effectiveAt

Inv ==
    /\ HcmOK
    /\ RequestsOK
    /\ RowsOK
    /\ RecordShown
    /\ CallsOK
    /\ PostsOK
    /\ RefreshesOK
    /\ RunsOK

-----------------------------------------------------------------------------
(* What was shown stays shown, and the HCM's states.                       *)

(* Later states do not change what is shown.                               *)
LEMMA ShownStays ==
    ASSUME NEW P, NEW Q, Extends(P, Q), NEW k, NEW e, NEW days, NEW at, ShownIn(P, k, e, days, at)
    PROVE  ShownIn(Q, k, e, days, at)
<1>1. PICK t \in P : t.edition = e /\ k \in DOMAIN t.balances /\ t.balances[k] = days
    BY DEF ShownIn
<1>2. ASSUME NEW s \in Q, s.edition < e
      PROVE  s.effectiveAt <= at
    <2>1. s \in P
        BY <1>1, <1>2 DEF Extends
    <2> QED
        BY <1>2, <2>1 DEF ShownIn
<1> QED
    BY <1>1, <1>2 DEF ShownIn, Extends

(* Nor does a later date.                                                  *)
LEMMA ShownLater ==
    ASSUME StatesOK, effectiveAt \in Nat, NEW k, NEW e, NEW days, NEW at \in Nat,
           NEW later \in Nat, at <= later, ShownIn(published, k, e, days, at)
    PROVE  ShownIn(published, k, e, days, later)
<1>1. ASSUME NEW s \in published, s.edition < e
      PROVE  s.effectiveAt <= later
    BY <1>1 DEF ShownIn, StatesOK
<1> QED
    BY <1>1 DEF ShownIn

HcmSame == UNCHANGED <<seeded, balances, processedRequests, batchSequence, effectiveAt>>

(* A step that does not change the HCM's state publishes nothing.          *)
LEMMA SameState ==
    ASSUME StatesOK, HcmSame, published' \in {published, published \cup {Reconciling!Latest'}}
    PROVE  published' = published /\ StatesOK'
<1>1. Reconciling!Latest' = Reconciling!Latest
    BY DEF HcmSame, Reconciling!Latest, Reconciling!EditionOf, Reconciling!Snapshot
<1>2. published' = published
    BY <1>1 DEF StatesOK
<1> QED
    BY <1>1, <1>2 DEF StatesOK, HcmSame

(* A change of the HCM begins a state of its own (advanceBatchVersion).    *)
LEMMA NextState ==
    ASSUME HcmOK, HcmTypeOK', NEW at, AdvanceBatchVersion(at), effectiveAt <= at,
           published' = published \cup {Reconciling!Latest'}
    PROVE  Extends(published, published') /\ StatesOK'
<1> DEFINE new == Reconciling!Latest'
<1>1. /\ new.version = batchSequence' /\ new.edition = batchSequence'
      /\ new.effectiveAt = effectiveAt'
      /\ \A k \in DOMAIN new.balances : new.balances[k] \in Nat
    BY DEF HcmTypeOK, Reconciling!Latest, Reconciling!EditionOf, Reconciling!Snapshot
<1>2. /\ batchSequence \in Nat /\ batchSequence' = batchSequence + 1
      /\ effectiveAt \in Nat /\ effectiveAt' \in Nat /\ effectiveAt <= effectiveAt'
    BY DEF HcmOK, HcmTypeOK, AdvanceBatchVersion
<1> HIDE DEF new
<1>3. published' = published \cup {new}
    BY DEF new
<1>4. ASSUME NEW s \in published'
      PROVE  /\ s.version \in Nat
             /\ s.edition \in 0..batchSequence'
             /\ s.effectiveAt \in 0..effectiveAt'
             /\ \A k \in DOMAIN s.balances : s.balances[k] \in Nat
    BY <1>1, <1>2, <1>3, <1>4 DEF HcmOK, StatesOK
<1>5. ASSUME NEW s \in published', NEW t \in published', s.edition <= t.edition
      PROVE  s.effectiveAt <= t.effectiveAt
    <2>1. CASE t = new
        BY <1>1, <1>4, <2>1
    <2>2. CASE t # new /\ s # new
        BY <1>3, <1>5, <2>2 DEF HcmOK, StatesOK
    <2>3. CASE t # new /\ s = new
        <3>1. t.edition \in 0..batchSequence
            BY <1>3, <2>3 DEF HcmOK, StatesOK
        <3> QED
            BY <1>1, <1>2, <1>5, <2>3, <3>1
    <2> QED
        BY <2>1, <2>2, <2>3
<1>6. Extends(published, published') /\ new \in published'
    BY <1>1, <1>2, <1>3 DEF HcmOK, StatesOK, Extends
<1> QED
    BY <1>4, <1>5, <1>6 DEF StatesOK, new

(* The HCM's present state shows the balance it answers (getBalance).      *)
LEMMA PresentShown ==
    ASSUME HcmOK, NEW k \in seeded
    PROVE  ShownIn(published, k, batchSequence, balances[k], now)
<1> DEFINE s == Reconciling!Latest
<1>1. s \in published
    BY DEF HcmOK, StatesOK
<1>2. /\ s.edition = batchSequence
      /\ k \in DOMAIN s.balances /\ s.balances[k] = balances[k]
    BY DEF Reconciling!Latest, Reconciling!EditionOf, Reconciling!Snapshot
<1> HIDE DEF s
<1>3. ASSUME NEW t \in published
      PROVE  t.effectiveAt <= now
    BY DEF HcmOK, HcmTypeOK, StatesOK
<1> QED
    BY <1>1, <1>2, <1>3 DEF ShownIn

(* The invariant holds at first.                                           *)
LEMMA InvInit == Init => Inv
<1> SUFFICES ASSUME Init PROVE Inv
    OBVIOUS
<1>1. /\ now = 0 /\ Approvals!HcmInit /\ Approvals!StoreInit
      /\ pc = [c \in Calls |-> "idle"]
      /\ target = [c \in Calls |-> CHOOSE r \in Requests : TRUE]
      /\ submission = [c \in Calls |-> {}]
      /\ rejection = [c \in Calls |-> Approvals!NoRejection]
    BY DEF Init, Approvals!Init
<1>2. /\ runs = {} /\ published = {Reconciling!EditionOf(Reconciling!Snapshot, 0)}
      /\ post = [p \in Posts |-> Reconciling!IdlePost]
      /\ refresh = [f \in Refreshes |-> Reconciling!IdleRefresh]
      /\ asOf = [k \in Pairs |-> 0]
    BY DEF Init, Reconciling!Init
<1>3. deductedAt = [r \in Requests |-> 0] /\ readAt = [c \in Calls |-> 0]
    BY DEF Init
<1>4. HcmOK
    <2>1. HcmInit
        BY <1>1 DEF Approvals!HcmInit, HcmInit, Approvals!Seeds, Seeds, Approvals!SeedBalances,
               SeedBalances, Approvals!Operations, Operations
    <2>2. HcmTypeOK /\ batchSequence = 0 /\ effectiveAt = 0
        BY <2>1, HcmInitTyping DEF HcmInit
    <2> DEFINE s == Reconciling!Latest
    <2>3. published = {s}
        BY <1>2, <2>2 DEF Reconciling!Latest
    <2>4. /\ s.version = 0 /\ s.edition = 0 /\ s.effectiveAt = 0
          /\ \A k \in DOMAIN s.balances : s.balances[k] \in Nat
        BY <2>2 DEF HcmTypeOK, Reconciling!Latest, Reconciling!EditionOf, Reconciling!Snapshot
    <2>5. StatesOK
        <3> HIDE DEF s
        <3>1. /\ s \in published
              /\ \A t \in published : /\ t.version = 0 /\ t.edition = 0 /\ t.effectiveAt = 0
                                      /\ \A k \in DOMAIN t.balances : t.balances[k] \in Nat
            BY <2>3, <2>4
        <3> QED
            BY <2>2, <3>1 DEF StatesOK, s
    <2> QED
        BY <1>1, <2>2, <2>5 DEF HcmOK
<1>5. RequestsOK
    BY <1>1 DEF RequestsOK, Approvals!StoreInit, Approvals!NewRequest, Request, RequestStatus,
                FailureCodes
<1>6. RowsOK
    BY <1>1, <1>2 DEF RowsOK, RowShown, Approvals!StoreInit
<1>7. RecordShown
    BY <1>1, <1>3 DEF RecordShown, Approvals!HcmInit
<1>8. CallsOK
    <2>1. Approvals!NoRejection \in Approvals!Rejection /\ Approvals!NoRejection.readings = {}
        BY DEF Approvals!NoRejection, Approvals!Rejection, Approvals!FailureCodes
    <2>2. (CHOOSE r \in Requests : TRUE) \in Requests
        OBVIOUS
    <2>3. LocalsOK
        BY <1>1, <2>1, <2>2 DEF LocalsOK, Approvals!Steps
    <2>4. \A c \in Calls : submission[c] = {} /\ rejection[c].readings = {}
        BY <1>1, <2>1
    <2> QED
        BY <1>3, <2>3, <2>4 DEF CallsOK, CallHolds
<1>9. PostsOK
    <2>1. /\ Reconciling!IdlePost \in Posting(published)
          /\ PostHolds(Reconciling!IdlePost, published)
        BY DEF Posting, PostHolds, Reconciling!IdlePost
    <2> QED
        BY <1>2, <2>1 DEF PostsOK
<1>10. RefreshesOK
    <2>1. /\ Reconciling!IdleRefresh \in Refreshing
          /\ RefreshHolds(Reconciling!IdleRefresh, published, now)
        BY DEF Refreshing, RefreshHolds, Reconciling!IdleRefresh, Reconciling!NoReading, Versions
    <2> QED
        BY <1>2, <2>1 DEF RefreshesOK
<1>11. RunsOK
    BY <1>2 DEF RunsOK
<1> QED
    BY <1>4, <1>5, <1>6, <1>7, <1>8, <1>9, <1>10, <1>11 DEF Inv

-----------------------------------------------------------------------------
(* A step of a call: what it does to the locals.                           *)

Others(c) == \A d \in Calls \ {c} :
    /\ pc'[d] = pc[d]
    /\ target'[d] = target[d]
    /\ submission'[d] = submission[d]
    /\ rejection'[d] = rejection[d]

\* The call is left with nothing to store.
HoldsNothing(c) == submission'[c] = {} /\ rejection'[c].readings = {}

(* An answer ends the call.                                                *)
LEMMA Responds ==
    ASSUME LocalsOK, NEW c \in Calls, NEW from, NEW answer, Approvals!Respond(c, from, answer)
    PROVE  /\ LocalsOK' /\ Others(c) /\ HoldsNothing(c)
           /\ pc[c] = from /\ pc'[c] = "idle"
<1>1. Approvals!NoRejection \in Approvals!Rejection /\ Approvals!NoRejection.readings = {}
    BY DEF Approvals!NoRejection, Approvals!Rejection, Approvals!FailureCodes
<1> QED
    BY <1>1 DEF LocalsOK, Others, HoldsNothing, Approvals!Respond, Approvals!Goto, Approvals!Steps

(* The same behind the gate.                                               *)
LEMMA Leaves ==
    ASSUME LocalsOK, NEW c \in Calls, NEW from, NEW answer,
           Approvals!RespondAndLeave(c, from, answer)
    PROVE  /\ LocalsOK' /\ Others(c) /\ HoldsNothing(c)
           /\ pc[c] = from /\ pc'[c] = "idle"
    BY Responds DEF Approvals!RespondAndLeave

(* A call that goes on keeps what it holds.                                *)
LEMMA Continues ==
    ASSUME LocalsOK, NEW c \in Calls, NEW from, NEW to \in Approvals!Steps,
           Approvals!Continue(c, from, to)
    PROVE  /\ LocalsOK' /\ Others(c)
           /\ pc[c] = from /\ pc'[c] = to
           /\ target' = target /\ submission' = submission /\ rejection' = rejection
    BY DEF LocalsOK, Others, Approvals!Continue, Approvals!Goto

(* A call that will refuse holds its readings.                             *)
LEMMA Refuses ==
    ASSUME LocalsOK, NEW c \in Calls, NEW from, NEW to \in Refusing, NEW code,
           NEW auditStatus, NEW readings,
           code \in Approvals!FailureCodes, auditStatus \in {"NONE", "FAILED"},
           readings \subseteq Approvals!Reading,
           Approvals!DecideRejection(c, from, to, code, auditStatus, readings)
    PROVE  /\ LocalsOK' /\ Others(c)
           /\ pc[c] = from /\ pc'[c] = to
           /\ target' = target /\ submission' = submission
           /\ rejection'[c].readings = readings
<1>1. [code |-> code, auditStatus |-> auditStatus, readings |-> readings]
            \in Approvals!Rejection
    BY DEF Approvals!Rejection
<1> QED
    BY <1>1 DEF LocalsOK, Others, Approvals!DecideRejection, Approvals!Goto, Approvals!Steps,
                Approvals!WithinGate, Refusing

(* A call that was charged holds its submission.                           *)
LEMMA Charged ==
    ASSUME LocalsOK, NEW c \in Calls, NEW s \in Submission, Approvals!KeepSubmission(c, s)
    PROVE  /\ LocalsOK' /\ Others(c)
           /\ pc[c] = "submit" /\ pc'[c] = "finalize"
           /\ target' = target /\ submission'[c] = {s} /\ rejection' = rejection
    BY DEF LocalsOK, Others, Approvals!KeepSubmission, Approvals!Goto, Approvals!Steps,
           Approvals!WithinGate

-----------------------------------------------------------------------------
(* A step of a call: the kinds there are.                                  *)

PairOf(c) == requests[target[c]].pair

\* The call has nothing of the HCM's to store, and moves on or ends.
MovesOn(c) ==
    /\ HcmSame /\ HoldsNothing(c)
    /\ UNCHANGED projections
    /\ requests' = requests \/ StoredEdition(c) = {}

\* It holds on to its submission, as its request is decided already.
LosesRace(c) ==
    /\ HcmSame /\ UNCHANGED <<requests, projections>>
    /\ pc[c] = "finalize" /\ pc'[c] = "noop"
    /\ target' = target /\ submission' = submission /\ rejection' = rejection

\* The HCM charges its request.
IsDeducted(c) ==
    LET s == Accepted(target[c], PairOf(c), requests[target[c]].days) IN
    /\ SubmitAccepted(target[c], PairOf(c), requests[target[c]].days)
    /\ UNCHANGED <<requests, projections>>
    /\ pc[c] = "submit" /\ pc'[c] = "finalize"
    /\ target' = target /\ submission'[c] = {s} /\ rejection' = rejection

\* The HCM answers that it has charged the request already.
IsReplayed(c) ==
    /\ HcmSame /\ UNCHANGED <<requests, projections>>
    /\ pc[c] = "submit" /\ pc'[c] = "finalize"
    /\ target' = target /\ rejection' = rejection
    /\ \E s \in Processed(target[c]) : s.pair = PairOf(c) /\ submission'[c] = {s}

\* It will refuse its request, over the balance it has just read.
WillRefuse(c) ==
    /\ HcmSame /\ UNCHANGED <<requests, projections>>
    /\ pc[c] \notin Refusing /\ pc'[c] \in Refusing
    /\ target' = target /\ submission'[c] = {}
    /\ PairOf(c) \in seeded
    /\ rejection'[c].readings = {[availableDays |-> balances[PairOf(c)], lastSyncedAt |-> now]}

\* It dates the balance it has read before.
Dates(c) ==
    /\ HcmSame /\ UNCHANGED <<requests, projections>>
    /\ pc[c] = "stampBalance" /\ pc'[c] = "persist"
    /\ target' = target /\ submission'[c] = {}
    /\ rejection'[c].readings =
          {[reading EXCEPT !.lastSyncedAt = now] : reading \in rejection[c].readings}

\* It stores an answer of the HCM with the decision.
Stores(c, reading) ==
    /\ HcmSame /\ HoldsNothing(c)
    /\ requests' # requests
    /\ projections' = [projections EXCEPT ![PairOf(c)] = Synced(@, reading)]

StoresDeduction(c) ==
    /\ pc[c] = "finalize"
    /\ \E s \in submission[c] :
          Stores(c, [availableDays |-> s.remaining, lastSyncedAt |-> s.processedAt])

StoresRefusal(c) ==
    /\ pc[c] = "persist"
    /\ \E reading \in rejection[c].readings : Stores(c, reading)

CallMoves(c) ==
    \/ MovesOn(c)
    \/ LosesRace(c)
    \/ IsDeducted(c)
    \/ IsReplayed(c)
    \/ WillRefuse(c)
    \/ Dates(c)
    \/ StoresDeduction(c)
    \/ StoresRefusal(c)

\* What every kind of step leaves in order.
CallKeeps(c) ==
    /\ now' \in Nat /\ now <= now'
    /\ HcmTypeOK'
    /\ RequestsOK'
    /\ \A r \in Requests : requests'[r].pair = requests[r].pair
    /\ LocalsOK'
    /\ Others(c)

(* An HCM that is unavailable changes no more than its queue of failures.  *)
LEMMA Unavailable ==
    ASSUME HcmTypeOK, NEW op \in Operations, Approvals!ConsumeTransientFailure(op)
    PROVE  HcmTypeOK' /\ HcmSame
<1>1. ConsumeTransientFailure(op)
    BY DEF Approvals!ConsumeTransientFailure, ConsumeTransientFailure, Approvals!FailureQueued,
           FailureQueued
<1> QED
    BY <1>1, FailureTyping DEF ConsumeTransientFailure, HcmSame

(* A step that leaves the HCM alone.                                       *)
LEMMA HcmUntouched ==
    ASSUME HcmTypeOK, UNCHANGED hcmVars
    PROVE  HcmTypeOK' /\ HcmSame
    BY HcmUnchangedTyping DEF hcmVars, HcmSame

(* Request, audit and row close at once (finalizeApprovalOutcome).         *)
LEMMA Finalizes ==
    ASSUME RequestsOK, NEW r \in Requests, NEW status \in {"APPROVED", "REJECTED"},
           NEW txn \in Nat, NEW code \in FailureCodes, NEW audit, NEW readings,
           Approvals!FinalizeApprovalOutcome(r, status, txn, code, audit, readings)
    PROVE  /\ RequestsOK'
           /\ \A q \in Requests : requests'[q].pair = requests[q].pair
           /\ requests' # requests
           /\ \/ readings = {} /\ UNCHANGED projections
              \/ \E reading \in readings :
                    projections' = [projections EXCEPT ![requests[r].pair] = Synced(@, reading)]
<1>1. requests[r] \in Request /\ requests[r].status = "PENDING"
    BY DEF RequestsOK, Approvals!FinalizeApprovalOutcome
<1>2. requests' = [requests EXCEPT ![r].status = status, ![r].hcmTransactionId = txn,
                                   ![r].failureCode = code]
    BY DEF Approvals!FinalizeApprovalOutcome
<1>3. RequestsOK' /\ \A q \in Requests : requests'[q].pair = requests[q].pair
    BY <1>1, <1>2 DEF RequestsOK, Request, RequestStatus
<1>4. requests'[r].status = status
    BY <1>1, <1>2 DEF RequestsOK, Request
<1>5. ASSUME NEW row, NEW reading
      PROVE  Approvals!Synced(row, reading) = Synced(row, reading)
    BY DEF Approvals!Synced, Synced, Approvals!Row, Row, Approvals!VersionOf, VersionOf
<1>6. \/ readings = {} /\ UNCHANGED projections
      \/ \E reading \in readings :
            projections' = [projections EXCEPT ![requests[r].pair] = Synced(@, reading)]
    BY <1>5 DEF Approvals!FinalizeApprovalOutcome
<1> QED
    BY <1>1, <1>3, <1>4, <1>6

(* Before it stores something a call holds nothing.                        *)
LEMMA HeldLate ==
    ASSUME CallsOK, NEW c \in Calls
    PROVE  /\ pc[c] \notin {"finalize", "noop"} => submission[c] = {}
           /\ pc[c] \notin Refusing => rejection[c].readings = {}
    BY DEF CallsOK, LocalsOK, CallHolds, Approvals!Rejection

(* Most steps take no time.                                                *)
LEMMA TimeStays ==
    ASSUME Inv, UNCHANGED now
    PROVE  now' \in Nat /\ now <= now'
    BY DEF Inv, HcmOK

(* The pair and the days a call asks about.                                *)
LEMMA Asks ==
    ASSUME Inv, NEW c \in Calls
    PROVE  /\ target[c] \in Requests /\ PairOf(c) \in Pairs
           /\ requests[target[c]].days \in Nat
    BY DEF Inv, RequestsOK, CallsOK, LocalsOK, PairOf, Request

(* Approving begins.                                                       *)
LEMMA Begins ==
    ASSUME Inv, NEW c \in Calls, NEW r \in Requests,
           Approvals!ApproveRequest(c, r) \/ Approvals!RejectRequest(c, r)
    PROVE  CallKeeps(c) /\ MovesOn(c)
<1>1. /\ UNCHANGED now /\ UNCHANGED hcmVars /\ UNCHANGED requests /\ UNCHANGED projections
      /\ UNCHANGED submission /\ UNCHANGED rejection
      /\ target' = [target EXCEPT ![c] = r]
      /\ pc[c] = "idle" /\ pc' \in {[pc EXCEPT ![c] = to] : to \in {"queued", "updateStatus", "idle"}}
    BY DEF Approvals!ApproveRequest, Approvals!RejectRequest, Approvals!Goto,
           Approvals!storeVars, Approvals!hcmVars, hcmVars
<1>2. LocalsOK' /\ Others(c)
    BY <1>1 DEF Inv, CallsOK, LocalsOK, Others, Approvals!Steps
<1>3. HcmTypeOK' /\ HcmSame
    BY <1>1, HcmUntouched DEF Inv, HcmOK
<1>4. HoldsNothing(c)
    BY <1>1, HeldLate DEF Refusing, Inv, HoldsNothing
<1> QED
    BY <1>1, <1>2, <1>3, <1>4, TimeStays DEF CallKeeps, MovesOn, Inv, RequestsOK

(* A manager's rejection changes one request, and no pair (updateStatus).  *)
LEMMA StatusStored ==
    ASSUME Inv, NEW c \in Calls, Approvals!UpdateStatus(target[c], "REJECTED")
    PROVE  /\ RequestsOK' /\ UNCHANGED projections
           /\ \A q \in Requests : requests'[q].pair = requests[q].pair
    BY Asks DEF Approvals!UpdateStatus, Inv, RequestsOK, Request, RequestStatus, FailureCodes

(* A statement that fails ends the call.                                   *)
LEMMA Fails ==
    ASSUME Inv, NEW c \in Calls, Approvals!PersistenceFails(c)
    PROVE  CallKeeps(c) /\ MovesOn(c)
<1>1. UNCHANGED now /\ UNCHANGED hcmVars
    BY DEF Approvals!PersistenceFails, Approvals!hcmVars, hcmVars
<1>2. LocalsOK' /\ Others(c) /\ HoldsNothing(c)
    BY Responds, Leaves DEF Approvals!PersistenceFails, Inv, CallsOK
<1>3. HcmTypeOK' /\ HcmSame
    BY <1>1, HcmUntouched DEF Inv, HcmOK
<1>4. CASE UNCHANGED Approvals!storeVars
    BY <1>1, <1>2, <1>3, <1>4, TimeStays
    DEF CallKeeps, MovesOn, Inv, RequestsOK, Approvals!storeVars
<1>5. CASE /\ Approvals!Respond(c, "updateStatus", "PERSISTENCE_ERROR")
           /\ Approvals!UpdateStatus(target[c], "REJECTED")
    <2>1. StoredEdition(c) = {}
        BY <1>5, Responds DEF StoredEdition, Inv, CallsOK
    <2> QED
        BY <1>1, <1>2, <1>3, <1>5, <2>1, StatusStored, TimeStays DEF CallKeeps, MovesOn
<1> QED
    BY <1>4, <1>5 DEF Approvals!PersistenceFails

(* A step inside the service between reads and writes that store no answer *)
(* of the HCM (reload, audits, no-op).                                     *)
LEMMA Proceeds ==
    ASSUME Inv, NEW c \in Calls,
           \/ Approvals!EnterGate(c) \/ Approvals!ReloadRequest(c) \/ Approvals!FindAudit(c)
           \/ Approvals!CreateAudit(c) \/ Approvals!RereadRacedAudit(c) \/ Approvals!ResolveNoop(c)
    PROVE  CallKeeps(c) /\ MovesOn(c)
<1>1. UNCHANGED now /\ UNCHANGED hcmVars /\ UNCHANGED requests /\ UNCHANGED projections
    BY DEF Approvals!EnterGate, Approvals!ReloadRequest, Approvals!FindAudit,
           Approvals!CreateAudit, Approvals!RereadRacedAudit, Approvals!ResolveNoop,
           Approvals!CreateAttempt, Approvals!storeVars, Approvals!hcmVars, hcmVars
<1>2. \/ \E from, answer : Approvals!RespondAndLeave(c, from, answer)
      \/ \E from \in {"queued", "reload", "findAudit", "createAudit", "rereadAudit"},
            to \in {"reload", "check", "createAudit", "submit", "rereadAudit"} :
            Approvals!Continue(c, from, to)
    BY DEF Approvals!EnterGate, Approvals!ReloadRequest, Approvals!FindAudit,
           Approvals!CreateAudit, Approvals!RereadRacedAudit, Approvals!ResolveNoop
<1>3. LocalsOK' /\ Others(c) /\ HoldsNothing(c)
    <2>1. CASE \E from, answer : Approvals!RespondAndLeave(c, from, answer)
        BY <2>1, Leaves DEF Inv, CallsOK
    <2>2. CASE \E from \in {"queued", "reload", "findAudit", "createAudit", "rereadAudit"},
                  to \in {"reload", "check", "createAudit", "submit", "rereadAudit"} :
                  Approvals!Continue(c, from, to)
        <3>1. PICK from \in {"queued", "reload", "findAudit", "createAudit", "rereadAudit"},
                   to \in {"reload", "check", "createAudit", "submit", "rereadAudit"} :
                   Approvals!Continue(c, from, to)
            BY <2>2
        <3>2. to \in Approvals!Steps
            BY DEF Approvals!Steps, Approvals!WithinGate
        <3>3. /\ LocalsOK' /\ Others(c) /\ pc[c] = from
              /\ submission' = submission /\ rejection' = rejection
            BY <3>1, <3>2, Continues DEF Inv, CallsOK
        <3> QED
            BY <3>3, HeldLate DEF Refusing, Inv, HoldsNothing
    <2> QED
        BY <1>2, <2>1, <2>2
<1>4. HcmTypeOK' /\ HcmSame
    BY <1>1, HcmUntouched DEF Inv, HcmOK
<1> QED
    BY <1>1, <1>3, <1>4, TimeStays DEF CallKeeps, MovesOn, Inv, RequestsOK

(* The reading a call makes of the HCM's balance.                          *)
LEMMA ReadingTyping ==
    ASSUME Inv, NEW k \in Pairs
    PROVE  [availableDays |-> balances[k], lastSyncedAt |-> now] \in Approvals!Reading
    BY DEF Inv, HcmOK, HcmTypeOK, Approvals!Reading

(* The first look at the balance (checkBalance).                           *)
LEMMA Checks ==
    ASSUME Inv, NEW c \in Calls, Approvals!CheckBalance(c)
    PROVE  CallKeeps(c) /\ (MovesOn(c) \/ WillRefuse(c))
<1> DEFINE k == PairOf(c)
           reading == [availableDays |-> balances[k], lastSyncedAt |-> now]
<1>1. UNCHANGED now /\ UNCHANGED requests /\ UNCHANGED projections
    BY DEF Approvals!CheckBalance, Approvals!storeVars
<1>2. /\ LocalsOK /\ "GET_BALANCE" \in Operations /\ HcmTypeOK
      /\ "persist" \in Refusing /\ "stampBalance" \in Refusing
    BY DEF Inv, CallsOK, HcmOK, Operations, Refusing
<1>3. \/ Approvals!GetBalanceFound(k) /\ Approvals!Continue(c, "check", "findAudit")
      \/ /\ Approvals!GetBalanceFound(k)
         /\ Approvals!DecideRejection(c, "check", "persist", "INSUFFICIENT_BALANCE", "NONE",
                                      {reading})
      \/ /\ Approvals!GetBalanceUnknown(k)
         /\ Approvals!DecideRejection(c, "check", "persist", "INVALID_EMPLOYEE_LOCATION",
                                      "NONE", {})
      \/ /\ Approvals!GetBalanceUnavailable
         /\ Approvals!RespondAndLeave(c, "check", "HCM_UNAVAILABLE")
    BY DEF Approvals!CheckBalance, Approvals!ReadNow, PairOf
<1>4. CASE Approvals!GetBalanceFound(k) /\ Approvals!Continue(c, "check", "findAudit")
    <2>1. "findAudit" \in Approvals!Steps
        BY DEF Approvals!Steps, Approvals!WithinGate
    <2>2. LocalsOK' /\ Others(c) /\ HoldsNothing(c)
        BY <1>2, <1>4, <2>1, Continues, HeldLate DEF Inv, HoldsNothing, Refusing
    <2>3. HcmTypeOK' /\ HcmSame
        BY <1>2, <1>4, HcmUntouched DEF Approvals!GetBalanceFound, Approvals!hcmVars, hcmVars
    <2> QED
        BY <1>1, <2>2, <2>3, TimeStays DEF CallKeeps, MovesOn, Inv, RequestsOK
<1>5. CASE /\ Approvals!GetBalanceFound(k)
           /\ Approvals!DecideRejection(c, "check", "persist", "INSUFFICIENT_BALANCE", "NONE",
                                        {reading})
    <2>1. {reading} \in SUBSET Approvals!Reading
        BY Asks, ReadingTyping
    <2>2. "INSUFFICIENT_BALANCE" \in Approvals!FailureCodes
        BY DEF Approvals!FailureCodes
    <2>3. /\ LocalsOK' /\ Others(c) /\ pc[c] = "check" /\ pc'[c] = "persist"
          /\ target' = target /\ submission' = submission /\ rejection'[c].readings = {reading}
        BY <1>2, <1>5, <2>1, <2>2, Refuses
    <2>4. HcmTypeOK' /\ HcmSame /\ k \in seeded
        BY <1>2, <1>5, HcmUntouched DEF Approvals!GetBalanceFound, Approvals!hcmVars, hcmVars
    <2>5. submission'[c] = {}
        BY <2>3, HeldLate DEF Inv, Refusing
    <2> QED
        BY <1>1, <2>3, <2>4, <2>5, TimeStays DEF CallKeeps, WillRefuse, Inv, RequestsOK, Refusing
<1>6. CASE /\ Approvals!GetBalanceUnknown(k)
           /\ Approvals!DecideRejection(c, "check", "persist", "INVALID_EMPLOYEE_LOCATION",
                                        "NONE", {})
    <2>1. "INVALID_EMPLOYEE_LOCATION" \in Approvals!FailureCodes
        BY DEF Approvals!FailureCodes
    <2>2. /\ LocalsOK' /\ Others(c) /\ pc[c] = "check"
          /\ submission' = submission /\ rejection'[c].readings = {}
        BY <1>2, <1>6, <2>1, Refuses
    <2>3. HcmTypeOK' /\ HcmSame
        BY <1>2, <1>6, HcmUntouched DEF Approvals!GetBalanceUnknown, Approvals!hcmVars, hcmVars
    <2>4. HoldsNothing(c)
        BY <2>2, HeldLate DEF Inv, HoldsNothing, Refusing
    <2> QED
        BY <1>1, <2>2, <2>3, <2>4, TimeStays DEF CallKeeps, MovesOn, Inv, RequestsOK
<1>7. CASE /\ Approvals!GetBalanceUnavailable
           /\ Approvals!RespondAndLeave(c, "check", "HCM_UNAVAILABLE")
    <2>1. LocalsOK' /\ Others(c) /\ HoldsNothing(c)
        BY <1>2, <1>7, Leaves
    <2>2. HcmTypeOK' /\ HcmSame
        BY <1>2, <1>7, Unavailable DEF Approvals!GetBalanceUnavailable
    <2> QED
        BY <1>1, <2>1, <2>2, TimeStays DEF CallKeeps, MovesOn, Inv, RequestsOK
<1> QED
    BY <1>3, <1>4, <1>5, <1>6, <1>7

(* The look after a deduction was refused (tryLoadLatestBalanceProjection). *)
LEMMA Rereads ==
    ASSUME Inv, NEW c \in Calls, Approvals!ReadLatestBalance(c)
    PROVE  CallKeeps(c) /\ (MovesOn(c) \/ WillRefuse(c))
<1> DEFINE k == PairOf(c)
           reading == [availableDays |-> balances[k], lastSyncedAt |-> now]
           Decide(to, readings) ==
              Approvals!DecideRejection(c, "readBalance", to, "INSUFFICIENT_BALANCE", "FAILED",
                                        readings)
<1>1. UNCHANGED now /\ UNCHANGED requests /\ UNCHANGED projections
    BY DEF Approvals!ReadLatestBalance, Approvals!storeVars
<1>2. /\ LocalsOK /\ "GET_BALANCE" \in Operations /\ HcmTypeOK
      /\ "persist" \in Refusing /\ "stampBalance" \in Refusing
    BY DEF Inv, CallsOK, HcmOK, Operations, Refusing
<1>3. \/ Approvals!GetBalanceFound(k) /\ Decide("stampBalance", {reading})
      \/ (Approvals!GetBalanceUnknown(k) \/ Approvals!GetBalanceUnavailable) /\ Decide("persist", {})
    BY DEF Approvals!ReadLatestBalance, Approvals!ReadNow, PairOf
<1>4. "INSUFFICIENT_BALANCE" \in Approvals!FailureCodes
    BY DEF Approvals!FailureCodes
<1>5. CASE Approvals!GetBalanceFound(k) /\ Decide("stampBalance", {reading})
    <2>1. {reading} \in SUBSET Approvals!Reading
        BY Asks, ReadingTyping
    <2>2. /\ LocalsOK' /\ Others(c) /\ pc[c] = "readBalance" /\ pc'[c] = "stampBalance"
          /\ target' = target /\ submission' = submission /\ rejection'[c].readings = {reading}
        BY <1>2, <1>4, <1>5, <2>1, Refuses
    <2>3. HcmTypeOK' /\ HcmSame /\ k \in seeded
        BY <1>2, <1>5, HcmUntouched DEF Approvals!GetBalanceFound, Approvals!hcmVars, hcmVars
    <2>4. submission'[c] = {}
        BY <2>2, HeldLate DEF Inv, Refusing
    <2> QED
        BY <1>1, <2>2, <2>3, <2>4, TimeStays DEF CallKeeps, WillRefuse, Inv, RequestsOK, Refusing
<1>6. CASE /\ Approvals!GetBalanceUnknown(k) \/ Approvals!GetBalanceUnavailable
           /\ Decide("persist", {})
    <2>1. /\ LocalsOK' /\ Others(c) /\ pc[c] = "readBalance"
          /\ submission' = submission /\ rejection'[c].readings = {}
        BY <1>2, <1>4, <1>6, Refuses
    <2>2. HcmTypeOK' /\ HcmSame
        BY <1>2, <1>6, HcmUntouched, Unavailable
        DEF Approvals!GetBalanceUnknown, Approvals!GetBalanceUnavailable, Approvals!hcmVars, hcmVars
    <2>3. HoldsNothing(c)
        BY <2>1, HeldLate DEF Inv, HoldsNothing, Refusing
    <2> QED
        BY <1>1, <2>1, <2>2, <2>3, TimeStays DEF CallKeeps, MovesOn, Inv, RequestsOK
<1> QED
    BY <1>3, <1>5, <1>6

(* The submission to the HCM (submitTimeOff).                              *)
LEMMA Submits ==
    ASSUME Inv, NEW c \in Calls, Approvals!SubmitTimeOff(c)
    PROVE  CallKeeps(c) /\ (MovesOn(c) \/ IsDeducted(c) \/ IsReplayed(c))
<1> DEFINE r == target[c]
           k == PairOf(c)
           d == requests[r].days
           new == Accepted(r, k, d)
<1>1. UNCHANGED requests /\ UNCHANGED projections
    BY DEF Approvals!SubmitTimeOff, Approvals!storeVars
<1>2. /\ LocalsOK /\ "SUBMIT_TIME_OFF" \in Operations /\ HcmTypeOK /\ now \in Nat
      /\ "persist" \in Refusing
    BY DEF Inv, CallsOK, HcmOK, Operations, Refusing
<1>3. r \in Requests /\ k \in Pairs /\ d \in Nat
    BY Asks
<1>4. \/ /\ Approvals!SubmitAccepted(r, k, d)
         /\ Approvals!KeepSubmission(c, Approvals!Accepted(r, k, d))
      \/ /\ UNCHANGED now
         /\ \/ \E s \in processedRequests :
                 Approvals!SubmitReplayed(s, r, k, d) /\ Approvals!KeepSubmission(c, s)
            \/ /\ Approvals!SubmitInsufficient(r, k, d)
               /\ Approvals!Continue(c, "submit", "readBalance")
            \/ /\ Approvals!SubmitUnknown(r, k)
               /\ Approvals!DecideRejection(c, "submit", "persist",
                      "INVALID_EMPLOYEE_LOCATION", "FAILED", {})
            \/ /\ Approvals!SubmitUnavailable(r) \/ Approvals!SubmitConflict(r, k, d)
               /\ Approvals!RespondAndLeave(c, "submit", "HCM_UNAVAILABLE")
    BY DEF Approvals!SubmitTimeOff, PairOf
<1>5. ASSUME UNCHANGED now, NEW s \in processedRequests, Approvals!SubmitReplayed(s, r, k, d),
             Approvals!KeepSubmission(c, s)
      PROVE  CallKeeps(c) /\ IsReplayed(c)
    <2>1. s \in Submission
        BY <1>2 DEF HcmTypeOK
    <2>2. /\ LocalsOK' /\ Others(c) /\ pc[c] = "submit" /\ pc'[c] = "finalize"
          /\ target' = target /\ submission'[c] = {s} /\ rejection' = rejection
        BY <1>2, <1>5, <2>1, Charged
    <2>3. HcmTypeOK' /\ HcmSame
        BY <1>2, <1>5, HcmUntouched DEF Approvals!SubmitReplayed, Approvals!hcmVars, hcmVars
    <2>4. s \in Processed(r) /\ s.pair = k
        BY <1>5 DEF Approvals!SubmitReplayed, Approvals!Processed, Processed,
                    Approvals!SameFingerprint
    <2> QED
        BY <1>1, <1>5, <2>2, <2>3, <2>4, TimeStays DEF CallKeeps, IsReplayed, Inv, RequestsOK
<1>6. ASSUME Approvals!SubmitAccepted(r, k, d),
             Approvals!KeepSubmission(c, Approvals!Accepted(r, k, d))
      PROVE  CallKeeps(c) /\ IsDeducted(c)
    <2>1. Approvals!Accepted(r, k, d) = new
        BY DEF Approvals!Accepted, Accepted
    <2>2. SubmitAccepted(r, k, d)
        BY <1>6, <2>1 DEF Approvals!SubmitAccepted, SubmitAccepted, Approvals!NewSubmission,
           NewSubmission, Approvals!Processed, Processed, Approvals!FailureQueued, FailureQueued,
           Approvals!AdvanceBatchVersion, AdvanceBatchVersion, Approvals!MayTick, MayTick,
           Approvals!Tick, Tick
    <2>3. new \in Submission /\ HcmTypeOK'
        BY <1>2, <1>3, <2>2, AcceptedTyping
    <2>5. now' \in Nat /\ now <= now'
        BY <1>2, <2>2, ClockMovesOn DEF SubmitAccepted
    <2>4. /\ LocalsOK' /\ Others(c) /\ pc[c] = "submit" /\ pc'[c] = "finalize"
          /\ target' = target /\ submission'[c] = {new} /\ rejection' = rejection
        BY <1>2, <1>6, <2>1, <2>3, Charged
    <2> QED
        BY <1>1, <2>2, <2>3, <2>4, <2>5 DEF CallKeeps, IsDeducted, Inv, RequestsOK
<1>7. ASSUME UNCHANGED now, Approvals!SubmitInsufficient(r, k, d),
             Approvals!Continue(c, "submit", "readBalance")
      PROVE  CallKeeps(c) /\ MovesOn(c)
    <2>1. "readBalance" \in Approvals!Steps
        BY DEF Approvals!Steps, Approvals!WithinGate
    <2>2. LocalsOK' /\ Others(c) /\ HoldsNothing(c)
        BY <1>2, <1>7, <2>1, Continues, HeldLate DEF Refusing, Inv, HoldsNothing
    <2>3. HcmTypeOK' /\ HcmSame
        BY <1>2, <1>7, HcmUntouched DEF Approvals!SubmitInsufficient, Approvals!hcmVars, hcmVars
    <2> QED
        BY <1>1, <1>7, <2>2, <2>3, TimeStays DEF CallKeeps, MovesOn, Inv, RequestsOK
<1>8. ASSUME UNCHANGED now, Approvals!SubmitUnknown(r, k),
             Approvals!DecideRejection(c, "submit", "persist",
                "INVALID_EMPLOYEE_LOCATION", "FAILED", {})
      PROVE  CallKeeps(c) /\ MovesOn(c)
    <2>1. "INVALID_EMPLOYEE_LOCATION" \in Approvals!FailureCodes
        BY DEF Approvals!FailureCodes
    <2>2. /\ LocalsOK' /\ Others(c) /\ pc[c] = "submit"
          /\ submission' = submission /\ rejection'[c].readings = {}
        BY <1>2, <1>8, <2>1, Refuses
    <2>3. HcmTypeOK' /\ HcmSame
        BY <1>2, <1>8, HcmUntouched DEF Approvals!SubmitUnknown, Approvals!hcmVars, hcmVars
    <2>4. HoldsNothing(c)
        BY <2>2, HeldLate DEF Refusing, Inv, HoldsNothing
    <2> QED
        BY <1>1, <1>8, <2>2, <2>3, <2>4, TimeStays DEF CallKeeps, MovesOn, Inv, RequestsOK
<1>9. ASSUME UNCHANGED now,
             Approvals!SubmitUnavailable(r) \/ Approvals!SubmitConflict(r, k, d),
             Approvals!RespondAndLeave(c, "submit", "HCM_UNAVAILABLE")
      PROVE  CallKeeps(c) /\ MovesOn(c)
    <2>1. LocalsOK' /\ Others(c) /\ HoldsNothing(c)
        BY <1>2, <1>9, Leaves
    <2>2. HcmTypeOK' /\ HcmSame
        BY <1>2, <1>9, Unavailable, HcmUntouched
        DEF Approvals!SubmitUnavailable, Approvals!SubmitConflict, Approvals!hcmVars, hcmVars
    <2> QED
        BY <1>1, <1>9, <2>1, <2>2, TimeStays DEF CallKeeps, MovesOn, Inv, RequestsOK
<1> QED
    BY <1>4, <1>5, <1>6, <1>7, <1>8, <1>9

(* The balance read for a refusal is dated (tryLoadLatestBalanceProjection). *)
LEMMA Stamps ==
    ASSUME Inv, NEW c \in Calls, Approvals!StampBalance(c)
    PROVE  CallKeeps(c) /\ Dates(c)
<1> DEFINE failure == rejection[c]
           readings == {[reading EXCEPT !.lastSyncedAt = now] : reading \in failure.readings}
<1>1. /\ Approvals!DecideRejection(c, "stampBalance", "persist", failure.code,
                                   failure.auditStatus, readings)
      /\ UNCHANGED now /\ UNCHANGED hcmVars /\ UNCHANGED requests /\ UNCHANGED projections
    BY DEF Approvals!StampBalance, Approvals!storeVars, Approvals!hcmVars, hcmVars
<1>2. LocalsOK /\ now \in Nat /\ "persist" \in Refusing
    BY DEF Inv, CallsOK, HcmOK, Refusing
<1>3. /\ failure.code \in Approvals!FailureCodes /\ failure.auditStatus \in {"NONE", "FAILED"}
      /\ failure.readings \subseteq Approvals!Reading
    BY <1>2 DEF LocalsOK, Approvals!Rejection
<1>4. readings \subseteq Approvals!Reading
    BY <1>2, <1>3 DEF Approvals!Reading
<1> HIDE DEF readings
<1>5. /\ LocalsOK' /\ Others(c) /\ pc[c] = "stampBalance" /\ pc'[c] = "persist"
      /\ target' = target /\ submission' = submission /\ rejection'[c].readings = readings
    BY <1>1, <1>2, <1>3, <1>4, Refuses
<1>6. submission'[c] = {}
    BY <1>5, HeldLate DEF Inv
<1>7. HcmTypeOK' /\ HcmSame
    BY <1>1, HcmUntouched DEF Inv, HcmOK
<1> QED
    BY <1>1, <1>5, <1>6, <1>7, TimeStays DEF CallKeeps, Dates, Inv, RequestsOK, readings

(* The decision is stored (finalizeApprovalOutcome).                       *)
LEMMA Approves ==
    ASSUME Inv, NEW c \in Calls, Approvals!FinalizeApproval(c)
    PROVE  CallKeeps(c) /\ (StoresDeduction(c) \/ LosesRace(c))
<1>1. UNCHANGED now /\ UNCHANGED hcmVars
    BY DEF Approvals!FinalizeApproval, Approvals!hcmVars, hcmVars
<1>2. HcmTypeOK' /\ HcmSame
    BY <1>1, HcmUntouched DEF Inv, HcmOK
<1>3. LocalsOK /\ RequestsOK
    BY DEF Inv, CallsOK
<1>4. ASSUME NEW s \in submission[c],
             Approvals!FinalizeApprovalOutcome(target[c], "APPROVED", s.txn, "NONE", "COMPLETED",
                {[availableDays |-> s.remaining, lastSyncedAt |-> s.processedAt]}),
             Approvals!RespondAndLeave(c, "finalize", "APPROVED")
      PROVE  CallKeeps(c) /\ StoresDeduction(c)
    <2>1. s.txn \in Nat /\ "NONE" \in FailureCodes
        BY <1>3 DEF LocalsOK, Submission, FailureCodes
    <2>2. /\ RequestsOK' /\ requests' # requests
          /\ \A q \in Requests : requests'[q].pair = requests[q].pair
          /\ projections' = [projections EXCEPT ![PairOf(c)] =
                Synced(@, [availableDays |-> s.remaining, lastSyncedAt |-> s.processedAt])]
        BY <1>3, <1>4, <2>1, Asks, Finalizes DEF PairOf
    <2>3. LocalsOK' /\ Others(c) /\ HoldsNothing(c) /\ pc[c] = "finalize"
        BY <1>3, <1>4, Leaves
    <2> QED
        BY <1>1, <1>2, <2>2, <2>3, TimeStays DEF CallKeeps, StoresDeduction, Stores
<1>5. ASSUME Approvals!Continue(c, "finalize", "noop"), UNCHANGED Approvals!storeVars
      PROVE  CallKeeps(c) /\ LosesRace(c)
    <2>1. "noop" \in Approvals!Steps
        BY DEF Approvals!Steps, Approvals!WithinGate
    <2> QED
        BY <1>1, <1>2, <1>3, <1>5, <2>1, Continues, TimeStays
        DEF CallKeeps, LosesRace, RequestsOK, Approvals!storeVars
<1> QED
    BY <1>4, <1>5 DEF Approvals!FinalizeApproval

(* The refusal is stored (persistRejectedApproval).                        *)
LEMMA Persists ==
    ASSUME Inv, NEW c \in Calls, Approvals!PersistRejection(c)
    PROVE  CallKeeps(c) /\ (StoresRefusal(c) \/ MovesOn(c))
<1>1. UNCHANGED now /\ UNCHANGED hcmVars
    BY DEF Approvals!PersistRejection, Approvals!hcmVars, hcmVars
<1>2. HcmTypeOK' /\ HcmSame
    BY <1>1, HcmUntouched DEF Inv, HcmOK
<1>3. LocalsOK /\ RequestsOK
    BY DEF Inv, CallsOK
<1>4. /\ LocalsOK' /\ Others(c) /\ HoldsNothing(c) /\ pc[c] = "persist"
      /\ \/ Approvals!FinalizeApprovalOutcome(target[c], "REJECTED", 0, rejection[c].code,
               rejection[c].auditStatus, rejection[c].readings)
         \/ UNCHANGED Approvals!storeVars
    BY <1>3, Leaves DEF Approvals!PersistRejection
<1>5. CASE Approvals!FinalizeApprovalOutcome(target[c], "REJECTED", 0, rejection[c].code,
               rejection[c].auditStatus, rejection[c].readings)
    <2>1. rejection[c].code \in FailureCodes
        BY <1>3 DEF LocalsOK, Approvals!Rejection, Approvals!FailureCodes, FailureCodes
    <2>2. /\ RequestsOK' /\ requests' # requests
          /\ \A q \in Requests : requests'[q].pair = requests[q].pair
          /\ \/ rejection[c].readings = {} /\ UNCHANGED projections
             \/ \E reading \in rejection[c].readings :
                   projections' = [projections EXCEPT ![PairOf(c)] = Synced(@, reading)]
        BY <1>3, <1>5, <2>1, Asks, Finalizes DEF PairOf
    <2>3. CASE rejection[c].readings = {} /\ UNCHANGED projections
        <3>1. StoredEdition(c) = {}
            BY <1>4, <2>3 DEF StoredEdition
        <3> QED
            BY <1>1, <1>2, <1>4, <2>2, <2>3, <3>1, TimeStays DEF CallKeeps, MovesOn
    <2>4. CASE \E reading \in rejection[c].readings :
                   projections' = [projections EXCEPT ![PairOf(c)] = Synced(@, reading)]
        BY <1>1, <1>2, <1>4, <2>2, <2>4, TimeStays DEF CallKeeps, StoresRefusal, Stores
    <2> QED
        BY <2>2, <2>3, <2>4
<1>6. CASE UNCHANGED Approvals!storeVars
    BY <1>1, <1>2, <1>3, <1>4, <1>6, TimeStays
    DEF CallKeeps, MovesOn, RequestsOK, Approvals!storeVars
<1> QED
    BY <1>4, <1>5, <1>6

(* A manager's rejection (updateStatus).                                   *)
LEMMA Rejects ==
    ASSUME Inv, NEW c \in Calls, Approvals!UpdateToRejected(c)
    PROVE  CallKeeps(c) /\ MovesOn(c)
<1>1. UNCHANGED now /\ UNCHANGED hcmVars
    BY DEF Approvals!UpdateToRejected, Approvals!hcmVars, hcmVars
<1>2. HcmTypeOK' /\ HcmSame
    BY <1>1, HcmUntouched DEF Inv, HcmOK
<1>3. LocalsOK' /\ Others(c) /\ HoldsNothing(c) /\ pc[c] = "updateStatus"
    BY Responds DEF Inv, CallsOK, Approvals!UpdateToRejected
<1>4. StoredEdition(c) = {}
    BY <1>3 DEF StoredEdition
<1>5. /\ RequestsOK' /\ UNCHANGED projections
      /\ \A q \in Requests : requests'[q].pair = requests[q].pair
    BY StatusStored DEF Approvals!UpdateToRejected, Approvals!storeVars, Inv, RequestsOK
<1> QED
    BY <1>1, <1>2, <1>3, <1>4, <1>5, TimeStays DEF CallKeeps, MovesOn

(* Every step of a call is of one of the kinds.                            *)
LEMMA CallStep ==
    ASSUME Inv, NEW c \in Calls, Approve(c)
    PROVE  CallKeeps(c) /\ CallMoves(c)
<1>1. \/ \E r \in Requests : Approvals!ApproveRequest(c, r) \/ Approvals!RejectRequest(c, r)
      \/ Approvals!Serve(c)
      \/ Approvals!PersistenceFails(c)
    BY DEF Approve
<1>2. CASE Approvals!Serve(c)
    BY <1>2, Proceeds, Checks, Rereads, Submits, Stamps, Approves, Persists, Rejects
    DEF Approvals!Serve, CallMoves
<1> QED
    BY <1>1, <1>2, Begins, Fails DEF CallMoves

-----------------------------------------------------------------------------
(* What a step leaves alone stays in order.                                *)

(* Rows nobody writes.                                                     *)
LEMMA RowsStay ==
    ASSUME RowsOK, Extends(published, published'), UNCHANGED projections,
           DOMAIN asOf' = Pairs, \A k \in Pairs : asOf'[k] = asOf[k]
    PROVE  RowsOK'
    BY ShownStays DEF RowsOK, RowShown

(* A row that is written with an answer about a published state.           *)
LEMMA RowWritten ==
    ASSUME StatesOK, NEW k, NEW e, NEW reading, NEW version \in Versions,
           reading.lastSyncedAt \in Nat,
           ShownIn(published, k, e, reading.availableDays, reading.lastSyncedAt)
    PROVE  RowShown(Row(reading, version), k, e, published)
<1>1. reading.availableDays \in Nat
    BY DEF ShownIn, StatesOK
<1> QED
    BY <1>1 DEF Row, RowShown, Rows

(* The version a row carries, and the state it shows, if there is one.     *)
LEMMA RowCarries ==
    ASSUME Inv, NEW k \in Pairs
    PROVE  VersionOf(projections[k]) \in Versions /\ asOf[k] \in Nat
<1>1. RowShown(projections[k], k, asOf[k], published) /\ StatesOK /\ batchSequence \in Nat
    BY DEF Inv, RowsOK, HcmOK, HcmTypeOK
<1>2. CASE projections[k] = NoProjection /\ asOf[k] = 0
    BY <1>2 DEF VersionOf, Versions
<1>3. CASE /\ projections[k] \in Rows
           /\ ShownIn(published, k, asOf[k], projections[k].availableDays,
                      projections[k].lastSyncedAt)
    BY <1>1, <1>3 DEF ShownIn, StatesOK, VersionOf, Rows, Versions
<1> QED
    BY <1>1, <1>2, <1>3 DEF RowShown

(* A record the HCM does not extend.                                       *)
LEMMA RecordStays ==
    ASSUME RecordShown, Extends(published, published'), UNCHANGED <<processedRequests, deductedAt>>
    PROVE  RecordShown'
    BY ShownStays DEF RecordShown

(* What a call holds that takes no step.                                   *)
LEMMA HoldingStays ==
    ASSUME NEW c \in Calls, HcmOK, LocalsOK, CallHolds(c), now' \in Nat, now <= now',
           Extends(published, published'), processedRequests \subseteq processedRequests',
           \A r \in Requests : requests'[r].pair = requests[r].pair,
           pc'[c] = pc[c], target'[c] = target[c], submission'[c] = submission[c],
           rejection'[c] = rejection[c], readAt'[c] = readAt[c]
    PROVE  CallHolds(c)'
<1> DEFINE k == requests[target[c]].pair
<1>1. target[c] \in Requests
    BY DEF LocalsOK
<1>2. requests'[target'[c]].pair = k
    BY <1>1
<1>3. StatesOK /\ effectiveAt \in Nat /\ now \in Nat
    BY DEF HcmOK, HcmTypeOK
<1>4. ASSUME NEW reading \in rejection[c].readings
      PROVE  ShownIn(published', k, readAt[c], reading.availableDays,
                     IF pc[c] = "stampBalance" THEN now' ELSE reading.lastSyncedAt)
    <2>1. CASE pc[c] = "stampBalance"
        <3>1. ShownIn(published, k, readAt[c], reading.availableDays, now)
            BY <2>1 DEF CallHolds
        <3>2. ShownIn(published, k, readAt[c], reading.availableDays, now')
            BY <1>3, <3>1, ShownLater
        <3> QED
            BY <2>1, <3>2, ShownStays
    <2>2. CASE pc[c] # "stampBalance"
        <3>1. ShownIn(published, k, readAt[c], reading.availableDays, reading.lastSyncedAt)
            BY <2>2 DEF CallHolds
        <3> QED
            BY <2>2, <3>1, ShownStays
    <2> QED
        BY <2>1, <2>2
<1> QED
    BY <1>1, <1>2, <1>4 DEF CallHolds

(* Batches on their way.                                                   *)
LEMMA PostsStay ==
    ASSUME PostsOK, Extends(published, published'), UNCHANGED post
    PROVE  PostsOK'
    BY DEF PostsOK, Posting, PostHolds, Extends

(* Runs on record.                                                         *)
LEMMA RunsStay ==
    ASSUME RunsOK, Extends(published, published'), UNCHANGED runs
    PROVE  RunsOK'
    BY DEF RunsOK, Extends

(* A refresh that takes no step, while time may pass.                      *)
LEMMA RefreshStays ==
    ASSUME NEW x, RefreshHolds(x, published, now), StatesOK, effectiveAt \in Nat,
           Extends(published, published'), now \in Nat, now' \in Nat, now <= now'
    PROVE  RefreshHolds(x, published', now')
<1>1. ASSUME x.stage = "stamp"
      PROVE  ShownIn(published', x.pair, x.reading.edition, x.reading.availableDays, now')
    <2>1. ShownIn(published, x.pair, x.reading.edition, x.reading.availableDays, now)
        BY <1>1 DEF RefreshHolds
    <2>2. ShownIn(published, x.pair, x.reading.edition, x.reading.availableDays, now')
        BY <2>1, ShownLater
    <2> QED
        BY <2>2, ShownStays
<1>2. ASSUME x.stage = "upsert"
      PROVE  ShownIn(published', x.pair, x.reading.edition, x.reading.availableDays,
                     x.reading.lastSyncedAt)
    BY <1>2, ShownStays DEF RefreshHolds
<1> QED
    BY <1>1, <1>2 DEF RefreshHolds

(* All of them.                                                            *)
LEMMA RefreshesStay ==
    ASSUME HcmOK, RefreshesOK, Extends(published, published'), UNCHANGED refresh,
           now' \in Nat, now <= now'
    PROVE  RefreshesOK'
<1>1. StatesOK /\ effectiveAt \in Nat /\ now \in Nat
    BY DEF HcmOK, HcmTypeOK
<1>2. \A f \in Refreshes : RefreshHolds(refresh[f], published', now')
    BY <1>1, RefreshStays DEF RefreshesOK
<1> QED
    BY <1>2 DEF RefreshesOK, Refreshing

-----------------------------------------------------------------------------
(* A step of a call keeps the invariant.                                   *)

(* The HCM publishes what a deduction makes, and nothing else.             *)
LEMMA CallPublishes ==
    ASSUME Inv, NEW c \in Calls, CallKeeps(c), CallMoves(c), Noted(c)
    PROVE  /\ Extends(published, published')
           /\ HcmOK'
           /\ HcmSame \/ IsDeducted(c)
<1>1. published' = published \cup {Reconciling!Latest'}
    BY DEF Noted
<1>2. HcmSame \/ IsDeducted(c)
    BY DEF CallMoves, MovesOn, LosesRace, IsReplayed, WillRefuse, Dates, StoresDeduction,
           StoresRefusal, Stores
<1>3. CASE HcmSame
    <2>1. published' = published /\ StatesOK'
        BY <1>1, <1>3, SameState DEF Inv, HcmOK
    <2>2. effectiveAt' = effectiveAt /\ effectiveAt \in Nat /\ now \in Nat
        BY <1>3 DEF Inv, HcmOK, HcmTypeOK, HcmSame
    <2> QED
        BY <1>3, <2>1, <2>2 DEF Inv, HcmOK, CallKeeps, Extends
<1>4. CASE IsDeducted(c)
    <2>1. AdvanceBatchVersion(now')
        BY <1>4 DEF IsDeducted, SubmitAccepted
    <2>2. effectiveAt <= now' /\ effectiveAt' = now'
        BY <2>1 DEF Inv, HcmOK, HcmTypeOK, CallKeeps, AdvanceBatchVersion
    <2>3. Extends(published, published') /\ StatesOK'
        BY <1>1, <2>1, <2>2, NextState DEF Inv, CallKeeps
    <2> QED
        BY <1>4, <2>2, <2>3 DEF HcmOK, CallKeeps
<1> QED
    BY <1>2, <1>3, <1>4

(* A deduction is recorded with the state it makes (submitTimeOff).        *)
LEMMA DeductionShown ==
    ASSUME Inv, NEW c \in Calls, CallKeeps(c), IsDeducted(c), Noted(c)
    PROVE  ShownIn(published', PairOf(c), batchSequence',
                   balances[PairOf(c)] - requests[target[c]].days, now)
<1> DEFINE s == Reconciling!Latest'
           k == PairOf(c)
<1>1. /\ k \in seeded /\ seeded' = seeded /\ batchSequence' = batchSequence + 1
      /\ balances' = [balances EXCEPT ![k] = @ - requests[target[c]].days]
    BY DEF IsDeducted, SubmitAccepted, AdvanceBatchVersion
<1>2. k \in DOMAIN balances
    BY Asks DEF Inv, HcmOK, HcmTypeOK
<1>3. published' = published \cup {s}
    BY DEF Noted
<1>4. /\ s.edition = batchSequence'
      /\ k \in DOMAIN s.balances /\ s.balances[k] = balances'[k]
    BY <1>1 DEF Reconciling!Latest, Reconciling!EditionOf, Reconciling!Snapshot
<1> HIDE DEF s
<1>5. s.balances[k] = balances[k] - requests[target[c]].days
    BY <1>1, <1>2, <1>4
<1>6. ASSUME NEW t \in published', t.edition < batchSequence'
      PROVE  t.effectiveAt <= now
    <2>1. t \in published
        BY <1>1, <1>3, <1>4, <1>6 DEF Inv, HcmOK, HcmTypeOK
    <2> QED
        BY <2>1 DEF Inv, HcmOK, HcmTypeOK, StatesOK
<1> QED
    BY <1>3, <1>4, <1>5, <1>6 DEF ShownIn

(* The record goes on showing states of the HCM.                           *)
LEMMA CallRecord ==
    ASSUME Inv, NEW c \in Calls, CallKeeps(c), CallMoves(c), Noted(c)
    PROVE  RecordShown'
<1>1. Extends(published, published') /\ (HcmSame \/ IsDeducted(c))
    BY CallPublishes
<1>2. CASE HcmSame
    <2>1. UNCHANGED <<processedRequests, deductedAt>>
        BY <1>2 DEF HcmSame, Noted
    <2> QED
        BY <1>1, <2>1, RecordStays DEF Inv
<1>3. CASE IsDeducted(c)
    <2> DEFINE r == target[c]
               new == Accepted(r, PairOf(c), requests[r].days)
    <2>1. /\ processedRequests' = processedRequests \cup {new}
          /\ Processed(r) = {}
        BY <1>3 DEF IsDeducted, SubmitAccepted, NewSubmission
    <2>2. /\ new.ext = r /\ new.pair = PairOf(c) /\ new.processedAt = now
          /\ new.remaining = balances[PairOf(c)] - requests[r].days
        BY DEF Accepted
    <2> HIDE DEF new
    <2>3. \A s \in processedRequests : s.ext \in Requests /\ s.ext # r
        BY <2>1 DEF Processed, Inv, HcmOK, HcmTypeOK, Submission
    <2>4. new \notin processedRequests /\ r \in Requests
        BY <2>2, <2>3, Asks
    <2>5. deductedAt' = [deductedAt EXCEPT ![r] = batchSequence']
        BY <2>1, <2>4 DEF Noted
    <2>6. ASSUME NEW s \in processedRequests
          PROVE  ShownIn(published', s.pair, deductedAt'[s.ext], s.remaining, s.processedAt)
        <3>1. deductedAt'[s.ext] = deductedAt[s.ext]
            BY <2>3, <2>5 DEF Inv, RecordShown
        <3>2. ShownIn(published, s.pair, deductedAt[s.ext], s.remaining, s.processedAt)
            BY DEF Inv, RecordShown
        <3> QED
            BY <1>1, <3>1, <3>2, ShownStays
    <2>7. deductedAt'[r] = batchSequence' /\ DOMAIN deductedAt' = Requests
        BY <2>4, <2>5 DEF Inv, RecordShown
    <2>8. ShownIn(published', new.pair, deductedAt'[new.ext], new.remaining, new.processedAt)
        BY <1>3, <2>2, <2>7, DeductionShown
    <2> QED
        BY <2>1, <2>6, <2>7, <2>8 DEF RecordShown
<1> QED
    BY <1>1, <1>2, <1>3

(* The state of the HCM that a stored answer shows is the one noted.       *)
LEMMA RowStored ==
    ASSUME Inv, NEW c \in Calls, Noted(c), Extends(published, published'),
           NEW reading, NEW e, Stores(c, reading), StoredEdition(c) = {e},
           reading.lastSyncedAt \in Nat,
           ShownIn(published, PairOf(c), e, reading.availableDays, reading.lastSyncedAt)
    PROVE  RowsOK'
<1> DEFINE k == PairOf(c)
<1>1. projections' = [projections EXCEPT ![k] = Synced(@, reading)]
    BY DEF Stores
<1>2. asOf' = [asOf EXCEPT ![k] = e]
    BY DEF Noted, Stores, PairOf
<1>3. k \in Pairs /\ DOMAIN asOf = Pairs /\ DOMAIN projections = Pairs
    BY Asks DEF Inv, RowsOK
<1>4. projections'[k] = Row(reading, VersionOf(projections[k])) /\ asOf'[k] = e
    BY <1>1, <1>2, <1>3 DEF Synced
<1>5. RowShown(projections'[k], k, asOf'[k], published)
    BY <1>3, <1>4, RowCarries, RowWritten DEF Inv, HcmOK
<1>6. ASSUME NEW j \in Pairs, j # k
      PROVE  projections'[j] = projections[j] /\ asOf'[j] = asOf[j]
    BY <1>1, <1>2, <1>3, <1>6
<1>7. DOMAIN asOf' = Pairs /\ DOMAIN projections' = Pairs
    BY <1>1, <1>2, <1>3
<1>8. \A j \in Pairs : RowShown(projections'[j], j, asOf'[j], published)
    BY <1>5, <1>6 DEF Inv, RowsOK
<1> QED
    BY <1>7, <1>8, ShownStays DEF RowsOK, RowShown

(* A row a call writes shows a state of the HCM, and the others stay.      *)
LEMMA CallRows ==
    ASSUME Inv, NEW c \in Calls, CallKeeps(c), CallMoves(c), Noted(c)
    PROVE  RowsOK'
<1>1. Extends(published, published')
    BY CallPublishes
<1>2. CASE StoresDeduction(c)
    <2>1. PICK s \in submission[c] :
             Stores(c, [availableDays |-> s.remaining, lastSyncedAt |-> s.processedAt])
        BY <1>2 DEF StoresDeduction
    <2>2. /\ s \in Submission /\ s \in processedRequests
          /\ s.ext = target[c] /\ s.pair = PairOf(c)
        BY <2>1 DEF Inv, CallsOK, LocalsOK, CallHolds, PairOf
    <2>3. ShownIn(published, PairOf(c), deductedAt[target[c]], s.remaining, s.processedAt)
        BY <2>2 DEF Inv, RecordShown
    <2>4. StoredEdition(c) = {deductedAt[target[c]]}
        BY <1>2 DEF StoresDeduction, StoredEdition
    <2>5. s.processedAt \in Nat
        BY <2>2 DEF Submission
    <2> QED
        BY <1>1, <2>1, <2>3, <2>4, <2>5, RowStored
<1>3. CASE StoresRefusal(c)
    <2>1. PICK reading \in rejection[c].readings : Stores(c, reading)
        BY <1>3 DEF StoresRefusal
    <2>2. ShownIn(published, PairOf(c), readAt[c], reading.availableDays, reading.lastSyncedAt)
        BY <1>3, <2>1 DEF Inv, CallsOK, CallHolds, PairOf, StoresRefusal
    <2>3. StoredEdition(c) = {readAt[c]}
        BY <1>3, <2>1 DEF StoresRefusal, StoredEdition
    <2>4. reading.lastSyncedAt \in Nat
        BY <2>1 DEF Inv, CallsOK, LocalsOK, Approvals!Rejection, Approvals!Reading
    <2> QED
        BY <1>1, <2>1, <2>2, <2>3, <2>4, RowStored
<1>4. CASE ~StoresDeduction(c) /\ ~StoresRefusal(c)
    <2>1. UNCHANGED projections /\ (requests' = requests \/ StoredEdition(c) = {})
        BY <1>4 DEF CallMoves, MovesOn, LosesRace, IsDeducted, IsReplayed, WillRefuse, Dates
    <2>2. DOMAIN asOf' = Pairs /\ \A k \in Pairs : asOf'[k] = asOf[k]
        BY <2>1 DEF Noted, Inv, RowsOK
    <2> QED
        BY <1>1, <2>1, <2>2, RowsStay DEF Inv
<1> QED
    BY <1>2, <1>3, <1>4

(* What the call holds after its step.                                     *)
LEMMA CallHoldings ==
    ASSUME Inv, NEW c \in Calls, CallKeeps(c), CallMoves(c), Noted(c)
    PROVE  CallHolds(c)'
<1> DEFINE k == PairOf(c)
<1>1. LocalsOK /\ LocalsOK' /\ CallHolds(c) /\ DOMAIN readAt = Calls
    BY DEF CallKeeps, Inv, CallsOK
<1>2. target[c] \in Requests /\ requests'[target[c]].pair = k
    BY Asks DEF CallKeeps, PairOf
<1>3. CASE HoldsNothing(c)
    BY <1>3 DEF HoldsNothing, CallHolds
<1>4. CASE LosesRace(c)
    <2>1. rejection'[c].readings = {}
        BY <1>4, HeldLate DEF Refusing, Inv, LosesRace
    <2> QED
        BY <1>1, <1>2, <1>4, <2>1 DEF LosesRace, CallHolds, HcmSame, PairOf
<1>5. CASE IsReplayed(c)
    <2>1. PICK s \in Processed(target[c]) : s.pair = k /\ submission'[c] = {s}
        BY <1>5 DEF IsReplayed
    <2>2. s \in processedRequests' /\ s.ext = target[c]
        BY <1>5 DEF Processed, IsReplayed, HcmSame
    <2>3. pc'[c] = "finalize" /\ target' = target /\ rejection'[c].readings = {}
        BY <1>5, HeldLate DEF Refusing, Inv, IsReplayed
    <2> QED
        BY <1>2, <2>1, <2>2, <2>3 DEF CallHolds
<1>6. CASE IsDeducted(c)
    <2> DEFINE s == Accepted(target[c], k, requests[target[c]].days)
    <2>1. s \in processedRequests' /\ submission'[c] = {s}
        BY <1>6 DEF IsDeducted, SubmitAccepted
    <2>2. s.ext = target[c] /\ s.pair = k
        BY DEF Accepted
    <2>3. pc'[c] = "finalize" /\ target' = target /\ rejection'[c].readings = {}
        BY <1>6, HeldLate DEF Refusing, Inv, IsDeducted
    <2> HIDE DEF s
    <2> QED
        BY <1>2, <2>1, <2>2, <2>3 DEF CallHolds
<1>7. CASE WillRefuse(c)
    <2>1. /\ pc[c] \notin Refusing /\ pc'[c] \in Refusing
          /\ target' = target /\ submission'[c] = {}
          /\ rejection'[c].readings = {[availableDays |-> balances[k], lastSyncedAt |-> now]}
        BY <1>7 DEF WillRefuse
    <2>2. readAt'[c] = batchSequence
        BY <1>1, <2>1 DEF Noted, Refusing
    <2>3. ShownIn(published, k, batchSequence, balances[k], now)
        BY <1>7, PresentShown DEF Inv, WillRefuse
    <2>4. ShownIn(published, k, batchSequence, balances[k], now')
        BY <2>3, ShownLater DEF Inv, HcmOK, HcmTypeOK, CallKeeps
    <2>5. /\ ShownIn(published', k, batchSequence, balances[k], now)
          /\ ShownIn(published', k, batchSequence, balances[k], now')
        BY <2>3, <2>4, CallPublishes, ShownStays
    <2> QED
        BY <1>2, <2>1, <2>2, <2>5 DEF CallHolds
<1>8. CASE Dates(c)
    <2>1. /\ pc[c] = "stampBalance" /\ pc'[c] = "persist"
          /\ target' = target /\ submission'[c] = {}
          /\ rejection'[c].readings =
                {[reading EXCEPT !.lastSyncedAt = now] : reading \in rejection[c].readings}
        BY <1>8 DEF Dates
    <2>2. readAt'[c] = readAt[c]
        BY <1>1, <2>1 DEF Noted
    <2>3. ASSUME NEW dated \in rejection'[c].readings
          PROVE  ShownIn(published', k, readAt[c], dated.availableDays, dated.lastSyncedAt)
        <3>1. PICK reading \in rejection[c].readings :
                 dated = [reading EXCEPT !.lastSyncedAt = now]
            BY <2>1
        <3>2. reading \in Approvals!Reading
            BY <1>1 DEF LocalsOK, Approvals!Rejection
        <3>3. dated.availableDays = reading.availableDays /\ dated.lastSyncedAt = now
            BY <3>1, <3>2 DEF Approvals!Reading
        <3>4. ShownIn(published, k, readAt[c], reading.availableDays, now)
            BY <1>1, <2>1 DEF CallHolds, PairOf
        <3> QED
            BY <3>3, <3>4, CallPublishes, ShownStays
    <2> QED
        BY <1>2, <2>1, <2>2, <2>3 DEF CallHolds, Refusing
<1> QED
    BY <1>3, <1>4, <1>5, <1>6, <1>7, <1>8
    DEF CallMoves, MovesOn, StoresDeduction, StoresRefusal, Stores

(* A step of a call keeps the invariant.                                   *)
LEMMA CallKeepsInv ==
    ASSUME Inv, NEW c \in Calls, Approve(c)
    PROVE  Inv'
<1>1. CallKeeps(c) /\ CallMoves(c) /\ Noted(c) /\ UNCHANGED <<runs, post, refresh>>
    BY CallStep DEF Approve, reconcilingVars
<1>2. /\ Extends(published, published') /\ HcmOK'
      /\ processedRequests \subseteq processedRequests'
    <2>1. Extends(published, published') /\ HcmOK' /\ (HcmSame \/ IsDeducted(c))
        BY <1>1, CallPublishes
    <2> QED
        BY <2>1 DEF HcmSame, IsDeducted, SubmitAccepted
<1>3. RequestsOK' /\ LocalsOK' /\ now' \in Nat /\ now <= now'
    BY <1>1 DEF CallKeeps
<1>4. CallsOK'
    <2>1. DOMAIN readAt' = Calls /\ \A d \in Calls \ {c} : readAt'[d] = readAt[d]
        BY <1>1 DEF Noted, Inv, CallsOK
    <2>2. ASSUME NEW d \in Calls PROVE CallHolds(d)'
        <3>1. CASE d = c
            BY <1>1, <3>1, CallHoldings
        <3>2. CASE d # c
            BY <1>1, <1>2, <1>3, <2>1, <3>2, HoldingStays DEF CallKeeps, Others, Inv, CallsOK
        <3> QED
            BY <3>1, <3>2
    <2> QED
        BY <1>3, <2>1, <2>2 DEF CallsOK
<1>5. RowsOK' /\ RecordShown'
    BY <1>1, CallRows, CallRecord
<1>6. PostsOK' /\ RunsOK'
    BY <1>1, <1>2, PostsStay, RunsStay DEF Inv
<1>7. RefreshesOK'
    BY <1>1, <1>2, <1>3, RefreshesStay DEF Inv, HcmOK
<1> QED
    BY <1>2, <1>3, <1>4, <1>5, <1>6, <1>7 DEF Inv

-----------------------------------------------------------------------------
(* A step of a batch, a refresh or the HCM: the approvals stand by.        *)

ApprovalsStay == UNCHANGED <<requests, pc, target, submission, rejection, deductedAt, readAt>>

(* What calls hold outlives what others do.                                *)
LEMMA ApprovalsKept ==
    ASSUME Inv, ApprovalsStay, Extends(published, published'), UNCHANGED processedRequests,
           now' \in Nat, now <= now'
    PROVE  RequestsOK' /\ RecordShown' /\ CallsOK'
<1>1. RequestsOK' /\ RecordShown'
    BY RecordStays DEF Inv, RequestsOK, ApprovalsStay
<1>2. LocalsOK' /\ DOMAIN readAt' = Calls
    BY DEF Inv, CallsOK, LocalsOK, ApprovalsStay
<1>3. \A c \in Calls : CallHolds(c)'
    BY HoldingStays DEF Inv, CallsOK, ApprovalsStay
<1> QED
    BY <1>1, <1>2, <1>3 DEF CallsOK

(* A step that takes neither time nor a change of the HCM.                 *)
LEMMA HcmKept ==
    ASSUME HcmOK, HcmSame, HcmTypeOK', UNCHANGED <<now, published>>
    PROVE  HcmOK'
    BY SameState DEF HcmOK, HcmSame

(* One post moves on.                                                      *)
LEMMA PostMoves ==
    ASSUME PostsOK, UNCHANGED published, NEW p \in Posts, NEW x \in Posting(published),
           PostHolds(x, published), post' = [post EXCEPT ![p] = x]
    PROVE  PostsOK'
    BY DEF PostsOK

(* One refresh moves on.                                                   *)
LEMMA RefreshMoves ==
    ASSUME RefreshesOK, UNCHANGED <<published, now>>, NEW f \in Refreshes,
           NEW x \in Refreshing, RefreshHolds(x, published, now),
           refresh' = [refresh EXCEPT ![f] = x]
    PROVE  RefreshesOK'
    BY DEF RefreshesOK

(* The answer of a post leaves nothing of it.                              *)
LEMMA PostAnswered ==
    ASSUME PostsOK, UNCHANGED published, NEW p \in Posts, NEW from,
           Reconciling!AnswerPost(p, from)
    PROVE  PostsOK'
<1>1. /\ Reconciling!IdlePost \in Posting(published)
      /\ PostHolds(Reconciling!IdlePost, published)
    BY DEF Posting, PostHolds, Reconciling!IdlePost
<1> QED
    BY <1>1, PostMoves DEF Reconciling!AnswerPost

(* A post keeps its batch from stage to stage.                             *)
LEMMA PostStaged ==
    ASSUME PostsOK, UNCHANGED published, NEW p \in Posts, NEW from,
           from # "idle", NEW to \in {"findLatest", "reread"}, Reconciling!ToStage(p, from, to)
    PROVE  PostsOK'
<1> DEFINE x == [post[p] EXCEPT !.stage = to]
<1>1. x \in Posting(published) /\ PostHolds(x, published)
    BY DEF PostsOK, Posting, PostHolds, Reconciling!ToStage
<1>2. post' = [post EXCEPT ![p] = x]
    BY DEF Reconciling!ToStage
<1> QED
    BY <1>1, <1>2, PostMoves

(* The answer of a refresh leaves nothing of it.                           *)
LEMMA RefreshAnswered ==
    ASSUME RefreshesOK, UNCHANGED <<published, now>>, NEW f \in Refreshes, NEW from,
           Reconciling!AnswerRefresh(f, from)
    PROVE  RefreshesOK'
<1>1. /\ Reconciling!IdleRefresh \in Refreshing
      /\ RefreshHolds(Reconciling!IdleRefresh, published, now)
    BY DEF Refreshing, RefreshHolds, Reconciling!IdleRefresh, Reconciling!NoReading, Versions
<1> QED
    BY <1>1, RefreshMoves DEF Reconciling!AnswerRefresh

\* Nothing changes but posts, or but refreshes.
TablesStay ==
    /\ HcmSame /\ HcmTypeOK'
    /\ UNCHANGED <<now, projections, runs, published, asOf>>

(* All the rest is in order then.                                          *)
LEMMA TablesKept ==
    ASSUME Inv, ApprovalsStay, TablesStay
    PROVE  HcmOK' /\ RequestsOK' /\ RowsOK' /\ RecordShown' /\ CallsOK' /\ RunsOK'
<1>1. /\ Extends(published, published') /\ UNCHANGED processedRequests
      /\ now' \in Nat /\ now <= now'
    BY TimeStays DEF TablesStay, HcmSame, Extends
<1>2. RequestsOK' /\ RecordShown' /\ CallsOK'
    BY <1>1, ApprovalsKept
<1>3. RowsOK' /\ RunsOK'
    BY <1>1, RowsStay, RunsStay DEF Inv, TablesStay, RowsOK
<1>4. HcmOK'
    BY HcmKept DEF TablesStay, Inv
<1> QED
    BY <1>2, <1>3, <1>4

(* A post is made or moves through its checks (reconcileBatch).            *)
LEMMA PostKeepsInv ==
    ASSUME Inv, ApprovalsStay, NEW p \in Posts,
           \/ \E b \in published : Reconciling!PostBatch(p, b)
           \/ Reconciling!PostDuplicateRows(p)
           \/ Reconciling!FindRun(p) \/ Reconciling!FindLatest(p)
           \/ Reconciling!RefuseBatch(p) \/ Reconciling!RereadRun(p)
    PROVE  Inv'
<1>1. TablesStay /\ UNCHANGED refresh
    <2>1. UNCHANGED <<now, hcmVars, projections, runs, published, refresh, asOf>>
        BY DEF Reconciling!PostBatch, Reconciling!PostDuplicateRows, Reconciling!FindRun,
               Reconciling!FindLatest, Reconciling!RefuseBatch, Reconciling!RereadRun,
               Reconciling!hcmVars, hcmVars
    <2> QED
        BY <2>1, HcmUntouched DEF TablesStay, Inv, HcmOK
<1>2. PostsOK /\ HcmOK /\ RefreshesOK
    BY DEF Inv
<1>3. PostsOK'
    <2>0. UNCHANGED published
        BY <1>1 DEF TablesStay
    <2>1. CASE \E b \in published : Reconciling!PostBatch(p, b)
        <3>1. PICK b \in published : Reconciling!PostBatch(p, b)
            BY <2>1
        <3> DEFINE x == [Reconciling!IdlePost EXCEPT !.stage = "findRun", !.batch = b]
        <3>2. x \in Posting(published) /\ PostHolds(x, published)
            BY DEF Posting, PostHolds, Reconciling!IdlePost
        <3>3. post' = [post EXCEPT ![p] = x]
            BY <3>1 DEF Reconciling!PostBatch
        <3> QED
            BY <1>2, <2>0, <3>2, <3>3, PostMoves
    <2>2. CASE \E from : Reconciling!AnswerPost(p, from)
        BY <1>2, <2>0, <2>2, PostAnswered
    <2>3. CASE \/ Reconciling!ToStage(p, "findRun", "findLatest")
               \/ Reconciling!ToStage(p, "apply", "reread")
        BY <1>2, <2>0, <2>3, PostStaged
    <2>4. CASE /\ post[p].stage = "findLatest"
               /\ post' = [post EXCEPT ![p].stage = "apply", ![p].processedAt = now]
        <3> DEFINE x == [post[p] EXCEPT !.stage = "apply", !.processedAt = now]
        <3>1. post[p] \in Posting(published) /\ post[p].batch \in published
            BY <1>2, <2>4 DEF PostsOK, PostHolds
        <3>2. /\ x \in Posting(published) /\ x.batch \in published /\ x.processedAt = now
              /\ x.batch = post[p].batch
            BY <1>2, <3>1 DEF Posting, HcmOK
        <3>3. x.batch.effectiveAt <= now
            BY <1>2, <3>2 DEF HcmOK, HcmTypeOK, StatesOK
        <3>4. post' = [post EXCEPT ![p] = x]
            BY <2>4
        <3> HIDE DEF x
        <3> QED
            BY <1>2, <2>0, <3>2, <3>3, <3>4, PostMoves DEF PostHolds
    <2> QED
        BY <2>1, <2>2, <2>3, <2>4
        DEF Reconciling!PostDuplicateRows, Reconciling!FindRun, Reconciling!FindLatest,
            Reconciling!RefuseBatch, Reconciling!RereadRun
<1>4. RefreshesOK'
    BY <1>1, <1>2, RefreshesStay DEF TablesStay, HcmOK, Extends
<1> QED
    BY <1>1, <1>3, <1>4, TablesKept DEF Inv

(* A batch writes the state it was taken from (applyBatch).                *)
LEMMA ApplyKeepsInv ==
    ASSUME Inv, ApprovalsStay, NEW p \in Posts, Reconciling!ApplyBatch(p)
    PROVE  Inv'
<1> DEFINE b == post[p].batch
<1>1. /\ UNCHANGED <<now, seeded, balances, processedRequests, transientFailures, batchSequence,
                     effectiveAt, transactions, published, refresh>>
      /\ Reconciling!AnswerPost(p, "apply")
    BY DEF Reconciling!ApplyBatch, Reconciling!hcmVars
<1>2. /\ b \in published /\ b.effectiveAt <= post[p].processedAt
      /\ post[p].processedAt \in Nat
    BY <1>1 DEF Inv, PostsOK, PostHolds, Posting, Reconciling!AnswerPost
<1>3. /\ Extends(published, published') /\ UNCHANGED <<processedRequests, published>>
      /\ now' \in Nat /\ now <= now'
    BY <1>1, TimeStays DEF Extends
<1>4. RequestsOK' /\ RecordShown' /\ CallsOK'
    BY <1>3, ApprovalsKept
<1>5. HcmOK'
    <2>1. HcmTypeOK' /\ HcmSame
        BY <1>1, HcmUntouched DEF hcmVars, Inv, HcmOK
    <2> QED
        BY <1>1, <2>1, HcmKept DEF Inv
<1>6. PostsOK'
    BY <1>1, <1>3, PostAnswered DEF Inv
<1>7. RefreshesOK'
    BY <1>1, <1>3, RefreshesStay DEF Inv, HcmOK
<1>8. RunsOK'
    <2>1. runs' = runs \cup {[version |-> b.version, effectiveAt |-> b.effectiveAt,
                              completedAt |-> post[p].processedAt, edition |-> b.edition]}
        BY DEF Reconciling!ApplyBatch, Reconciling!RunsWith
    <2> QED
        BY <1>2, <1>3, <2>1 DEF Inv, RunsOK
<1>9. RowsOK'
    <2>1. DOMAIN projections' = Pairs /\ DOMAIN asOf' = Pairs
        BY DEF Reconciling!ApplyBatch
    <2>2. ASSUME NEW k \in Pairs
          PROVE  RowShown(projections'[k], k, asOf'[k], published)
        <3>1. CASE k \in DOMAIN b.balances
            <4> DEFINE reading == [availableDays |-> b.balances[k],
                                   lastSyncedAt |-> post[p].processedAt]
            <4>1. projections'[k] = Row(reading, b.version) /\ asOf'[k] = b.edition
                BY <3>1 DEF Reconciling!ApplyBatch, Reconciling!Row, Row
            <4>2. b.version \in Versions
                BY <1>2 DEF Inv, HcmOK, StatesOK, Versions
            <4>3. /\ reading.availableDays = b.balances[k]
                  /\ reading.lastSyncedAt = post[p].processedAt
                OBVIOUS
            <4> HIDE DEF b, reading
            <4>4. ASSUME NEW s \in published, s.edition < b.edition
                  PROVE  s.effectiveAt <= reading.lastSyncedAt
                <5>1. /\ s.effectiveAt <= b.effectiveAt
                      /\ s.effectiveAt \in Nat /\ b.effectiveAt \in Nat
                    BY <1>2, <4>4 DEF Inv, HcmOK, HcmTypeOK, StatesOK
                <5> QED
                    BY <1>2, <4>3, <5>1
            <4>5. ShownIn(published, k, b.edition, reading.availableDays, reading.lastSyncedAt)
                BY <1>2, <3>1, <4>3, <4>4 DEF ShownIn
            <4> QED
                BY <1>2, <4>1, <4>2, <4>3, <4>5, RowWritten DEF Inv, HcmOK
        <3>2. CASE k \notin DOMAIN b.balances
            <4>1. projections'[k] = projections[k] /\ asOf'[k] = asOf[k]
                BY <3>2 DEF Reconciling!ApplyBatch
            <4> QED
                BY <4>1 DEF Inv, RowsOK
        <3> QED
            BY <3>1, <3>2
    <2> QED
        BY <1>3, <2>1, <2>2 DEF RowsOK
<1> QED
    BY <1>4, <1>5, <1>6, <1>7, <1>8, <1>9 DEF Inv

(* A refresh asks, reads and dates what it read (refreshBalance).          *)
LEMMA RefreshKeepsInv ==
    ASSUME Inv, ApprovalsStay, NEW f \in Refreshes,
           \/ \E k \in Pairs : Reconciling!RefreshBalance(f, k)
           \/ Reconciling!RefreshFromHcm(f)
           \/ Reconciling!StampReading(f)
    PROVE  Inv'
<1>1. RefreshesOK /\ HcmOK /\ RowsOK /\ HcmTypeOK
    BY DEF Inv, HcmOK
<1>2. UNCHANGED <<now, projections, runs, published, post, asOf>>
    BY DEF Reconciling!RefreshBalance, Reconciling!RefreshFromHcm, Reconciling!StampReading
<1>3. \/ UNCHANGED hcmVars
      \/ Reconciling!GetBalanceUnavailable
    BY DEF Reconciling!RefreshBalance, Reconciling!RefreshFromHcm, Reconciling!StampReading,
           Reconciling!GetBalanceFound, Reconciling!GetBalanceUnknown, Reconciling!hcmVars, hcmVars
<1>4. HcmSame /\ HcmTypeOK'
    <2>1. CASE UNCHANGED hcmVars
        BY <1>1, <2>1, HcmUntouched
    <2>2. CASE Reconciling!GetBalanceUnavailable
        <3>1. "GET_BALANCE" \in Operations /\ ConsumeTransientFailure("GET_BALANCE")
            BY <2>2 DEF Operations, Reconciling!GetBalanceUnavailable,
               Reconciling!ConsumeTransientFailure, ConsumeTransientFailure,
               Reconciling!FailureQueued, FailureQueued
        <3> QED
            BY <1>1, <3>1, FailureTyping DEF ConsumeTransientFailure, HcmSame
    <2> QED
        BY <1>3, <2>1, <2>2
<1>5. RefreshesOK'
    <2>1. CASE \E k \in Pairs : Reconciling!RefreshBalance(f, k)
        <3>1. PICK k \in Pairs : Reconciling!RefreshBalance(f, k)
            BY <2>1
        <3> DEFINE x == [Reconciling!IdleRefresh EXCEPT !.stage = "getBalance", !.pair = k,
                             !.version = Reconciling!VersionOf(projections[k])]
        <3>2. Reconciling!VersionOf(projections[k]) \in Versions
            BY RowCarries DEF Reconciling!VersionOf, VersionOf
        <3>3. x \in Refreshing /\ RefreshHolds(x, published, now)
            BY <3>2 DEF Refreshing, RefreshHolds, Reconciling!IdleRefresh, Reconciling!NoReading
        <3>4. refresh' = [refresh EXCEPT ![f] = x]
            BY <3>1 DEF Reconciling!RefreshBalance
        <3> HIDE DEF x
        <3> QED
            BY <1>1, <1>2, <3>3, <3>4, RefreshMoves
    <2>2. CASE \E from : Reconciling!AnswerRefresh(f, from)
        BY <1>1, <1>2, <2>2, RefreshAnswered
    <2>3. CASE /\ refresh[f].stage = "getBalance"
               /\ Reconciling!GetBalanceFound(refresh[f].pair)
               /\ refresh' = [refresh EXCEPT ![f].stage = "stamp",
                     ![f].reading = [availableDays |-> balances[refresh[f].pair],
                                     lastSyncedAt |-> 0, edition |-> batchSequence]]
        <3> DEFINE k == refresh[f].pair
                   reading == [availableDays |-> balances[k], lastSyncedAt |-> 0,
                               edition |-> batchSequence]
                   x == [refresh[f] EXCEPT !.stage = "stamp", !.reading = reading]
        <3>1. refresh[f] \in Refreshing /\ k \in Pairs /\ k \in seeded
            BY <1>1, <2>3 DEF RefreshesOK, RefreshHolds, Reconciling!GetBalanceFound
        <3>2. balances[k] \in Nat /\ batchSequence \in Nat
            BY <1>1, <3>1 DEF HcmTypeOK
        <3>3. /\ x \in Refreshing /\ x.stage = "stamp" /\ x.pair = k
              /\ x.reading.edition = batchSequence /\ x.reading.availableDays = balances[k]
            BY <3>1, <3>2 DEF Refreshing
        <3>4. ShownIn(published, k, batchSequence, balances[k], now)
            BY <1>1, <3>1, PresentShown
        <3>5. refresh' = [refresh EXCEPT ![f] = x]
            BY <2>3
        <3> HIDE DEF x
        <3>6. RefreshHolds(x, published, now)
            BY <3>1, <3>3, <3>4 DEF RefreshHolds
        <3> QED
            BY <1>1, <1>2, <3>3, <3>5, <3>6, RefreshMoves
    <2>4. CASE Reconciling!StampReading(f)
        <3> DEFINE x == [refresh[f] EXCEPT !.stage = "upsert", !.reading.lastSyncedAt = now]
        <3>1. /\ refresh[f] \in Refreshing /\ refresh[f].pair \in Pairs
              /\ ShownIn(published, refresh[f].pair, refresh[f].reading.edition,
                         refresh[f].reading.availableDays, now)
            BY <1>1, <2>4 DEF RefreshesOK, RefreshHolds, Reconciling!StampReading
        <3>2. /\ x \in Refreshing /\ x.stage = "upsert" /\ x.pair = refresh[f].pair
              /\ x.reading.edition = refresh[f].reading.edition
              /\ x.reading.availableDays = refresh[f].reading.availableDays
              /\ x.reading.lastSyncedAt = now
            BY <1>1, <3>1 DEF Refreshing, HcmOK
        <3>3. refresh' = [refresh EXCEPT ![f] = x]
            BY <1>1, <2>4 DEF Reconciling!StampReading, RefreshesOK, Refreshing
        <3> HIDE DEF x
        <3>4. RefreshHolds(x, published, now)
            BY <3>1, <3>2 DEF RefreshHolds
        <3> QED
            BY <1>1, <1>2, <3>2, <3>3, <3>4, RefreshMoves
    <2> QED
        BY <2>1, <2>2, <2>3, <2>4 DEF Reconciling!RefreshFromHcm
<1>6. PostsOK'
    BY <1>2, PostsStay DEF Inv, Extends
<1>7. TablesStay
    BY <1>2, <1>4 DEF TablesStay
<1> QED
    BY <1>5, <1>6, <1>7, TablesKept DEF Inv

(* It writes the state it read (upsertProjection).                         *)
LEMMA UpsertKeepsInv ==
    ASSUME Inv, ApprovalsStay, NEW f \in Refreshes, Reconciling!UpsertProjection(f)
    PROVE  Inv'
<1> DEFINE k == refresh[f].pair
           reading == refresh[f].reading
<1>1. UNCHANGED <<now, hcmVars, runs, published, post>> /\ Reconciling!AnswerRefresh(f, "upsert")
    BY DEF Reconciling!UpsertProjection, Reconciling!hcmVars, hcmVars
<1>2. /\ Extends(published, published') /\ UNCHANGED processedRequests
      /\ now' \in Nat /\ now <= now'
    BY <1>1, TimeStays DEF hcmVars, Extends
<1>3. RequestsOK' /\ RecordShown' /\ CallsOK'
    BY <1>2, ApprovalsKept
<1>4. HcmOK'
    BY <1>1, HcmUntouched, HcmKept DEF Inv, HcmOK
<1>5. PostsOK' /\ RunsOK'
    BY <1>1, <1>2, PostsStay, RunsStay DEF Inv
<1>6. RefreshesOK'
    BY <1>1, RefreshAnswered DEF Inv
<1>7. /\ refresh[f] \in Refreshing /\ k \in Pairs
      /\ ShownIn(published, k, reading.edition, reading.availableDays, reading.lastSyncedAt)
    BY <1>1 DEF Inv, RefreshesOK, RefreshHolds, Reconciling!AnswerRefresh
<1>8. RowsOK'
    <2>1. /\ projections' = [projections EXCEPT ![k] = Row(reading, refresh[f].version)]
          /\ asOf' = [asOf EXCEPT ![k] = reading.edition]
        BY DEF Reconciling!UpsertProjection, Reconciling!Row, Row
    <2>2. DOMAIN projections = Pairs /\ DOMAIN asOf = Pairs
        BY DEF Inv, RowsOK
    <2>3. /\ projections'[k] = Row(reading, refresh[f].version)
          /\ asOf'[k] = reading.edition
        BY <1>7, <2>1, <2>2
    <2>4. reading.lastSyncedAt \in Nat /\ refresh[f].version \in Versions
        BY <1>7 DEF Refreshing
    <2>5. RowShown(projections'[k], k, asOf'[k], published)
        BY <1>7, <2>3, <2>4, RowWritten DEF Inv, HcmOK
    <2>6. ASSUME NEW j \in Pairs, j # k
          PROVE  projections'[j] = projections[j] /\ asOf'[j] = asOf[j]
        BY <2>1, <2>2, <2>6
    <2>7. DOMAIN projections' = Pairs /\ DOMAIN asOf' = Pairs
        BY <2>1, <2>2
    <2>8. \A j \in Pairs : RowShown(projections'[j], j, asOf'[j], published)
        BY <2>5, <2>6 DEF Inv, RowsOK
    <2> QED
        BY <1>1, <2>7, <2>8 DEF RowsOK
<1> QED
    BY <1>3, <1>4, <1>5, <1>6, <1>8 DEF Inv

(* A statement of theirs fails.                                            *)
LEMMA FailureKeepsInv ==
    ASSUME Inv, ApprovalsStay, Reconciling!StatementFails
    PROVE  Inv'
<1>1. UNCHANGED <<now, hcmVars, projections, runs, published, asOf>>
    BY DEF Reconciling!StatementFails, Reconciling!hcmVars, hcmVars
<1>2. TablesStay
    BY <1>1, HcmUntouched DEF TablesStay, Inv, HcmOK
<1>3. PostsOK' /\ RefreshesOK'
    <2>1. CASE \E p \in Posts : /\ Reconciling!AnswerPost(p, post[p].stage)
                                /\ UNCHANGED refresh
        BY <1>1, <2>1, PostAnswered, RefreshesStay DEF Inv, HcmOK, Extends
    <2>2. CASE \E f \in Refreshes : /\ Reconciling!AnswerRefresh(f, "upsert")
                                    /\ UNCHANGED post
        BY <1>1, <2>2, RefreshAnswered, PostsStay DEF Inv, Extends
    <2> QED
        BY <2>1, <2>2 DEF Reconciling!StatementFails
<1> QED
    BY <1>2, <1>3, TablesKept DEF Inv

(* The HCM changes a balance, is told to fail, or time passes.             *)
LEMMA WorldKeepsInv ==
    ASSUME Inv, ApprovalsStay,
           Reconciling!HcmAdjusts \/ Reconciling!HcmWillFail \/ Reconciling!TimePasses
    PROVE  Inv'
<1>1. UNCHANGED <<projections, runs, post, refresh, asOf, processedRequests>>
    BY DEF Reconciling!HcmAdjusts, Reconciling!AdjustAccepted, Reconciling!NewEdition,
           Reconciling!Publish, Reconciling!HcmWillFail, Reconciling!ScheduleTransientFailure,
           Reconciling!TimePasses, Reconciling!serviceVars, Reconciling!hcmVars
<1>2. HcmOK' /\ Extends(published, published') /\ now' \in Nat /\ now <= now'
    <2>1. HcmOK /\ HcmTypeOK /\ StatesOK /\ now \in Nat /\ effectiveAt \in Nat
        BY DEF Inv, HcmOK, HcmTypeOK
    <2>2. CASE Reconciling!HcmAdjusts
        <3>1. PICK k \in Pairs, delta \in Adjustments : Reconciling!AdjustAccepted(k, delta)
            BY <2>2 DEF Reconciling!HcmAdjusts
        <3>2. AdjustAccepted(k, delta)
            BY <3>1 DEF Reconciling!AdjustAccepted, AdjustAccepted, Reconciling!FailureQueued,
               FailureQueued, Reconciling!AdvanceBatchVersion, AdvanceBatchVersion
        <3>3. HcmTypeOK' /\ AdvanceBatchVersion(now) /\ effectiveAt <= now
            BY <2>1, <3>2, AdjustTyping DEF AdjustAccepted, HcmOK
        <3>4. now' = now /\ published' = published \cup {Reconciling!Latest'}
            BY <2>2 DEF Reconciling!HcmAdjusts, Reconciling!NewEdition, Reconciling!Publish,
               Reconciling!Latest
        <3>5. Extends(published, published') /\ StatesOK'
            BY <2>1, <3>3, <3>4, NextState
        <3> QED
            BY <2>1, <3>3, <3>4, <3>5 DEF HcmOK, AdvanceBatchVersion
    <2>3. CASE Reconciling!HcmWillFail
        <3>1. "GET_BALANCE" \in Operations /\ ScheduleTransientFailure("GET_BALANCE")
            BY <2>3 DEF Operations, Reconciling!HcmWillFail, Reconciling!ScheduleTransientFailure,
               ScheduleTransientFailure
        <3>2. HcmTypeOK' /\ HcmSame /\ UNCHANGED <<now, published>>
            BY <2>1, <2>3, <3>1, FailureTyping DEF ScheduleTransientFailure, HcmSame,
               Reconciling!HcmWillFail
        <3> QED
            BY <2>1, <3>2, HcmKept DEF Extends
    <2>4. CASE Reconciling!TimePasses
        <3>1. UNCHANGED hcmVars /\ now' = now + 1 /\ published' = published
            BY <2>4 DEF Reconciling!TimePasses, Reconciling!Tick, Reconciling!hcmVars, hcmVars
        <3>2. HcmTypeOK' /\ HcmSame
            BY <2>1, <3>1, HcmUntouched
        <3>3. StatesOK'
            BY <2>1, <3>1, <3>2, SameState
        <3> QED
            BY <2>1, <3>1, <3>2, <3>3 DEF HcmOK, HcmSame, Extends
    <2> QED
        BY <2>2, <2>3, <2>4
<1>3. RequestsOK' /\ RecordShown' /\ CallsOK'
    BY <1>1, <1>2, ApprovalsKept
<1>4. RowsOK' /\ PostsOK' /\ RunsOK'
    BY <1>1, <1>2, RowsStay, PostsStay, RunsStay DEF Inv, RowsOK
<1>5. RefreshesOK'
    BY <1>1, <1>2, RefreshesStay DEF Inv
<1> QED
    BY <1>2, <1>3, <1>4, <1>5 DEF Inv

(* The process dies: what was in flight is gone, the tables stay.          *)
LEMMA DeathKeepsInv ==
    ASSUME Inv, ProcessDies
    PROVE  Inv'
<1>1. PICK i \in Instances : Approvals!Restart(i)
    BY DEF ProcessDies
<1>2. \A c \in Calls : Home[c] = i
    OBVIOUS
<1>3. /\ UNCHANGED <<now, hcmVars, requests, projections, runs, published, asOf, target>>
      /\ UNCHANGED deductedAt
    BY <1>1 DEF ProcessDies, Reconciling!ProcessDies, Approvals!Restart, Approvals!storeVars,
       Reconciling!hcmVars, hcmVars
<1>4. /\ pc' = [c \in Calls |-> "idle"]
      /\ submission' = [c \in Calls |-> {}]
      /\ rejection' = [c \in Calls |-> Approvals!NoRejection]
      /\ readAt' = [c \in Calls |-> 0]
    BY <1>1, <1>2 DEF Approvals!Restart, ProcessDies
<1>5. /\ post' = [p \in Posts |-> Reconciling!IdlePost]
      /\ refresh' = [f \in Refreshes |-> Reconciling!IdleRefresh]
    BY DEF ProcessDies, Reconciling!ProcessDies
<1>6. HcmOK'
    BY <1>3, HcmUntouched, HcmKept DEF Inv, HcmOK
<1>7. Extends(published, published') /\ UNCHANGED processedRequests
    BY <1>3 DEF hcmVars, Extends
<1>8. RequestsOK' /\ RowsOK' /\ RecordShown' /\ RunsOK'
    BY <1>3, <1>7, RowsStay, RecordStays, RunsStay DEF Inv, RequestsOK, RowsOK
<1>9. CallsOK'
    <2>1. Approvals!NoRejection \in Approvals!Rejection /\ Approvals!NoRejection.readings = {}
        BY DEF Approvals!NoRejection, Approvals!Rejection, Approvals!FailureCodes
    <2>2. LocalsOK'
        BY <1>3, <1>4, <2>1 DEF Inv, CallsOK, LocalsOK, Approvals!Steps
    <2>3. \A c \in Calls : submission'[c] = {} /\ rejection'[c].readings = {}
        BY <1>4, <2>1
    <2> QED
        BY <1>4, <2>2, <2>3 DEF CallsOK, CallHolds
<1>10. PostsOK'
    <2>1. /\ Reconciling!IdlePost \in Posting(published')
          /\ PostHolds(Reconciling!IdlePost, published')
        BY DEF Posting, PostHolds, Reconciling!IdlePost
    <2> QED
        BY <1>5, <2>1 DEF PostsOK
<1>11. RefreshesOK'
    <2>1. /\ Reconciling!IdleRefresh \in Refreshing
          /\ RefreshHolds(Reconciling!IdleRefresh, published', now')
        BY DEF Refreshing, RefreshHolds, Reconciling!IdleRefresh, Reconciling!NoReading, Versions
    <2> QED
        BY <1>5, <2>1 DEF RefreshesOK
<1> QED
    BY <1>6, <1>8, <1>9, <1>10, <1>11 DEF Inv

(* Every step keeps the invariant.                                         *)
LEMMA InvNext ==
    ASSUME Inv, [Next]_sharedVars
    PROVE  Inv'
<1>1. CASE \E c \in Calls : Approve(c)
    BY <1>1, CallKeepsInv
<1>2. CASE Reconcile
    <2>1. ApprovalsStay
        BY <1>2 DEF Reconcile, ApprovalsStay, approvalVars
    <2>2. ~Reconciling!HcmReset
        BY DEF Reconciling!HcmReset
    <2> QED
        BY <1>2, <2>1, <2>2, PostKeepsInv, ApplyKeepsInv, RefreshKeepsInv, UpsertKeepsInv,
           FailureKeepsInv, WorldKeepsInv
        DEF Reconcile, Reconciling!Proceed, Reconciling!Reconcile, Reconciling!ServeRefresh
<1>3. CASE ProcessDies
    BY <1>3, DeathKeepsInv
<1>4. CASE UNCHANGED sharedVars
    <2>1. /\ ApprovalsStay /\ UNCHANGED <<hcmVars, runs, published, post, refresh>>
          /\ UNCHANGED <<now, projections, asOf>>
        BY <1>4 DEF sharedVars, approvalVars, reconcilingVars, ApprovalsStay
    <2>2. TablesStay
        BY <2>1, HcmUntouched DEF TablesStay, Inv, HcmOK
    <2>3. PostsOK' /\ RefreshesOK'
        BY <2>1, PostsStay, RefreshesStay DEF Inv, HcmOK, Extends
    <2> QED
        BY <2>1, <2>2, <2>3, TablesKept DEF Inv
<1> QED
    BY <1>1, <1>2, <1>3, <1>4 DEF Next

(* The invariant holds throughout.                                         *)
LEMMA Invariance == Spec => []Inv
<1>1. Inv /\ [Next]_sharedVars => Inv'
    BY InvNext
<1> QED
    BY <1>1, InvInit, PTL DEF Spec

-----------------------------------------------------------------------------
(* What the service promises.                                              *)

(* Whoever wrote a row last, approval, refusal, batch or refresh, it shows *)
(* an answer the HCM gave: the balance of the pair in the state asOf       *)
(* names, dated when every earlier state had begun, through lost answers,  *)
(* replays, late batches and refreshes, failed writes and crashes.         *)
THEOREM RowsShowReadings == Spec => []RowsAreReadings
<1>1. Inv => RowsAreReadings
    BY DEF Inv, RowsOK, RowShown, ShownIn, RowsAreReadings
<1> QED
    BY <1>1, Invariance, PTL

(* Only applyBatch adds runs.                                              *)
LEMMA OnlyBatchesAddRuns ==
    ASSUME [Next]_sharedVars, runs' # runs
    PROVE  \E p \in Posts : Reconciling!ApplyBatch(p)
<1>1. ~(\E c \in Calls : Approve(c)) /\ ~ProcessDies
    BY DEF Approve, ProcessDies, Reconciling!ProcessDies, reconcilingVars
<1>2. Reconciling!Proceed
    BY <1>1 DEF Next, Reconcile, sharedVars, reconcilingVars
<1>3. ASSUME NEW p \in Posts,
             \/ \E b \in published : Reconciling!PostBatch(p, b)
             \/ Reconciling!PostDuplicateRows(p)
             \/ Reconciling!FindRun(p) \/ Reconciling!FindLatest(p)
             \/ Reconciling!RefuseBatch(p) \/ Reconciling!RereadRun(p)
      PROVE  FALSE
    BY <1>3 DEF Reconciling!PostBatch, Reconciling!PostDuplicateRows, Reconciling!FindRun,
       Reconciling!FindLatest, Reconciling!RefuseBatch, Reconciling!RereadRun
<1>4. ASSUME NEW f \in Refreshes,
             \/ \E k \in Pairs : Reconciling!RefreshBalance(f, k)
             \/ Reconciling!ServeRefresh(f)
      PROVE  FALSE
    BY <1>4 DEF Reconciling!RefreshBalance, Reconciling!ServeRefresh, Reconciling!RefreshFromHcm,
       Reconciling!StampReading, Reconciling!UpsertProjection
<1>5. ~Reconciling!StatementFails /\ ~Reconciling!HcmReset
    BY DEF Reconciling!StatementFails, Reconciling!HcmReset
<1>6. ~Reconciling!HcmAdjusts /\ ~Reconciling!HcmWillFail /\ ~Reconciling!TimePasses
    BY DEF Reconciling!HcmAdjusts, Reconciling!NewEdition, Reconciling!Publish,
           Reconciling!HcmWillFail, Reconciling!TimePasses, Reconciling!serviceVars
<1> QED
    BY <1>2, <1>3, <1>4, <1>5, <1>6 DEF Reconciling!Proceed, Reconciling!Reconcile

(* A batch never replaces a later state of the HCM, approvals beside it,   *)
(* except in a row dated no later than the run whose version it carries    *)
(* (isProjectionFresherThanBatch).  Row and batch both stem from published *)
(* states; if the row's is the later one, the batch's had begun by the     *)
(* row's date, and either that date or the row's run shows it to the check.*)
THEOREM BatchesRespectApprovals == Spec => BatchNeverClobbersFresher
<1> DEFINE Respect == \A k \in Pairs :
              runs' # runs /\ asOf'[k] < asOf[k] => Reconciling!DatedByItsRun(k)
<1>1. ASSUME Inv, [Next]_sharedVars PROVE Respect
    <2> SUFFICES ASSUME NEW k \in Pairs, runs' # runs, asOf'[k] < asOf[k],
                        ~Reconciling!DatedByItsRun(k)
                 PROVE  FALSE
        OBVIOUS
    <2>1. PICK p \in Posts : Reconciling!ApplyBatch(p)
        BY <1>1, OnlyBatchesAddRuns
    <2> DEFINE b == post[p].batch
               row == projections[k]
    <2>2. b \in published /\ Reconciling!Acceptable(b)
        BY <1>1, <2>1 DEF Reconciling!ApplyBatch, Reconciling!AnswerPost, Inv, PostsOK, PostHolds
    <2>3. /\ b.edition \in Nat /\ b.effectiveAt \in Nat /\ asOf[k] \in Nat
          /\ \A s \in published : s.edition \in Nat /\ s.effectiveAt \in Nat
        BY <1>1, <2>2, RowCarries DEF Inv, HcmOK, HcmTypeOK, StatesOK
    <2>4. k \in DOMAIN b.balances /\ asOf'[k] = b.edition
        <3>1. asOf'[k] = IF k \in DOMAIN b.balances THEN b.edition ELSE asOf[k]
            BY <2>1 DEF Reconciling!ApplyBatch
        <3> QED
            BY <2>3, <3>1
    <2> HIDE DEF b
    <2>5. asOf[k] # 0
        BY <2>3, <2>4
    <2>6. /\ row \in Rows
          /\ ShownIn(published, k, asOf[k], row.availableDays, row.lastSyncedAt)
        BY <1>1, <2>5 DEF Inv, RowsOK, RowShown
    <2>8. row # NoProjection /\ row.lastSyncedAt \in Nat
        BY <2>6 DEF Rows, Versions
    <2>9. b.effectiveAt <= row.lastSyncedAt
        BY <2>2, <2>4, <2>6 DEF ShownIn
    <2>10. PICK run \in runs : /\ run.version = row.sourceVersion
                               /\ ~(row.lastSyncedAt > run.completedAt)
        <3>1. ~Reconciling!FresherThanBatch(row, b.effectiveAt)
            BY <2>2, <2>4 DEF Reconciling!Acceptable
        <3> QED
            BY <2>8, <2>9, <3>1 DEF Reconciling!FresherThanBatch, Reconciling!RunOf
    <2>11. /\ run.completedAt \in Nat
           /\ \E t \in published : t.edition = run.edition /\ t.effectiveAt = run.effectiveAt
        BY <1>1, <2>10 DEF Inv, RunsOK
    <2>12. run.edition = asOf[k]
        BY <2>8, <2>10, <2>11 DEF Reconciling!DatedByItsRun, Reconciling!RunOf
    <2>13. PICK t \in published : t.edition = asOf[k] /\ t.effectiveAt = run.effectiveAt
        BY <2>11, <2>12
    <2>14. ~(b.effectiveAt <= run.effectiveAt)
        BY <2>2, <2>10 DEF Reconciling!Acceptable, Reconciling!NotAfterLatest
    <2>15. b.effectiveAt <= t.effectiveAt
        BY <1>1, <2>2, <2>3, <2>4, <2>13 DEF Inv, HcmOK, StatesOK
    <2> QED
        BY <2>13, <2>14, <2>15
<1>2. Inv /\ [Next]_sharedVars => [Respect]_sharedVars
    BY <1>1
<1> QED
    BY <1>2, Invariance, PTL DEF Spec, BatchNeverClobbersFresher
=============================================================================
