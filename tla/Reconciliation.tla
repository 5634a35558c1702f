--------------------------- MODULE Reconciliation ---------------------------
(***************************************************************************)
(* How the balances table follows the HCM outside approvals: posting a     *)
(* batch snapshot (ReconciliationService.reconcileBatch over               *)
(* ReconciliationLifecycleRepository.applyBatch) and refreshing one pair   *)
(* (BalanceService.refreshBalance).                                        *)
(*                                                                         *)
(* A batch is a snapshot the HCM gave at some time; whoever posts it may   *)
(* be late, post it twice, or post several at once.  Each step below is    *)
(* the code between two awaits; applyBatch is one transaction, which opens *)
(* with an insert and so holds SQLite's write lock throughout.             *)
(*                                                                         *)
(* edition, asOf and the edition fields are history: they number the       *)
(* states of the HCM, and say which of them a value was read from.         *)
(***************************************************************************)
EXTENDS MockHcm, BalanceStore, FiniteSets

CONSTANTS
    Posts,              \* batch posts in flight
    Refreshes,          \* refreshes in flight
    HcmResets,          \* TRUE: the HCM resets with its process
    MaxChanges,         \* bound: changes and resets of the HCM
    MaxFaults           \* bound: failed writes, crashes, resets, failing HCM calls

ASSUME MaxChangesAssumption == MaxChanges \in Nat
ASSUME SourceVersionsAssumption == 0..MaxChanges \subseteq SourceVersions

VARIABLES
    runs,       \* reconciliation_runs; only completed ones outlive a transaction
    published,  \* every snapshot the HCM could have given so far
    post,       \* the batch post each is at: stage, batch, processedAt
    refresh,    \* the same for refreshes: stage, pair, version, reading
    edition, asOf, faults

reconVars == <<now, hcmVars, projections, runs, published, post, refresh,
               edition, asOf, faults>>
serviceVars == <<projections, runs, post, refresh, asOf>>

EditionOf(snapshot, e) == [version |-> snapshot.version,
                           effectiveAt |-> snapshot.effectiveAt,
                           balances |-> snapshot.balances,
                           edition |-> e]

PostStages == {"idle", "findRun", "findLatest", "apply", "reread"}
RefreshStages == {"idle", "getBalance", "stamp", "upsert"}

\* A snapshot of the pairs in K, and a completed run.
SnapshotOf(K) == [version: 0..MaxChanges, effectiveAt: Nat, balances: [K -> Nat], edition: Nat]
Run == [version: 0..MaxChanges, effectiveAt: Nat, completedAt: Nat, edition: Nat]
HcmReading == [availableDays: Nat, lastSyncedAt: Nat, edition: Nat]
Refreshing == [stage: RefreshStages, pair: Pairs \cup {{}},
               version: SourceVersions \cup {NoVersion}, reading: HcmReading]

\* The locals of a call that is not in flight.
NoBatch == [version |-> 0, effectiveAt |-> 0, balances |-> [k \in {} |-> 0], edition |-> 0]
NoReading == [availableDays |-> 0, lastSyncedAt |-> 0, edition |-> 0]

IdlePost == [stage |-> "idle", batch |-> NoBatch, processedAt |-> 0]
IdleRefresh == [stage |-> "idle", pair |-> {}, version |-> NoVersion, reading |-> NoReading]

Init ==
    /\ now = 0
    /\ HcmInit
    /\ projections = [k \in Pairs |-> NoProjection]
    /\ runs = {}
    /\ edition = 0
    /\ published = {EditionOf(Snapshot, 0)}
    /\ post = [p \in Posts |-> IdlePost]
    /\ refresh = [f \in Refreshes |-> IdleRefresh]
    /\ asOf = [k \in Pairs |-> 0]
    /\ faults = 0

-----------------------------------------------------------------------------
(* POST /hcm/balances/batch                                                *)

ToStage(p, from, to) ==
    /\ post[p].stage = from
    /\ post' = [post EXCEPT ![p].stage = to]

\* A summary or an error: what is answered decides nothing later.
AnswerPost(p, from) ==
    /\ post[p].stage = from
    /\ post' = [post EXCEPT ![p] = IdlePost]

PostBatch(p, b) ==
    /\ post[p].stage = "idle"
    /\ post' = [post EXCEPT ![p] = [IdlePost EXCEPT !.stage = "findRun", !.batch = b]]
    /\ UNCHANGED <<now, hcmVars, projections, runs, published, refresh, edition, asOf, faults>>

\* findDuplicateKeys: DUPLICATE_RECONCILIATION_ROW before any read.
PostDuplicateRows(p) ==
    /\ AnswerPost(p, "idle")
    /\ UNCHANGED <<now, hcmVars, projections, runs, published, refresh, edition, asOf, faults>>

RunOf(version) == {run \in runs : run.version = version}

\* findLatestCompletedRun orders by effectiveAt first, all that is compared.
NotAfterLatest(at) == \E run \in runs : at <= run.effectiveAt

\* Mutant: a batch that is not after the latest run is taken for a replay.
FindLaterRun(p) ==
    /\ \/ /\ AnswerPost(p, "findRun")
          /\ NotAfterLatest(post[p].batch.effectiveAt)
       \/ /\ ToStage(p, "findRun", "findLatest")
          /\ ~NotAfterLatest(post[p].batch.effectiveAt)
    /\ UNCHANGED <<now, hcmVars, projections, runs, published, refresh, edition, asOf, faults>>

\* A version that was applied is a replay.
FindRun(p) ==
    /\ \/ /\ AnswerPost(p, "findRun")
          /\ RunOf(post[p].batch.version) # {}
       \/ /\ ToStage(p, "findRun", "findLatest")
          /\ RunOf(post[p].batch.version) = {}
    /\ UNCHANGED <<now, hcmVars, projections, runs, published, refresh, edition, asOf, faults>>

\* STALE_SOURCE_VERSION, or on: processedAt is taken before the transaction begins.
FindLatest(p) ==
    /\ \/ /\ AnswerPost(p, "findLatest")
          /\ NotAfterLatest(post[p].batch.effectiveAt)
       \/ /\ post[p].stage = "findLatest"
          /\ ~NotAfterLatest(post[p].batch.effectiveAt)
          /\ post' = [post EXCEPT ![p].stage = "apply", ![p].processedAt = now]
    /\ UNCHANGED <<now, hcmVars, projections, runs, published, refresh, edition, asOf, faults>>

\* Mutant: a row refreshed when its run completed, or written by the run, is fresher.
FresherThanBatchLoosely(row, at) ==
    /\ row # NoProjection
    /\ at <= row.lastSyncedAt

\* Mutant: a row that some batch wrote is never fresher.
FresherThanBatchUnlessBatched(row, at) ==
    /\ row # NoProjection
    /\ at <= row.lastSyncedAt
    /\ RunOf(row.sourceVersion) = {}

\* isProjectionFresherThanBatch
FresherThanBatch(row, at) ==
    /\ row # NoProjection
    /\ at <= row.lastSyncedAt
    /\ \A run \in RunOf(row.sourceVersion) : row.lastSyncedAt > run.completedAt

\* Mutant: the transaction trusts the check made before it.
AcceptableUnchecked(batch) == RunOf(batch.version) = {}

\* What applyBatch checks inside the transaction.
Acceptable(batch) ==
    /\ RunOf(batch.version) = {}
    /\ ~NotAfterLatest(batch.effectiveAt)
    /\ \A k \in DOMAIN batch.balances : ~FresherThanBatch(projections[k], batch.effectiveAt)

\* Mutant: the run is left STARTED.
RunsWithoutCompletion(b, at) == runs

\* The run is inserted STARTED and completed by the same transaction.
RunsWith(b, at) == runs \cup {[version |-> b.version, effectiveAt |-> b.effectiveAt,
                               completedAt |-> at, edition |-> b.edition]}

ApplyBatch(p) ==
    LET b == post[p].batch
        reading(k) == [availableDays |-> b.balances[k], lastSyncedAt |-> post[p].processedAt] IN
    /\ AnswerPost(p, "apply")
    /\ Acceptable(b)
    /\ projections' = [k \in Pairs |-> IF k \in DOMAIN b.balances THEN Row(reading(k), b.version)
                                                                  ELSE projections[k]]
    /\ asOf' = [k \in Pairs |-> IF k \in DOMAIN b.balances THEN b.edition ELSE asOf[k]]
    /\ runs' = RunsWith(b, post[p].processedAt)
    /\ UNCHANGED <<now, hcmVars, published, refresh, edition, faults>>

\* The insert of the run comes first: a version seen before is a conflict;
\* anything else is STALE_SOURCE_VERSION.
RefuseBatch(p) ==
    LET b == post[p].batch IN
    /\ \/ /\ ToStage(p, "apply", "reread")
          /\ RunOf(b.version) # {}
       \/ /\ AnswerPost(p, "apply")
          /\ RunOf(b.version) = {}
          /\ ~Acceptable(b)
    /\ UNCHANGED <<now, hcmVars, projections, runs, published, refresh, edition, asOf, faults>>

\* The run that won is completed (runs are never deleted): a replay.
RereadRun(p) ==
    /\ AnswerPost(p, "reread")
    /\ RunOf(post[p].batch.version) # {}
    /\ UNCHANGED <<now, hcmVars, projections, runs, published, refresh, edition, asOf, faults>>

-----------------------------------------------------------------------------
(* POST /balances/:employeeId/:locationId/refresh                          *)

\* The balance, or an error.
AnswerRefresh(f, from) ==
    /\ refresh[f].stage = from
    /\ refresh' = [refresh EXCEPT ![f] = IdleRefresh]

\* The source version is read before the HCM is asked.
RefreshBalance(f, k) ==
    /\ refresh[f].stage = "idle"
    /\ refresh' = [refresh EXCEPT ![f] = [IdleRefresh EXCEPT !.stage = "getBalance", !.pair = k,
                                              !.version = VersionOf(projections[k])]]
    /\ UNCHANGED <<now, hcmVars, projections, runs, published, post, edition, asOf, faults>>

RefreshFromHcm(f) ==
    LET k == refresh[f].pair IN
    /\ \/ /\ refresh[f].stage = "getBalance"
          /\ GetBalanceFound(k)
          /\ refresh' = [refresh EXCEPT
                ![f].stage = "stamp",
                ![f].reading = [availableDays |-> balances[k], lastSyncedAt |-> 0,
                                edition |-> edition]]
       \/ /\ AnswerRefresh(f, "getBalance")
          /\ GetBalanceUnknown(k)
       \/ /\ AnswerRefresh(f, "getBalance")
          /\ GetBalanceUnavailable
    /\ UNCHANGED <<now, projections, runs, published, post, edition, asOf, faults>>

\* lastSyncedAt is the clock after the await, not when the HCM answered.
StampReading(f) ==
    /\ refresh[f].stage = "stamp"
    /\ refresh' = [refresh EXCEPT ![f].stage = "upsert", ![f].reading.lastSyncedAt = now]
    /\ UNCHANGED <<now, hcmVars, projections, runs, published, post, edition, asOf, faults>>

\* Mutant: a row that is in place is kept.
InsertProjection(f) ==
    LET k == refresh[f].pair
        reading == refresh[f].reading IN
    /\ AnswerRefresh(f, "upsert")
    /\ IF projections[k] # NoProjection THEN UNCHANGED <<projections, asOf>> ELSE
          /\ projections' = [projections EXCEPT ![k] = Row(reading, refresh[f].version)]
          /\ asOf' = [asOf EXCEPT ![k] = reading.edition]
    /\ UNCHANGED <<now, hcmVars, runs, published, post, edition, faults>>

UpsertProjection(f) ==
    LET k == refresh[f].pair
        reading == refresh[f].reading IN
    /\ AnswerRefresh(f, "upsert")
    /\ projections' = [projections EXCEPT ![k] = Row(reading, refresh[f].version)]
    /\ asOf' = [asOf EXCEPT ![k] = reading.edition]
    /\ UNCHANGED <<now, hcmVars, runs, published, post, edition, faults>>

-----------------------------------------------------------------------------
(* The world outside.                                                      *)

\* One call fails on the database.
StatementFails ==
    /\ faults < MaxFaults
    /\ faults' = faults + 1
    /\ \/ \E p \in Posts : /\ post[p].stage # "idle"
                           /\ AnswerPost(p, post[p].stage)
                           /\ UNCHANGED refresh
       \/ \E f \in Refreshes : /\ refresh[f].stage = "upsert"
                               /\ AnswerRefresh(f, "upsert")
                               /\ UNCHANGED post
    /\ UNCHANGED <<now, hcmVars, projections, runs, published, edition, asOf>>

\* The next state of the HCM, and the snapshot it would give.
Publish ==
    /\ edition < MaxChanges
    /\ edition' = edition + 1
    /\ published' = published \cup {EditionOf(Snapshot', edition')}

\* The process dies with all of them; the tables stay, and the HCM is reset
\* with it when it lives inside the process.
ProcessDies ==
    /\ faults < MaxFaults
    /\ faults' = faults + 1
    /\ post' = [p \in Posts |-> IdlePost]
    /\ refresh' = [f \in Refreshes |-> IdleRefresh]
    /\ IF HcmResets THEN Reset /\ Publish ELSE UNCHANGED <<hcmVars, published, edition>>
    /\ UNCHANGED <<now, projections, runs, asOf>>

NewEdition == Publish /\ UNCHANGED <<now, serviceVars>>

HcmAdjusts ==
    /\ \E k \in Pairs, delta \in Adjustments : AdjustAccepted(k, delta)
    /\ NewEdition
    /\ UNCHANGED faults

\* An HCM that resets on its own (a new seed), while calls are in flight.
HcmReset ==
    /\ HcmResets
    /\ faults < MaxFaults
    /\ faults' = faults + 1
    /\ Reset
    /\ NewEdition

HcmWillFail ==
    /\ faults < MaxFaults
    /\ faults' = faults + 1
    /\ ScheduleTransientFailure("GET_BALANCE")
    /\ UNCHANGED <<now, serviceVars, published, edition>>

TimePasses == Tick /\ UNCHANGED <<hcmVars, serviceVars, published, edition, faults>>

Reconcile(p) == FindRun(p) \/ FindLatest(p) \/ ApplyBatch(p) \/ RefuseBatch(p) \/ RereadRun(p)

ServeRefresh(f) == RefreshFromHcm(f) \/ StampReading(f) \/ UpsertProjection(f)

\* Everything but a crash.
Proceed ==
    \/ \E p \in Posts, b \in published : PostBatch(p, b)
    \/ \E p \in Posts : PostDuplicateRows(p) \/ Reconcile(p)
    \/ \E f \in Refreshes, k \in Pairs : RefreshBalance(f, k)
    \/ \E f \in Refreshes : ServeRefresh(f)
    \/ StatementFails
    \/ HcmAdjusts
    \/ HcmReset
    \/ HcmWillFail
    \/ TimePasses

Next == Proceed \/ ProcessDies

Spec == Init /\ [][Next]_reconVars

\* The event loop serves what was asked; nobody is obliged to ask.
FairSpec == /\ Spec
            /\ \A p \in Posts : WF_reconVars(Reconcile(p))
            /\ \A f \in Refreshes : WF_reconVars(ServeRefresh(f))
-----------------------------------------------------------------------------
\* The batch of the HCM's present state.
Latest == EditionOf(Snapshot, edition)

(* Every variable keeps its type, with the references that hold between    *)
(* them: a projection's source version is one that a completed run carries *)
(* (the row and the run commit together, and a refresh writes back a       *)
(* version it read), a post in flight carries a snapshot the HCM gave, and *)
(* a row shows a state the HCM has reached.                                *)
TypeOK ==
    /\ now \in Nat
    /\ HcmTypeOK
    /\ ProjectionsTypeOK
    /\ \A k \in Pairs : projections[k] # NoProjection =>
          projections[k].sourceVersion \in {run.version : run \in runs} \cup {NoVersion}
    /\ runs \subseteq Run
    /\ \A s \in published : \E K \in SUBSET Pairs : s \in SnapshotOf(K)
    /\ post \in [Posts -> [stage: PostStages, batch: published \cup {NoBatch},
                           processedAt: Nat]]
    /\ refresh \in [Refreshes -> Refreshing]
    /\ edition \in 0..MaxChanges
    /\ asOf \in [Pairs -> 0..edition]
    /\ faults \in Nat

(* Batches are applied in the order of their effectiveAt and each version  *)
(* once, also when several are posted at the same time and both passed the *)
(* checks made before the transaction (applyBatch checks again inside it). *)
BatchesInOrder ==
    [][\A new \in runs' \ runs :
          /\ \A run \in runs : run.effectiveAt < new.effectiveAt
          /\ RunOf(new.version) = {}]_reconVars

(* A batch never replaces a reading of a later state of the HCM, whatever  *)
(* refreshes, approvals and other batches did while it was on its way: TRD *)
(* 724, "avoids clobbering fresher local projections".  Two cases are      *)
(* excepted.  A row that carries the version of a run is compared with the *)
(* instant that run completed, and counts as no fresher when it is dated   *)
(* no later (isProjectionFresherThanBatch): a refresh in that millisecond, *)
(* or an approval, which is dated by the HCM, when the deduction came      *)
(* before the run and the commit after it.  And batch versions and         *)
(* instants start again when the HCM is reset.                             *)
DatedByItsRun(k) ==
    \E run \in RunOf(projections[k].sourceVersion) :
        /\ projections[k].lastSyncedAt <= run.completedAt
        /\ asOf[k] # run.edition
ResetBetween(d, e) ==
    \E s \in published : s.version = 0 /\ (d < s.edition) # (e < s.edition)
BatchNeverClobbersFresher ==
    [][\A k \in Pairs :
          runs' # runs /\ asOf'[k] < asOf[k] =>
             DatedByItsRun(k) \/ ResetBetween(asOf'[k], asOf[k])]_reconVars

(* TRD 549: a refresh "fetches the current authoritative HCM balance and   *)
(* overwrites stale local data", never data read from a later state of the *)
(* HCM.  Checked as a violation: nothing between getBalance and the upsert *)
(* looks at the row again.                                                 *)
RefreshOverwritesStaleOnly ==
    [][\A k \in Pairs : runs' = runs => asOf'[k] >= asOf[k]]_reconVars

(* A batch answered as a replay has the content that was applied: the      *)
(* version stands for it (reconcileBatch compares nothing else).  Versions *)
(* start again when the HCM is reset, and then it may not.  A post ends    *)
(* from these stages as a replay, unless a call fails.                     *)
ReplayHasSameContent ==
    [][\A p \in Posts :
          /\ post[p].stage \in {"findRun", "reread"} /\ post'[p].stage = "idle"
          /\ faults' = faults
          => \E run \in RunOf(post[p].batch.version) :
                \/ run.edition = post[p].batch.edition
                \/ ResetBetween(run.edition, post[p].batch.edition)]_reconVars

(* TRD 551, "Batch reconciliation repairs any remaining drift caused by    *)
(* independent HCM changes or partial failures": if the batch of the HCM's *)
(* final state keeps being posted, the table ends up equal to the HCM,     *)
(* after whatever batches, faults, resets and refreshes.  Three cases are  *)
(* excepted.  A final state whose version or instant was used before:      *)
(* by two changes in one millisecond (TRD 561), or by an earlier life of   *)
(* an HCM that was reset and has not changed often enough since; there the *)
(* code takes the batch for a replay or for stale, and the drift stays.  A *)
(* row refreshed after the HCM's last change, which holds that batch back. *)
(* And a refresh that answers after that batch was applied, and undoes it. *)
LatestIsNew ==
    \A s \in published : s # Latest => /\ s.version # Latest.version
                                       /\ s.effectiveAt < Latest.effectiveAt
NothingRefreshedSince ==
    /\ RunOf(batchSequence) = {}
    /\ \A k \in Pairs :
          LET row == projections[k] IN
          row # NoProjection => \/ row.lastSyncedAt < effectiveAt
                                \/ \E run \in RunOf(row.sourceVersion) :
                                      row.lastSyncedAt <= run.completedAt
InStep == \A k \in seeded : projections[k] # NoProjection /\ projections[k].availableDays = balances[k]
LatestKeepsBeingPosted ==
    []<>(\E p \in Posts : post[p].stage = "findRun" /\ post[p].batch = Latest)
NobodyRefreshes == \A f \in Refreshes : refresh[f].stage = "idle"
DriftIsRepaired ==
    /\ LatestKeepsBeingPosted
    /\ <>[]LatestIsNew
    /\ <>(NothingRefreshedSince /\ []NobodyRefreshes)
    => <>[]InStep

(* TRD 549 once more: if every pair keeps being refreshed, the table ends  *)
(* up equal to the HCM for good, whatever late batches, late answers and   *)
(* resets of the HCM did before.                                           *)
EveryPairKeepsBeingRefreshed ==
    \A k \in Pairs :
        []<>(\E f \in Refreshes : refresh[f].stage = "getBalance" /\ refresh[f].pair = k)
RefreshingRepairs == EveryPairKeepsBeingRefreshed => <>[]InStep
=============================================================================
