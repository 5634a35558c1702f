# ReadyOn in TLA+

A model of the ReadyOn time-off service (`src/src`), of the human-capital
system it deducts from, and of the approval lock between them; what TLC checks
of it and what TLAPS proves of it.  All source paths below are relative to
`src/src/`.

## 1. The system

ReadyOn is a NestJS service over one SQLite database.  Employees ask for days
off, managers approve or reject; the human-capital system (HCM) owns the
balances and ReadyOn keeps a projection of them.

| Component | State it keeps | Operations | Talks to |
| --- | --- | --- | --- |
| `MockHcmService` (`hcm/mock-hcm.service.ts`) | balances, processed external request ids, queued failures, batch version and its instant; in memory, gone with the process | `reset`, `scheduleTransientFailure`, `getBalance`, `submitTimeOff`, `adjustBalance`, `getBatchSnapshot` | none |
| `HcmBalanceClient`, `HcmTimeOffClient` (`hcm/`) | none | the two calls ReadyOn makes, with error codes translated | the HCM |
| `ApprovalConcurrencyGate` (`time-off/approval-concurrency-gate.ts`) | `tails`: the last promise of each employee/location pair; in memory | `runExclusive` | none |
| `TimeOffRequestService` (`time-off/time-off-request.service.ts`) | none beyond the locals of calls in flight | create, read, approve, reject | gate, HCM clients, repositories |
| `TimeOffRequestRepository`, `HcmTransactionAuditRepository`, `TimeOffRequestLifecycleRepository` (`persistence/`) | tables `time_off_requests`, `hcm_transaction_audits`, and `balances` through the last | conditional updates, unique inserts, one transaction that closes request, audit and projection together | SQLite |
| `BalanceService`, `BalanceRepository` | table `balances` | read, refresh from the HCM | HCM, SQLite |
| `ReconciliationService` and its two repositories | table `reconciliation_runs` | apply a batch snapshot of the HCM to `balances` | SQLite |
| `DatabaseService`, controllers, DTOs, filters, telemetry, health, runtime environment | none of the core's | wiring | |

Where it is hard:

* JavaScript runs one continuation at a time, so code between two `await`s is
  atomic and everything else interleaves: two approvals, an approval and a
  rejection, an approval and a change in the HCM.
* An approval is a distributed commit without a coordinator: the deduction
  happens in the HCM, the commit in SQLite, and either the answer, the commit
  or the process may be lost between them.
* The gate is a lock made of promises, per process, that must survive work
  that throws.
* Retries are the only recovery.  They lean on the HCM remembering external
  request ids, on the unique index of the audits, and on updates conditional on
  `status = 'PENDING'`.
* Projections have three writers (approval, refresh, reconciliation) with
  different notions of freshness.

What makes each part correct, and the line where it could go wrong, is the
`hazards` list of `PROJECT.json`.

## 2. Modules

| Module | Models | Extends / uses |
| --- | --- | --- |
| `Domain` | pairs, requests, the wall clock | |
| `MockHcm` | `MockHcmService`: each outcome of each operation is an action | `Domain` |
| `HcmClients` | the HCM behind its clients, with histories of grants and snapshots | `MockHcm` |
| `KeyedMutex` | what the gate promises: a first-come first-served lock per key | |
| `ApprovalGate` | the gate's promise chain; refines `KeyedMutex` | `KeyedMutex` |
| `BalanceStore` | the `balances` table | `Domain` |
| `TimeOffStore` | the tables an approval touches and their writes | `BalanceStore` |
| `RequestLifecycle` | what the service promises of a request | |
| `TimeOffApproval` | approve and reject, await by await, over HCM, store and gate; refines `RequestLifecycle` | `MockHcm`, `TimeOffStore`, `KeyedMutex`, `RequestLifecycle` |
| `IdempotentLedger` | what creating requests promises | |
| `CreateRequest` | `createRequest`, await by await; refines `IdempotentLedger` | `IdempotentLedger` |
| `Reconciliation` | batch reconciliation and refresh over the `balances` table, beside a changing HCM | `MockHcm`, `BalanceStore` |
| `SharedBalances` | the whole service over one `balances` table: composes the two above | `TimeOffApproval`, `Reconciliation` |
| `MockHcmProofs`, `HcmClientsProofs`, `ApprovalGateProofs`, `TimeOffApprovalProofs`, `GatedApprovalProofs`, `CreateRequestProofs`, `ReconciliationProofs`, `SharedBalancesProofs` | theorems | `TLAPS` |
| `MC*` | instances for TLC | |

Operators whose comment begins with "Mutant:" are variants of the operator that
follows, each with a plausible mistake in it; no specification uses them.

### How state and actions correspond to the code

* A **pair** is the `employeeId::locationId` key.  A **request id** is a model
  value and is also the external request id, as in `approveRequestWithinGate`.
* `MockHcm`: `seeded` and `balances` are the `balances` Map; `processedRequests`
  is the Map of the same name, as a set of records with the external id as a
  field; `transactions` counts the UUIDs given out, so a transaction id is a
  number and 0 stands for null.  A refused call is an action that changes
  nothing or consumes one queued failure.  `submitTimeOff` reads the clock twice, for
  `processedAt` (line 116) and for the new batch version (line 193), so an accepted
  submission may tick in between (`MayTick`) and date its answer a millisecond before
  the state it makes.
* `ApprovalGate`: one action per piece of `runExclusive` between awaits, plus
  `TailSettles`, the microtask in which a promise settles its dependants.
* `TimeOffStore`: a conditional `updateMany` that matches no row is a disabled
  action; the caller has its own disjunct for `count === 0`.
* `TimeOffApproval`: `pc[c]` names the await a call is about to pass.  Each
  step is the code up to the next `await`; a rejection decided in `CheckBalance`
  is persisted in a later step, so anything may come between.  `submission[c]`
  and `rejection[c]` are the locals that live across an await.  The balance read
  after a refused deduction is dated when its await is over (`StampBalance`), not when
  the HCM answered.  A manager's rejection may be committed and still answer an error,
  when the read after the update fails (`PersistenceFails`).
  `ApproveRequest` joins the gate's queue, `EnterGate` is the end of
  `await previousTail`, and `RespondAndLeave` is the `finally` block.
* The service may have several instances over one database and one HCM, each
  with its own gate.  The shipped deployment has one; the two-instance run
  shows what does not depend on that.
* `SubmitConflict` cannot happen inside `TimeOffApproval`: nothing changes what
  a request asks for.  `HcmClients` exercises it.
* `CreateRequest`: a call is one `POST`; `order[c]` is its body, and the payload
  stands for its hash.  `rows` is the table, a row being named after the call that
  inserted it.  `CreatePending` inserts or loses to the partial unique index on the
  key; the loser's `RereadKey` is the second `findByIdempotencyKey`.  An insert and
  its answer are separate steps, so an answer can be lost.  `since[c]` is history:
  the rows there were when the call began.
* `Reconciliation`: `published` holds every snapshot the HCM could have given;
  `PostBatch` posts any of them at any time, so batches arrive late, twice and
  together.  `FindRun` and `FindLatest` are the reads before the transaction,
  `ApplyBatch` and `RefuseBatch` the outcomes of `applyBatch`, `RereadRun` the read
  after a duplicate version.  A refresh reads the row's version, asks the HCM
  (`RefreshFromHcm`), takes the clock (`StampReading`) and upserts
  (`UpsertProjection`).  `HcmAdjusts` and `HcmReset` change the HCM and publish the next
  snapshot (`NewEdition`); a reset is counted with the faults.  When the process dies the
  mock HCM is reset with it (`ProcessDies`).  `edition`, `asOf` and the `edition` fields are history: they
  say from which state of the HCM a stored value was read.
* In `Reconciliation` a batch's `effectiveAt` and version are the HCM's own, and
  a batch holds every pair the HCM knows; a batch with a pair twice is refused
  (`PostDuplicateRows`).
* `SharedBalances` instantiates `TimeOffApproval` and `Reconciliation` over the same
  HCM and table.  A step is a step of one of them, except a crash, which is one of
  both (`ProcessDies`).  The HCM keeps its record, so its batch sequence numbers its
  states and takes the place of `edition`.  `Noted` keeps the history of an approval's
  step: `deductedAt[r]` is the state a deduction made, `readAt[c]` the one a call read
  that is about to persist a refusal, `asOf[k]` the one a row shows.  One process serves
  every call (`OneProcessAssumption`), as the service is shipped.

Simplifications: in `CheckBalance` `checkedAt` is the instant of the HCM's answer (it is
taken before the await, and the client is synchronous up to the mock); a reset starts
from the version and instant of the first start (a seed may name others,
`hcm/mock-hcm.service.ts:61`, but only tests do); messages, details and
timestamps that nothing compares are left out; inputs are well formed (the DTOs
validate them); a database failure rolls back and reports, or the process dies.

## 3. Runs

| Run | Question | What TLC finds |
| --- | --- | --- |
| `hcm_clients` | are days conserved and retries recognised in the HCM? | `BalanceIsConserved`, `VersionNamesContent`, `AcceptedStaysAccepted` hold over queued failures, adjustments, resets and replays |
| `gate` | is the promise chain a lock? | `TailIsLastPending`, `OldestWorksAlone`, `ImplementsMutex`, `EveryoneGetsTheirTurn` hold for four callers and two keys, each free to throw |
| `approval` | approvals and rejections of two requests, one instance, one fault, HCM changes | the safety invariants hold, the lines of the gate among them (`LinesAreCallsInFlight`); the protocol implements `RequestLifecycle`; until something fails no refused request was charged (`RefusedNotDeducted`) |
| `two_instances` | what is left when the gates do not exclude each other and the HCM may forget? | `DeductedOnce`, `AuditMatchesRequest`, `AuditOpenAtOutcome`, `DeductionHasAudit`, `AnswersAreTrue`, `FinalIsFinal` |
| `converges` | do calls end, and do retries recover a lost commit? | both, where the balance left covers the request; and until a commit is lost projections only move forward (`ProjectionNeverOlder`) |
| `reconciliation` | are batches applied in order, never over a later reading? is a replay a replay? does the table come back to the HCM? | yes, with named exceptions, section 5; by the batch of the HCM's final state, if its version and instant are new and nobody refreshed after the HCM's last change (`DriftIsRepaired`), or by refreshes that keep coming, whatever late batches and answers did before (`RefreshingRepairs`) |
| `create` | one request per key, conflicts and replays told truly? | yes; creation implements `IdempotentLedger` |
| `shared_balances` | approvals, a rejection, a batch and a refresh over one table, one fault | every row is a balance the HCM gave, dated when all earlier states had begun (`RowsAreReadings`); batches respect later states, except for a row dated by its run (section 5) |
| `lost_commit`, `reject_race`, `refresh_race`, `hidden_deduction` | | expected violations, section 5 |

Bounds.  Two approval calls, because every race in that code is between two; a
third only queues behind the gate, and `gate` has four.  Two requests of one or
two days on one pair with a seed of two: the smallest numbers with both a request
that is covered and one that is not once the other is deducted.  One fault
(`MaxFaults`), two to exercise a fault during the recovery in `converges`.
`MaxFailures` 1 per operation: the code treats each failure alike.
`MaxBatchSequence`, `MaxChanges` and `SourceVersions` bound HCM-side changes, `MaxTime`
the clock: with two instants an event falls before, at or after another, and
`hidden_deduction` has four because it needs four events in order.  Creation has three
calls: a first, its duplicate and a conflicting one.  In `reconciliation` two posts
and one refresh, which can be used again when they are done, two HCM changes, and one
fault, which may be the reset of the HCM that makes versions start again.  In
`shared_balances` one call, one post and one refresh meet in one row: the races inside
each part are the other runs' business.  `refresh_race` has two
refreshes.  `CallSymmetry` is used for safety only.

Every specification may stop (clients need not ask), so the runs do not check
deadlock; that nothing gets stuck is what `EveryCallIsAnswered`,
`EveryoneGetsTheirTurn` and `DriftIsRepaired` say.

Fairness.  `FairSpec` of `TimeOffApproval` has weak fairness on each call's own
steps (the event loop runs every ready continuation; the gate grants in order) and
none on clients, faults or HCM changes.  `ApprovalGate` assumes in addition that the
work inside the gate ends, which `EveryCallIsAnswered` shows of the real work.
`FairSpec` of `Reconciliation` is the same for posts and refreshes.  What clients
must do is a premise of the property, never fairness: `DeductionConverges` asks that
the approval keeps being retried, `DriftIsRepaired` that the batch of the HCM's
present state keeps being posted (`LatestKeepsBeingPosted`), that its version and
instant are in the end new (`LatestIsNew`), and that at some time the HCM's last batch
is not applied yet, no row was refreshed since that change and no refresh is or comes
under way (`NothingRefreshedSince`, `NobodyRefreshes`); earlier refreshes, faults and
resets are all allowed.  `RefreshingRepairs` asks that every pair keeps being refreshed.

## 4. Proofs

All theorems hold for any sets of calls, instances, pairs, requests and keys and any
bounds, under the named assumptions on the constants.

**The HCM** (`HcmClientsProofs`).  Every change of a balance advances the version, so a
snapshot that carries the present version is the present one (`SnapshotsAreBehind`);
with the order of the instants this gives `VersionsNameContent`.  No external request
id is on record twice (`OneRecordEach`), and `AnsweredFromRecord` says that the last
answer to a submission on record is the recorded one: an order of checks in which a
queued failure or the balance came before the record would break it.  As a record
lasts until a reset (`RecordLasts`), `RepeatsAreAnsweredAlike` follows.

`DaysAreConserved` is about a sum over a set.  The law it needs, that one more record
adds its days to the sum (`DaysOfRemoved`), does not depend on the order in which the
sum takes the records; instead of an induction, whose library theorem takes an
operator, its proof takes a smallest set for which the law fails and finds a smaller one
(`WFMin` over the strict subsets of a finite set).  The invariant `Books` then balances
pair by pair: only a *new* record takes days from a balance, which is what
`OneRecordEach` gives.  Assumed: requests ask for a positive number of days.

**The gate** (`ApprovalGateProofs`).  The history `line[k]` is who asked for a key and is
not done.  Within a line each invocation awaits the one before it (`Chained`), a tail
settles only after its owner is done (`SettledAreDone`), and who is done is in no line
(`LinesOK`); so only the head of a line can enter (`OldestIsAlone`) and `GateIsMutex`
follows.  `MapHoldsLastTail` is what keeps a newcomer's link to the last of the line.

**Approval, types and gate** (`TimeOffApprovalProofs`).

* `TypeCorrect`: `TypeOK` is inductive; lemmas per component (`AcceptedTyping`,
  `FinalizeTyping`, `RespondAndLeaveTyping`...), then one case per action.  Its
  content is that no balance is ever negative, no call is lost in an unknown step, and
  no request, audit, record or call carries a transaction id the HCM has not given out
  (`TransactionsGiven`).
* `GateExcludes` (`OneApprovalPerPair`): a call past the gate is the head of its
  queue.  `ServeMoves` reduces every service step to entering, staying inside,
  leaving or never having been inside; `RequestsFixed` says that a call's gate key
  does not move.
* `LinesHoldTheLiving` (`LinesAreCallsInFlight`): joining appends a call that was in no
  line, leaving removes the first and only entry of its caller, a crash empties the
  lines of one instance with its calls.  This is the safety half of
  `EveryCallIsAnswered`: what keeps a call waiting is always another call in flight.

**Approval, outcomes** (`TimeOffApprovalProofs`, second part).  `StoreMoves`, `HcmMoves`,
`SubmissionMoves` and `RejectionMoves` say what a step may do to the tables, the HCM's
record and the two locals that live across awaits.  The properties are not inductive:
whether finalizing is right depends on what the call holds.  The invariant `Inv` adds

* `Backed(c)`: a submission a call holds has a positive transaction and, unless the
  HCM may reset, is on the HCM's record of that very request;
* `ClosesWithCode(c)`: a refusal that will close the audit has a code;
* `TransactionsAreKnown`: ids on the record were given out.

From it follow `RequestsDeductedOnce`, `AuditsMatchRequests` and `FinalRequestsStay`
(with resets and several instances); and, for an HCM that keeps its record
(`~HcmResets`), `ApprovalsWereDeducted` and the refinement `ApprovalIsLifecycle`.  With
resets the last two are false, and rightly: the record itself is gone.  `DeductionsHaveAudits` rests on `AuditedAtSubmit` (who is about to submit has seen or
made the audit row) and `AnswersStayTrue` on `DecidedStays` and `DecidedAtNoop` (a
finalization that changed nothing found the request decided, so the final
`INVALID_REQUEST_STATE` is never said of a pending request).  `AuditsAreOpenAtOutcome`
follows the audit row from the submission to the write that closes it
(`AuditedAtOutcome`): it is there, and by `AuditMatchesRequest` a closed one does not
belong to a pending request, so the exception in `finalizeApprovalOutcome` for an audit
that is not open is never thrown.  Nothing in this argument
uses the gate: what makes it true is the conditional update in one transaction and the
HCM's memory of external ids.

**Approval, what needs the gate** (`GatedApprovalProofs`, with one instance: `OneHome`).
Past the gate a pair has one call (`GateKeepsOut`), so what a call has seen there stays
so until it acts.  `GateInv`: the audit is open when a call submits (`OpenAtSubmit`) and
a refusal that closes it finds nothing deducted (`UnchargedRefusal`); with it
`FailedAuditsAreRight`, through every fault.  `CalmInv`, until something fails: a request
that is deducted and still pending is being finalized (`Charging`), hence a call that
finds it pending behind the gate decides about a request that is not deducted
(`Uncharged`); with it `RefusalsAreUncharged`.  `FreshInv` adds that what a call holds is
not older than the row it will replace (`Fresher`): the HCM then never answers from its
record (`EntersHolding`), which is what `ProjectionsMoveForward` needs.  With two
instances TLC finds `FailedAuditNotDeducted` and `RefusedNotDeducted` violated: the gate
is per process.

**Creation** (`CreateRequestProofs`).  The invariant says that rows under one key are
one row, that a row is the order of the call it is named after, and that what a call
was told of is stored and answers its order; and (`RetriesStopAtLookup`) that a call
that began after its own order was stored gets no further than the lookup of its key,
which is why a retry never meets the balance.  `SameKey`, `ConflictsAreTrue`, `RetriesAreReplayed` and
the refinement `CreationIsLedger` follow.

**Reconciliation** (`ReconciliationProofs`).  applyBatch compares instants; the
properties are about states of the HCM.  The invariant `Inv` ties the two together:

* `Ordered`, `VersionsDiffer`, `VersionsBehind`: within one life of the HCM a later
  state has no earlier instant and another version, and the next version is new;
* `RunsArePublished`, `Rows`, `PostsInFlight`, `RefreshesInFlight`: every run, row,
  batch in flight and reading in flight stems from a published state that had begun at
  the instant it is dated, and carries the version of a run.

It holds with resets, crashes and failed writes; `NextInv` has one lemma for posts, one
for refreshes and one for the rest.  `TablesAreTyped` (all eleven variables, and the
references between them) and `BatchesApplyInOrder` follow.
For `BatchesRespectLaterStates` suppose a batch is applied over a row that shows a later
state: by `Ordered` that state is not before the batch, by `Rows` the row is dated no
earlier than it began, so `FresherThanBatch` let the row go only because its run
completed later, which is the exception the property names (a row that still shows its
run's own state is no such case: runs are applied in order, so that state is not later).  `ReplaysAreReplays` is
`VersionsDiffer` for the run that was found and the batch in hand.

**The shared table** (`SharedBalancesProofs`, for one process).  `ShownIn(P, k, e, days,
at)` says that the state in `P` numbered `e` gave pair `k` these days and that by `at`
every state before it had begun.  Not that it had begun itself: the HCM dates a deduction
before the version it makes.
The invariant `Inv` follows such an answer on its way to the table:

* `RecordShown`: every submission on record shows the state its deduction made, also
  for a retry that is answered from the record long after;
* `CallsOK`: a call about to store a confirmed deduction holds it from the record of its
  own request, and one about to store a refusal holds the balance of the state it read;
* `PostsOK`, `RunsOK`, `RefreshesOK`: a batch in flight is a published state, a run
  stems from one, and a refresh holds an answer dated after all states before the one it
  read began;
* `RowsOK`: hence every row shows a state.

Later states join the published ones (`Extends`) and time passes, so what was shown stays
shown (`ShownStays`, `ShownLater`); `CallStep` names the kinds of step a call can make.
The proof is then one lemma per actor (`CallKeepsInv`, `PostKeepsInv`, `RefreshKeepsInv`,
`WorldKeepsInv`, `DeathKeepsInv`).  `RowsShowReadings` is `RowsOK`; `BatchesRespectApprovals` is the argument of `BatchesRespectLaterStates`
with rows that approvals wrote: the batch's state is before the row's, so it had begun by
the row's date, which is all the argument needs.  The HCM keeps its record here, so no reset has to be
excepted.  Assumed: one process, a request to ask about, positive days, and
`NoRowAssumption`, that the absence of a row is not a row.

Left to TLC: liveness (`EveryCallIsAnswered`, `DeductionConverges`,
`EveryoneGetsTheirTurn`, `DriftIsRepaired`, `RefreshingRepairs`), which is out of reach
of the installed provers.  Every invariant and every action property of a passing run is
stated by a theorem.

## 5. Disagreements and known behaviours

Disagreements, each with a run that shows it:

* **Lost commit** (`lost_commit`): `docs/TRD.md:581` promises that a retry converges.
  The retry first checks the balance from which the days are already gone
  (`time-off-request.service.ts:162`), and rejects when the rest is too small.
* **Rejection race** (`reject_race`): `rejectRequest` is not gated
  (`time-off-request.service.ts:311`); it can commit between the deduction and the
  commit of an approval.  The request ends REJECTED and charged.
* **Refresh race** (`refresh_race`): `docs/TRD.md:549` says a refresh overwrites stale
  data.  Of two refreshes of a pair, the one that asked first may write last
  (`time-off/balance.service.ts:51`): older data over newer.
* **Hidden deduction** (`hidden_deduction`): `docs/TRD.md:724` has reconciliation avoid
  clobbering fresher projections.  An approval writes its row under the source version
  in place but dates it by the HCM; deducted before a run completed and stored after
  it, the row is not later than "its" run and counts as not fresher
  (`persistence/reconciliation-lifecycle.repository.ts:317`), so a batch made before the
  deduction overwrites it.

Behaviours met while modelling that no run is devoted to:

* A batch is refused as a whole when one row was refreshed at or after the batch's
  `effectiveAt` (`persistence/reconciliation-lifecycle.repository.ts:147`).  The other rows
  then stay as they are until the HCM changes again, although `docs/TRD.md:551` has
  batches repair drift.  `DriftIsRepaired` therefore excepts a row refreshed after the
  HCM's last change.
* Batch versions and instants start again when the HCM restarts, which in the shipped
  process is whenever ReadyOn restarts (`hcm/mock-hcm.service.ts:60`).  A new snapshot may
  then be taken for a replay (`reconciliation/reconciliation.service.ts:47`) or for stale:
  a `mock_batch_0000` with other balances than the one applied before the restart changes
  nothing, and the drift stays until the HCM has changed often enough to reach a version
  and an instant of its own, although `docs/TRD.md:551` has batches repair drift.
  `DriftIsRepaired` claims repair after a reset only then (`LatestIsNew`),
  `ReplayHasSameContent` is checked within one life of the HCM, and
  `BatchNeverClobbersFresher` excepts a batch older than a reset.  `DeductedOnce` too
  speaks of one life: a retry after a reset is deducted again.
* A row refreshed in the very millisecond in which the run it came from completed does
  not count as refreshed either (`:317` compares with `>`).  `BatchNeverClobbersFresher`
  excepts both cases (`DatedByItsRun`).
* A refresh that asked before a batch and writes after it undoes the batch; posting that
  batch again is a replay and changes nothing.  Only another refresh or a further change
  of the HCM repairs the row.
* A retry after a lost commit stores what the HCM answered at first, with that date
  (`time-off-request.service.ts:229`), even over a row refreshed since:
  `ProjectionNeverOlder` is claimed until something fails.
* A request rejected after a lost commit keeps its audit STARTED for ever
  (`time-off-request.service.ts:162`).  `DeductionHasAudit` and `FailedAuditNotDeducted`
  make that the mark of a rejection that may have been charged.
* Of two identical creations at once, one can be refused with `INSUFFICIENT_BALANCE`
  while the other's request is stored: the key is looked up before the balance is read
  and not again (`time-off-request.service.ts:72`, against `docs/TRD.md:574`).

## 6. Plan

Composing creation with approval: `TimeOffApproval` starts from requests that are
there, and a request is not changed by creation once stored.

Not modelled, and why: `DatabaseService`, controllers, DTOs, exception filters,
telemetry, health and the application modules keep no state of the core and only
move data; `HcmTransactionAuditRepository.markCompleted` and
`ReconciliationRunRepository.startRun`/`completeRun`/`findLatestRun` are called by no
service.  Left out of modelled components: reads that change nothing (`getRequest`,
`getBalance` of `BalanceService`).
