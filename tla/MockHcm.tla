------------------------------- MODULE MockHcm -------------------------------
(***************************************************************************)
(* MockHcmService (src/src/hcm/mock-hcm.service.ts): the human-capital     *)
(* system that owns the balances.  A call is synchronous, so each outcome  *)
(* of each operation is one atomic action.  Actions that answer without    *)
(* changing anything leave hcmVars unchanged; the caller conjoins what it  *)
(* does with the answer.                                                   *)
(***************************************************************************)
EXTENDS Domain

CONSTANTS
    SeedDays,       \* day counts a seed may give a pair
    Adjustments     \* deltas of adjustBalance

ASSUME SeedDaysAssumption == SeedDays \subseteq Nat
ASSUME AdjustmentsAssumption == Adjustments \subseteq Int \ {0}

VARIABLES
    seeded,             \* keys of the balances map
    balances,           \* its values (0 for a pair that is not a key)
    processedRequests,  \* accepted submissions; in the code a map by ext
    transientFailures,  \* failures still queued for each operation
    batchSequence,      \* sourceVersion is a rendering of it
    effectiveAt,        \* when the current batch version was made
    transactions        \* how many transaction ids randomUUID has given out

hcmVars == <<seeded, balances, processedRequests, transientFailures,
             batchSequence, effectiveAt, transactions>>

Operations == {"GET_BALANCE", "SUBMIT_TIME_OFF", "ADJUST_BALANCE",
               "GET_BATCH_SNAPSHOT"}

\* The stored fingerprint is <<pair, days>>; the rest is the result.
Submission == [ext: Requests, pair: Pairs, days: Nat, txn: Nat,
               remaining: Nat, processedAt: Nat]

HcmTypeOK ==
    /\ seeded \subseteq Pairs
    /\ balances \in [Pairs -> Nat]
    /\ processedRequests \subseteq Submission
    /\ transientFailures \in [Operations -> Nat]
    /\ batchSequence \in Nat
    /\ effectiveAt \in Nat
    /\ transactions \in Nat

\* A seed gives some pairs a balance; the others are unknown to the HCM.
Seeds == UNION {[K -> SeedDays] : K \in SUBSET Pairs}

SeedBalances(seed) == [k \in Pairs |-> IF k \in DOMAIN seed THEN seed[k] ELSE 0]

HcmInit ==
    /\ \E seed \in Seeds : seeded = DOMAIN seed /\ balances = SeedBalances(seed)
    /\ processedRequests = {}
    /\ transientFailures = [op \in Operations |-> 0]
    /\ batchSequence = 0
    /\ effectiveAt = 0
    /\ transactions = 0

\* reset: new seed, empty history.  Transaction ids stay unique: they are UUIDs.
\* A seed may name the version and instant to start from too; only tests pass
\* them, and left out they are those of the first start.
Reset ==
    /\ \E seed \in Seeds : seeded' = DOMAIN seed /\ balances' = SeedBalances(seed)
    /\ processedRequests' = {}
    /\ transientFailures' = [op \in Operations |-> 0]
    /\ batchSequence' = 0
    /\ effectiveAt' = 0
    /\ UNCHANGED transactions

ScheduleTransientFailure(op) ==
    /\ transientFailures' = [transientFailures EXCEPT ![op] = @ + 1]
    /\ UNCHANGED <<seeded, balances, processedRequests, batchSequence,
                   effectiveAt, transactions>>

FailureQueued(op) == transientFailures[op] > 0

\* consumeTransientFailure throws HCM_UNAVAILABLE before anything is touched.
ConsumeTransientFailure(op) ==
    /\ FailureQueued(op)
    /\ transientFailures' = [transientFailures EXCEPT ![op] = @ - 1]
    /\ UNCHANGED <<seeded, balances, processedRequests, batchSequence,
                   effectiveAt, transactions>>

AdvanceBatchVersion(at) ==
    /\ batchSequence' = batchSequence + 1
    /\ effectiveAt' = at

-----------------------------------------------------------------------------
(* getBalance: the value answered by GetBalanceFound is balances[k].       *)

GetBalanceUnavailable == ConsumeTransientFailure("GET_BALANCE")

GetBalanceUnknown(k) ==
    /\ ~FailureQueued("GET_BALANCE")
    /\ k \notin seeded
    /\ UNCHANGED hcmVars

GetBalanceFound(k) ==
    /\ ~FailureQueued("GET_BALANCE")
    /\ k \in seeded
    /\ UNCHANGED hcmVars

-----------------------------------------------------------------------------
(* submitTimeOff: the replay check comes before the transient failure, so  *)
(* a known external request id is answered even while failures are queued. *)
(* An accepted call reads the clock twice, for processedAt and then for    *)
(* the new batch version, so it may begin in one millisecond and end in    *)
(* the next; every other outcome leaves the clock to the caller.           *)

Processed(ext) == {s \in processedRequests : s.ext = ext}

SameFingerprint(s, k, d) == s.pair = k /\ s.days = d

\* Mutant: the payload, not the external request id, identifies a retry.
SubmitReplayedByPayload(s, ext, k, d) ==
    /\ s \in processedRequests
    /\ SameFingerprint(s, k, d)
    /\ UNCHANGED hcmVars

SubmitReplayed(s, ext, k, d) ==
    /\ s \in Processed(ext)
    /\ SameFingerprint(s, k, d)
    /\ UNCHANGED hcmVars

SubmitConflict(ext, k, d) ==
    /\ \E s \in Processed(ext) : ~SameFingerprint(s, k, d)
    /\ UNCHANGED hcmVars

\* Mutant: the transient failure is consumed before the replay check.
SubmitUnavailableFirst(ext) == ConsumeTransientFailure("SUBMIT_TIME_OFF")

SubmitUnavailable(ext) ==
    /\ Processed(ext) = {}
    /\ ConsumeTransientFailure("SUBMIT_TIME_OFF")

\* Mutant: no replay check.
NewSubmissionUnchecked(ext) == ~FailureQueued("SUBMIT_TIME_OFF")

NewSubmission(ext) ==
    /\ Processed(ext) = {}
    /\ ~FailureQueued("SUBMIT_TIME_OFF")

SubmitUnknown(ext, k) ==
    /\ NewSubmission(ext)
    /\ k \notin seeded
    /\ UNCHANGED hcmVars

SubmitInsufficient(ext, k, d) ==
    /\ NewSubmission(ext)
    /\ k \in seeded
    /\ balances[k] < d
    /\ UNCHANGED hcmVars

\* What the service stores and answers for an accepted submission.
Accepted(ext, k, d) ==
    [ext |-> ext, pair |-> k, days |-> d, txn |-> transactions + 1,
     remaining |-> balances[k] - d, processedAt |-> now]

\* Mutant: the balance is not compared with the days.
SubmitAcceptedUncovered(ext, k, d) ==
    /\ NewSubmission(ext)
    /\ k \in seeded
    /\ transactions' = transactions + 1
    /\ balances' = [balances EXCEPT ![k] = @ - d]
    /\ processedRequests' = processedRequests \cup {Accepted(ext, k, d)}
    /\ MayTick
    /\ AdvanceBatchVersion(now')
    /\ UNCHANGED <<seeded, transientFailures>>

\* Mutant: the deduction is not recorded under its external request id.
SubmitAcceptedUnrecorded(ext, k, d) ==
    /\ NewSubmission(ext)
    /\ k \in seeded
    /\ balances[k] >= d
    /\ transactions' = transactions + 1
    /\ balances' = [balances EXCEPT ![k] = @ - d]
    /\ MayTick
    /\ AdvanceBatchVersion(now')
    /\ UNCHANGED <<seeded, processedRequests, transientFailures>>

SubmitAccepted(ext, k, d) ==
    /\ NewSubmission(ext)
    /\ k \in seeded
    /\ balances[k] >= d
    /\ transactions' = transactions + 1
    /\ balances' = [balances EXCEPT ![k] = @ - d]
    /\ processedRequests' = processedRequests \cup {Accepted(ext, k, d)}
    /\ MayTick
    /\ AdvanceBatchVersion(now')
    /\ UNCHANGED <<seeded, transientFailures>>

-----------------------------------------------------------------------------
(* adjustBalance: HCM-side changes ReadyOn is not told about.              *)

AdjustUnavailable == ConsumeTransientFailure("ADJUST_BALANCE")

AdjustUnknown(k) ==
    /\ ~FailureQueued("ADJUST_BALANCE")
    /\ k \notin seeded
    /\ UNCHANGED hcmVars

AdjustInsufficient(k, delta) ==
    /\ ~FailureQueued("ADJUST_BALANCE")
    /\ k \in seeded
    /\ balances[k] + delta < 0
    /\ UNCHANGED hcmVars

\* Mutant: the batch version is not advanced.
AdjustAcceptedSameVersion(k, delta) ==
    /\ ~FailureQueued("ADJUST_BALANCE")
    /\ k \in seeded
    /\ balances[k] + delta >= 0
    /\ balances' = [balances EXCEPT ![k] = @ + delta]
    /\ UNCHANGED <<seeded, processedRequests, transientFailures, batchSequence,
                   effectiveAt, transactions>>

AdjustAccepted(k, delta) ==
    /\ ~FailureQueued("ADJUST_BALANCE")
    /\ k \in seeded
    /\ balances[k] + delta >= 0
    /\ balances' = [balances EXCEPT ![k] = @ + delta]
    /\ AdvanceBatchVersion(now)
    /\ UNCHANGED <<seeded, processedRequests, transientFailures, transactions>>

-----------------------------------------------------------------------------
(* getBatchSnapshot: a version, its instant and every seeded balance.      *)

Snapshot == [version |-> batchSequence, effectiveAt |-> effectiveAt,
             balances |-> [k \in seeded |-> balances[k]]]

SnapshotUnavailable == ConsumeTransientFailure("GET_BATCH_SNAPSHOT")

SnapshotTaken ==
    /\ ~FailureQueued("GET_BATCH_SNAPSHOT")
    /\ UNCHANGED hcmVars
=============================================================================
