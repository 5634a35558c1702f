----------------------------- MODULE HcmClients -----------------------------
(***************************************************************************)
(* The HCM as its callers see it: HcmBalanceClient and HcmTimeOffClient    *)
(* (src/src/hcm/hcm-*.client.ts), which turn the codes of MockHcmError     *)
(* into the codes ReadyOn acts on, and the HCM-side calls of the mock HCM  *)
(* controller.  reply is the last answer given; granted and snapshots are  *)
(* histories: what each pair was ever granted, and the batch snapshots     *)
(* handed out, both since the last reset.                                  *)
(***************************************************************************)
EXTENDS MockHcm, FiniteSetsExt

CONSTANTS
    RequestDays,        \* day counts submitted
    MaxBatchSequence,   \* bound on balance changes between resets
    MaxFailures,        \* bound on queued failures per operation
    MaxTransactions     \* bound on deductions over all resets

\* ensurePositiveInteger refuses anything else before it is looked at.
ASSUME RequestDaysAssumption == RequestDays \subseteq Nat \ {0}

VARIABLES reply, granted, snapshots

clientVars == <<now, hcmVars, reply, granted, snapshots>>

\* What a client makes of a MockHcmError.
BalanceClientCode(mockCode) ==
    IF mockCode = "INVALID_EMPLOYEE_LOCATION" THEN mockCode ELSE "HCM_UNAVAILABLE"

TimeOffClientCode(mockCode) ==
    CASE mockCode \in {"INVALID_EMPLOYEE_LOCATION", "INSUFFICIENT_BALANCE"} -> mockCode
      [] mockCode = "IDEMPOTENCY_KEY_CONFLICT" -> "HCM_IDEMPOTENCY_CONFLICT"
      [] OTHER -> "HCM_UNAVAILABLE"

Answer(op, code, request, value) ==
    reply' = [op |-> op, code |-> code, request |-> request, value |-> value]

NoHistory == UNCHANGED <<granted, snapshots>>

GetBalance(k) ==
    /\ NoHistory
    /\ UNCHANGED now
    /\ \/ /\ GetBalanceUnavailable
          /\ Answer("GET_BALANCE", BalanceClientCode("HCM_UNAVAILABLE"), k, 0)
       \/ /\ GetBalanceUnknown(k)
          /\ Answer("GET_BALANCE", BalanceClientCode("INVALID_EMPLOYEE_LOCATION"), k, 0)
       \/ /\ GetBalanceFound(k)
          /\ Answer("GET_BALANCE", "OK", k, balances[k])

SubmitTimeOff(ext, k, d) ==
    LET request == <<ext, k, d>>
        Refuse(mockCode) == Answer("SUBMIT_TIME_OFF", TimeOffClientCode(mockCode), request, 0)
    IN  /\ NoHistory
        /\ \/ /\ UNCHANGED now
              /\ \/ \E s \in processedRequests :
                      /\ SubmitReplayed(s, ext, k, d)
                      /\ Answer("SUBMIT_TIME_OFF", "OK", request, s)
                 \/ SubmitConflict(ext, k, d)     /\ Refuse("IDEMPOTENCY_KEY_CONFLICT")
                 \/ SubmitUnavailable(ext)        /\ Refuse("HCM_UNAVAILABLE")
                 \/ SubmitUnknown(ext, k)         /\ Refuse("INVALID_EMPLOYEE_LOCATION")
                 \/ SubmitInsufficient(ext, k, d) /\ Refuse("INSUFFICIENT_BALANCE")
           \/ /\ transactions < MaxTransactions
              /\ SubmitAccepted(ext, k, d)
              /\ Answer("SUBMIT_TIME_OFF", "OK", request, Accepted(ext, k, d))

AdjustBalance(k, delta) ==
    /\ UNCHANGED <<now, snapshots>>
    /\ \/ /\ AdjustUnavailable \/ AdjustUnknown(k) \/ AdjustInsufficient(k, delta)
          /\ Answer("ADJUST_BALANCE", "REFUSED", k, 0)
          /\ UNCHANGED granted
       \/ /\ batchSequence < MaxBatchSequence
          /\ AdjustAccepted(k, delta)
          /\ Answer("ADJUST_BALANCE", "OK", k, balances[k] + delta)
          /\ granted' = [granted EXCEPT ![k] = @ + delta]

GetBatchSnapshot ==
    /\ UNCHANGED <<now, granted>>
    /\ \/ /\ SnapshotUnavailable
          /\ Answer("GET_BATCH_SNAPSHOT", "HCM_UNAVAILABLE", {}, 0)
          /\ UNCHANGED snapshots
       \/ /\ SnapshotTaken
          /\ Answer("GET_BATCH_SNAPSHOT", "OK", {}, Snapshot)
          /\ snapshots' = snapshots \cup {Snapshot}

ResetHcm ==
    /\ Reset
    /\ granted' = balances'
    /\ snapshots' = {}
    /\ Answer("RESET", "OK", {}, 0)
    /\ UNCHANGED now

QueueFailure(op) ==
    /\ transientFailures[op] < MaxFailures
    /\ ScheduleTransientFailure(op)
    /\ UNCHANGED <<now, reply, granted, snapshots>>

TimePasses == Tick /\ UNCHANGED <<hcmVars, reply, granted, snapshots>>

Init ==
    /\ now = 0
    /\ HcmInit
    /\ reply = [op |-> "RESET", code |-> "OK", request |-> {}, value |-> 0]
    /\ granted = balances
    /\ snapshots = {}

Next ==
    \/ \E k \in Pairs : GetBalance(k)
    \/ \E ext \in Requests, k \in Pairs, d \in RequestDays : SubmitTimeOff(ext, k, d)
    \/ \E k \in Pairs, delta \in Adjustments : AdjustBalance(k, delta)
    \/ GetBatchSnapshot
    \/ \E op \in Operations : QueueFailure(op)
    \/ ResetHcm
    \/ TimePasses

Spec == Init /\ [][Next]_clientVars

-----------------------------------------------------------------------------
(* No day is created or lost: what a pair was granted (seed plus accepted  *)
(* adjustments) is its balance plus every deduction still on record, so no *)
(* retry, refusal or queued failure ever deducts without a record or       *)
(* records without deducting (submitTimeOff, adjustBalance).               *)
BalanceIsConserved ==
    \A k \in seeded :
        granted[k] = balances[k]
            + MapThenSumSet(LAMBDA s : s.days, {s \in processedRequests : s.pair = k})

(* A batch version names one content: two snapshots handed out with the    *)
(* same sourceVersion agree on every balance and on effectiveAt, and a     *)
(* later version is never dated before an earlier one.  Reconciliation     *)
(* takes the version for the content when it ignores a replayed batch      *)
(* (getBatchSnapshot, advanceBatchVersion).                                *)
VersionNamesContent ==
    \A a, b \in snapshots :
        /\ a.version = b.version => a = b
        /\ a.version < b.version => a.effectiveAt <= b.effectiveAt

(* Until a reset, a submission that was accepted is answered with the same *)
(* transaction, remaining balance and instant each time it is repeated,    *)
(* also while failures are queued and after the balance has been used up:  *)
(* this is what makes the approval retry safe (submitTimeOff's replay).    *)
AcceptedStaysAccepted ==
    [][\A s \in processedRequests :
          reply'.op = "SUBMIT_TIME_OFF" /\ reply'.request = <<s.ext, s.pair, s.days>>
              => reply'.code = "OK" /\ reply'.value = s]_clientVars
=============================================================================
