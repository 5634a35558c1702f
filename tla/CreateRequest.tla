--------------------------- MODULE CreateRequest ----------------------------
(***************************************************************************)
(* Creating a time-off request: TimeOffRequestService.createRequest over   *)
(* TimeOffRequestRepository (findByIdempotencyKey, createPending) and the  *)
(* balances table, await by await.                                         *)
(*                                                                         *)
(* A call is one POST /time-off-requests.  A client that gets no answer    *)
(* sends another with the same order, so a retry is a call of its own.     *)
(* The payload stands for its SHA-256; a row is named after the call that  *)
(* inserted it, as the code gives it a fresh UUID.  Whatever the status of *)
(* a row becomes later, creation never looks at it.                        *)
(*                                                                         *)
(* since is history: the rows there were when a call began.                *)
(***************************************************************************)
EXTENDS Integers, FiniteSets

CONSTANTS
    Calls,          \* POST requests
    Keys,           \* idempotency keys
    NoKey,          \* the key is optional
    Pairs,          \* employee/location pairs
    RequestDays,    \* day counts asked for
    ProjectedDays,  \* day counts a projection may show
    NoProjection,   \* no row in balances
    MaxChanges,     \* bound: writes of the balances table by others
    MaxFaults       \* bound: failed statements and crashes

ASSUME RequestDaysAreDays == RequestDays \subseteq Nat \ {0}
ASSUME ProjectedDaysAreDays == ProjectedDays \subseteq Nat
ASSUME NoKeyIsNoKey == NoKey \notin Keys
ASSUME NoProjectionIsNoDays == NoProjection \notin Nat
ASSUME BoundsAreNumbers == MaxChanges \in Nat /\ MaxFaults \in Nat

VARIABLES
    order,      \* what each call asks for
    pc,         \* the step it is about to take
    answer,     \* what it was answered, and the rows it was answered with
    rows,       \* time_off_requests
    projected,  \* balances.available_days, by pair
    since, changes, faults

createVars == <<order, pc, answer, rows, projected, since, changes, faults>>

Payloads == [pair: Pairs, days: RequestDays]
Orders == [key: Keys \cup {NoKey}, payload: Payloads]
Rows == [id: Calls, key: Keys \cup {NoKey}, payload: Payloads]

Steps == {"idle", "findKey", "readBalance", "createPending", "rereadKey", "respond", "done"}
Codes == {"NONE", "CREATED", "REPLAYED", "IDEMPOTENCY_KEY_CONFLICT",
          "INSUFFICIENT_BALANCE", "PERSISTENCE_ERROR", "LOST"}
NoAnswer == [code |-> "NONE", rows |-> {}]

Init ==
    /\ order \in [Calls -> Orders]
    /\ pc = [c \in Calls |-> "idle"]
    /\ answer = [c \in Calls |-> NoAnswer]
    /\ rows = {}
    /\ projected \in [Pairs -> ProjectedDays \cup {NoProjection}]
    /\ since = [c \in Calls |-> {}]
    /\ changes = 0
    /\ faults = 0

-----------------------------------------------------------------------------
Key(c) == order[c].key

\* findByIdempotencyKey
RowsUnder(key) == {row \in rows : row.key = key /\ key # NoKey}

\* Mutant: a replay is recognised by its key alone.
SamePayloadIgnored(row, c) == TRUE

SamePayload(row, c) == row.payload = order[c].payload

Goto(c, to) ==
    /\ pc' = [pc EXCEPT ![c] = to]
    /\ UNCHANGED <<order, answer, rows, projected, since, changes, faults>>

Respond(c, code, found) ==
    /\ pc' = [pc EXCEPT ![c] = "done"]
    /\ answer' = [answer EXCEPT ![c] = [code |-> code, rows |-> found]]
    /\ UNCHANGED <<order, rows, projected, since, changes, faults>>

ResolveIdempotentRequest(c, row) ==
    \/ SamePayload(row, c) /\ Respond(c, "REPLAYED", {row})
    \/ ~SamePayload(row, c) /\ Respond(c, "IDEMPOTENCY_KEY_CONFLICT", {})

\* Mutant: the balance is read before the key is looked up.
FirstReadBalance(c) == "readBalance"

\* Without a key there is nothing to look up.
First(c) == IF Key(c) = NoKey THEN "readBalance" ELSE "findKey"

Begin(c) ==
    /\ pc[c] = "idle"
    /\ pc' = [pc EXCEPT ![c] = First(c)]
    /\ since' = [since EXCEPT ![c] = rows]
    /\ UNCHANGED <<order, answer, rows, projected, changes, faults>>

FindByIdempotencyKey(c) ==
    /\ pc[c] = "findKey"
    /\ \/ \E row \in RowsUnder(Key(c)) : ResolveIdempotentRequest(c, row)
       \/ RowsUnder(Key(c)) = {} /\ Goto(c, "readBalance")

\* A pair without a projection is let through.
ReadBalance(c) ==
    LET days == projected[order[c].payload.pair]
        tooFew == days # NoProjection /\ days < order[c].payload.days IN
    /\ pc[c] = "readBalance"
    /\ \/ tooFew /\ Respond(c, "INSUFFICIENT_BALANCE", {})
       \/ ~tooFew /\ Goto(c, "createPending")

NewRow(c) == [id |-> c, key |-> Key(c), payload |-> order[c].payload]

\* Mutant: no unique index on idempotency_key.
KeyIsFreeAnyway(key) == TRUE

\* idx_time_off_requests_idempotency_key: unique where the key is not null.
KeyIsFree(key) == RowsUnder(key) = {}

CreatePending(c) ==
    /\ pc[c] = "createPending"
    /\ \/ /\ KeyIsFree(Key(c))
          /\ rows' = rows \cup {NewRow(c)}
          /\ pc' = [pc EXCEPT ![c] = "respond"]
          /\ UNCHANGED <<order, answer, projected, since, changes, faults>>
       \/ /\ ~KeyIsFree(Key(c))
          /\ Goto(c, "rereadKey")

\* Mutant: the conflict is reported without another look at the row.
RereadNothing(c) ==
    /\ pc[c] = "rereadKey"
    /\ Respond(c, "IDEMPOTENCY_KEY_CONFLICT", {})

\* The row of the other call is there: a conflict is with a committed row, and
\* rows are never deleted.
RereadKey(c) ==
    /\ pc[c] = "rereadKey"
    /\ \E row \in RowsUnder(Key(c)) : ResolveIdempotentRequest(c, row)

RespondCreated(c) ==
    /\ pc[c] = "respond"
    /\ Respond(c, "CREATED", {NewRow(c)})

-----------------------------------------------------------------------------
(* The world outside.                                                      *)

Running(c) == pc[c] \notin {"idle", "done"}

\* A statement fails and nothing is written.
PersistenceFails(c) ==
    /\ faults < MaxFaults
    /\ Running(c) /\ pc[c] # "respond"
    /\ faults' = faults + 1
    /\ pc' = [pc EXCEPT ![c] = "done"]
    /\ answer' = [answer EXCEPT ![c] = [code |-> "PERSISTENCE_ERROR", rows |-> {}]]
    /\ UNCHANGED <<order, rows, projected, since, changes>>

\* The process dies: every call in flight is lost, also one whose row is in.
Restart ==
    /\ faults < MaxFaults
    /\ \E c \in Calls : Running(c)
    /\ faults' = faults + 1
    /\ pc' = [c \in Calls |-> IF Running(c) THEN "done" ELSE pc[c]]
    /\ answer' = [c \in Calls |-> IF Running(c) THEN [code |-> "LOST", rows |-> {}]
                                               ELSE answer[c]]
    /\ UNCHANGED <<order, rows, projected, since, changes>>

\* Approvals, refreshes and batches write the projection.
ProjectionChanges ==
    /\ changes < MaxChanges
    /\ changes' = changes + 1
    /\ \E k \in Pairs, d \in ProjectedDays : projected' = [projected EXCEPT ![k] = d]
    /\ UNCHANGED <<order, pc, answer, rows, since, faults>>

Serve(c) == \/ FindByIdempotencyKey(c) \/ ReadBalance(c) \/ CreatePending(c)
            \/ RereadKey(c) \/ RespondCreated(c)

Next ==
    \/ \E c \in Calls : Begin(c) \/ Serve(c) \/ PersistenceFails(c)
    \/ Restart
    \/ ProjectionChanges

Spec == Init /\ [][Next]_createVars
-----------------------------------------------------------------------------
(* Every variable keeps its type.                                          *)
TypeOK ==
    /\ order \in [Calls -> Orders]
    /\ pc \in [Calls -> Steps]
    /\ answer \in [Calls -> [code: Codes, rows: SUBSET Rows]]
    /\ rows \subseteq Rows
    /\ projected \in [Pairs -> ProjectedDays \cup {NoProjection}]
    /\ since \in [Calls -> SUBSET Rows]
    /\ changes \in 0..MaxChanges
    /\ faults \in 0..MaxFaults

(* TRD 574, "Same key + same payload returns the existing request": calls  *)
(* that were told of a request under one key were told of one and the same *)
(* request, it is what each of them asked for, and it is stored; however   *)
(* their finds and inserts interleaved.                                    *)
SameKeySameRequest ==
    \A c, d \in Calls : \A mine \in answer[c].rows, other \in answer[d].rows :
        /\ mine \in rows
        /\ mine.payload = order[c].payload
        /\ Key(c) = Key(d) /\ Key(c) # NoKey => mine = other

(* TRD 575, "Same key + different payload returns IDEMPOTENCY_KEY_CONFLICT"*)
(* and nothing else does: the losing insert looks at the row again.        *)
ConflictIsTrue ==
    \A c \in Calls : answer[c].code = "IDEMPOTENCY_KEY_CONFLICT" =>
        \E row \in RowsUnder(Key(c)) : row.payload # order[c].payload

(* A retry sent after the request was stored, its answer perhaps lost, is  *)
(* given that request, even if the balance no longer covers it: unless a   *)
(* statement failed or the process died again.                             *)
RetryIsReplayed ==
    \A c \in Calls : \A row \in since[c] :
        /\ row.key = Key(c) /\ Key(c) # NoKey /\ row.payload = order[c].payload
        /\ pc[c] = "done"
        => answer[c] = [code |-> "REPLAYED", rows |-> {row}]
           \/ answer[c].code \in {"PERSISTENCE_ERROR", "LOST"}

(* Creation implements the ledger: an insert books, an answer that names a *)
(* row grants.                                                             *)
Ledger == INSTANCE IdempotentLedger WITH
             bookings <- rows,
             grant <- [c \in Calls |-> answer[c].rows]
ImplementsLedger == Ledger!Spec
=============================================================================
