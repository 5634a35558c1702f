------------------------ MODULE CreateRequestProofs -------------------------
(***************************************************************************)
(* Theorems about CreateRequest, for any number of calls, keys and pairs   *)
(* and any bounds.                                                         *)
(*                                                                         *)
(* What carries them is Inv: rows are only added, never two under one key, *)
(* and each by a call that is then about to respond or done; an answer     *)
(* names a stored row of the call's own order; and a call whose request    *)
(* was stored before it began never gets past the first lookup.            *)
(***************************************************************************)
EXTENDS CreateRequest, TLAPS

OneRowPerKey ==
    \A r, s \in rows : r.key = s.key /\ r.key # NoKey => r = s

RowsAreOfTheirCalls ==
    \A row \in rows : row = NewRow(row.id) /\ pc[row.id] \in {"respond", "done"}

CreatedIsStored == \A c \in Calls : pc[c] = "respond" => NewRow(c) \in rows

AnswersAreStored ==
    \A c \in Calls : \A row \in answer[c].rows :
        /\ pc[c] = "done"
        /\ row \in rows
        /\ row.key = Key(c)
        /\ row.payload = order[c].payload
        /\ Key(c) = NoKey => row.id = c

\* A row there was when c began, for c's own order.
SameOrder(row, c) == row.key = Key(c) /\ Key(c) # NoKey /\ row.payload = order[c].payload

RetriesStopAtLookup ==
    \A c \in Calls : \A row \in since[c] :
        row \in rows /\ (SameOrder(row, c) => pc[c] \in {"findKey", "done"})

Inv == /\ TypeOK
       /\ OneRowPerKey
       /\ RowsAreOfTheirCalls
       /\ CreatedIsStored
       /\ AnswersAreStored
       /\ ConflictIsTrue
       /\ RetriesStopAtLookup
       /\ RetryIsReplayed

-----------------------------------------------------------------------------
(* The two ways a step moves a call without touching the rows.             *)

(* A call moves on and the rows stay.                                      *)
LEMMA GotoKeepsInv ==
    ASSUME NEW c \in Calls, NEW to \in {"readBalance", "createPending", "rereadKey"},
           Inv, Goto(c, to), pc[c] \notin {"respond", "done"},
           \A row \in since[c] : ~SameOrder(row, c)
    PROVE  Inv'
<1> USE DEF Inv, Goto, Key
<1>1. TypeOK' BY DEF TypeOK, Steps
<1>2. OneRowPerKey' BY DEF OneRowPerKey
<1>3. RowsAreOfTheirCalls' BY DEF RowsAreOfTheirCalls, NewRow, TypeOK, Rows
<1>4. CreatedIsStored' BY DEF CreatedIsStored, NewRow, TypeOK
<1>5. AnswersAreStored' BY DEF AnswersAreStored, TypeOK
<1>6. ConflictIsTrue' BY DEF ConflictIsTrue, RowsUnder
<1>7. RetriesStopAtLookup' BY DEF RetriesStopAtLookup, SameOrder, TypeOK
<1>8. RetryIsReplayed' BY DEF RetryIsReplayed, TypeOK
<1> QED BY <1>1, <1>2, <1>3, <1>4, <1>5, <1>6, <1>7, <1>8

\* What an answer must satisfy for a call that is done with it.
Truthful(c, code, found) ==
    /\ code \in Codes
    /\ found \subseteq rows
    /\ \A row \in found : /\ row.key = Key(c)
                          /\ row.payload = order[c].payload
                          /\ Key(c) = NoKey => row.id = c
    /\ code = "IDEMPOTENCY_KEY_CONFLICT" =>
          \E row \in RowsUnder(Key(c)) : row.payload # order[c].payload
    /\ \A row \in since[c] : SameOrder(row, c) =>
          (code = "REPLAYED" /\ found = {row}) \/ code \in {"PERSISTENCE_ERROR", "LOST"}

(* A call answers what it was told.                                        *)
LEMMA RespondKeepsInv ==
    ASSUME NEW c \in Calls, NEW code, NEW found,
           Inv, Respond(c, code, found), Truthful(c, code, found)
    PROVE  Inv'
<1> USE DEF Inv, Respond, Key, Truthful
<1>1. TypeOK' BY DEF TypeOK, Steps
<1>2. OneRowPerKey' BY DEF OneRowPerKey
<1>3. RowsAreOfTheirCalls' BY DEF RowsAreOfTheirCalls, NewRow, TypeOK, Rows
<1>4. CreatedIsStored' BY DEF CreatedIsStored, NewRow, TypeOK
<1>5. AnswersAreStored' BY DEF AnswersAreStored, TypeOK
<1>6. ConflictIsTrue' BY DEF ConflictIsTrue, RowsUnder, TypeOK
<1>7. RetriesStopAtLookup' BY DEF RetriesStopAtLookup, SameOrder, TypeOK
<1>8. RetryIsReplayed' BY DEF RetryIsReplayed, TypeOK, SameOrder
<1> QED BY <1>1, <1>2, <1>3, <1>4, <1>5, <1>6, <1>7, <1>8

(* A row found under the key answers the order, or conflicts with it.      *)
LEMMA ResolveIsTruthful ==
    ASSUME NEW c \in Calls, NEW row \in RowsUnder(Key(c)),
           Inv, ResolveIdempotentRequest(c, row)
    PROVE  Inv'
<1>1. row \in rows /\ row.key = Key(c) /\ Key(c) # NoKey BY DEF RowsUnder
<1>2. \A old \in since[c] : SameOrder(old, c) => old = row
  BY <1>1 DEF Inv, RetriesStopAtLookup, SameOrder, OneRowPerKey
<1>3. CASE SamePayload(row, c) /\ Respond(c, "REPLAYED", {row})
  <2>1. Truthful(c, "REPLAYED", {row})
    BY <1>1, <1>2, <1>3 DEF Truthful, Codes, SamePayload
  <2> QED BY <1>3, <2>1, RespondKeepsInv
<1>4. CASE ~SamePayload(row, c) /\ Respond(c, "IDEMPOTENCY_KEY_CONFLICT", {})
  <2>1. Truthful(c, "IDEMPOTENCY_KEY_CONFLICT", {})
    BY <1>1, <1>2, <1>4 DEF Truthful, Codes, SamePayload, SameOrder
  <2> QED BY <1>4, <2>1, RespondKeepsInv
<1> QED BY <1>3, <1>4 DEF ResolveIdempotentRequest

-----------------------------------------------------------------------------
(* The invariant holds at the start.                                       *)
LEMMA InvInit == Init => Inv
<1> SUFFICES ASSUME Init PROVE Inv OBVIOUS
<1> USE DEF Init
<1>1. TypeOK BY BoundsAreNumbers DEF TypeOK, Steps, Codes, NoAnswer
<1>2. OneRowPerKey /\ RowsAreOfTheirCalls BY DEF OneRowPerKey, RowsAreOfTheirCalls
<1>3. CreatedIsStored BY DEF CreatedIsStored
<1>4. AnswersAreStored BY DEF AnswersAreStored, NoAnswer
<1>5. ConflictIsTrue BY DEF ConflictIsTrue, NoAnswer
<1>6. RetriesStopAtLookup /\ RetryIsReplayed BY DEF RetriesStopAtLookup, RetryIsReplayed
<1> QED BY <1>1, <1>2, <1>3, <1>4, <1>5, <1>6 DEF Inv

(* The invariant is kept by each step, here and in the lemmas below.       *)
LEMMA BeginKeepsInv == ASSUME NEW c \in Calls, Inv, Begin(c) PROVE Inv'
<1> USE DEF Inv, Begin, Key
<1>1. TypeOK' BY DEF TypeOK, Steps, First
<1>2. OneRowPerKey' BY DEF OneRowPerKey
<1>3. RowsAreOfTheirCalls' BY DEF RowsAreOfTheirCalls, NewRow, TypeOK, Rows
<1>4. CreatedIsStored' BY DEF CreatedIsStored, NewRow, TypeOK, First
<1>5. AnswersAreStored' BY DEF AnswersAreStored, TypeOK
<1>6. ConflictIsTrue' BY DEF ConflictIsTrue, RowsUnder
<1>7. RetriesStopAtLookup' BY DEF RetriesStopAtLookup, SameOrder, TypeOK, First
<1>8. RetryIsReplayed' BY DEF RetryIsReplayed, TypeOK, First
<1> QED BY <1>1, <1>2, <1>3, <1>4, <1>5, <1>6, <1>7, <1>8

(* The lookup of the key (findByIdempotencyKey).                           *)
LEMMA FindKeepsInv == ASSUME NEW c \in Calls, Inv, FindByIdempotencyKey(c) PROVE Inv'
<1>1. CASE \E row \in RowsUnder(Key(c)) : ResolveIdempotentRequest(c, row)
  BY <1>1, ResolveIsTruthful
<1>2. CASE RowsUnder(Key(c)) = {} /\ Goto(c, "readBalance")
  <2>1. \A row \in since[c] : ~SameOrder(row, c)
    BY <1>2 DEF Inv, RetriesStopAtLookup, SameOrder, RowsUnder
  <2> QED BY <1>2, <2>1, GotoKeepsInv DEF FindByIdempotencyKey
<1> QED BY <1>1, <1>2 DEF FindByIdempotencyKey

(* The balance check (getBalance).                                         *)
LEMMA ReadBalanceKeepsInv == ASSUME NEW c \in Calls, Inv, ReadBalance(c) PROVE Inv'
<1>1. \A row \in since[c] : ~SameOrder(row, c)
  BY DEF Inv, RetriesStopAtLookup, ReadBalance
<1>2. CASE Respond(c, "INSUFFICIENT_BALANCE", {})
  <2>1. Truthful(c, "INSUFFICIENT_BALANCE", {}) BY <1>1 DEF Truthful, Codes
  <2> QED BY <1>2, <2>1, RespondKeepsInv
<1>3. CASE Goto(c, "createPending")
  BY <1>1, <1>3, GotoKeepsInv DEF ReadBalance
<1> QED BY <1>2, <1>3 DEF ReadBalance

(* The insert, won or lost (createPendingRequest).                         *)
LEMMA CreateKeepsInv == ASSUME NEW c \in Calls, Inv, CreatePending(c) PROVE Inv'
<1>1. \A row \in since[c] : ~SameOrder(row, c)
  BY DEF Inv, RetriesStopAtLookup, CreatePending
<1>2. CASE Goto(c, "rereadKey")
  BY <1>1, <1>2, GotoKeepsInv DEF CreatePending
<1>3. CASE /\ KeyIsFree(Key(c))
           /\ rows' = rows \cup {NewRow(c)}
           /\ pc' = [pc EXCEPT ![c] = "respond"]
           /\ UNCHANGED <<order, answer, projected, since, changes, faults>>
  <2> USE <1>3 DEF Inv, CreatePending
  <2>0. NewRow(c) \in Rows BY DEF NewRow, Rows, TypeOK, Orders, Key
  <2>1. TypeOK' BY <2>0 DEF TypeOK, Steps
  <2>2. OneRowPerKey' BY DEF OneRowPerKey, KeyIsFree, RowsUnder, NewRow, Key
  <2>3. RowsAreOfTheirCalls'
    BY <2>0 DEF RowsAreOfTheirCalls, NewRow, TypeOK, Rows, Key
  <2>4. CreatedIsStored' BY DEF CreatedIsStored, NewRow, TypeOK, Key
  <2>5. AnswersAreStored' BY DEF AnswersAreStored, TypeOK, Key
  <2>6. ConflictIsTrue' BY DEF ConflictIsTrue, RowsUnder, Key
  <2>7. RetriesStopAtLookup'
    BY <1>1 DEF RetriesStopAtLookup, SameOrder, TypeOK, Key
  <2>8. RetryIsReplayed' BY DEF RetryIsReplayed, TypeOK, Key
  <2> QED BY <2>1, <2>2, <2>3, <2>4, <2>5, <2>6, <2>7, <2>8
<1> QED BY <1>2, <1>3 DEF CreatePending

(* The second lookup, after a lost insert.                                 *)
LEMMA RereadKeepsInv == ASSUME NEW c \in Calls, Inv, RereadKey(c) PROVE Inv'
BY ResolveIsTruthful DEF RereadKey

(* The answer after an insert.                                             *)
LEMMA RespondCreatedKeepsInv == ASSUME NEW c \in Calls, Inv, RespondCreated(c) PROVE Inv'
<1>1. NewRow(c) \in rows BY DEF Inv, CreatedIsStored, RespondCreated
<1>2. \A row \in since[c] : ~SameOrder(row, c)
  BY DEF Inv, RetriesStopAtLookup, RespondCreated
<1>3. Truthful(c, "CREATED", {NewRow(c)})
  BY <1>1, <1>2 DEF Truthful, Codes, NewRow
<1> QED BY <1>3, RespondKeepsInv DEF RespondCreated

(* A statement that fails.                                                 *)
LEMMA FailureKeepsInv == ASSUME NEW c \in Calls, Inv, PersistenceFails(c) PROVE Inv'
<1> USE DEF Inv, PersistenceFails, Key
<1>1. TypeOK' BY BoundsAreNumbers DEF TypeOK, Steps, Codes
<1>2. OneRowPerKey' BY DEF OneRowPerKey
<1>3. RowsAreOfTheirCalls' BY DEF RowsAreOfTheirCalls, NewRow, TypeOK, Rows
<1>4. CreatedIsStored' BY DEF CreatedIsStored, NewRow, TypeOK
<1>5. AnswersAreStored' BY DEF AnswersAreStored, TypeOK
<1>6. ConflictIsTrue' BY DEF ConflictIsTrue, RowsUnder, TypeOK
<1>7. RetriesStopAtLookup' BY DEF RetriesStopAtLookup, SameOrder, TypeOK
<1>8. RetryIsReplayed' BY DEF RetryIsReplayed, TypeOK
<1> QED BY <1>1, <1>2, <1>3, <1>4, <1>5, <1>6, <1>7, <1>8

(* A crash.                                                                *)
LEMMA RestartKeepsInv == ASSUME Inv, Restart PROVE Inv'
<1> USE DEF Inv, Restart, Key, Running
<1>1. TypeOK' BY BoundsAreNumbers DEF TypeOK, Steps, Codes
<1>2. OneRowPerKey' BY DEF OneRowPerKey
<1>3. RowsAreOfTheirCalls' BY DEF RowsAreOfTheirCalls, NewRow, TypeOK, Rows
<1>4. CreatedIsStored' BY DEF CreatedIsStored, NewRow, TypeOK
<1>5. AnswersAreStored' BY DEF AnswersAreStored, TypeOK
<1>6. ConflictIsTrue' BY DEF ConflictIsTrue, RowsUnder, TypeOK
<1>7. RetriesStopAtLookup' BY DEF RetriesStopAtLookup, SameOrder, TypeOK
<1>8. RetryIsReplayed' BY DEF RetryIsReplayed, TypeOK
<1> QED BY <1>1, <1>2, <1>3, <1>4, <1>5, <1>6, <1>7, <1>8

(* What changes neither rows nor calls.                                    *)
LEMMA OthersKeepInv ==
    ASSUME Inv, ProjectionChanges \/ UNCHANGED createVars
    PROVE  Inv'
<1> USE DEF Inv, ProjectionChanges, createVars, Key
<1>1. TypeOK' BY BoundsAreNumbers DEF TypeOK
<1>2. OneRowPerKey' BY DEF OneRowPerKey
<1>3. RowsAreOfTheirCalls' BY DEF RowsAreOfTheirCalls, NewRow
<1>4. CreatedIsStored' BY DEF CreatedIsStored, NewRow
<1>5. AnswersAreStored' BY DEF AnswersAreStored
<1>6. ConflictIsTrue' BY DEF ConflictIsTrue, RowsUnder
<1>7. RetriesStopAtLookup' BY DEF RetriesStopAtLookup, SameOrder
<1>8. RetryIsReplayed' BY DEF RetryIsReplayed
<1> QED BY <1>1, <1>2, <1>3, <1>4, <1>5, <1>6, <1>7, <1>8

(* The invariant is inductive.                                             *)
LEMMA InvNext == Inv /\ [Next]_createVars => Inv'
BY BeginKeepsInv, FindKeepsInv, ReadBalanceKeepsInv, CreateKeepsInv, RereadKeepsInv,
   RespondCreatedKeepsInv, FailureKeepsInv, RestartKeepsInv, OthersKeepInv DEF Next, Serve

(* The invariant always holds.                                             *)
LEMMA InvAlways == Spec => []Inv
BY InvInit, InvNext, PTL DEF Spec

-----------------------------------------------------------------------------
(* Calls told of a request under one key were told of one and the same     *)
(* stored request, the one each of them asked for: createRequest, with     *)
(* resolveIdempotentRequest and the unique index.                          *)
THEOREM SameKey == Spec => []SameKeySameRequest
<1>1. Inv => SameKeySameRequest
  BY DEF Inv, AnswersAreStored, OneRowPerKey, SameKeySameRequest
<1> QED BY <1>1, InvAlways, PTL

(* Only an order whose key was used for another payload is answered        *)
(* IDEMPOTENCY_KEY_CONFLICT (the find, the insert and the second find of   *)
(* createRequest).                                                         *)
THEOREM ConflictsAreTrue == Spec => []ConflictIsTrue
<1>1. Inv => ConflictIsTrue BY DEF Inv
<1> QED BY <1>1, InvAlways, PTL

(* A retry sent after its request was stored is given that request, even   *)
(* when the balance has fallen below it: createRequest looks for the key   *)
(* before it reads the balance.                                            *)
THEOREM RetriesAreReplayed == Spec => []RetryIsReplayed
<1>1. Inv => RetryIsReplayed BY DEF Inv
<1> QED BY <1>1, InvAlways, PTL

-----------------------------------------------------------------------------
(* The ledger.                                                             *)

(* Answering from a stored row is a grant of the ledger, or nothing.       *)
LEMMA ResolvingGrants ==
    ASSUME NEW c \in Calls, NEW row \in RowsUnder(Key(c)), Inv,
           ResolveIdempotentRequest(c, row), pc[c] # "done"
    PROVE  [Ledger!Next]_(Ledger!ledgerVars)
<1> DEFINE granted == [d \in Calls |-> answer[d].rows]
<1>1. granted[c] = {} BY DEF Inv, AnswersAreStored
<1>2. CASE SamePayload(row, c) /\ Respond(c, "REPLAYED", {row})
  <2>1. row \in rows \cap Ledger!Answers(c)
    BY <1>2 DEF Ledger!Answers, Ledger!Under, RowsUnder, SamePayload, Key
  <2>2. granted' = [granted EXCEPT ![c] = {row}]
    BY <1>2 DEF Respond, Inv, TypeOK
  <2>3. Ledger!Grant(c)
    BY <1>1, <1>2, <2>1, <2>2 DEF Ledger!Grant, Respond
  <2> QED BY <2>3 DEF Ledger!Next
<1>3. CASE Respond(c, "IDEMPOTENCY_KEY_CONFLICT", {})
  <2>1. granted' = granted
    BY <1>1, <1>3 DEF Respond, Inv, TypeOK
  <2> QED BY <1>3, <2>1 DEF Ledger!ledgerVars, Respond
<1> QED BY <1>2, <1>3 DEF ResolveIdempotentRequest

(* Every step maps to a step of the ledger or a stutter.                   *)
LEMMA LedgerStep == Inv /\ [Next]_createVars => [Ledger!Next]_(Ledger!ledgerVars)
<1> SUFFICES ASSUME Inv, [Next]_createVars PROVE [Ledger!Next]_(Ledger!ledgerVars)
  OBVIOUS
<1> DEFINE granted == [d \in Calls |-> answer[d].rows]
<1>1. \A c \in Calls : pc[c] # "done" => granted[c] = {}
  BY DEF Inv, AnswersAreStored
\* A call that is answered without a row, or not at all, is a stutter.
<1>2. ASSUME UNCHANGED <<order, rows>>,
             \A d \in Calls : answer'[d].rows = answer[d].rows
      PROVE  UNCHANGED Ledger!ledgerVars
  BY <1>2 DEF Ledger!ledgerVars
<1>3. ASSUME NEW c \in Calls, Begin(c) PROVE UNCHANGED Ledger!ledgerVars
  BY <1>2, <1>3 DEF Begin
<1>4. ASSUME NEW c \in Calls, FindByIdempotencyKey(c)
      PROVE  [Ledger!Next]_(Ledger!ledgerVars)
  BY <1>2, <1>4, ResolvingGrants DEF FindByIdempotencyKey, Goto
<1>5. ASSUME NEW c \in Calls, ReadBalance(c) PROVE UNCHANGED Ledger!ledgerVars
  <2>1. CASE Goto(c, "createPending") BY <1>2, <2>1 DEF Goto
  <2>2. CASE Respond(c, "INSUFFICIENT_BALANCE", {})
    BY <1>1, <1>2, <1>5, <2>2 DEF Respond, ReadBalance, Inv, TypeOK
  <2> QED BY <1>5, <2>1, <2>2 DEF ReadBalance
<1>6. ASSUME NEW c \in Calls, CreatePending(c)
      PROVE  [Ledger!Next]_(Ledger!ledgerVars)
  <2>1. CASE Goto(c, "rereadKey") BY <1>2, <2>1 DEF Goto
  <2>2. CASE /\ KeyIsFree(Key(c))
             /\ rows' = rows \cup {NewRow(c)}
             /\ UNCHANGED <<order, answer>>
    <3>1. NewRow(c) \notin rows
      BY <1>6 DEF Inv, RowsAreOfTheirCalls, CreatePending, NewRow
    <3>2. NewRow(c) = Ledger!Booking(c) BY DEF NewRow, Ledger!Booking, Key
    <3>3. Ledger!Under(order[c].key) = {}
      BY <2>2 DEF Ledger!Under, KeyIsFree, RowsUnder, Key
    <3>4. Ledger!Book(c) BY <2>2, <3>1, <3>2, <3>3 DEF Ledger!Book
    <3> QED BY <3>4 DEF Ledger!Next
  <2> QED BY <1>6, <2>1, <2>2 DEF CreatePending
<1>7. ASSUME NEW c \in Calls, RereadKey(c)
      PROVE  [Ledger!Next]_(Ledger!ledgerVars)
  BY <1>7, ResolvingGrants DEF RereadKey
<1>8. ASSUME NEW c \in Calls, RespondCreated(c)
      PROVE  [Ledger!Next]_(Ledger!ledgerVars)
  <2>1. NewRow(c) \in rows BY <1>8 DEF Inv, CreatedIsStored, RespondCreated
  <2>2. NewRow(c) \in Ledger!Answers(c)
    BY DEF NewRow, Ledger!Answers, Ledger!Booking, Key
  <2>3. granted' = [granted EXCEPT ![c] = {NewRow(c)}]
    BY <1>8 DEF RespondCreated, Respond, Inv, TypeOK
  <2>4. Ledger!Grant(c)
    BY <1>1, <1>8, <2>1, <2>2, <2>3 DEF Ledger!Grant, RespondCreated, Respond
  <2> QED BY <2>4 DEF Ledger!Next
<1>9. ASSUME NEW c \in Calls, PersistenceFails(c) PROVE UNCHANGED Ledger!ledgerVars
  BY <1>1, <1>2, <1>9 DEF PersistenceFails, Running, Inv, TypeOK
<1>10. ASSUME Restart PROVE UNCHANGED Ledger!ledgerVars
  BY <1>1, <1>2, <1>10 DEF Restart, Running, Inv, TypeOK
<1>11. ASSUME ProjectionChanges \/ UNCHANGED createVars
       PROVE  UNCHANGED Ledger!ledgerVars
  BY <1>2, <1>11 DEF ProjectionChanges, createVars
<1> QED BY <1>3, <1>4, <1>5, <1>6, <1>7, <1>8, <1>9, <1>10, <1>11 DEF Next, Serve

(* Creation, with its awaits, duplicates, failures and crashes, implements *)
(* the ledger: at most one booking per key, and grants of own orders only. *)
THEOREM CreationIsLedger == Spec => ImplementsLedger
<1>1. Init => Ledger!Init
  BY DEF Init, Ledger!Init, NoAnswer, Orders, Ledger!Orders, Payloads
<1> QED BY <1>1, InvAlways, LedgerStep, PTL DEF Spec, ImplementsLedger, Ledger!Spec
=============================================================================
