-------------------------- MODULE HcmClientsProofs ---------------------------
(***************************************************************************)
(* What ReadyOn relies on of the HCM, for any pairs, requests, seeds and   *)
(* bounds: a batch version names one content, an accepted submission stays *)
(* accepted, and no day is created or lost.                                *)
(*                                                                         *)
(* The argument.  Every change of a balance advances the version, so a     *)
(* snapshot that carries the present version is the present one            *)
(* (SnapshotsAreBehind); and no external request id is on record twice     *)
(* (OneRecordEach), so the record found for a repeated submission is the   *)
(* one that was answered at first.  A submission that is deducted is a new *)
(* record for the same reason, so what is on record for a pair grows by    *)
(* the days its balance loses (DaysOfRemoved).                             *)
(***************************************************************************)
EXTENDS HcmClients, MockHcmProofs, FiniteSetTheorems

ClocksOK == now \in Nat /\ batchSequence \in Nat /\ effectiveAt \in Nat /\ effectiveAt <= now

SnapshotsAreBehind ==
    \A s \in snapshots :
        /\ s.version \in Nat /\ s.version <= batchSequence
        /\ s.effectiveAt \in Nat /\ s.effectiveAt <= effectiveAt
        /\ s.version = batchSequence => s = Snapshot

OneRecordEach == \A s, t \in processedRequests : s.ext = t.ext => s = t

\* The last answer to a submission on record is the recorded one.
AnsweredFromRecord ==
    \A s \in processedRequests :
        reply.op = "SUBMIT_TIME_OFF" /\ reply.request = <<s.ext, s.pair, s.days>>
            => reply.code = "OK" /\ reply.value = s

Inv == ClocksOK /\ SnapshotsAreBehind /\ VersionNamesContent /\ OneRecordEach /\ AnsweredFromRecord

-----------------------------------------------------------------------------
(* The HCM starts with nothing on record.                                  *)
LEMMA InvInit == Init => Inv
    BY DEF Init, HcmInit, Inv, ClocksOK, SnapshotsAreBehind, VersionNamesContent,
           OneRecordEach, AnsweredFromRecord

(* Steps that leave versions, balances and snapshots alone.                *)
LEMMA SnapshotsStay ==
    ASSUME Inv, UNCHANGED <<now, seeded, balances, batchSequence, effectiveAt, snapshots>>
    PROVE  ClocksOK' /\ SnapshotsAreBehind' /\ VersionNamesContent'
    BY DEF Inv, ClocksOK, SnapshotsAreBehind, VersionNamesContent, Snapshot

(* A change of a balance gets a version of its own (advanceBatchVersion).  *)
LEMMA SnapshotsFallBehind ==
    ASSUME Inv, MayTick, AdvanceBatchVersion(now'), UNCHANGED snapshots
    PROVE  ClocksOK' /\ SnapshotsAreBehind' /\ VersionNamesContent'
<1>1. /\ batchSequence \in Nat /\ effectiveAt \in Nat /\ now' \in Nat /\ effectiveAt <= now'
      /\ batchSequence' = batchSequence + 1 /\ effectiveAt' = now'
    BY ClockMovesOn DEF Inv, ClocksOK, AdvanceBatchVersion
<1>2. ClocksOK'
    BY <1>1 DEF ClocksOK
<1>3. SnapshotsAreBehind'
    <2> SUFFICES ASSUME NEW s \in snapshots
                 PROVE  /\ s.version \in Nat /\ s.version <= batchSequence'
                        /\ s.effectiveAt \in Nat /\ s.effectiveAt <= effectiveAt'
                        /\ s.version # batchSequence'
        BY DEF SnapshotsAreBehind
    <2>1. /\ s.version \in Nat /\ s.version <= batchSequence
          /\ s.effectiveAt \in Nat /\ s.effectiveAt <= effectiveAt
        BY DEF Inv, SnapshotsAreBehind
    <2> QED
        BY <1>1, <2>1
<1>4. VersionNamesContent'
    BY DEF Inv, VersionNamesContent
<1> QED
    BY <1>2, <1>3, <1>4

(* The snapshot handed out is the present one (getBatchSnapshot).          *)
LEMMA SnapshotJoins ==
    ASSUME Inv, UNCHANGED <<now, hcmVars>>, snapshots' = snapshots \cup {Snapshot}
    PROVE  ClocksOK' /\ SnapshotsAreBehind' /\ VersionNamesContent'
<1>1. ClocksOK' /\ Snapshot' = Snapshot
    BY DEF Inv, ClocksOK, hcmVars, Snapshot
<1>2. Snapshot.version = batchSequence /\ Snapshot.effectiveAt = effectiveAt
    BY DEF Snapshot
<1>3. SnapshotsAreBehind'
    BY <1>1, <1>2 DEF Inv, ClocksOK, SnapshotsAreBehind, hcmVars
<1>4. VersionNamesContent'
    <2> SUFFICES ASSUME NEW a \in snapshots', NEW b \in snapshots'
                 PROVE  /\ a.version = b.version => a = b
                        /\ a.version < b.version => a.effectiveAt <= b.effectiveAt
        BY DEF VersionNamesContent
    <2>1. CASE a \in snapshots /\ b \in snapshots
        BY <2>1 DEF Inv, VersionNamesContent
    <2>2. CASE a \in snapshots /\ b = Snapshot
        BY <1>2, <2>2 DEF Inv, SnapshotsAreBehind
    <2>3. CASE a = Snapshot /\ b \in snapshots
        BY <1>2, <2>3 DEF Inv, ClocksOK, SnapshotsAreBehind
    <2>4. CASE a = Snapshot /\ b = Snapshot
        BY <1>2, <2>4 DEF Inv, ClocksOK
    <2> QED
        BY <2>1, <2>2, <2>3, <2>4
<1> QED
    BY <1>1, <1>3, <1>4

(* A refused submission has no record that matches it (submitTimeOff).     *)
LEMMA SubmitRefused ==
    ASSUME Inv, NEW ext, NEW k, NEW d, NEW code,
           UNCHANGED <<now, snapshots, seeded, balances, processedRequests,
                       batchSequence, effectiveAt>>,
           Answer("SUBMIT_TIME_OFF", code, <<ext, k, d>>, 0),
           \A s \in Processed(ext) : ~SameFingerprint(s, k, d)
    PROVE  Inv'
<1>1. ClocksOK' /\ SnapshotsAreBehind' /\ VersionNamesContent' /\ OneRecordEach'
    BY SnapshotsStay DEF Inv, OneRecordEach
<1>2. AnsweredFromRecord'
    <2> SUFFICES ASSUME NEW s \in processedRequests,
                        <<ext, k, d>> = <<s.ext, s.pair, s.days>>
                 PROVE  FALSE
        BY DEF AnsweredFromRecord, Answer
    <2> QED
        BY DEF Processed, SameFingerprint
<1> QED
    BY <1>1, <1>2 DEF Inv

(* A repeated submission is answered from its record.                      *)
LEMMA SubmitAnsweredAgain ==
    ASSUME Inv, NEW ext, NEW k, NEW d, NEW s \in processedRequests, NoHistory,
           UNCHANGED now, SubmitReplayed(s, ext, k, d),
           Answer("SUBMIT_TIME_OFF", "OK", <<ext, k, d>>, s)
    PROVE  Inv'
<1>1. s.ext = ext /\ UNCHANGED hcmVars
    BY DEF SubmitReplayed, Processed
<1>2. ClocksOK' /\ SnapshotsAreBehind' /\ VersionNamesContent' /\ OneRecordEach'
    BY <1>1, SnapshotsStay DEF hcmVars, NoHistory, Inv, OneRecordEach
<1>3. AnsweredFromRecord'
    <2> SUFFICES ASSUME NEW t \in processedRequests,
                        <<ext, k, d>> = <<t.ext, t.pair, t.days>>
                 PROVE  t = s
        BY <1>1 DEF AnsweredFromRecord, Answer, hcmVars
    <2>1. t.ext = s.ext
        BY <1>1
    <2> QED
        BY <2>1 DEF Inv, OneRecordEach
<1> QED
    BY <1>2, <1>3 DEF Inv

(* A first submission is recorded under an id that was not on record, and  *)
(* answered as it is recorded.                                             *)
LEMMA SubmitRecorded ==
    ASSUME Inv, NEW ext, NEW k, NEW d, NoHistory, SubmitAccepted(ext, k, d),
           Answer("SUBMIT_TIME_OFF", "OK", <<ext, k, d>>, Accepted(ext, k, d))
    PROVE  Inv'
<1> DEFINE a == Accepted(ext, k, d)
<1>1. a.ext = ext
    BY DEF Accepted
<1>2. /\ processedRequests' = processedRequests \cup {a}
      /\ \A s \in processedRequests : s.ext # ext
    BY DEF SubmitAccepted, NewSubmission, Processed
<1> HIDE DEF a
<1>3. ClocksOK' /\ SnapshotsAreBehind' /\ VersionNamesContent'
    BY SnapshotsFallBehind DEF NoHistory, SubmitAccepted
<1>4. OneRecordEach'
    BY <1>1, <1>2 DEF Inv, OneRecordEach
<1>5. AnsweredFromRecord'
    <2> SUFFICES ASSUME NEW t \in processedRequests',
                        <<ext, k, d>> = <<t.ext, t.pair, t.days>>
                 PROVE  t = a
        BY DEF AnsweredFromRecord, Answer, a
    <2> QED
        BY <1>2
<1> QED
    BY <1>3, <1>4, <1>5 DEF Inv

(* What becomes of a submission, in the order submitTimeOff decides it.    *)
LEMMA SubmitStep ==
    ASSUME Inv, NEW ext \in Requests, NEW k \in Pairs, NEW d \in RequestDays,
           SubmitTimeOff(ext, k, d)
    PROVE  Inv'
<1> DEFINE request == <<ext, k, d>>
           Refuse(mockCode) == Answer("SUBMIT_TIME_OFF", TimeOffClientCode(mockCode), request, 0)
<1>1. NoHistory
    BY DEF SubmitTimeOff
<1>2. CASE /\ UNCHANGED now
           /\ \E s \in processedRequests :
                /\ SubmitReplayed(s, ext, k, d)
                /\ Answer("SUBMIT_TIME_OFF", "OK", request, s)
    BY <1>1, <1>2, SubmitAnsweredAgain
<1>3. CASE UNCHANGED now /\ SubmitConflict(ext, k, d) /\ Refuse("IDEMPOTENCY_KEY_CONFLICT")
    <2>1. \A s \in Processed(ext) : ~SameFingerprint(s, k, d)
        <3>1. PICK s \in Processed(ext) : ~SameFingerprint(s, k, d)
            BY <1>3 DEF SubmitConflict
        <3>2. \A t \in Processed(ext) : t = s
            BY DEF Inv, OneRecordEach, Processed
        <3> QED
            BY <3>1, <3>2
    <2>2. UNCHANGED hcmVars
        BY <1>3 DEF SubmitConflict
    <2> QED
        BY <1>1, <1>3, <2>1, <2>2, SubmitRefused DEF hcmVars, NoHistory
<1>4. CASE UNCHANGED now /\ SubmitUnavailable(ext) /\ Refuse("HCM_UNAVAILABLE")
    BY <1>1, <1>4, SubmitRefused DEF SubmitUnavailable, ConsumeTransientFailure, NoHistory
<1>5. CASE UNCHANGED now /\ SubmitUnknown(ext, k) /\ Refuse("INVALID_EMPLOYEE_LOCATION")
    BY <1>1, <1>5, SubmitRefused DEF SubmitUnknown, NewSubmission, hcmVars, NoHistory
<1>6. CASE UNCHANGED now /\ SubmitInsufficient(ext, k, d) /\ Refuse("INSUFFICIENT_BALANCE")
    BY <1>1, <1>6, SubmitRefused DEF SubmitInsufficient, NewSubmission, hcmVars, NoHistory
<1>7. CASE /\ SubmitAccepted(ext, k, d)
           /\ Answer("SUBMIT_TIME_OFF", "OK", request, Accepted(ext, k, d))
    BY <1>1, <1>7, SubmitRecorded
<1> QED
    BY <1>2, <1>3, <1>4, <1>5, <1>6, <1>7 DEF SubmitTimeOff

(* Any other step leaves the record alone or, if it resets it, empties it. *)
LEMMA RecordStays ==
    ASSUME Inv,
           processedRequests' = processedRequests \/ processedRequests' = {},
           reply'.op # "SUBMIT_TIME_OFF" \/ UNCHANGED <<reply, processedRequests>>
    PROVE  OneRecordEach' /\ AnsweredFromRecord'
    BY DEF Inv, OneRecordEach, AnsweredFromRecord

(* A balance changed in the HCM (adjustBalance).                           *)
LEMMA AdjustStep ==
    ASSUME Inv, NEW k \in Pairs, NEW delta \in Adjustments, AdjustBalance(k, delta)
    PROVE  Inv'
<1>1. UNCHANGED <<now, snapshots, processedRequests>> /\ reply'.op = "ADJUST_BALANCE"
    BY DEF AdjustBalance, AdjustUnavailable, AdjustUnknown, AdjustInsufficient,
           AdjustAccepted, ConsumeTransientFailure, hcmVars, Answer
<1>2. OneRecordEach' /\ AnsweredFromRecord'
    BY <1>1, RecordStays
<1>3. CASE AdjustAccepted(k, delta)
    BY <1>1, <1>2, <1>3, SnapshotsFallBehind DEF AdjustAccepted, AdvanceBatchVersion, MayTick, Inv
<1>4. CASE AdjustUnavailable \/ AdjustUnknown(k) \/ AdjustInsufficient(k, delta)
    BY <1>1, <1>2, <1>4, SnapshotsStay DEF AdjustUnavailable, AdjustUnknown,
       AdjustInsufficient, ConsumeTransientFailure, hcmVars, Inv
<1> QED
    BY <1>3, <1>4 DEF AdjustBalance

(* A snapshot handed out or refused (getBatchSnapshot).                    *)
LEMMA SnapshotStep ==
    ASSUME Inv, GetBatchSnapshot
    PROVE  Inv'
<1>1. UNCHANGED <<now, processedRequests>> /\ reply'.op = "GET_BATCH_SNAPSHOT"
    BY DEF GetBatchSnapshot, SnapshotUnavailable, SnapshotTaken,
           ConsumeTransientFailure, hcmVars, Answer
<1>2. OneRecordEach' /\ AnsweredFromRecord'
    BY <1>1, RecordStays
<1>3. CASE SnapshotTaken /\ snapshots' = snapshots \cup {Snapshot}
    BY <1>1, <1>2, <1>3, SnapshotJoins DEF SnapshotTaken, Inv
<1>4. CASE SnapshotUnavailable /\ UNCHANGED snapshots
    BY <1>1, <1>2, <1>4, SnapshotsStay
    DEF SnapshotUnavailable, ConsumeTransientFailure, Inv
<1> QED
    BY <1>3, <1>4 DEF GetBatchSnapshot

(* Every step keeps the invariant.                                        *)
LEMMA Invariance == Inv /\ [Next]_clientVars => Inv'
<1> SUFFICES ASSUME Inv, [Next]_clientVars
             PROVE  Inv'
    OBVIOUS
<1>1. ASSUME NEW k \in Pairs, GetBalance(k)
      PROVE  Inv'
    <2>1. /\ UNCHANGED <<now, snapshots, seeded, balances, processedRequests,
                        batchSequence, effectiveAt>>
          /\ reply'.op = "GET_BALANCE"
        BY <1>1 DEF GetBalance, NoHistory, GetBalanceUnavailable, GetBalanceUnknown,
           GetBalanceFound, ConsumeTransientFailure, hcmVars, Answer
    <2> QED
        BY <2>1, SnapshotsStay, RecordStays DEF Inv
<1>2. ASSUME NEW ext \in Requests, NEW k \in Pairs, NEW d \in RequestDays,
             SubmitTimeOff(ext, k, d)
      PROVE  Inv'
    BY <1>2, SubmitStep
<1>3. ASSUME NEW k \in Pairs, NEW delta \in Adjustments, AdjustBalance(k, delta)
      PROVE  Inv'
    BY <1>3, AdjustStep
<1>4. CASE GetBatchSnapshot
    BY <1>4, SnapshotStep
<1>5. ASSUME NEW op \in Operations, QueueFailure(op)
      PROVE  Inv'
    BY <1>5, SnapshotsStay, RecordStays
    DEF QueueFailure, ScheduleTransientFailure, Inv
<1>6. CASE ResetHcm
    <2>1. /\ snapshots' = {} /\ processedRequests' = {} /\ reply'.op = "RESET"
          /\ now' = now /\ batchSequence' = 0 /\ effectiveAt' = 0
        BY <1>6 DEF ResetHcm, Reset, Answer
    <2>2. ClocksOK' /\ SnapshotsAreBehind' /\ VersionNamesContent'
        BY <2>1 DEF Inv, ClocksOK, SnapshotsAreBehind, VersionNamesContent
    <2> QED
        BY <2>1, <2>2, RecordStays DEF Inv
<1>7. CASE TimePasses
    <2>1. UNCHANGED <<hcmVars, snapshots, reply>> /\ now' = now + 1
        BY <1>7 DEF TimePasses, Tick
    <2>2. ClocksOK' /\ SnapshotsAreBehind' /\ VersionNamesContent'
        BY <2>1 DEF Inv, ClocksOK, SnapshotsAreBehind, VersionNamesContent, Snapshot, hcmVars
    <2> QED
        BY <2>1, <2>2, RecordStays DEF Inv, hcmVars
<1>8. CASE UNCHANGED clientVars
    BY <1>8, SnapshotsStay, RecordStays DEF clientVars, hcmVars, Inv
<1> QED
    BY <1>1, <1>2, <1>3, <1>4, <1>5, <1>6, <1>7, <1>8 DEF Next

(* Only a reset takes a submission off the record.                         *)
LEMMA RecordLasts ==
    ASSUME [Next]_clientVars, reply'.op # "RESET"
    PROVE  processedRequests \subseteq processedRequests'
    BY DEF Next, clientVars, hcmVars, GetBalance, GetBalanceUnavailable, GetBalanceUnknown,
       GetBalanceFound, ConsumeTransientFailure, SubmitTimeOff, SubmitReplayed, SubmitConflict,
       SubmitUnavailable, SubmitUnknown, SubmitInsufficient, SubmitAccepted, AdjustBalance,
       AdjustUnavailable, AdjustUnknown, AdjustInsufficient, AdjustAccepted, GetBatchSnapshot,
       SnapshotUnavailable, SnapshotTaken, QueueFailure, ScheduleTransientFailure, ResetHcm,
       TimePasses, Answer

(* The invariant holds throughout.                                         *)
LEMMA InvHolds == Spec => []Inv
    BY InvInit, Invariance, PTL DEF Spec

-----------------------------------------------------------------------------
(* The sum in BalanceIsConserved.  It is a fold: the value at S of the     *)
(* function IsSum describes, which takes one element after the other.  A   *)
(* fact about all subsets of a finite set is shown by looking at a         *)
(* smallest subset that has it not.                                        *)

\* The element a fold takes first.
Some(S) == CHOOSE x \in S : TRUE

\* What the records of S deducted.
DaysOf(S) == MapThenSumSet(LAMBDA s : s.days, S)

IsSum(g, S) ==
    g = [T \in SUBSET S |-> IF T = {} THEN 0 ELSE Some(T).days + g[T \ {Some(T)}]]

(* The sum is the value of a function that satisfies the fold's equation,  *)
(* if there is one.                                                        *)
LEMMA DaysOfIsSum ==
    ASSUME NEW S
    PROVE  DaysOf(S) = (CHOOSE g : IsSum(g, S))[S]
    BY Zenon DEF DaysOf, MapThenSumSet, MapThenFoldSet, IsSum, Some

(* A fold takes an element of the set.                                     *)
LEMMA SomeIsIn ==
    ASSUME NEW S, S # {}
    PROVE  Some(S) \in S
    BY DEF Some

(* Of some subsets of a finite set, one contains none of the others.       *)
LEMMA SmallestSubset ==
    ASSUME NEW S, IsFiniteSet(S), NEW B, B \subseteq SUBSET S, B # {}
    PROVE  \E T \in B : \A U \in B : U \subseteq T => U = T
<1>1. IsWellFoundedOn(StrictSubsetOrdering(S), SUBSET S)
    BY FS_StrictSubsetOrderingWellFounded, FS_FiniteSubsetsOfFinite
<1>2. PICK T \in B : \A U \in B : ~ (<<U, T>> \in StrictSubsetOrdering(S))
    BY <1>1, WFMin
<1> QED
    BY <1>2 DEF StrictSubsetOrdering

(* The fold's equation at one set.                                         *)
LEMMA IsSumAt ==
    ASSUME NEW g, NEW S, IsSum(g, S), NEW T \in SUBSET S
    PROVE  g[T] = IF T = {} THEN 0 ELSE Some(T).days + g[T \ {Some(T)}]
    BY DEF IsSum

(* Two functions that satisfy it, on the subsets of A and of B, agree on   *)
(* the sets they share.                                                    *)
LEMMA SumsAgree ==
    ASSUME NEW S, IsFiniteSet(S), NEW A, NEW B, S \subseteq A, S \subseteq B,
           NEW g, NEW h, IsSum(g, A), IsSum(h, B)
    PROVE  g[S] = h[S]
<1> DEFINE Bad == {T \in SUBSET S : g[T] # h[T]}
<1> SUFFICES ASSUME Bad # {}
             PROVE  FALSE
    OBVIOUS
<1>0. Bad \subseteq SUBSET S
    OBVIOUS
<1>1. PICK T \in Bad : \A U \in Bad : U \subseteq T => U = T
    <2> HIDE DEF Bad
    <2> QED
        BY <1>0, SmallestSubset
<1>2. T \in SUBSET A /\ T \in SUBSET B
    BY <1>1
<1>3. T # {}
    BY <1>1, <1>2, IsSumAt
<1>4. g[T \ {Some(T)}] = h[T \ {Some(T)}]
    BY <1>1, <1>3, SomeIsIn
<1> QED
    BY <1>1, <1>2, <1>3, <1>4, IsSumAt

(* There is one for every finite set: on a smallest subset without one it  *)
(* is put together from those of its subsets.                              *)
LEMMA SumExists ==
    ASSUME NEW S, IsFiniteSet(S)
    PROVE  \E g : IsSum(g, S)
<1> DEFINE Bad == {T \in SUBSET S : ~ \E g : IsSum(g, T)}
<1> SUFFICES ASSUME Bad # {}
             PROVE  FALSE
    OBVIOUS
<1>0. Bad \subseteq SUBSET S
    OBVIOUS
<1>1. PICK T \in Bad : \A U \in Bad : U \subseteq T => U = T
    <2> HIDE DEF Bad
    <2> QED
        BY <1>0, SmallestSubset
<1> DEFINE h == [U \in SUBSET T |-> CHOOSE g : IsSum(g, U)]
           f == [U \in SUBSET T |->
                    IF U = {} THEN 0 ELSE Some(U).days + h[U \ {Some(U)}][U \ {Some(U)}]]
<1>2. ASSUME NEW U \in SUBSET T, U # T
      PROVE  IsSum(h[U], U)
    BY <1>1, <1>2
<1>3. ASSUME NEW U \in SUBSET T, U # T
      PROVE  f[U] = h[U][U]
    <2>1. h[U][U] = IF U = {} THEN 0 ELSE Some(U).days + h[U][U \ {Some(U)}]
        BY <1>2, <1>3, IsSumAt
    <2>2. CASE U = {}
        BY <2>1, <2>2
    <2>3. CASE U # {}
        <3> DEFINE V == U \ {Some(U)}
        <3>1. V \in SUBSET T /\ V # T /\ V \subseteq U /\ IsFiniteSet(V)
            BY <1>3, <2>3, SomeIsIn, FS_Subset
        <3>2. IsSum(h[V], V) /\ IsSum(h[U], U)
            BY <1>2, <1>3, <3>1
        <3>3. h[V][V] = h[U][V]
            BY <3>1, <3>2, SumsAgree
        <3> QED
            BY <2>1, <2>3, <3>3
    <2> QED
        BY <2>2, <2>3
<1>4. ASSUME NEW U \in SUBSET T
      PROVE  f[U] = IF U = {} THEN 0 ELSE Some(U).days + f[U \ {Some(U)}]
    <2>1. CASE U = {}
        BY <2>1
    <2>2. CASE U # {}
        <3>1. U \ {Some(U)} \in SUBSET T /\ U \ {Some(U)} # T
            BY <2>2, SomeIsIn
        <3>2. f[U \ {Some(U)}] = h[U \ {Some(U)}][U \ {Some(U)}]
            BY <1>3, <3>1
        <3>3. f[U] = Some(U).days + h[U \ {Some(U)}][U \ {Some(U)}]
            BY <2>2
        <3> HIDE DEF f
        <3> QED
            BY <2>2, <3>2, <3>3
    <2> QED
        BY <2>1, <2>2
<1> HIDE DEF h
<1>5. IsSum(f, T)
    <2> HIDE DEF f
    <2>1. f = [U \in SUBSET T |-> f[U]]
        BY DEF f
    <2> QED
        BY <1>4, <2>1 DEF IsSum
<1> QED
    BY <1>1, <1>5

(* So the sum over a subset is what any such function says it is,          *)
LEMMA DaysOfAny ==
    ASSUME NEW S, IsFiniteSet(S), NEW T \in SUBSET S, NEW g, IsSum(g, S)
    PROVE  DaysOf(T) = g[T]
<1>1. IsFiniteSet(T)
    BY FS_Subset
<1>2. IsSum(CHOOSE h : IsSum(h, T), T)
    BY <1>1, SumExists
<1> QED
    BY <1>1, <1>2, SumsAgree, DaysOfIsSum

(* nothing for no records,                                                 *)
LEMMA DaysOfNone == DaysOf({}) = 0
<1>1. PICK g : IsSum(g, {})
    BY SumExists, FS_EmptySet
<1>2. DaysOf({}) = g[{}]
    BY <1>1, DaysOfAny, FS_EmptySet
<1> QED
    BY <1>1, <1>2, IsSumAt

(* the first element's days and the sum of the others,                     *)
LEMMA DaysOfSome ==
    ASSUME NEW S, IsFiniteSet(S), S # {}
    PROVE  DaysOf(S) = Some(S).days + DaysOf(S \ {Some(S)})
<1>1. PICK g : IsSum(g, S)
    BY SumExists
<1>2. DaysOf(S) = g[S] /\ DaysOf(S \ {Some(S)}) = g[S \ {Some(S)}]
    BY <1>1, DaysOfAny
<1> QED
    BY <1>1, <1>2, IsSumAt

(* a number,                                                               *)
LEMMA DaysOfTyping ==
    ASSUME NEW S, IsFiniteSet(S), \A s \in S : s.days \in Int
    PROVE  DaysOf(S) \in Int
<1> DEFINE Bad == {T \in SUBSET S : DaysOf(T) \notin Int}
<1> SUFFICES ASSUME Bad # {}
             PROVE  FALSE
    OBVIOUS
<1>0. Bad \subseteq SUBSET S
    OBVIOUS
<1>1. PICK T \in Bad : \A U \in Bad : U \subseteq T => U = T
    <2> HIDE DEF Bad
    <2> QED
        BY <1>0, SmallestSubset
<1>2. T # {} /\ T \in SUBSET S
    BY DaysOfNone
<1>3. IsFiniteSet(T)
    BY <1>2, FS_Subset
<1>4. Some(T) \in T /\ DaysOf(T \ {Some(T)}) \in Int
    BY <1>1, <1>2, SomeIsIn
<1> QED
    BY <1>2, <1>3, <1>4, DaysOfSome

(* and any record's days and the sum of the others: the order in which a   *)
(* fold takes its elements does not matter.                                *)
LEMMA DaysOfRemoved ==
    ASSUME NEW S, IsFiniteSet(S), \A s \in S : s.days \in Int
    PROVE  \A x \in S : DaysOf(S) = x.days + DaysOf(S \ {x})
<1> DEFINE Bad == {T \in SUBSET S : \E x \in T : DaysOf(T) # x.days + DaysOf(T \ {x})}
<1> SUFFICES ASSUME Bad # {}
             PROVE  FALSE
    OBVIOUS
<1>0. Bad \subseteq SUBSET S
    OBVIOUS
<1>1. PICK T \in Bad : \A U \in Bad : U \subseteq T => U = T
    <2> HIDE DEF Bad
    <2> QED
        BY <1>0, SmallestSubset
<1>2. PICK x \in T : DaysOf(T) # x.days + DaysOf(T \ {x})
    OBVIOUS
<1> DEFINE y == Some(T)
<1>3. T \in SUBSET S /\ IsFiniteSet(T) /\ y \in T
    BY <1>2, SomeIsIn, FS_Subset
<1>4. DaysOf(T) = y.days + DaysOf(T \ {y})
    BY <1>3, DaysOfSome
<1>5. y # x
    BY <1>2, <1>4
<1>6. DaysOf(T \ {y}) = x.days + DaysOf((T \ {y}) \ {x})
    <2>1. T \ {y} \in SUBSET S /\ T \ {y} \notin Bad
        BY <1>1, <1>3
    <2> QED
        BY <1>5, <2>1
<1>7. DaysOf(T \ {x}) = y.days + DaysOf((T \ {x}) \ {y})
    <2>1. T \ {x} \in SUBSET S /\ T \ {x} \notin Bad
        BY <1>1, <1>2, <1>3
    <2> QED
        BY <1>3, <1>5, <2>1
<1>8. (T \ {x}) \ {y} = (T \ {y}) \ {x}
    OBVIOUS
<1>9. DaysOf((T \ {y}) \ {x}) \in Int
    <2>1. (T \ {y}) \ {x} \in SUBSET S
        BY <1>3
    <2> HIDE DEF y
    <2>2. IsFiniteSet((T \ {y}) \ {x})
        BY <2>1, FS_Subset
    <2> QED
        BY <2>1, <2>2, DaysOfTyping
<1>10. x.days \in Int /\ y.days \in Int
    BY <1>2, <1>3
<1>11. DaysOf(T) = x.days + DaysOf(T \ {x})
    <2> DEFINE p == x.days
               q == y.days
               r == DaysOf((T \ {y}) \ {x})
    <2>1. DaysOf(T) = q + (p + r) /\ DaysOf(T \ {x}) = q + r
        BY <1>4, <1>6, <1>7, <1>8
    <2>2. p \in Int /\ q \in Int /\ r \in Int
        BY <1>9, <1>10
    <2> HIDE DEF p, q, r
    <2>3. DaysOf(T) = p + DaysOf(T \ {x})
        BY <2>1, <2>2
    <2> QED
        BY <2>3 DEF p
<1> QED
    BY <1>2, <1>11

-----------------------------------------------------------------------------
(* What was granted, what is left and what is on record.                   *)

OnRecord(k) == {s \in processedRequests : s.pair = k}

\* BalanceIsConserved in these terms.
Books == \A k \in seeded : granted[k] = balances[k] + DaysOf(OnRecord(k))

Balanced ==
    /\ HcmTypeOK
    /\ IsFiniteSet(processedRequests)
    /\ granted \in [Pairs -> Int]
    /\ Books

(* It says the same.                                                       *)
LEMMA ConservedAt == BalanceIsConserved <=> Books
    BY Zenon DEF BalanceIsConserved, DaysOf, OnRecord, Books

(* A seed is what was granted, and nothing is on record.                   *)
LEMMA BalancedInit == Init => Balanced
<1> SUFFICES ASSUME Init
             PROVE  Balanced
    OBVIOUS
<1>1. HcmTypeOK /\ granted = balances /\ processedRequests = {}
    BY HcmInitTyping DEF Init, HcmInit
<1>2. ASSUME NEW k \in seeded
      PROVE  granted[k] = balances[k] + DaysOf(OnRecord(k))
    <2>1. OnRecord(k) = {}
        BY <1>1 DEF OnRecord
    <2>2. balances[k] \in Nat
        BY <1>1 DEF HcmTypeOK
    <2> QED
        BY <1>1, <2>1, <2>2, DaysOfNone
<1>3. granted \in [Pairs -> Int] /\ IsFiniteSet(processedRequests)
    BY <1>1, FS_EmptySet DEF HcmTypeOK
<1> QED
    BY <1>1, <1>2, <1>3 DEF Balanced, Books

(* Steps that leave balances, grants and records alone.                    *)
LEMMA BooksStay ==
    ASSUME Balanced, HcmTypeOK', UNCHANGED <<seeded, balances, processedRequests, granted>>
    PROVE  Balanced'
    BY DEF Balanced, Books, OnRecord

(* A new seed with an empty record (reset).                                *)
LEMMA BooksReset ==
    ASSUME Balanced, ResetHcm
    PROVE  Balanced'
<1>1. HcmTypeOK' /\ granted' = balances' /\ processedRequests' = {}
    BY ResetTyping DEF ResetHcm, Reset, Balanced
<1>2. ASSUME NEW k \in seeded'
      PROVE  granted'[k] = balances'[k] + DaysOf(OnRecord(k)')
    <2>1. OnRecord(k)' = {}
        BY <1>1 DEF OnRecord
    <2>2. balances'[k] \in Nat
        BY <1>1 DEF HcmTypeOK
    <2> QED
        BY <1>1, <2>1, <2>2, DaysOfNone
<1>3. granted' \in [Pairs -> Int] /\ IsFiniteSet(processedRequests')
    BY <1>1, FS_EmptySet DEF HcmTypeOK
<1> QED
    BY <1>1, <1>2, <1>3 DEF Balanced, Books

(* The days on record for a pair are a number.                             *)
LEMMA DaysOnRecord ==
    ASSUME Balanced, NEW k
    PROVE  /\ IsFiniteSet(OnRecord(k))
           /\ \A s \in OnRecord(k) : s.days \in Int
           /\ DaysOf(OnRecord(k)) \in Int
<1>1. IsFiniteSet(OnRecord(k))
    BY FS_Subset DEF Balanced, OnRecord
<1>2. \A s \in OnRecord(k) : s.days \in Int
    BY DEF Balanced, OnRecord, HcmTypeOK, Submission
<1> QED
    BY <1>1, <1>2, DaysOfTyping

(* A change of a balance is granted as it is made (adjustBalance).         *)
LEMMA BooksAdjusted ==
    ASSUME Balanced, now \in Nat, NEW k \in Pairs, NEW delta \in Adjustments,
           AdjustAccepted(k, delta), granted' = [granted EXCEPT ![k] = @ + delta]
    PROVE  Balanced'
<1>1. HcmTypeOK'
    BY AdjustTyping DEF Balanced
<1>2. /\ balances' = [balances EXCEPT ![k] = @ + delta]
      /\ seeded' = seeded /\ processedRequests' = processedRequests /\ delta \in Int
    BY AdjustmentsAssumption DEF AdjustAccepted
<1>3. granted' \in [Pairs -> Int] /\ balances \in [Pairs -> Nat] /\ granted \in [Pairs -> Int]
    BY <1>2 DEF Balanced, HcmTypeOK
<1>4. ASSUME NEW j \in seeded'
      PROVE  granted'[j] = balances'[j] + DaysOf(OnRecord(j)')
    <2>1. OnRecord(j)' = OnRecord(j) /\ j \in Pairs
        BY <1>2 DEF OnRecord, Balanced, HcmTypeOK
    <2>2. granted[j] = balances[j] + DaysOf(OnRecord(j))
        BY <1>2 DEF Balanced, Books
    <2>3. DaysOf(OnRecord(j)) \in Int
        BY DaysOnRecord
    <2> QED
        BY <1>2, <1>3, <2>1, <2>2, <2>3
<1> QED
    BY <1>1, <1>2, <1>3, <1>4 DEF Balanced, Books

(* A deduction is recorded as it is made, under an id that was not on      *)
(* record (submitTimeOff).                                                 *)
LEMMA BooksDeducted ==
    ASSUME Balanced, now \in Nat, NEW ext \in Requests, NEW k \in Pairs, NEW d \in Nat,
           SubmitAccepted(ext, k, d), granted' = granted
    PROVE  Balanced'
<1> DEFINE a == Accepted(ext, k, d)
<1>1. HcmTypeOK'
    BY AcceptedTyping DEF Balanced
<1>2. a \notin processedRequests /\ a.pair = k /\ a.days = d
    BY DEF SubmitAccepted, NewSubmission, Processed, Accepted
<1>3. /\ balances' = [balances EXCEPT ![k] = @ - d]
      /\ seeded' = seeded /\ processedRequests' = processedRequests \cup {a}
    BY DEF SubmitAccepted
<1>4. balances \in [Pairs -> Nat] /\ granted \in [Pairs -> Int] /\ seeded \subseteq Pairs
    BY DEF Balanced, HcmTypeOK
<1> HIDE DEF a
<1>5. ASSUME NEW j \in seeded'
      PROVE  granted'[j] = balances'[j] + DaysOf(OnRecord(j)')
    <2>1. granted[j] = balances[j] + DaysOf(OnRecord(j)) /\ DaysOf(OnRecord(j)) \in Int
        BY <1>3, DaysOnRecord DEF Balanced, Books
    <2>2. CASE j # k
        <3>1. OnRecord(j)' = OnRecord(j)
            BY <1>2, <1>3, <2>2 DEF OnRecord
        <3> QED
            BY <1>3, <1>4, <2>1, <2>2, <3>1
    <2>3. CASE j = k
        <3> DEFINE S == OnRecord(k)'
        <3>1. S = OnRecord(k) \cup {a} /\ a \notin OnRecord(k)
            BY <1>2, <1>3 DEF OnRecord
        <3>2. IsFiniteSet(S) /\ \A s \in S : s.days \in Int
            BY <1>2, <3>1, DaysOnRecord, FS_AddElement
        <3>3. S \ {a} = OnRecord(k) /\ a \in S
            BY <3>1
        <3> HIDE DEF S
        <3>4. DaysOf(S) = d + DaysOf(OnRecord(k))
            BY <1>2, <3>2, <3>3, DaysOfRemoved
        <3>5. balances'[k] = balances[k] - d /\ balances[k] \in Nat
            BY <1>3, <1>4
        <3> QED
            BY <2>1, <2>3, <3>4, <3>5 DEF S
    <2> QED
        BY <2>2, <2>3
<1>6. IsFiniteSet(processedRequests')
    BY <1>3, FS_AddElement DEF Balanced
<1> QED
    BY <1>1, <1>4, <1>5, <1>6 DEF Balanced, Books

(* Every step keeps the books.                                             *)
LEMMA BalancedNext == Inv /\ Balanced /\ [Next]_clientVars => Balanced'
<1> SUFFICES ASSUME Inv, Balanced, [Next]_clientVars
             PROVE  Balanced'
    OBVIOUS
<1> USE DEF Operations
<1>0. HcmTypeOK /\ now \in Nat
    BY DEF Balanced, Inv, ClocksOK
<1>1. ASSUME NEW op \in Operations, ConsumeTransientFailure(op), granted' = granted
      PROVE  Balanced'
    BY <1>0, <1>1, BooksStay, FailureTyping DEF ConsumeTransientFailure
<1>2. ASSUME UNCHANGED hcmVars, granted' = granted
      PROVE  Balanced'
    BY <1>0, <1>2, BooksStay, HcmUnchangedTyping DEF hcmVars
<1>3. ASSUME NEW k \in Pairs, GetBalance(k)
      PROVE  Balanced'
    BY <1>1, <1>2, <1>3 DEF GetBalance, NoHistory, GetBalanceUnavailable,
       GetBalanceUnknown, GetBalanceFound
<1>4. ASSUME NEW ext \in Requests, NEW k \in Pairs, NEW d \in RequestDays,
             SubmitTimeOff(ext, k, d)
      PROVE  Balanced'
    <2>1. granted' = granted /\ d \in Nat
        BY <1>4, RequestDaysAssumption DEF SubmitTimeOff, NoHistory
    <2>2. \/ UNCHANGED hcmVars
          \/ ConsumeTransientFailure("SUBMIT_TIME_OFF")
          \/ SubmitAccepted(ext, k, d)
        BY <1>4 DEF SubmitTimeOff, SubmitReplayed, SubmitConflict, SubmitUnavailable,
           SubmitUnknown, SubmitInsufficient
    <2> QED
        BY <1>0, <1>1, <1>2, <2>1, <2>2, BooksDeducted
<1>5. ASSUME NEW k \in Pairs, NEW delta \in Adjustments, AdjustBalance(k, delta)
      PROVE  Balanced'
    BY <1>0, <1>1, <1>2, <1>5, BooksAdjusted DEF AdjustBalance, AdjustUnavailable,
       AdjustUnknown, AdjustInsufficient
<1>6. CASE GetBatchSnapshot
    BY <1>1, <1>2, <1>6 DEF GetBatchSnapshot, SnapshotUnavailable, SnapshotTaken
<1>7. ASSUME NEW op \in Operations, QueueFailure(op)
      PROVE  Balanced'
    BY <1>0, <1>7, BooksStay, FailureTyping DEF QueueFailure, ScheduleTransientFailure
<1>8. CASE ResetHcm
    BY <1>8, BooksReset
<1>9. CASE TimePasses
    BY <1>2, <1>9 DEF TimePasses
<1>10. CASE UNCHANGED clientVars
    BY <1>2, <1>10 DEF clientVars
<1> QED
    BY <1>3, <1>4, <1>5, <1>6, <1>7, <1>8, <1>9, <1>10 DEF Next

-----------------------------------------------------------------------------
(* Two snapshots with one sourceVersion are one snapshot, and a later      *)
(* version is not dated before an earlier one (getBatchSnapshot).          *)
THEOREM VersionsNameContent == Spec => []VersionNamesContent
    BY InvHolds, PTL DEF Inv

(* No day is created or lost: every balance the HCM holds is what was      *)
(* granted less the days of the submissions on record (submitTimeOff,      *)
(* adjustBalance, reset).                                                  *)
THEOREM DaysAreConserved == Spec => []BalanceIsConserved
<1>1. Spec => []Balanced
    BY InvHolds, BalancedInit, BalancedNext, PTL DEF Spec
<1> QED
    BY <1>1, ConservedAt, PTL DEF Balanced

(* An accepted submission is answered alike each time it is repeated: its  *)
(* record lasts until a reset, and is the only one of its id               *)
(* (submitTimeOff's replay).                                               *)
THEOREM RepeatsAreAnsweredAlike == Spec => AcceptedStaysAccepted
<1>1. ASSUME Inv, Inv', [Next]_clientVars
      PROVE  [\A s \in processedRequests :
                reply'.op = "SUBMIT_TIME_OFF" /\ reply'.request = <<s.ext, s.pair, s.days>>
                    => reply'.code = "OK" /\ reply'.value = s]_clientVars
    <2> SUFFICES ASSUME NEW s \in processedRequests, reply'.op = "SUBMIT_TIME_OFF",
                        reply'.request = <<s.ext, s.pair, s.days>>
                 PROVE  reply'.code = "OK" /\ reply'.value = s
        OBVIOUS
    <2>1. s \in processedRequests'
        BY <1>1, RecordLasts
    <2> QED
        BY <1>1, <2>1 DEF Inv, AnsweredFromRecord
<1> QED
    BY <1>1, InvHolds, PTL DEF Spec, AcceptedStaysAccepted
=============================================================================
