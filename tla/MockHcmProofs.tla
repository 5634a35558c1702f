---------------------------- MODULE MockHcmProofs ----------------------------
(***************************************************************************)
(* Type lemmas about the operations of the HCM, for the proofs about what  *)
(* is built on it.                                                         *)
(***************************************************************************)
EXTENDS MockHcm, TLAPS

USE SeedDaysAssumption, AdjustmentsAssumption

(* A seed of the HCM gives every pair a natural number of days (reset).    *)
LEMMA SeedTyping ==
    ASSUME NEW seed \in Seeds
    PROVE  DOMAIN seed \subseteq Pairs /\ SeedBalances(seed) \in [Pairs -> Nat]
<1>1. PICK K \in SUBSET Pairs : seed \in [K -> SeedDays]
    BY DEF Seeds
<1>2. \A k \in DOMAIN seed : seed[k] \in Nat
    BY <1>1
<1> QED
    BY <1>1, <1>2 DEF SeedBalances

(* The HCM starts well typed.                                              *)
LEMMA HcmInitTyping == HcmInit => HcmTypeOK
    BY SeedTyping DEF HcmInit, HcmTypeOK, Operations

(* A reset leaves it well typed (reset).                                   *)
LEMMA ResetTyping == HcmTypeOK /\ Reset => HcmTypeOK'
    BY SeedTyping DEF Reset, HcmTypeOK, Operations

(* Queueing or consuming a failure (scheduleTransientFailure).             *)
LEMMA FailureTyping ==
    ASSUME NEW op \in Operations, HcmTypeOK,
           ScheduleTransientFailure(op) \/ ConsumeTransientFailure(op)
    PROVE  HcmTypeOK'
<1>1. CASE ScheduleTransientFailure(op)
    BY <1>1 DEF HcmTypeOK, ScheduleTransientFailure
<1>2. CASE ConsumeTransientFailure(op)
    BY <1>2 DEF HcmTypeOK, ConsumeTransientFailure, FailureQueued
<1> QED
    BY <1>1, <1>2

(* The clock only moves forward, also between two reads (submitTimeOff).   *)
LEMMA ClockMovesOn ==
    ASSUME now \in Nat, MayTick
    PROVE  now' \in Nat /\ now <= now'
    BY DEF MayTick, Tick

(* An accepted submission is a well-formed record and leaves a balance     *)
(* that is not negative (submitTimeOff).                                   *)
LEMMA AcceptedTyping ==
    ASSUME NEW ext \in Requests, NEW k \in Pairs, NEW d \in Nat,
           now \in Nat, HcmTypeOK, SubmitAccepted(ext, k, d)
    PROVE  Accepted(ext, k, d) \in Submission /\ HcmTypeOK' /\ now' \in Nat
<1>1. Accepted(ext, k, d) \in Submission
    BY DEF Accepted, Submission, HcmTypeOK, SubmitAccepted
<1>2. now' \in Nat
    BY ClockMovesOn DEF SubmitAccepted
<1>3. HcmTypeOK'
    BY <1>1, <1>2 DEF HcmTypeOK, SubmitAccepted, AdvanceBatchVersion
<1> QED
    BY <1>1, <1>2, <1>3

(* A change made in the HCM (adjustBalance).                               *)
LEMMA AdjustTyping ==
    ASSUME NEW k \in Pairs, NEW delta \in Adjustments, now \in Nat, HcmTypeOK,
           AdjustAccepted(k, delta)
    PROVE  HcmTypeOK'
    BY DEF HcmTypeOK, AdjustAccepted, AdvanceBatchVersion

(* A step that leaves the HCM alone.                                       *)
LEMMA HcmUnchangedTyping ==
    ASSUME HcmTypeOK, UNCHANGED hcmVars
    PROVE  HcmTypeOK'
    BY DEF HcmTypeOK, hcmVars
=============================================================================
