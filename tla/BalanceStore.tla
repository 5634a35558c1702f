---------------------------- MODULE BalanceStore ----------------------------
(***************************************************************************)
(* The balances table: ReadyOn's projection of the HCM's balances, one row *)
(* per pair at most.  Approval, refresh and reconciliation all write it,   *)
(* each with an upsert that replaces the row in place.                     *)
(***************************************************************************)
EXTENDS Domain

CONSTANTS
    SourceVersions,     \* versions a reconciled batch may carry
    NoVersion,          \* sourceVersion null
    NoProjection        \* no row for a pair

VARIABLE projections

Projection == [availableDays: Nat, lastSyncedAt: Nat,
               sourceVersion: SourceVersions \cup {NoVersion}]

\* An answer of the HCM that is about to be stored.
Reading == [availableDays: Nat, lastSyncedAt: Nat]

ASSUME NoProjectionAssumption == NoProjection \notin Projection

ProjectionsTypeOK == projections \in [Pairs -> Projection \cup {NoProjection}]

\* existingBalance?.sourceVersion ?? null
VersionOf(row) == IF row = NoProjection THEN NoVersion ELSE row.sourceVersion

\* The row an upsert leaves: a reading, under a version read beforehand.
Row(reading, version) == [availableDays |-> reading.availableDays,
                          lastSyncedAt |-> reading.lastSyncedAt,
                          sourceVersion |-> version]
=============================================================================
