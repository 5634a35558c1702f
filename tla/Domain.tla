------------------------------- MODULE Domain -------------------------------
(***************************************************************************)
(* What every component of ReadyOn shares: the employee/location pairs a   *)
(* balance is kept for, the time-off requests, and the wall clock.         *)
(*                                                                         *)
(* Ids are model values.  A pair stands for the "employeeId::locationId"   *)
(* key of the HCM map, of the approval gate and of the balances table.     *)
(* The code compares ISO strings of equal length, so an instant is a       *)
(* natural number; two events may fall in the same instant (Date has       *)
(* millisecond resolution).                                                *)
(***************************************************************************)
EXTENDS Integers

CONSTANTS
    Pairs,      \* employee/location pairs
    Requests,   \* ids of time-off requests
    MaxTime     \* bound: the last instant of the wall clock

ASSUME MaxTimeAssumption == MaxTime \in Nat

VARIABLE now    \* what `new Date()` returns

Tick == /\ now < MaxTime
        /\ now' = now + 1

\* A step without an await that reads the clock twice may see it move.
MayTick == Tick \/ UNCHANGED now
=============================================================================
