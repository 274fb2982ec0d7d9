------------------------------ MODULE MCLocks -------------------------------
(* Instance of Locks for TLC.  With one priority any ready task may run, so *)
(* that every order other priorities allow is among those checked.          *)
EXTENDS Locks

CONSTANTS a, b, c

ASSUME LockAssumption == LockConstants

Equal == [t \in Task |-> 1]
=============================================================================
