---------------------------- MODULE MCSemaphores ----------------------------
(* Instance of Semaphores for TLC: an urgent task and two peers below it.   *)
EXTENDS Semaphores

CONSTANTS urgent, a, b

Ranked == [t \in Task |-> IF t = urgent THEN 2 ELSE 1]

Symmetric == Permutations({a, b})
=============================================================================
