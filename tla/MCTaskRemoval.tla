--------------------------- MODULE MCTaskRemoval ----------------------------
(* Instance of TaskRemoval for TLC: a victim, and a remover of its priority. *)
EXTENDS TaskRemoval

CONSTANTS a, b

Equal == [t \in Task |-> 1]
=============================================================================
