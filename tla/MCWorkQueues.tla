---------------------------- MODULE MCWorkQueues -----------------------------
(* Instances of WorkQueues for TLC.  With one priority any ready task may run. *)
EXTENDS WorkQueues

CONSTANTS p, w, v, d, e, j, k, l

Equal == [t \in Task |-> 1]

\* One descriptor and three jobs: while one runs, and another waits, it asks for room
\* for the third.
Full ==
  [workers |-> <<w>>, descs |-> {d}, callers |-> {p, w}, jobs |-> {j, k, l},
   dispatchers |-> {}, removers |-> {p}]

\* Two workers that take two jobs in order.
Staff ==
  [workers |-> <<w, v>>, descs |-> {d, e}, callers |-> {p}, jobs |-> {j, k},
   dispatchers |-> {}, removers |-> {}]

\* Two descriptors; a task dispatches jobs, and a job does in the middle of itself.
Nested ==
  [workers |-> <<w>>, descs |-> {d, e}, callers |-> {p}, jobs |-> {j, k},
   dispatchers |-> {p, w}, removers |-> {}]

\* Two workers that are removed one after the other, by a task or by one of them in
\* the middle of a job, who so removes itself.
Removal ==
  [workers |-> <<v, w>>, descs |-> {d}, callers |-> {p}, jobs |-> {j},
   dispatchers |-> {}, removers |-> {p, v}]

Each == {Full, Staff, Nested, Removal}
=============================================================================
