--------------------------- MODULE MCImportExport ---------------------------
(* Instances of ImportExport for TLC.                                       *)
EXTENDS ImportExport

CONSTANTS c1, c2, srv, a, b, l

\* One task on each of two clients, and one on the server.
OnePerThread == (a :> c1) @@ (b :> c2) @@ (l :> srv)

\* Timeouts of the three: one client always waits, the server may run out of time.
Some == (a :> {"zero", "forever"}) @@ (b :> {"forever"}) @@ (l :> {"ticks", "forever"})

\* Two tasks on one client, which no run checks: see section 8 of the README.
TwoOnOne == (a :> c1) @@ (b :> c1)

Forever == [t \in Task |-> {"forever"}]

\* The semaphore is exported before the clients import it or after; in the second
\* case the value of their copies is not the number of the probe.
Apart == {[exported |-> TRUE, first |-> 0], [exported |-> FALSE, first |-> 1]}

\* It is exported before (with TwoOnOne).
Exported == {[exported |-> TRUE, first |-> 0]}
=============================================================================
