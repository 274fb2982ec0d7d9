------------------------------ MODULE Requests ------------------------------
(***************************************************************************)
(* What queued I/O promises of a request (src/support/1/qio/qio.xml): it is *)
(* answered once, with one status; the device is said to have completed it  *)
(* only when it had been started, and its time to be over only when it was. *)
(* A request picked for cancellation is never started any more.             *)
(***************************************************************************)
CONSTANT Iocb  \* I/O control blocks, one request each

VARIABLES
  fate,    \* what has become of the request
  overdue  \* requests whose time is over

Statuses == {"complete", "cancelled", "timeout"}
Fates    == {"idle", "waiting", "picked", "started"} \cup Statuses

\* The steps of one request.
Follows(i, from, to) ==
  \/ from = to
  \/ from = "idle" /\ to \in {"waiting", "started", "cancelled"}
  \/ from = "waiting" /\ to \in {"started", "picked", "cancelled"}
  \/ from = "picked" /\ to = "cancelled"
  \/ from = "started" /\ to \in {"complete", "cancelled"}
  \/ from \in {"waiting", "picked", "started"} /\ to = "timeout" /\ i \in overdue
  \/ from \in Statuses /\ to = "idle"

Init == fate = [i \in Iocb |-> "idle"] /\ overdue = {}

Next ==
  /\ fate' \in [Iocb -> Fates]
  /\ \A i \in Iocb : Follows(i, fate[i], fate'[i])
  /\ overdue' \subseteq Iocb

Spec == Init /\ [][Next]_<<fate, overdue>>
=============================================================================
