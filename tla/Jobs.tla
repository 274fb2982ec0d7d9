-------------------------------- MODULE Jobs --------------------------------
(***************************************************************************)
(* What a work queue promises (the descriptions of KRN_initWQ, KRN_queueWQ  *)
(* and KRN_dispatchWQ in src/kernel/krn.xml): as many jobs as there are     *)
(* descriptors may wait; they are run in the order in which they were       *)
(* queued, each of them once.                                               *)
(***************************************************************************)
EXTENDS Integers, Sequences

CONSTANTS Job, Capacity

VARIABLES
  line,    \* the jobs queued and not yet begun, oldest first
  running  \* the jobs somebody is running

vars == <<line, running>>

Init == line = <<>> /\ running = {}

\* A job that neither waits nor runs is queued.
Add(j) ==
  /\ Len(line) < Capacity
  /\ j \notin running
  /\ \A i \in 1 .. Len(line) : line[i] # j
  /\ line' = Append(line, j)
  /\ UNCHANGED running

Run ==
  /\ line # <<>>
  /\ line' = Tail(line)
  /\ running' = running \cup {Head(line)}

\* Jobs have run.
End(js) ==
  /\ js # {}
  /\ running' = running \ js
  /\ UNCHANGED line

Next ==
  \/ \E j \in Job : Add(j)
  \/ Run
  \/ \E js \in SUBSET running : End(js)

Spec == Init /\ [][Next]_vars
=============================================================================
