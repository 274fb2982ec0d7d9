------------------------------- MODULE Queues -------------------------------
(***************************************************************************)
(* Tables of double linked queues (src/dqueues/dq.c): qs[q] is queue q.     *)
(* An item has one pair of links, so it can be on one queue at a time, and  *)
(* DQ_remove takes it off that queue without being told which one it is; an *)
(* item on no queue is linked to itself, and removing it does nothing.      *)
(***************************************************************************)
EXTENDS SequencesExt

\* No item is on two of the queues Q, or twice on one.
Once(qs, Q) ==
  \A q, r \in Q : \A i \in 1 .. Len(qs[q]), j \in 1 .. Len(qs[r]) :
    qs[q][i] = qs[r][j] => q = r /\ i = j

\* DQ_addTail, DQ_addHead, DQ_removeHead
AddTail(qs, q, x) == [qs EXCEPT ![q] = Append(qs[q], x)]
AddHead(qs, q, x) == [qs EXCEPT ![q] = <<x>> \o qs[q]]
RemoveHead(qs, q) == [qs EXCEPT ![q] = Tail(qs[q])]

\* Mutated form of Unlinked: the item stays linked where it was.
StillLinked(qs, x) == qs

\* DQ_remove
Unlinked(qs, x) == [q \in DOMAIN qs |-> RemoveFirst(qs[q], x)]

\* A walk along the queue s with DQ_first and DQ_next that removes every item but
\* those of S.
Sifted(s, S) ==
  LET walk[n \in 0 .. Len(s)] ==
        IF n = 0 THEN <<>>
        ELSE IF s[n] \in S THEN Append(walk[n - 1], s[n]) ELSE walk[n - 1]
  IN  walk[Len(s)]
=============================================================================
