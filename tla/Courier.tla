------------------------------ MODULE Courier -------------------------------
(***************************************************************************)
(* What a message queue promises (the descriptions of MQ_send, MQ_recv and   *)
(* MQ_return in src/mq/mq.xml): messages are received in the order in which *)
(* they were sent, each once, and what has been received is returned to the *)
(* sender, who uses it again only then.                                     *)
(***************************************************************************)
EXTENDS Integers, Sequences

CONSTANT Desc

VARIABLES
  idle,      \* what the sender may use
  sent,      \* sent and not yet received, oldest first
  received,  \* with the receiver
  returned   \* returned and not yet collected, oldest first

vars == <<idle, sent, received, returned>>

Init == idle = Desc /\ sent = <<>> /\ received = {} /\ returned = <<>>

Send(d) ==
  /\ d \in idle
  /\ idle' = idle \ {d}
  /\ sent' = Append(sent, d)
  /\ UNCHANGED <<received, returned>>

Receive ==
  /\ sent # <<>>
  /\ received' = received \cup {Head(sent)}
  /\ sent' = Tail(sent)
  /\ UNCHANGED <<idle, returned>>

Return(d) ==
  /\ d \in received
  /\ received' = received \ {d}
  /\ returned' = Append(returned, d)
  /\ UNCHANGED <<idle, sent>>

Collect(n) ==
  /\ n \in 1 .. Len(returned)
  /\ idle' = idle \cup {returned[i] : i \in 1 .. n}
  /\ returned' = SubSeq(returned, n + 1, Len(returned))
  /\ UNCHANGED <<sent, received>>

Next ==
  \/ \E d \in Desc : Send(d) \/ Return(d)
  \/ Receive
  \/ \E n \in 1 .. Len(returned) : Collect(n)

Spec == Init /\ [][Next]_vars
=============================================================================
