---------------------------- MODULE MessageQueue ----------------------------
(***************************************************************************)
(* Message queues between processors (src/mq/mq_template.h, src/ipm) as they*)
(* carry messages to a guest: the host sends buffers of a pool, the guest   *)
(* receives them and gives them back.  The two share a table of descriptors,*)
(* a ring of available and a ring of used ones, and interrupt each other.   *)
(* Each access to a ring's index or flags is one step, with what the code   *)
(* does to memory the other side does not look at before or after it.       *)
(* Memory is sequentially consistent.                                       *)
(*                                                                          *)
(* The guest receives in a task of its own, with a timeout, or as           *)
(* src/support/1/librproc/rproc.c does: the queue's callback puts a job on  *)
(* a work queue (src/kernel/wq.c), which receives until there is nothing    *)
(* left.  There is one job, and one task that works.                        *)
(***************************************************************************)
EXTENDS Integers, FiniteSets, SequencesExt

CONSTANTS
  Size,       \* descriptors, and buffers of the pool
  Modulus,    \* indices are counted modulo this, 2^16 in the code
  Receivers   \* how the guest receives: "callback", "ticks" or "forever"

ASSUME MessageQueueAssumption ==
  /\ Size \in Nat \ {0} /\ Modulus \in Nat
  /\ Modulus % Size = 0 /\ Modulus > Size
  /\ Receivers \subseteq {"callback", "ticks", "forever"}

Desc == 0 .. Size - 1

VARIABLES
  avail,    \* index and ring of what is available to the guest
  used,     \* index and ring of what the guest has used; noNotify flag
  host,     \* the host: free descriptors and buffers, lastUsed, its task
  guest,    \* the guest: lastAvailable, the descriptor it has, its task
  job,      \* the job of the work queue: in the pool, queued or being taken
  kick,     \* interrupts pending at the two sides
  receiver  \* how the guest receives, chosen at the start

vars == <<avail, used, host, guest, job, kick, receiver>>

\* What a task does; the first rows are outside any section with the IPL raised.
HostStep  == {"idle", "filling"} \cup {"linked", "published"}
Open      == {"wait", "job", "call", "holding", "deciding", "asleep"}
GuestStep == Open \cup {"look", "empty", "again", "fetch", "fetched", "more",
                        "put", "nudge"}

Ring == [0 .. Size - 1 -> Desc]

TypeOK ==
  /\ avail \in [index : 0 .. Modulus - 1, ring : Ring]
  /\ used \in [index : 0 .. Modulus - 1, ring : Ring, noNotify : BOOLEAN]
  /\ host \in [free : Seq(Desc), pool : 0 .. Size, last : 0 .. Modulus - 1,
               pc : HostStep, new : Desc]
  /\ guest \in [last : 0 .. Modulus - 1, token : Desc, pc : GuestStep,
                timedOut : BOOLEAN]
  /\ job \in {"pooled", "queued", "taken"}
  /\ kick \in [{"host", "guest"} -> BOOLEAN]
  /\ receiver \in Receivers

Succ(i) == (i + 1) % Modulus

Kicked(side) == kick' = [kick EXCEPT ![side] = TRUE]
-----------------------------------------------------------------------------
(* The host.                                                               *)

\* MQ_take: a buffer from the pool.
Take ==
  /\ host.pc = "idle" /\ host.pool > 0
  /\ host' = [host EXCEPT !.pool = @ - 1, !.pc = "filling"]
  /\ UNCHANGED <<avail, used, guest, job, kick, receiver>>

\* MQ_send, addAvailable: a free descriptor, and its slot of the ring.
LinkAvailable ==
  /\ host.pc = "filling"
  /\ host' = [host EXCEPT !.new = Head(host.free), !.free = Tail(@), !.pc = "linked"]
  /\ avail' = [avail EXCEPT !.ring[avail.index % Size] = Head(host.free)]
  /\ UNCHANGED <<used, guest, job, kick, receiver>>

Publish ==
  /\ host.pc = "linked"
  /\ avail' = [avail EXCEPT !.index = Succ(@)]
  /\ host' = [host EXCEPT !.pc = "published"]
  /\ UNCHANGED <<used, guest, job, kick, receiver>>

\* nudge
NudgeGuest ==
  /\ host.pc = "published"
  /\ IF used.noNotify THEN UNCHANGED kick ELSE Kicked("guest")
  /\ host' = [host EXCEPT !.pc = "idle"]
  /\ UNCHANGED <<avail, used, guest, job, receiver>>

\* Descriptors the guest has used and the host has not collected, oldest first.
Uncollected ==
  [n \in 1 .. (used.index - host.last) % Modulus |->
     used.ring[((host.last + n - 1) % Modulus) % Size]]

\* Mutated form of HostISR: what is collected is not counted.
HostISRUncounted ==
  /\ kick["host"] /\ host.pc \in {"idle", "filling"}
  /\ kick' = [kick EXCEPT !["host"] = FALSE]
  /\ host' = [host EXCEPT !.pool = @ + Len(Uncollected), !.last = used.index]
  /\ UNCHANGED <<avail, used, guest, job, receiver>>

\* isr, MQ_notify, MQ_autoRel: descriptors and buffers that come back are free.
HostISR ==
  /\ kick["host"] /\ host.pc \in {"idle", "filling"}
  /\ kick' = [kick EXCEPT !["host"] = FALSE]
  /\ host' = [host EXCEPT
       !.free = [n \in 1 .. Len(Uncollected) |->
                   Uncollected[Len(Uncollected) + 1 - n]] \o @,
       !.pool = @ + Len(Uncollected),
       !.last = used.index]
  /\ UNCHANGED <<avail, used, guest, job, receiver>>
-----------------------------------------------------------------------------
(* The guest.                                                              *)

\* A step of the task that changes nothing but what the guest knows.
GuestGoes(from, to) ==
  /\ guest.pc = from
  /\ guest' = [guest EXCEPT !.pc = to]
  /\ UNCHANGED <<avail, host, receiver>>

\* MQ_recv, called by the task or the job: _KRN_raiseIPLWithTimeout.
Recv ==
  /\ guest.pc = "call"
  /\ guest' = [guest EXCEPT !.pc = "look", !.timedOut = (receiver = "callback")]
  /\ UNCHANGED <<avail, used, host, job, kick, receiver>>

Nothing == guest.last = avail.index

\* getAvailable: if there is nothing, the host is told to notify, and the index
\* is looked at again.
Look ==
  /\ GuestGoes("look", IF Nothing THEN "empty" ELSE "fetch")
  /\ UNCHANGED <<used, job, kick>>

AskToBeNotified ==
  /\ GuestGoes("empty", "again")
  /\ used' = [used EXCEPT !.noNotify = FALSE]
  /\ UNCHANGED <<job, kick>>

\* Mutated form of LookAgain: the index is not looked at again.
LookOnce ==
  /\ \/ /\ guest.timedOut
        /\ GuestGoes("again", IF receiver = "callback" THEN "wait" ELSE "call")
        /\ UNCHANGED kick
     \/ /\ ~guest.timedOut
        /\ GuestGoes("again", "deciding")
        /\ Kicked("host")
  /\ UNCHANGED <<used, job>>

\* The end of getAvailable, and what MQ_recv does when it fails: with no time left
\* it returns NULL, which is the end of the job; otherwise it kicks the host and
\* calls _KRN_hibernateTask and KRN_scheduleUnprotect.
LookAgain ==
  /\ \/ /\ ~Nothing
        /\ GuestGoes("again", "fetch")
        /\ UNCHANGED kick
     \/ /\ Nothing /\ guest.timedOut
        /\ GuestGoes("again", IF receiver = "callback" THEN "wait" ELSE "call")
        /\ UNCHANGED kick
     \/ /\ Nothing /\ ~guest.timedOut
        /\ GuestGoes("again", "deciding")
        /\ Kicked("host")
  /\ UNCHANGED <<used, job>>

Fetch ==
  /\ guest.pc = "fetch"
  /\ guest' = [guest EXCEPT !.token = avail.ring[guest.last % Size],
                            !.last = Succ(@), !.pc = "fetched"]
  /\ UNCHANGED <<avail, used, host, job, kick, receiver>>

\* If there is more the host need not notify.
LookForMore ==
  /\ GuestGoes("fetched", IF Nothing THEN "holding" ELSE "more")
  /\ UNCHANGED <<used, job, kick>>

Suppress ==
  /\ GuestGoes("more", "holding")
  /\ used' = [used EXCEPT !.noNotify = TRUE]
  /\ UNCHANGED <<job, kick>>

\* Mutated form of PutUsed: the slot keeps what it held.
PutUsedUnwritten ==
  /\ GuestGoes("holding", "put")
  /\ UNCHANGED <<used, job, kick>>

\* MQ_return, addUsed: the slot of the ring, the index, and the interrupt, which
\* the host never suppresses.
PutUsed ==
  /\ GuestGoes("holding", "put")
  /\ used' = [used EXCEPT !.ring[used.index % Size] = guest.token]
  /\ UNCHANGED <<job, kick>>

PublishUsed ==
  /\ GuestGoes("put", "nudge")
  /\ used' = [used EXCEPT !.index = Succ(@)]
  /\ UNCHANGED <<job, kick>>

NudgeHost ==
  /\ GuestGoes("nudge", "call")
  /\ Kicked("host")
  /\ UNCHANGED <<used, job>>

\* The schedule event links the task on mq->wq.
Link ==
  /\ GuestGoes("deciding", "asleep")
  /\ UNCHANGED <<used, job, kick>>

\* _KRN_timeoutWake
Timeout ==
  /\ receiver = "ticks" /\ guest.pc = "asleep"
  /\ guest' = [guest EXCEPT !.pc = "look", !.timedOut = TRUE]
  /\ UNCHANGED <<avail, used, host, job, kick, receiver>>

\* isr, MQ_notify: KRN_wakeAll, and the callback, KRN_queueWQ with no time to wait
\* for the job to be in its pool.
GuestISR ==
  /\ kick["guest"] /\ guest.pc \in Open
  /\ kick' = [kick EXCEPT !["guest"] = FALSE]
  /\ guest' = [guest EXCEPT !.pc = IF @ = "asleep" THEN "look" ELSE @]
  /\ job' = IF receiver = "callback" /\ job = "pooled" THEN "queued" ELSE job
  /\ UNCHANGED <<avail, used, host, receiver>>

\* KRN_dispatchOne: the job is taken from the mailbox, and returned to its pool
\* before its function is called.
TakeJob ==
  /\ job = "queued"
  /\ job' = "taken"
  /\ GuestGoes("wait", "job")
  /\ UNCHANGED <<used, kick>>

ReturnJob ==
  /\ job' = "pooled"
  /\ GuestGoes("job", "call")
  /\ UNCHANGED <<used, kick>>
-----------------------------------------------------------------------------
\* initAll and setCallback, on both sides.  The kick and the callback at the end
\* of setCallback stand for whatever came before.
Init ==
  /\ avail = [index |-> 0, ring |-> [i \in Desc |-> 0]]
  /\ used = [index |-> 0, ring |-> [i \in Desc |-> 0], noNotify |-> FALSE]
  /\ host = [free |-> [i \in 1 .. Size |-> i - 1], pool |-> Size, last |-> 0,
             pc |-> "idle", new |-> 0]
  /\ receiver \in Receivers
  /\ guest = [last |-> 0, token |-> 0, timedOut |-> FALSE,
              pc |-> IF receiver = "callback" THEN "wait" ELSE "call"]
  /\ job = IF receiver = "callback" THEN "queued" ELSE "pooled"
  /\ kick = [side \in {"host", "guest"} |-> side = "host"]

HostTask == LinkAvailable \/ Publish \/ NudgeGuest

GuestTask ==
  \/ Recv \/ Look \/ AskToBeNotified \/ LookAgain \/ Fetch \/ LookForMore \/ Suppress
  \/ PutUsed \/ PublishUsed \/ NudgeHost
  \/ Link \/ TakeJob \/ ReturnJob

Next == Take \/ HostTask \/ HostISR \/ GuestTask \/ Timeout \/ GuestISR

\* Interrupts are taken once the IPL is low, tasks go on with what they have begun,
\* and time passes.  Nothing obliges the host to send.
Fairness ==
  /\ WF_vars(HostTask) /\ SF_vars(HostISR)
  /\ WF_vars(GuestTask) /\ SF_vars(GuestISR) /\ WF_vars(Timeout)

Spec == Init /\ [][Next]_vars /\ Fairness
-----------------------------------------------------------------------------
(* Properties.                                                             *)

\* Descriptors that are available and the guest has not fetched, oldest first.
Unfetched ==
  [n \in 1 .. (avail.index - guest.last) % Modulus |->
     avail.ring[((guest.last + n - 1) % Modulus) % Size]]

Holds == guest.pc \in {"fetched", "more", "holding", "put"}

\* Every buffer is in the pool, being filled, or under way with one descriptor.
Consistent ==
  /\ TypeOK
  /\ Len(host.free) + Len(Unfetched) + Len(Uncollected)
       + (IF host.pc = "linked" THEN 1 ELSE 0) + (IF Holds THEN 1 ELSE 0) = Size
  /\ Len(host.free) = host.pool + (IF host.pc = "filling" THEN 1 ELSE 0)

\* Messages are received in the order sent, each once, and descriptors go round in
\* order, each in one place at a time, whatever the two sides see of each other's
\* indices when.
Promise == INSTANCE Courier WITH
  idle <- ToSet(host.free) \cup (IF host.pc = "linked" THEN {host.new} ELSE {}),
  sent <- Unfetched,
  received <- IF Holds THEN {guest.token} ELSE {},
  returned <- Uncollected
InOrder == Promise!Spec

\* Every message is received: no notification is missed between the guest's last
\* look and the flag that asks for it, and a callback that finds no job can rely on
\* the one in the pipe (rproc.c:197).  Every buffer comes back to the pool.
Delivered ==
  /\ \A d \in Desc : d \in ToSet(Unfetched) ~> d \notin ToSet(Unfetched)
  /\ Uncollected # <<>> ~> Uncollected = <<>>
=============================================================================
