------------------------------- MODULE Rings --------------------------------
(***************************************************************************)
(* Ring buffers (src/rings/ring.c).  One byte at a time with RING_write and *)
(* RING_read, or several with RING_writeBuffer and the block readers; by    *)
(* tasks, and without waiting by interrupt handlers.                        *)
(*                                                                          *)
(* The section that changes the ring has the IPL raised, except in          *)
(* RING_read; the wake that follows is a section of its own.                *)
(***************************************************************************)
EXTENDS Blocking

CONSTANTS
  Size,     \* bytes in the buffer
  Data,     \* values of a byte
  Blocks,   \* what RING_writeBuffer is given
  rq, wq,   \* the ring's wait queues
  Interrupt,  \* the interrupt handlers
  Roles       \* who does what: sets of pairs of a task, or Interrupt, and a call

ASSUME RingAssumption ==
  /\ Size \in Nat \ {0, 1}
  /\ Blocks \subseteq UNION {[1 .. n -> Data] : n \in 1 .. Size}
  /\ {rq, wq} \subseteq Queue /\ rq # wq /\ Interrupt \notin Task
  /\ Roles \subseteq SUBSET ((Task \cup {Interrupt}) \X
       {"write", "read", "writeBuffer", "readBuffer", "peekContiguous", "skipContiguous"})

VARIABLES
  buffer,  \* the bytes
  head,    \* where the next byte is written
  tail,    \* where the next byte is read
  bytes,   \* what a task writes, or has read
  length,  \* how much it asks to read
  roles     \* who does what, chosen at the start

ring == <<buffer, head, tail>>
args == <<bytes, length, roles>>
ringVars == <<blocking, ring, args>>

Position == 0 .. Size - 1

Steps == {"write", "writing", "writeBuffer", "filling", "wakeReader",
          "read", "sleep", "reading", "copy", "advance",
          "readBuffer", "draining", "peekContiguous", "peeking",
          "skipContiguous", "skipping", "wakeWriter"}

RingTypeOK ==
  /\ BlockingTypeOK(Steps)
  /\ buffer \in [Position -> Data]
  /\ head \in Position
  /\ tail \in Position
  /\ bytes \in [Task -> Seq(Data)]
  /\ length \in [Task -> 0 .. Size]

RingInit ==
  /\ BlockingInit
  /\ buffer \in {[s \in Position |-> d] : d \in Data}
  /\ head = 0
  /\ tail = 0
  /\ bytes = [t \in Task |-> <<>>]
  /\ length = [t \in Task |-> 0]
  /\ roles \in Roles

-----------------------------------------------------------------------------
\* RING_empty, RING_full, RING_space, RING_used
Empty == head = tail
Full  == (head + 1) % Size = tail
Space == (tail - head) + (IF tail <= head THEN Size ELSE 0)
Used  == (Size + head - tail) % Size

\* What a reader will get, in order.
Contents == [i \in 1 .. Used |-> buffer[(tail + i - 1) % Size]]

Ahead(p, n) == (p + n) % Size

\* Mutated form of Placed: the head moves before the byte is stored.
PlacedAhead(ds) ==
  [s \in Position |-> LET i == (s - head) % Size
                 IN  IF i \in DOMAIN ds THEN ds[i] ELSE buffer[s]]

Placed(ds) ==
  [s \in Position |-> LET i == ((s - head) % Size) + 1
                 IN  IF i \in DOMAIN ds THEN ds[i] ELSE buffer[s]]

Store(ds) ==
  /\ head' = Ahead(head, Len(ds))
  /\ buffer' = Placed(ds)
  /\ UNCHANGED tail

Consume(n) ==
  /\ tail' = Ahead(tail, n)
  /\ UNCHANGED <<buffer, head>>

-----------------------------------------------------------------------------
(* Parts of the calls.                                                     *)

At(t, step) == Runs(t) /\ pc[t] = step

Goto(t, step) ==
  /\ pc' = [pc EXCEPT ![t] = step]
  /\ UNCHANGED <<waitq, hold, timer, timedOut, limit>>

\* The arguments of a call that returns are gone.
Forget(t) ==
  /\ bytes' = [bytes EXCEPT ![t] = <<>>]
  /\ length' = [length EXCEPT ![t] = 0]
  /\ UNCHANGED roles

\* The ring has been changed: IPL restored, timer cancelled.
Done(t, step) ==
  /\ timer' = Restored(t)
  /\ pc' = [pc EXCEPT ![t] = step]
  /\ Forget(t)
  /\ UNCHANGED <<waitq, hold, timedOut, limit>>

\* Return of zero: IPL restored, timer left.
GiveUp(t) == Goto(t, "user") /\ Forget(t) /\ UNCHANGED ring

\* _KRN_hibernateTask and KRN_scheduleUnprotect: the scheduler links the task.
Doze(t, q, step) ==
  /\ hold' = [hold EXCEPT ![t] = q]
  /\ pc' = [pc EXCEPT ![t] = step]
  /\ UNCHANGED <<waitq, timer, timedOut, limit, ring, args>>

\* KRN_wake of the other side, in a section of its own.
WakeOther(t) ==
  /\ \/ At(t, "wakeReader") /\ waitq' = Woken(rq)
     \/ At(t, "wakeWriter") /\ waitq' = Woken(wq)
  /\ pc' = [pc EXCEPT ![t] = "user"]
  /\ UNCHANGED <<hold, timer, timedOut, limit, ring, args>>

-----------------------------------------------------------------------------
(* RING_write: once awake, the ring is not looked at again.                *)

Write(t, d, timeout) ==
  /\ <<t, "write">> \in roles
  /\ Begin(t, "write", timeout)
  /\ bytes' = [bytes EXCEPT ![t] = <<d>>]
  /\ UNCHANGED <<ring, length, roles>>

MayWrite == ~Full

WriteTest(t) ==
  /\ At(t, "write")
  /\ \/ MayWrite /\ Store(bytes[t]) /\ Done(t, "wakeReader")
     \/ ~MayWrite /\ limit[t] = "zero" /\ GiveUp(t)
     \/ ~MayWrite /\ limit[t] # "zero" /\ Doze(t, wq, "writing")

WriteWoken(t) ==
  /\ At(t, "writing")
  /\ \/ timedOut[t] = "running" /\ Store(bytes[t]) /\ Done(t, "wakeReader")
     \/ timedOut[t] # "running" /\ GiveUp(t)

-----------------------------------------------------------------------------
(* RING_read: neither protected nor initialising timedOut.                 *)

Read(t, timeout) ==
  /\ <<t, "read">> \in roles
  /\ At(t, "user")
  /\ limit' = [limit EXCEPT ![t] = timeout]
  /\ pc' = [pc EXCEPT ![t] = "read"]
  /\ UNCHANGED <<waitq, hold, timer, timedOut, ring, args>>

ReadTest(t) ==
  /\ At(t, "read")
  /\ Goto(t, IF ~Empty THEN "copy" ELSE IF limit[t] = "zero" THEN "user" ELSE "sleep")
  /\ UNCHANGED <<ring, args>>

\* KRN_hibernate, before and after.
ReadSleep(t) ==
  /\ At(t, "sleep")
  /\ hold' = [hold EXCEPT ![t] = rq]
  /\ timer' = IF limit[t] = "ticks" THEN [timer EXCEPT ![t] = "set"] ELSE timer
  /\ pc' = [pc EXCEPT ![t] = "reading"]
  /\ UNCHANGED <<waitq, timedOut, limit, ring, args>>

ReadWoken(t) ==
  /\ At(t, "reading")
  /\ timer' = Restored(t)
  /\ pc' = [pc EXCEPT ![t] =
              IF limit[t] = "ticks" /\ timedOut[t] # "running" THEN "user" ELSE "copy"]
  /\ UNCHANGED <<waitq, hold, timedOut, limit, ring, args>>

ReadCopy(t) ==
  /\ At(t, "copy")
  /\ bytes' = [bytes EXCEPT ![t] = <<buffer[tail]>>]
  /\ Goto(t, "advance")
  /\ UNCHANGED <<ring, length, roles>>

ReadAdvance(t) ==
  /\ At(t, "advance")
  /\ Consume(1)
  /\ Goto(t, "wakeWriter")
  /\ Forget(t)

-----------------------------------------------------------------------------
(* RING_writeBuffer                                                        *)

WriteBuffer(t, ds, timeout) ==
  /\ <<t, "writeBuffer">> \in roles
  /\ Begin(t, "writeBuffer", timeout)
  /\ bytes' = [bytes EXCEPT ![t] = ds]
  /\ UNCHANGED <<ring, length, roles>>

AtMost(n, m) == IF n < m THEN n ELSE m

StoreUpTo(t, n) ==
  Store(SubSeq(bytes[t], 1, AtMost(Len(bytes[t]), n))) /\ Done(t, "wakeReader")

\* stop: the call may not wait, or its timeout has run out.
Fill(t, stop) ==
  LET enough == IF stop THEN ~Full ELSE Space >= Len(bytes[t])
  IN  \/ enough /\ StoreUpTo(t, Space)
      \/ ~enough /\ stop /\ GiveUp(t)
      \/ ~enough /\ ~stop /\ Doze(t, wq, "filling")

FillTest(t)  == At(t, "writeBuffer") /\ Fill(t, limit[t] = "zero")
FillWoken(t) == At(t, "filling") /\ Fill(t, timedOut[t] # "running")

-----------------------------------------------------------------------------
(* RING_readBuffer, RING_peekContiguous, RING_skipContiguous: readers that   *)
(* wait on the writers' queue.                                             *)

\* What such a call is doing after it has slept.
Again == [readBuffer |-> "draining", peekContiguous |-> "peeking",
          skipContiguous |-> "skipping"]

BlockRead(t, op, n, timeout) ==
  /\ <<t, op>> \in roles
  /\ Begin(t, op, timeout)
  /\ length' = [length EXCEPT ![t] = n]
  /\ UNCHANGED <<ring, bytes, roles>>

\* n bytes are there: peeking leaves them, skipping stops at the buffer's end.
Finish(t, op, n) ==
  \/ op = "readBuffer" /\ Consume(n) /\ Done(t, "wakeWriter")
  \/ op = "skipContiguous" /\ Consume(AtMost(n, Size - tail)) /\ Done(t, "wakeWriter")
  \/ op = "peekContiguous" /\ UNCHANGED ring /\ Done(t, "user")

Available(t) == AtMost(length[t], Used)

Drain(t, op, stop) ==
  LET enough == IF stop THEN ~Empty ELSE Used >= length[t]
  IN  \/ enough /\ Finish(t, op, Available(t))
      \/ ~enough /\ stop /\ GiveUp(t)
      \/ ~enough /\ ~stop /\ Doze(t, wq, Again[op])

DrainTest(t, op)  == At(t, op) /\ Drain(t, op, limit[t] = "zero")
DrainWoken(t, op) == At(t, Again[op]) /\ Drain(t, op, timedOut[t] # "running")

-----------------------------------------------------------------------------
(* Interrupt handlers write and read without waiting.                      *)

HandlerWrite(d) ==
  /\ <<Interrupt, "write">> \in roles
  /\ MayWrite
  /\ Store(<<d>>)
  /\ waitq' = Woken(rq)
  /\ UNCHANGED <<hold, timer, timedOut, pc, limit, args>>

HandlerRead ==
  /\ <<Interrupt, "read">> \in roles
  /\ ~Empty
  /\ Consume(1)
  /\ waitq' = Woken(wq)
  /\ UNCHANGED <<hold, timer, timedOut, pc, limit, args>>

\* Resuming a task asleep in one of these calls makes it go on as if it had
\* been woken by the other side; that is left out.
RingNext ==
  \/ \E t \in Task :
       \/ \E d \in Data, timeout \in Timeout : Write(t, d, timeout)
       \/ \E timeout \in Timeout : Read(t, timeout)
       \/ \E ds \in Blocks, timeout \in Timeout : WriteBuffer(t, ds, timeout)
       \/ \E op \in DOMAIN Again :
            \/ \E n \in 1 .. Size, timeout \in Timeout : BlockRead(t, op, n, timeout)
            \/ DrainTest(t, op) \/ DrainWoken(t, op)
       \/ WriteTest(t) \/ WriteWoken(t) \/ WakeOther(t)
       \/ ReadTest(t) \/ ReadSleep(t) \/ ReadWoken(t) \/ ReadCopy(t) \/ ReadAdvance(t)
       \/ FillTest(t) \/ FillWoken(t)
       \/ (Linked(t) \/ TimerISR(t) \/ TimeoutWake(t)) /\ UNCHANGED <<ring, args>>
  \/ \E d \in Data : HandlerWrite(d)
  \/ HandlerRead

RingSpec == RingInit /\ [][RingNext]_ringVars
-----------------------------------------------------------------------------
(* Properties.                                                             *)

\* A task's call has stored something.
Accepted(t) == pc[t] # "wakeReader" /\ pc'[t] = "wakeReader"

\* What is stored is added at the end of the contents, none of which is
\* overwritten, and it is what the caller wrote.
Kept ==
  /\ Len(Contents') > Len(Contents) /\ IsPrefix(Contents, Contents')
  /\ \A t \in Task : Accepted(t) =>
       IsPrefix(SubSeq(Contents', Len(Contents) + 1, Len(Contents')), bytes[t])

ByBuffer == \E t \in Task : Accepted(t) /\ pc[t] \in {"writeBuffer", "filling"}

\* The byte RING_read hands out is the one it takes from the ring, although a
\* handler may write between the copy and the advance.
HandedOut ==
  \A t \in Task : pc[t] = "advance" /\ pc'[t] # "advance" =>
    bytes[t] = <<Head(Contents)>>

Taken ==
  /\ Len(Contents') < Len(Contents) /\ IsSuffix(Contents', Contents)
  /\ HandedOut

\* The ring is a bounded queue, except that RING_writeBuffer may fill it to the last
\* byte, which makes it empty.
BoundedQueue ==
  [][ /\ head' # head /\ ~(ByBuffer /\ head' = tail) => Kept
      /\ tail' # tail => Taken ]_ringVars

\* A byte RING_write accepts is in the ring: a task that has been let through
\* still finds room when it gets to run.
RoomWhenWoken ==
  /\ RingTypeOK
  /\ \A t \in Task : At(t, "writing") /\ timedOut[t] = "running" => ~Full
=============================================================================
