------------------------- MODULE MessageQueueProofs -------------------------
(***************************************************************************)
(* Proofs about the message queue (MessageQueue), for rings and indices of   *)
(* any size: every buffer and descriptor is accounted for, and messages are  *)
(* received in the order sent, each once.                                   *)
(***************************************************************************)
EXTENDS MessageQueue, QueueLemmas

-----------------------------------------------------------------------------
(* The inductive invariant.                                                *)

Linked == host.pc = "linked"

\* Each side has written the slot its index is about to make visible.
SlotsWritten ==
  /\ Linked => avail.ring[avail.index % Size] = host.new
  /\ guest.pc = "put" => used.ring[used.index % Size] = guest.token

\* The guest fetches only when there is something, although it looked before.
SomethingToFetch == guest.pc = "fetch" => guest.last # avail.index

\* The places a descriptor can be in, in the order it goes round.
Free     == ToSet(host.free)
Linking  == IF Linked THEN {host.new} ELSE {}
Sent     == ToSet(Unfetched)
Received == IF Holds THEN {guest.token} ELSE {}
Returned == ToSet(Uncollected)

Disjoint(A, B) == \A x \in A : x \notin B

\* No descriptor is in two places, or twice in one.
OnePlace ==
  /\ Apart(host.free) /\ Apart(Unfetched) /\ Apart(Uncollected)
  /\ Disjoint(Free, Linking) /\ Disjoint(Free, Sent) /\ Disjoint(Free, Received)
  /\ Disjoint(Free, Returned)
  /\ Disjoint(Linking, Sent) /\ Disjoint(Linking, Received) /\ Disjoint(Linking, Returned)
  /\ Disjoint(Sent, Received) /\ Disjoint(Sent, Returned)
  /\ Disjoint(Received, Returned)

MQInv == Consistent /\ SlotsWritten /\ SomethingToFetch /\ OnePlace
-----------------------------------------------------------------------------
(* What the types say.                                                     *)

LEMMA SizeFacts ==
  /\ Size \in Nat \ {0} /\ Modulus \in Nat \ {0} /\ Modulus % Size = 0 /\ Size < Modulus
BY MessageQueueAssumption

LEMMA IndexFacts ==
  ASSUME TypeOK
  PROVE  /\ avail.index \in 0 .. Modulus - 1 /\ avail.ring \in RingOf(Desc, Size)
         /\ used.index \in 0 .. Modulus - 1 /\ used.ring \in RingOf(Desc, Size)
         /\ host.last \in 0 .. Modulus - 1 /\ guest.last \in 0 .. Modulus - 1
BY DEF TypeOK, Ring, RingOf

LEMMA PlaceFacts ==
  ASSUME TypeOK
  PROVE  /\ host.free \in Seq(Desc) /\ host.new \in Desc /\ guest.token \in Desc
         /\ Len(host.free) \in Nat /\ host.pool \in 0 .. Size
<1>1. host.free \in Seq(Desc) /\ host.new \in Desc /\ guest.token \in Desc /\ host.pool \in 0 .. Size
  BY DEF TypeOK
<1>2. QED
  BY <1>1, LenProperties

\* How many messages are under way in each direction.
Pending == Lag(avail.index, guest.last, Modulus)
Back    == Lag(used.index, host.last, Modulus)

LEMMA SegmentsAre ==
  /\ Unfetched = Segment(avail.ring, guest.last, Pending, Size, Modulus)
  /\ Uncollected = Segment(used.ring, host.last, Back, Size, Modulus)
BY DEF Unfetched, Uncollected, Segment, Slot, Pending, Back, Lag

LEMMA SegmentsAreNext ==
  /\ Unfetched' = Segment(avail'.ring, guest'.last, Lag(avail'.index, guest'.last, Modulus),
                          Size, Modulus)
  /\ Uncollected' = Segment(used'.ring, host'.last, Lag(used'.index, host'.last, Modulus),
                            Size, Modulus)
BY DEF Unfetched, Uncollected, Segment, Slot, Lag

LEMMA SegmentFacts ==
  ASSUME TypeOK
  PROVE  /\ Unfetched \in Seq(Desc) /\ Len(Unfetched) = Pending /\ Pending \in 0 .. Modulus - 1
         /\ Uncollected \in Seq(Desc) /\ Len(Uncollected) = Back /\ Back \in 0 .. Modulus - 1
<1>1. Pending \in 0 .. Modulus - 1 /\ Back \in 0 .. Modulus - 1
  BY SizeFacts, IndexFacts, LagIs DEF Pending, Back
<1>2. Pending \in Nat /\ Back \in Nat /\ guest.last \in Int /\ host.last \in Int
  BY <1>1, IndexFacts
<1>3. /\ Segment(avail.ring, guest.last, Pending, Size, Modulus) \in Seq(Desc)
      /\ Len(Segment(avail.ring, guest.last, Pending, Size, Modulus)) = Pending
  BY <1>2, SizeFacts, IndexFacts, SegmentIsSeq
<1>4. /\ Segment(used.ring, host.last, Back, Size, Modulus) \in Seq(Desc)
      /\ Len(Segment(used.ring, host.last, Back, Size, Modulus)) = Back
  BY <1>2, SizeFacts, IndexFacts, SegmentIsSeq
<1>5. QED
  BY <1>1, <1>3, <1>4, SegmentsAre

\* The descriptors, and the buffer, that are with a task.
Carried == IF Linked THEN 1 ELSE 0
Held    == IF Holds THEN 1 ELSE 0
Taken   == IF host.pc = "filling" THEN 1 ELSE 0

\* How many descriptors are where.
LEMMA Counts ==
  ASSUME Consistent
  PROVE  /\ TypeOK
         /\ Len(host.free) + Pending + Back + Carried + Held = Size
         /\ Len(host.free) = host.pool + Taken
         /\ Carried \in Nat /\ Held \in Nat /\ Taken \in Nat
<1>1. TypeOK
  BY DEF Consistent
<1>2. Len(Unfetched) = Pending /\ Len(Uncollected) = Back
  BY <1>1, SegmentFacts
<1>3. QED
  BY <1>1, <1>2 DEF Consistent, Linked, Carried, Held, Taken

\* What adds up to the number of descriptors is consistent.
LEMMA CountsNext ==
  ASSUME TypeOK',
         NEW m, m = Len(Unfetched'), NEW n, n = Len(Uncollected'),
         Len(host'.free) + m + n + Carried' + Held' = Size,
         Len(host'.free) = host'.pool + Taken'
  PROVE  Consistent'
BY DEF Consistent, Linked, Holds, Carried, Held, Taken

-----------------------------------------------------------------------------
(* The steps.                                                              *)

\* At the start all descriptors are free.
LEMMA InitInv == Init => MQInv /\ Promise!Init
<1>1. SUFFICES ASSUME Init PROVE MQInv /\ Promise!Init
  OBVIOUS
<1> DEFINE free == [i \in 1 .. Size |-> i - 1]
<1>2. free \in Seq(Desc) /\ Len(free) = Size
  <2>1. free \in [1 .. Size -> Desc]
    BY SizeFacts DEF Desc
  <2> HIDE DEF free
  <2>2. QED
    BY <2>1, SizeFacts
<1>3. Apart(free)
  BY <1>2, SizeFacts DEF Apart
<1>4. ToSet(free) = Desc
  <2>1. \A x : x \in ToSet(free) <=> \E i \in 1 .. Size : free[i] = x
    BY <1>2, MembersOf
  <2>2. ASSUME NEW x \in Desc PROVE x \in ToSet(free)
    <3>1. x + 1 \in 1 .. Size /\ free[x + 1] = x
      BY SizeFacts DEF Desc
    <3>2. QED
      BY <3>1, <2>1
  <2>3. ToSet(free) \subseteq Desc
    BY <1>2, MembersOf
  <2>4. QED
    BY <2>2, <2>3
<1>5. host.free = free /\ host.pool = Size /\ host.pc = "idle" /\ host.last = 0 /\ host.new = 0
  BY <1>1 DEF Init
<1> HIDE DEF free
<1>6. TypeOK
  <2>1. 0 \in Desc /\ 0 \in 0 .. Modulus - 1 /\ Size \in 0 .. Size
    BY SizeFacts DEF Desc
  <2>2. [i \in Desc |-> 0] \in Ring
    BY <2>1 DEF Ring, Desc
  <2>3. avail \in [index : 0 .. Modulus - 1, ring : Ring]
    BY <1>1, <2>1, <2>2 DEF Init
  <2>4. used \in [index : 0 .. Modulus - 1, ring : Ring, noNotify : BOOLEAN]
    BY <1>1, <2>1, <2>2 DEF Init
  <2>5. host \in [free : Seq(Desc), pool : 0 .. Size, last : 0 .. Modulus - 1,
                  pc : HostStep, new : Desc]
    BY <1>1, <1>2, <2>1 DEF Init, HostStep, free
  <2>6. guest \in [last : 0 .. Modulus - 1, token : Desc, pc : GuestStep, timedOut : BOOLEAN]
    BY <1>1, <2>1 DEF Init, GuestStep, Open
  <2>7. QED
    BY <1>1, <2>3, <2>4, <2>5, <2>6 DEF Init, TypeOK
<1>7. Pending = 0 /\ Back = 0
  <2>1. 0 \in 0 .. Modulus - 1
    BY SizeFacts
  <2>2. Lag(0, 0, Modulus) = 0
    BY <2>1, SizeFacts, LagNext
  <2>3. QED
    BY <1>1, <2>2 DEF Init, Pending, Back
<1>8. Unfetched = <<>> /\ Uncollected = <<>>
  BY <1>6, <1>7, SegmentFacts, EmptySeq
<1>9. guest.pc \in {"wait", "call"}
  BY <1>1 DEF Init
<1>10. ~Linked /\ ~Holds
  BY <1>5, <1>9 DEF Linked, Holds
<1>11. Consistent
  <2>1. Len(<<>>) = 0
    OBVIOUS
  <2>2. QED
    BY <1>2, <1>5, <1>6, <1>8, <1>10, <2>1, SizeFacts DEF Consistent, Linked
<1>12. SlotsWritten /\ SomethingToFetch
  BY <1>9, <1>10 DEF SlotsWritten, SomethingToFetch
<1>13. ToSet(<<>>) = {} /\ Apart(<<>>)
  BY DEF ToSet, Apart
<1>14. OnePlace
  BY <1>3, <1>5, <1>8, <1>10, <1>13
  DEF OnePlace, Disjoint, Free, Linking, Sent, Received, Returned
<1>15. Promise!Init
  BY <1>4, <1>5, <1>8, <1>10 DEF Promise!Init, Linked
<1>16. QED
  BY <1>11, <1>12, <1>14, <1>15 DEF MQInv

\* What the messages do, seen from outside.
journey == <<host.free, Linking, Unfetched, Received, Uncollected>>

LEMMA JourneyIsPromise ==
  ASSUME UNCHANGED journey
  PROVE  UNCHANGED Promise!vars
<1>1. UNCHANGED <<host.free, Linking, Unfetched, Received, Uncollected>>
  BY DEF journey
<1>2. Linking = (IF host.pc = "linked" THEN {host.new} ELSE {})
  BY DEF Linking, Linked
<1>3. Linking' = (IF host.pc = "linked" THEN {host.new} ELSE {})'
  BY DEF Linking, Linked
<1>4. QED
  BY <1>1, <1>2, <1>3 DEF Promise!vars, Received

\* A step that moves no descriptor and ends no call.
Quiet ==
  /\ UNCHANGED <<avail, used.index, used.ring, guest.last, guest.token,
                 host.free, host.pool, host.last, host.new>>
  /\ (Linked' <=> Linked) /\ (Holds' <=> Holds)
  /\ (host'.pc = "filling" <=> host.pc = "filling")
  /\ guest'.pc = "put" => guest.pc = "put"
  /\ guest'.pc = "fetch" => ~Nothing

LEMMA QuietStep ==
  ASSUME MQInv, Quiet, TypeOK'
  PROVE  MQInv' /\ UNCHANGED Promise!vars
<1>1. /\ avail' = avail /\ used'.index = used.index /\ used'.ring = used.ring
      /\ guest'.last = guest.last /\ guest'.token = guest.token
      /\ host'.free = host.free /\ host'.pool = host.pool /\ host'.last = host.last
      /\ host'.new = host.new /\ (Linked' <=> Linked) /\ (Holds' <=> Holds)
      /\ (host'.pc = "filling" <=> host.pc = "filling")
  BY DEF Quiet
<1>2. Unfetched' = Unfetched /\ Uncollected' = Uncollected
  BY <1>1 DEF Unfetched, Uncollected
<1>3. Linking' = Linking /\ Received' = Received
  BY <1>1 DEF Linking, Received
<1>4. Consistent'
  BY <1>1, <1>2 DEF MQInv, Consistent, Linked
<1>5. SlotsWritten' /\ SomethingToFetch'
  BY <1>1 DEF MQInv, SlotsWritten, SomethingToFetch, Quiet, Nothing
<1>6. OnePlace'
  BY <1>1, <1>2, <1>3 DEF MQInv, OnePlace, Disjoint, Free, Sent, Returned
<1>7. UNCHANGED Promise!vars
  BY <1>1, <1>2, <1>3, JourneyIsPromise DEF journey
<1>8. QED
  BY <1>4, <1>5, <1>6, <1>7 DEF MQInv

\* The steps of the guest's task that look, ask and are notified.
GuestWaits ==
  \/ Recv \/ Look \/ AskToBeNotified \/ LookAgain \/ LookForMore \/ Suppress \/ NudgeHost
  \/ Link \/ TakeJob \/ ReturnJob

LEMMA GuestWaitsQuiet ==
  ASSUME TypeOK, GuestWaits \/ Timeout \/ GuestISR
  PROVE  Quiet /\ TypeOK'
<1>1. /\ avail' = avail /\ host' = host /\ receiver' = receiver
      /\ used' = [used EXCEPT !.noNotify = used'.noNotify] /\ used'.noNotify \in BOOLEAN
      /\ guest' = [guest EXCEPT !.pc = guest'.pc, !.timedOut = guest'.timedOut]
      /\ guest'.pc \in GuestStep \ {"put"} /\ guest'.timedOut \in BOOLEAN
      /\ (Holds' <=> Holds) /\ (guest'.pc = "fetch" => ~Nothing)
      /\ job' \in {"pooled", "queued", "taken"} /\ kick' \in [{"host", "guest"} -> BOOLEAN]
  <2> USE DEF TypeOK, GuestGoes, Holds, GuestStep, Open
  <2>1. CASE Recv
    BY <2>1 DEF Recv
  <2>2. CASE Look
    BY <2>2 DEF Look
  <2>3. CASE AskToBeNotified
    BY <2>3 DEF AskToBeNotified
  <2>4. CASE LookAgain
    BY <2>4 DEF LookAgain, Kicked
  <2>5. CASE LookForMore
    BY <2>5 DEF LookForMore
  <2>6. CASE Suppress
    BY <2>6 DEF Suppress
  <2>7. CASE NudgeHost
    BY <2>7 DEF NudgeHost, Kicked
  <2>8. CASE Link
    BY <2>8 DEF Link
  <2>9. CASE TakeJob
    BY <2>9 DEF TakeJob
  <2>10. CASE ReturnJob
    BY <2>10 DEF ReturnJob
  <2>11. CASE Timeout
    BY <2>11 DEF Timeout
  <2>12. CASE GuestISR
    BY <2>12 DEF GuestISR
  <2>13. QED
    BY <2>1, <2>2, <2>3, <2>4, <2>5, <2>6, <2>7, <2>8, <2>9, <2>10, <2>11, <2>12 DEF GuestWaits
<1>2. used'.index = used.index /\ used'.ring = used.ring
      /\ guest'.last = guest.last /\ guest'.token = guest.token
  BY <1>1 DEF TypeOK
<1>3. Quiet
  BY <1>1, <1>2 DEF Quiet, Linked
<1>4. TypeOK'
  BY <1>1 DEF TypeOK
<1>5. QED
  BY <1>3, <1>4

LEMMA NudgeGuestQuiet ==
  ASSUME TypeOK, SomethingToFetch, NudgeGuest
  PROVE  Quiet /\ TypeOK'
<1>1. /\ UNCHANGED <<avail, used, guest, job, receiver>> /\ host.pc = "published"
      /\ host' = [host EXCEPT !.pc = "idle"] /\ kick' \in [{"host", "guest"} -> BOOLEAN]
  BY DEF NudgeGuest, Kicked, TypeOK
<1>2. TypeOK'
  BY <1>1 DEF TypeOK, HostStep
<1>3. QED
  BY <1>1, <1>2 DEF Quiet, TypeOK, Linked, Holds, Nothing, SomethingToFetch

\* A buffer is taken from the pool.
LEMMA TakeStep ==
  ASSUME MQInv, Take
  PROVE  MQInv' /\ UNCHANGED Promise!vars
<1>1. /\ host.pc = "idle" /\ host.pool > 0
      /\ host' = [host EXCEPT !.pool = @ - 1, !.pc = "filling"]
      /\ UNCHANGED <<avail, used, guest, job, kick, receiver>>
  BY DEF Take
<1>2. TypeOK
  BY DEF MQInv, Consistent
<1>3. /\ host'.free = host.free /\ host'.pool = host.pool - 1 /\ host'.last = host.last
      /\ host'.new = host.new /\ host'.pc = "filling"
  <2>1. host \in [free : Seq(Desc), pool : 0 .. Size, last : 0 .. Modulus - 1,
                  pc : HostStep, new : Desc]
    BY <1>2 DEF TypeOK
  <2>2. QED
    BY <1>1, <2>1
<1>4. TypeOK'
  <2>1. host.pool - 1 \in 0 .. Size
    BY <1>1, <1>2, SizeFacts, PlaceFacts
  <2>2. QED
    BY <1>1, <1>2, <2>1 DEF TypeOK, HostStep
<1>5. Unfetched' = Unfetched /\ Uncollected' = Uncollected
  BY <1>1, <1>3 DEF Unfetched, Uncollected
<1>6. Linking' = Linking /\ Received' = Received
  BY <1>1, <1>3 DEF Linking, Linked, Received, Holds
<1>7. Consistent'
  <2>1. Held' = Held /\ Carried = 0 /\ Carried' = 0 /\ Taken = 0 /\ Taken' = 1
    BY <1>1, <1>3 DEF Held, Holds, Carried, Linked, Taken
  <2>2. /\ Len(host.free) + Pending + Back + Carried + Held = Size
        /\ Len(host.free) = host.pool + Taken /\ host.pool \in Int
    BY <1>2, Counts, PlaceFacts DEF MQInv
  <2>3. Len(Unfetched') = Pending /\ Len(Uncollected') = Back
    BY <1>2, <1>5, SegmentFacts
  <2>4. /\ Len(host'.free) + Pending + Back + Carried' + Held' = Size
        /\ Len(host'.free) = host'.pool + Taken'
    BY <1>3, <2>1, <2>2
  <2>5. QED
    BY <1>4, <2>3, <2>4, CountsNext
<1>8. SlotsWritten' /\ SomethingToFetch'
  BY <1>1, <1>3 DEF MQInv, SlotsWritten, SomethingToFetch, Linked
<1>9. OnePlace'
  BY <1>3, <1>5, <1>6 DEF MQInv, OnePlace, Disjoint, Free, Sent, Returned
<1>10. UNCHANGED Promise!vars
  BY <1>3, <1>5, <1>6, JourneyIsPromise DEF journey
<1>11. QED
  BY <1>7, <1>8, <1>9, <1>10 DEF MQInv

\* The slot written is not among those the guest has not read yet.
LEMMA LinkAvailableStep ==
  ASSUME MQInv, LinkAvailable
  PROVE  MQInv' /\ UNCHANGED Promise!vars
<1> DEFINE d == Head(host.free)
<1>1. /\ host.pc = "filling"
      /\ host' = [host EXCEPT !.new = d, !.free = Tail(@), !.pc = "linked"]
      /\ avail' = [avail EXCEPT !.ring[avail.index % Size] = d]
      /\ UNCHANGED <<used, guest, job, kick, receiver>>
  BY DEF LinkAvailable
<1>2. TypeOK /\ Consistent
  BY DEF MQInv, Consistent
<1>3. /\ Len(host.free) + Pending + Back + Held = Size
      /\ Len(host.free) = host.pool + 1 /\ host.pool \in Nat /\ Held \in Nat
      /\ Pending \in Nat /\ Back \in Nat /\ host.free \in Seq(Desc) /\ Len(host.free) \in Nat
  <2>1. Carried = 0 /\ Taken = 1
    BY <1>1 DEF Carried, Linked, Taken
  <2>2. /\ Len(host.free) + Pending + Back + Carried + Held = Size
        /\ Len(host.free) = host.pool + Taken /\ Held \in Nat
    BY <1>2, Counts
  <2>3. /\ host.pool \in Nat /\ Pending \in Nat /\ Back \in Nat
        /\ host.free \in Seq(Desc) /\ Len(host.free) \in Nat
    BY <1>2, PlaceFacts, SegmentFacts
  <2>4. QED
    BY <2>1, <2>2, <2>3
<1>4. host.free # <<>> /\ Pending < Size
  BY <1>3, SizeFacts, EmptySeq
<1>5. /\ d \in Desc /\ Tail(host.free) \in Seq(Desc) /\ Len(Tail(host.free)) = Len(host.free) - 1
  BY <1>3, <1>4, HeadTailProperties
<1>6. /\ host'.free = Tail(host.free) /\ host'.pool = host.pool /\ host'.last = host.last
      /\ host'.new = d /\ host'.pc = "linked"
  BY <1>1, <1>2 DEF TypeOK
<1>7. /\ avail'.index = avail.index /\ avail'.ring = [avail.ring EXCEPT ![avail.index % Size] = d]
  BY <1>1, <1>2 DEF TypeOK
<1> HIDE DEF d
<1>8. avail.index % Size \in 0 .. Size - 1
  <2>1. avail.index \in Int
    BY <1>2, IndexFacts
  <2>2. QED
    BY <2>1, SizeFacts, ModRange
<1>9. TypeOK'
  <2>1. avail'.ring \in Ring
    BY <1>2, <1>5, <1>7 DEF TypeOK, Ring
  <2>2. avail' \in [index : 0 .. Modulus - 1, ring : Ring]
    BY <1>1, <1>2, <1>7, <2>1 DEF TypeOK
  <2>3. host' \in [free : Seq(Desc), pool : 0 .. Size, last : 0 .. Modulus - 1,
                   pc : HostStep, new : Desc]
    BY <1>1, <1>2, <1>5 DEF TypeOK, HostStep, d
  <2>4. QED
    BY <1>1, <1>2, <2>2, <2>3 DEF TypeOK
<1>10. Unfetched' = Unfetched
  <2>1. Segment([avail.ring EXCEPT ![avail.index % Size] = d], guest.last, Pending, Size, Modulus)
          = Segment(avail.ring, guest.last, Pending, Size, Modulus)
    BY <1>2, <1>4, <1>5, IndexFacts, SizeFacts, SegmentKept DEF Pending
  <2>2. Unfetched' = Segment(avail'.ring, guest.last, Pending, Size, Modulus)
    BY <1>1, <1>7, SegmentsAreNext DEF Pending
  <2>3. QED
    BY <1>7, <2>1, <2>2, SegmentsAre
<1>11. Uncollected' = Uncollected /\ Received' = Received
  BY <1>1, <1>6 DEF Uncollected, Received, Holds
<1>12. Linking' = {d} /\ Linking = {}
  BY <1>1, <1>6 DEF Linking, Linked
<1>13. /\ Apart(Tail(host.free)) /\ d \in Free
       /\ \A y : y \in ToSet(Tail(host.free)) <=> y \in Free /\ y # d
  BY <1>3, <1>4, TailApart DEF MQInv, OnePlace, Free, d
<1>14. Consistent'
  <2>1. Len(Unfetched') = Pending /\ Len(Uncollected') = Back
    BY <1>2, <1>10, <1>11, SegmentFacts
  <2>2. Carried' = 1 /\ Held' = Held /\ Taken' = 0
    BY <1>1, <1>6 DEF Carried, Linked, Held, Holds, Taken
  <2>3. /\ Len(host'.free) + Pending + Back + Carried' + Held' = Size
        /\ Len(host'.free) = host'.pool + Taken'
    <3>1. Len(host'.free) = Len(host.free) - 1 /\ host'.pool = host.pool
      BY <1>5, <1>6
    <3> DEFINE n == Len(host.free)
               f == Len(host'.free)
    <3>2. f = n - 1 /\ n = host.pool + 1 /\ n \in Nat /\ host.pool \in Nat
      BY <1>3, <3>1
    <3>3. n + Pending + Back + Held = Size
      BY <1>3
    <3> HIDE DEF n, f
    <3>4. f + Pending + Back + 1 + Held = Size
      <4> DEFINE p == Pending
                 b == Back
                 h == Held
      <4>1. p \in Int /\ b \in Int /\ h \in Int /\ n + p + b + h = Size
        BY <1>3, <3>3
      <4> HIDE DEF p, b, h
      <4>2. f + p + b + 1 + h = Size
        BY ONLY <3>2, <4>1
      <4>3. QED
        BY ONLY <4>2 DEF p, b, h
    <3>5. f = host.pool
      BY <3>2
    <3>6. QED
      BY <1>3, <2>2, <3>1, <3>2, <3>4, <3>5 DEF f
  <2>4. QED
    BY <1>9, <2>1, <2>3, CountsNext
<1>15. SlotsWritten' /\ SomethingToFetch'
  <2>1. avail'.ring[avail'.index % Size] = d
    BY <1>2, <1>7, <1>8, IndexFacts DEF RingOf
  <2>2. QED
    BY <1>1, <1>6, <1>7, <2>1 DEF MQInv, SlotsWritten, SomethingToFetch
<1>16. OnePlace'
  <2>1. Free' = ToSet(Tail(host.free)) /\ Sent' = Sent /\ Returned' = Returned
    BY <1>6, <1>10, <1>11 DEF Free, Sent, Returned
  <2>2. QED
    BY <1>6, <1>10, <1>11, <1>12, <1>13, <2>1 DEF MQInv, OnePlace, Disjoint
<1>17. UNCHANGED Promise!vars
  <2>1. Free' \cup Linking' = Free \cup Linking
    BY <1>6, <1>12, <1>13 DEF Free
  <2>2. QED
    BY <1>10, <1>11, <2>1 DEF Promise!vars, Free, Linking, Linked, Received
<1>18. QED
  BY <1>14, <1>15, <1>16, <1>17 DEF MQInv

\* What is made visible is the message linked before: it is sent.
LEMMA PublishStep ==
  ASSUME MQInv, Publish
  PROVE  MQInv' /\ Promise!Next
<1> DEFINE d == host.new
<1>1. /\ Linked
      /\ avail' = [avail EXCEPT !.index = Succ(@)]
      /\ host' = [host EXCEPT !.pc = "published"]
      /\ UNCHANGED <<used, guest, job, kick, receiver>>
  BY DEF Publish, Linked
<1>2. TypeOK /\ Consistent
  BY DEF MQInv, Consistent
<1>3. /\ Len(host.free) + Pending + Back + 1 + Held = Size
      /\ Len(host.free) = host.pool /\ host.pool \in Nat /\ Held \in Nat
      /\ Pending \in Nat /\ Back \in Nat /\ Len(host.free) \in Nat
  <2>1. Carried = 1 /\ Taken = 0
    BY <1>1 DEF Carried, Linked, Taken
  <2>2. /\ Len(host.free) + Pending + Back + Carried + Held = Size
        /\ Len(host.free) = host.pool + Taken /\ Held \in Nat
    BY <1>2, Counts
  <2>3. host.pool \in Nat /\ Pending \in Nat /\ Back \in Nat /\ Len(host.free) \in Nat
    BY <1>2, PlaceFacts, SegmentFacts
  <2>4. QED
    BY <2>1, <2>2, <2>3
<1>4. /\ host'.free = host.free /\ host'.pool = host.pool /\ host'.last = host.last
      /\ host'.new = d /\ host'.pc = "published"
  BY <1>1, <1>2 DEF TypeOK
<1>5. /\ avail'.index = (avail.index + 1) % Modulus /\ avail'.ring = avail.ring
      /\ avail'.index \in 0 .. Modulus - 1
  BY <1>1, <1>2, IndexFacts, SizeFacts, NextIndex DEF TypeOK, Succ
<1>6. avail.ring[avail.index % Size] = d /\ d \in Desc
  BY <1>1, <1>2, PlaceFacts DEF MQInv, SlotsWritten
<1>7. TypeOK'
  <2>1. avail' \in [index : 0 .. Modulus - 1, ring : Ring]
    BY <1>1, <1>2, <1>5 DEF TypeOK
  <2>2. host' \in [free : Seq(Desc), pool : 0 .. Size, last : 0 .. Modulus - 1,
                   pc : HostStep, new : Desc]
    BY <1>1, <1>2 DEF TypeOK, HostStep
  <2>3. QED
    BY <1>1, <1>2, <2>1, <2>2 DEF TypeOK
<1>8. Lag(avail'.index, guest.last, Modulus) = Pending + 1
  <2>1. Pending + 1 < Modulus
    BY <1>3, SizeFacts
  <2>2. QED
    BY <1>2, <1>5, <2>1, IndexFacts, SizeFacts, LagNext DEF Pending
<1>9. Unfetched' = Append(Unfetched, d)
  <2>1. Segment(avail.ring, guest.last, Pending + 1, Size, Modulus)
          = Append(Segment(avail.ring, guest.last, Pending, Size, Modulus),
                   avail.ring[avail.index % Size])
    <3>1. Pending = Lag(avail.index, guest.last, Modulus)
      BY DEF Pending
    <3>2. /\ avail.ring \in RingOf(Desc, Size) /\ avail.index \in 0 .. Modulus - 1
          /\ guest.last \in 0 .. Modulus - 1 /\ Size \in Nat \ {0} /\ Modulus \in Nat \ {0}
      BY <1>2, IndexFacts, SizeFacts
    <3> DEFINE p == Pending
               a == avail.index
               b == guest.last
               r == avail.ring
    <3>3. /\ p = Lag(a, b, Modulus) /\ r \in RingOf(Desc, Size) /\ a \in 0 .. Modulus - 1
          /\ b \in 0 .. Modulus - 1 /\ p \in Nat
      BY <1>3, <3>1, <3>2
    <3> HIDE DEF p, a, b, r
    <3>4. Segment(r, b, p + 1, Size, Modulus) = Append(Segment(r, b, p, Size, Modulus), r[a % Size])
      BY <3>3, SizeFacts, SegmentGrows
    <3>5. QED
      BY <3>4 DEF p, a, b, r
  <2>2. Unfetched' = Segment(avail.ring, guest.last, Pending + 1, Size, Modulus)
    BY <1>1, <1>5, <1>8, SegmentsAreNext
  <2>3. QED
    BY <1>6, <2>1, <2>2, SegmentsAre
<1>10. Uncollected' = Uncollected /\ Received' = Received
  BY <1>1, <1>4 DEF Uncollected, Received, Holds
<1>11. Linking = {d} /\ Linking' = {} /\ ~Linked'
  BY <1>1, <1>4 DEF Linking, Linked
<1>12. /\ Apart(Unfetched') /\ \A y : y \in ToSet(Unfetched') <=> y \in Sent \/ y = d
  <2>1. d \notin Sent
    BY <1>11 DEF MQInv, OnePlace, Disjoint
  <2>2. Unfetched \in Seq(Desc) /\ Apart(Unfetched)
    BY <1>2, SegmentFacts DEF MQInv, OnePlace
  <2>3. QED
    BY <1>6, <1>9, <2>1, <2>2, AppendApart DEF Sent
<1>13. Consistent'
  <2>1. Len(Unfetched') = Pending + 1 /\ Len(Uncollected') = Back
    BY <1>2, <1>6, <1>9, <1>10, SegmentFacts, AppendProperties
  <2>2. Carried' = 0 /\ Held' = Held /\ Taken' = 0
    BY <1>1, <1>4, <1>11 DEF Carried, Held, Holds, Taken
  <2>3. /\ Len(host'.free) + (Pending + 1) + Back + Carried' + Held' = Size
        /\ Len(host'.free) = host'.pool + Taken'
    <3>1. Len(host'.free) = Len(host.free) /\ host'.pool = host.pool
      BY <1>4
    <3>2. QED
      BY <1>3, <2>2, <3>1
  <2>4. QED
    BY <1>7, <2>1, <2>3, CountsNext
<1>14. SlotsWritten' /\ SomethingToFetch'
  <2>1. guest.last # avail'.index
    <3>1. Pending + 1 # 0
      BY <1>3
    <3>2. QED
      BY <1>2, <1>5, <1>8, <3>1, IndexFacts, SizeFacts, LagNext
  <2>2. QED
    BY <1>1, <1>11, <2>1 DEF MQInv, SlotsWritten, SomethingToFetch
<1>15. OnePlace'
  <2>1. Free' = Free /\ Returned' = Returned /\ Sent' = ToSet(Unfetched')
    BY <1>4, <1>10 DEF Free, Returned, Sent
  <2>2. QED
    BY <1>4, <1>10, <1>11, <1>12, <2>1 DEF MQInv, OnePlace, Disjoint
<1>16. Promise!Send(d)
  <2>1. /\ d \in Free \cup Linking /\ Free' \cup Linking' = (Free \cup Linking) \ {d}
    <3>1. d \notin Free
      BY <1>11 DEF MQInv, OnePlace, Disjoint
    <3>2. Free' = Free
      BY <1>4 DEF Free
    <3>3. QED
      BY <1>11, <3>1, <3>2
  <2>2. QED
    BY <1>9, <1>10, <2>1 DEF Promise!Send, Free, Linking, Linked, Received
<1>17. Promise!Next
  BY <1>6, <1>16 DEF Promise!Next
<1>18. QED
  BY <1>13, <1>14, <1>15, <1>17 DEF MQInv

\* The interrupt brings everything back that is on the used ring.
LEMMA HostISRStep ==
  ASSUME MQInv, HostISR
  PROVE  MQInv' /\ (Promise!Next \/ UNCHANGED Promise!vars)
<1> DEFINE back == Backwards(Uncollected)
<1>1. /\ host.pc \in {"idle", "filling"}
      /\ host' = [host EXCEPT !.free = back \o @, !.pool = @ + Len(Uncollected),
                              !.last = used.index]
      /\ kick' = [kick EXCEPT !["host"] = FALSE]
      /\ UNCHANGED <<avail, used, guest, job, receiver>>
  BY DEF HostISR, Backwards
<1>2. TypeOK /\ Consistent
  BY DEF MQInv, Consistent
<1>3. /\ Uncollected \in Seq(Desc) /\ Len(Uncollected) = Back /\ Back \in Nat
      /\ Len(Unfetched) = Pending /\ Pending \in Nat
      /\ host.free \in Seq(Desc) /\ Len(host.free) \in Nat /\ host.pool \in Nat
  BY <1>2, SegmentFacts, PlaceFacts
<1>4. /\ back \in Seq(Desc) /\ Len(back) = Back /\ Apart(back) /\ ToSet(back) = Returned
  BY <1>3, BackwardsApart DEF MQInv, OnePlace, Returned
<1>5. /\ host'.free = back \o host.free /\ host'.pool = host.pool + Back
      /\ host'.last = used.index /\ host'.new = host.new /\ host'.pc = host.pc
  BY <1>1, <1>2, <1>3 DEF TypeOK
<1> HIDE DEF back
<1>6. back \o host.free \in Seq(Desc) /\ Len(back \o host.free) = Back + Len(host.free)
  <2> DEFINE f == host.free
  <2>1. f \in Seq(Desc) /\ back \in Seq(Desc)
    BY <1>3, <1>4
  <2> HIDE DEF f
  <2>2. back \o f \in Seq(Desc) /\ Len(back \o f) = Len(back) + Len(f)
    BY <2>1, ConcatProperties
  <2>3. QED
    BY <1>4, <2>2 DEF f
<1>7. /\ Len(host.free) + Pending + Back + Held = Size
      /\ Len(host.free) = host.pool + Taken /\ Held \in Nat /\ Taken \in Nat /\ Carried = 0
  <2>1. Carried = 0
    BY <1>1 DEF Carried, Linked
  <2>2. /\ Len(host.free) + Pending + Back + Carried + Held = Size
        /\ Len(host.free) = host.pool + Taken /\ Held \in Nat /\ Taken \in Nat
    BY <1>2, Counts
  <2>3. QED
    BY <1>3, <2>1, <2>2
<1>8. TypeOK'
  <2>1. host.pool + Back \in 0 .. Size
    <3> DEFINE f == Len(host.free)
               p == host.pool
    <3>1. /\ f + Pending + Back + Held = Size /\ f = p + Taken
          /\ f \in Nat /\ p \in Nat /\ Pending \in Nat /\ Back \in Nat /\ Held \in Nat
          /\ Taken \in Nat /\ Size \in Nat
      BY <1>3, <1>7, SizeFacts
    <3> HIDE DEF f, p
    <3>2. p + Back \in 0 .. Size
      BY <3>1
    <3>3. QED
      BY <3>2 DEF p
  <2>2. host' \in [free : Seq(Desc), pool : 0 .. Size, last : 0 .. Modulus - 1,
                   pc : HostStep, new : Desc]
    BY <1>1, <1>2, <1>3, <1>6, <2>1 DEF TypeOK
  <2>3. QED
    BY <1>1, <1>2, <2>2 DEF TypeOK
<1>9. Unfetched' = Unfetched /\ Received' = Received
  BY <1>1 DEF Unfetched, Received, Holds
<1>10. Linking' = {} /\ Linking = {} /\ ~Linked'
  BY <1>1, <1>5 DEF Linking, Linked
<1>11. Uncollected' = <<>>
  <2>1. /\ used.index \in 0 .. Modulus - 1 /\ used.ring \in RingOf(Desc, Size)
    BY <1>2, IndexFacts
  <2>2. Lag(used.index, used.index, Modulus) = 0
    BY <2>1, SizeFacts, LagNext
  <2>3. Uncollected' = Segment(used.ring, used.index, 0, Size, Modulus)
    BY <1>1, <1>5, <2>2, SegmentsAreNext
  <2>4. /\ Segment(used.ring, used.index, 0, Size, Modulus) \in Seq(Desc)
        /\ Len(Segment(used.ring, used.index, 0, Size, Modulus)) = 0
    BY <2>1, SizeFacts, SegmentIsSeq
  <2>5. QED
    BY <2>3, <2>4, EmptySeq
<1>12. /\ Apart(back \o host.free)
       /\ \A y : y \in ToSet(back \o host.free) <=> y \in Returned \/ y \in Free
  <2>1. \A x \in ToSet(back) : x \notin ToSet(host.free)
    BY <1>4 DEF MQInv, OnePlace, Disjoint, Free
  <2>2. Apart(host.free)
    BY DEF MQInv, OnePlace
  <2>3. QED
    BY <1>3, <1>4, <2>1, <2>2, ConcatApart DEF Free
<1>13. Consistent'
  <2>1. Len(Unfetched') = Pending /\ Len(Uncollected') = 0
    BY <1>3, <1>9, <1>11
  <2>2. Carried' = 0 /\ Held' = Held /\ Taken' = Taken
    BY <1>1, <1>5, <1>10 DEF Carried, Held, Holds, Taken
  <2> DEFINE f == Len(host'.free)
  <2>3. f = Back + Len(host.free) /\ host'.pool = host.pool + Back
    BY <1>5, <1>6
  <2> HIDE DEF f
  <2>4. f + Pending + 0 + 0 + Held = Size
    BY <1>3, <1>7, <2>3
  <2>5. f = host'.pool + Taken
    BY <1>3, <1>7, <2>3
  <2>6. Len(host'.free) + Pending + 0 + Carried' + Held' = Size
    BY <2>2, <2>4 DEF f
  <2>7. Len(host'.free) = host'.pool + Taken'
    BY <2>2, <2>5 DEF f
  <2>8. QED
    BY <1>8, <2>1, <2>6, <2>7, CountsNext
<1>14. SlotsWritten' /\ SomethingToFetch'
  BY <1>1, <1>10 DEF MQInv, SlotsWritten, SomethingToFetch
<1>15. OnePlace'
  <2>1. /\ Free' = ToSet(back \o host.free) /\ Sent' = Sent /\ Returned' = {}
        /\ Apart(<<>>)
    BY <1>5, <1>9, <1>11 DEF Free, Sent, Returned, ToSet, Apart
  <2>2. QED
    BY <1>5, <1>9, <1>10, <1>11, <1>12, <2>1 DEF MQInv, OnePlace, Disjoint
<1>16. CASE Uncollected = <<>>
  <2>1. Free' = Free
    <3>1. Returned = {}
      BY <1>16 DEF Returned, ToSet
    <3>2. QED
      BY <1>5, <1>12, <3>1 DEF Free
  <2>2. UNCHANGED Promise!vars
    BY <1>9, <1>10, <1>11, <1>16, <2>1 DEF Promise!vars, Free, Linking, Linked, Received
  <2>3. QED
    BY <1>13, <1>14, <1>15, <2>2 DEF MQInv
<1>17. CASE Uncollected # <<>>
  <2>1. Back \in 1 .. Len(Uncollected)
    BY <1>3, <1>17, EmptySeq
  <2>2. Returned = {Uncollected[i] : i \in 1 .. Back}
    BY <1>3, MembersOf DEF Returned
  <2>3. Free' \cup Linking' = (Free \cup Linking) \cup {Uncollected[i] : i \in 1 .. Back}
    BY <1>5, <1>10, <1>12, <2>2 DEF Free
  <2>4. Uncollected' = SubSeq(Uncollected, Back + 1, Len(Uncollected))
    BY <1>3, <1>11, SubSeqProperties, EmptySeq
  <2>5. Promise!Collect(Back)
    BY <1>9, <2>1, <2>3, <2>4 DEF Promise!Collect, Free, Linking, Linked, Received
  <2>6. Promise!Next
    BY <2>1, <2>5 DEF Promise!Next
  <2>7. QED
    BY <1>13, <1>14, <1>15, <2>6 DEF MQInv
<1>18. QED
  BY <1>16, <1>17

\* The guest fetches the oldest message.
LEMMA FetchStep ==
  ASSUME MQInv, Fetch
  PROVE  MQInv' /\ Promise!Next
<1> DEFINE t == avail.ring[guest.last % Size]
<1>1. /\ guest.pc = "fetch"
      /\ guest' = [guest EXCEPT !.token = t, !.last = Succ(@), !.pc = "fetched"]
      /\ UNCHANGED <<avail, used, host, job, kick, receiver>>
  BY DEF Fetch
<1>2. TypeOK /\ Consistent
  BY DEF MQInv, Consistent
<1>3. /\ avail.index \in 0 .. Modulus - 1 /\ avail.ring \in RingOf(Desc, Size)
      /\ guest.last \in 0 .. Modulus - 1 /\ guest.last # avail.index
  BY <1>1, <1>2, IndexFacts DEF MQInv, SomethingToFetch
<1>4. /\ Unfetched \in Seq(Desc) /\ Len(Unfetched) = Pending /\ Pending \in Nat \ {0}
      /\ Back \in Nat /\ Len(Uncollected) = Back /\ Len(host.free) \in Nat
  <2>1. Pending # 0
    BY <1>3, SizeFacts, LagNext DEF Pending
  <2>2. QED
    BY <1>2, <2>1, SegmentFacts, PlaceFacts
<1>5. /\ Unfetched # <<>> /\ Head(Unfetched) = t
      /\ Segment(avail.ring, (guest.last + 1) % Modulus, Pending - 1, Size, Modulus)
           = Tail(Unfetched)
  <2> DEFINE p == Pending
             b == guest.last
             r == avail.ring
  <2>1. p \in Nat /\ p # 0 /\ b \in 0 .. Modulus - 1 /\ r \in RingOf(Desc, Size)
    BY <1>3, <1>4
  <2>2. Unfetched = Segment(r, b, p, Size, Modulus)
    BY SegmentsAre
  <2> HIDE DEF p, b, r
  <2>3. Unfetched # <<>>
    BY <1>4, EmptySeq
  <2> DEFINE i == b % Size
  <2> HIDE DEF i
  <2>4. Head(Segment(r, b, p, Size, Modulus)) = r[i]
    BY <2>1, SizeFacts, SegmentBegins DEF i
  <2>5. Segment(r, (b + 1) % Modulus, p - 1, Size, Modulus) = Tail(Segment(r, b, p, Size, Modulus))
    BY <2>1, SizeFacts, SegmentShrinks
  <2>6. QED
    BY <2>2, <2>3, <2>4, <2>5 DEF p, b, r, i
<1>6. /\ t \in Desc /\ Len(Tail(Unfetched)) = Pending - 1
  BY <1>4, <1>5, HeadTailProperties
<1>7. /\ guest'.token = t /\ guest'.last = (guest.last + 1) % Modulus /\ guest'.pc = "fetched"
      /\ guest'.last \in 0 .. Modulus - 1
  <2>1. (guest.last + 1) % Modulus \in 0 .. Modulus - 1
    BY <1>3, SizeFacts, NextIndex
  <2>2. QED
    BY <1>1, <1>2, <2>1 DEF TypeOK, Succ
<1> HIDE DEF t
<1>8. TypeOK'
  <2>1. guest' \in [last : 0 .. Modulus - 1, token : Desc, pc : GuestStep, timedOut : BOOLEAN]
    BY <1>1, <1>2, <1>6, <1>7 DEF TypeOK, GuestStep, Open
  <2>2. QED
    BY <1>1, <1>2, <2>1 DEF TypeOK
<1>9. Unfetched' = Tail(Unfetched)
  <2>1. Lag(avail.index, guest'.last, Modulus) = Pending - 1
    BY <1>3, <1>7, SizeFacts, LagNext DEF Pending
  <2>2. Unfetched' = Segment(avail.ring, guest'.last, Pending - 1, Size, Modulus)
    BY <1>1, <2>1, SegmentsAreNext
  <2>3. QED
    BY <1>5, <1>7, <2>2
<1>10. Uncollected' = Uncollected /\ Linking' = Linking /\ host'.free = host.free
  BY <1>1 DEF Uncollected, Linking, Linked
<1>11. Received' = {t} /\ Received = {} /\ Holds' /\ ~Holds
  BY <1>1, <1>7 DEF Received, Holds
<1>12. /\ Apart(Tail(Unfetched)) /\ t \in Sent
       /\ \A y : y \in ToSet(Tail(Unfetched)) <=> y \in Sent /\ y # t
  BY <1>4, <1>5, TailApart DEF MQInv, OnePlace, Sent
<1>13. Consistent'
  <2>1. Len(Unfetched') = Pending - 1 /\ Len(Uncollected') = Back
    BY <1>4, <1>6, <1>9, <1>10
  <2>2. Carried' = Carried /\ Held' = 1 /\ Held = 0 /\ Taken' = Taken
    BY <1>1, <1>11 DEF Carried, Linked, Held, Taken
  <2>3. /\ Len(host.free) + Pending + Back + Carried + Held = Size
        /\ Len(host.free) = host.pool + Taken /\ Carried \in Nat
    BY <1>2, Counts
  <2>4. Len(host.free) + (Pending - 1) + Back + Carried + 1 = Size
    BY <1>4, <2>2, <2>3
  <2>5. Len(host'.free) + (Pending - 1) + Back + Carried' + Held' = Size
    BY <1>10, <2>2, <2>4
  <2>6. Len(host'.free) = host'.pool + Taken'
    BY <1>1, <2>2, <2>3
  <2>7. QED
    BY <1>8, <2>1, <2>5, <2>6, CountsNext
<1>14. SlotsWritten' /\ SomethingToFetch'
  BY <1>1, <1>7 DEF MQInv, SlotsWritten, SomethingToFetch, Linked
<1>15. OnePlace'
  <2>1. Free' = Free /\ Returned' = Returned /\ Sent' = ToSet(Tail(Unfetched))
    BY <1>9, <1>10 DEF Free, Returned, Sent
  <2>2. QED
    BY <1>9, <1>10, <1>11, <1>12, <2>1 DEF MQInv, OnePlace, Disjoint
<1>16. Promise!Receive
  <2>1. Received' = Received \cup {Head(Unfetched)}
    BY <1>5, <1>11
  <2>2. Free' \cup Linking' = Free \cup Linking
    BY <1>10 DEF Free
  <2>3. QED
    BY <1>5, <1>9, <1>10, <2>1, <2>2 DEF Promise!Receive, Free, Linking, Linked, Received
<1>17. Promise!Next
  BY <1>16 DEF Promise!Next
<1>18. QED
  BY <1>13, <1>14, <1>15, <1>17 DEF MQInv

\* The slot written is not among those the host has not read yet.
LEMMA PutUsedStep ==
  ASSUME MQInv, PutUsed
  PROVE  MQInv' /\ UNCHANGED Promise!vars
<1> DEFINE d == guest.token
<1>1. /\ guest.pc = "holding"
      /\ guest' = [guest EXCEPT !.pc = "put"]
      /\ used' = [used EXCEPT !.ring[used.index % Size] = d]
      /\ UNCHANGED <<avail, host, job, kick, receiver>>
  BY DEF PutUsed, GuestGoes
<1>2. TypeOK /\ Consistent
  BY DEF MQInv, Consistent
<1>3. /\ used.index \in 0 .. Modulus - 1 /\ used.ring \in RingOf(Desc, Size)
      /\ host.last \in 0 .. Modulus - 1 /\ d \in Desc
      /\ Pending \in Nat /\ Back \in Nat /\ Len(host.free) \in Nat
      /\ Len(Unfetched) = Pending /\ Len(Uncollected) = Back
  BY <1>2, IndexFacts, PlaceFacts, SegmentFacts
<1>4. /\ used'.index = used.index /\ used'.ring = [used.ring EXCEPT ![used.index % Size] = d]
      /\ guest'.last = guest.last /\ guest'.token = d /\ guest'.pc = "put"
  BY <1>1, <1>2 DEF TypeOK
<1>5. Back < Size
  <2>1. Held = 1
    BY <1>1 DEF Held, Holds
  <2>2. Len(host.free) + Pending + Back + Carried + Held = Size /\ Carried \in Nat
    BY <1>2, Counts
  <2>3. QED
    BY <1>3, <2>1, <2>2, SizeFacts
<1> HIDE DEF d
<1>6. used.index % Size \in 0 .. Size - 1
  <2>1. used.index \in Int
    BY <1>3
  <2>2. QED
    BY <2>1, SizeFacts, ModRange
<1>7. TypeOK'
  <2>1. used'.ring \in Ring
    BY <1>2, <1>3, <1>4 DEF TypeOK, Ring
  <2>2. used' \in [index : 0 .. Modulus - 1, ring : Ring, noNotify : BOOLEAN]
    BY <1>1, <1>2, <1>4, <2>1 DEF TypeOK
  <2>3. guest' \in [last : 0 .. Modulus - 1, token : Desc, pc : GuestStep, timedOut : BOOLEAN]
    BY <1>1, <1>2 DEF TypeOK, GuestStep
  <2>4. QED
    BY <1>1, <1>2, <2>2, <2>3 DEF TypeOK
<1>8. Uncollected' = Uncollected
  <2>1. Segment([used.ring EXCEPT ![used.index % Size] = d], host.last, Back, Size, Modulus)
          = Segment(used.ring, host.last, Back, Size, Modulus)
    <3> DEFINE l == Back
               a == used.index
               b == host.last
               r == used.ring
    <3>1. /\ l = Lag(a, b, Modulus) /\ l < Size /\ r \in RingOf(Desc, Size)
          /\ a \in 0 .. Modulus - 1 /\ b \in 0 .. Modulus - 1
      BY <1>3, <1>5 DEF Back
    <3> HIDE DEF l, a, b, r
    <3>2. Segment([r EXCEPT ![a % Size] = d], b, l, Size, Modulus)
            = Segment(r, b, l, Size, Modulus)
      BY <1>3, <3>1, SizeFacts, SegmentKept
    <3>3. QED
      BY <3>2 DEF l, a, b, r
  <2>2. Uncollected' = Segment(used'.ring, host.last, Back, Size, Modulus)
    BY <1>1, <1>4, SegmentsAreNext DEF Back
  <2>3. QED
    BY <1>4, <2>1, <2>2, SegmentsAre
<1>9. Unfetched' = Unfetched /\ Linking' = Linking /\ host'.free = host.free
  BY <1>1, <1>4 DEF Unfetched, Linking, Linked
<1>10. Holds /\ Holds' /\ Received' = Received
  BY <1>1, <1>4 DEF Received, Holds, d
<1>11. Consistent'
  BY <1>1, <1>7, <1>8, <1>9, <1>10 DEF MQInv, Consistent
<1>12. SlotsWritten' /\ SomethingToFetch'
  <2>1. used'.ring[used'.index % Size] = d
    BY <1>4, <1>3, <1>6 DEF RingOf
  <2>2. QED
    BY <1>1, <1>4, <2>1 DEF MQInv, SlotsWritten, SomethingToFetch, Linked
<1>13. OnePlace'
  BY <1>8, <1>9, <1>10 DEF MQInv, OnePlace, Disjoint, Free, Sent, Returned
<1>14. UNCHANGED Promise!vars
  BY <1>8, <1>9, <1>10, JourneyIsPromise DEF journey
<1>15. QED
  BY <1>11, <1>12, <1>13, <1>14 DEF MQInv

\* What is made visible is the descriptor put there before: it is returned.
LEMMA PublishUsedStep ==
  ASSUME MQInv, PublishUsed
  PROVE  MQInv' /\ Promise!Next
<1> DEFINE d == guest.token
<1>1. /\ guest.pc = "put"
      /\ guest' = [guest EXCEPT !.pc = "nudge"]
      /\ used' = [used EXCEPT !.index = Succ(@)]
      /\ UNCHANGED <<avail, host, job, kick, receiver>>
  BY DEF PublishUsed, GuestGoes
<1>2. TypeOK /\ Consistent
  BY DEF MQInv, Consistent
<1>3. /\ used.index \in 0 .. Modulus - 1 /\ used.ring \in RingOf(Desc, Size)
      /\ host.last \in 0 .. Modulus - 1 /\ d \in Desc
      /\ Pending \in Nat /\ Back \in Nat /\ Len(host.free) \in Nat
      /\ Len(Unfetched) = Pending /\ Len(Uncollected) = Back /\ Uncollected \in Seq(Desc)
  BY <1>2, IndexFacts, PlaceFacts, SegmentFacts
<1>4. /\ Len(host.free) + Pending + Back + Carried + 1 = Size
      /\ Len(host.free) = host.pool + Taken /\ Carried \in Nat
  <2>1. Held = 1
    BY <1>1 DEF Held, Holds
  <2>2. /\ Len(host.free) + Pending + Back + Carried + Held = Size /\ Carried \in Nat
        /\ Len(host.free) = host.pool + Taken
    BY <1>2, Counts
  <2>3. QED
    BY <2>1, <2>2
<1>5. used.ring[used.index % Size] = d
  BY <1>1 DEF MQInv, SlotsWritten
<1>6. /\ used'.index = (used.index + 1) % Modulus /\ used'.ring = used.ring
      /\ used'.index \in 0 .. Modulus - 1
      /\ guest'.last = guest.last /\ guest'.token = d /\ guest'.pc = "nudge"
  <2>1. (used.index + 1) % Modulus \in 0 .. Modulus - 1
    BY <1>3, SizeFacts, NextIndex
  <2>2. QED
    BY <1>1, <1>2, <2>1 DEF TypeOK, Succ
<1> HIDE DEF d
<1>7. TypeOK'
  <2>1. used' \in [index : 0 .. Modulus - 1, ring : Ring, noNotify : BOOLEAN]
    BY <1>1, <1>2, <1>6 DEF TypeOK
  <2>2. guest' \in [last : 0 .. Modulus - 1, token : Desc, pc : GuestStep, timedOut : BOOLEAN]
    BY <1>1, <1>2 DEF TypeOK, GuestStep
  <2>3. QED
    BY <1>1, <1>2, <2>1, <2>2 DEF TypeOK
<1>8. Uncollected' = Append(Uncollected, d)
  <2>1. Lag(used'.index, host.last, Modulus) = Back + 1
    <3> DEFINE a == used.index
               b == host.last
    <3>1. Lag(a, b, Modulus) + 1 < Modulus
      BY <1>3, <1>4, SizeFacts DEF Back
    <3>2. a \in 0 .. Modulus - 1 /\ b \in 0 .. Modulus - 1
      BY <1>3
    <3> HIDE DEF a, b
    <3>3. Lag((a + 1) % Modulus, b, Modulus) = Lag(a, b, Modulus) + 1
      BY <3>1, <3>2, SizeFacts, LagNext
    <3>4. QED
      BY <1>6, <3>3 DEF Back, a, b
  <2> DEFINE l == Back
             a == used.index
             b == host.last
             r == used.ring
  <2>2. /\ l = Lag(a, b, Modulus) /\ r \in RingOf(Desc, Size) /\ a \in 0 .. Modulus - 1
        /\ b \in 0 .. Modulus - 1 /\ l \in Nat
    BY <1>3 DEF Back
  <2>3. Uncollected' = Segment(r, b, l + 1, Size, Modulus)
    BY <1>1, <1>6, <2>1, SegmentsAreNext
  <2>4. Uncollected = Segment(r, b, l, Size, Modulus) /\ r[a % Size] = d
    BY <1>5, SegmentsAre
  <2> HIDE DEF l, a, b, r
  <2>5. Segment(r, b, l + 1, Size, Modulus) = Append(Segment(r, b, l, Size, Modulus), r[a % Size])
    BY <2>2, SizeFacts, SegmentGrows
  <2>6. QED
    BY <2>3, <2>4, <2>5
<1>9. Unfetched' = Unfetched /\ Linking' = Linking /\ host'.free = host.free
  BY <1>1, <1>6 DEF Unfetched, Linking, Linked
<1>10. Received = {d} /\ Received' = {} /\ ~Holds'
  BY <1>1, <1>6 DEF Received, Holds, d
<1>11. Apart(Uncollected') /\ \A y : y \in ToSet(Uncollected') <=> y \in Returned \/ y = d
  <2>1. d \notin Returned
    BY <1>10 DEF MQInv, OnePlace, Disjoint
  <2>2. Apart(Uncollected)
    BY DEF MQInv, OnePlace
  <2>3. QED
    BY <1>3, <1>8, <2>1, <2>2, AppendApart DEF Returned
<1>12. Consistent'
  <2>1. Len(Unfetched') = Pending /\ Len(Uncollected') = Back + 1
    BY <1>3, <1>8, <1>9, AppendProperties
  <2>2. Carried' = Carried /\ Held' = 0 /\ Taken' = Taken
    BY <1>1, <1>10 DEF Carried, Linked, Held, Taken
  <2>3. Len(host.free) + Pending + (Back + 1) + Carried + 0 = Size
    <3> DEFINE f == Len(host.free)
    <3>1. f + Pending + Back + Carried + 1 = Size /\ f \in Nat /\ Carried \in Nat
      BY <1>3, <1>4
    <3> HIDE DEF f
    <3>2. f + Pending + (Back + 1) + Carried + 0 = Size
      BY <1>3, <3>1
    <3>3. QED
      BY <3>2 DEF f
  <2>4. /\ Len(host'.free) + Pending + (Back + 1) + Carried' + Held' = Size
        /\ Len(host'.free) = host'.pool + Taken'
    BY <1>1, <1>4, <1>9, <2>2, <2>3
  <2>5. QED
    BY <1>7, <2>1, <2>4, CountsNext
<1>13. SlotsWritten' /\ SomethingToFetch'
  BY <1>1, <1>6 DEF MQInv, SlotsWritten, SomethingToFetch, Linked
<1>14. OnePlace'
  <2>1. Free' = Free /\ Sent' = Sent /\ Returned' = ToSet(Uncollected')
    BY <1>9 DEF Free, Sent, Returned
  <2>2. QED
    BY <1>9, <1>10, <1>11, <2>1 DEF MQInv, OnePlace, Disjoint
<1>15. Promise!Return(d)
  <2>1. Free' \cup Linking' = Free \cup Linking
    BY <1>9 DEF Free
  <2>2. d \in Received /\ Received' = Received \ {d}
    BY <1>10
  <2>3. QED
    BY <1>8, <1>9, <2>1, <2>2 DEF Promise!Return, Free, Linking, Linked, Received
<1>16. Promise!Next
  BY <1>3, <1>15 DEF Promise!Next
<1>17. QED
  BY <1>12, <1>13, <1>14, <1>16 DEF MQInv

\* Every step keeps the invariant, and is one of the promise or none.
LEMMA NextInv ==
  ASSUME MQInv, [Next]_vars
  PROVE  MQInv' /\ [Promise!Next]_(Promise!vars)
<1>1. TypeOK /\ SomethingToFetch
  BY DEF MQInv, Consistent
<1>2. CASE Take
  BY <1>2, TakeStep
<1>3. CASE HostTask
  BY <1>1, <1>3, LinkAvailableStep, PublishStep, NudgeGuestQuiet, QuietStep DEF HostTask
<1>4. CASE HostISR
  BY <1>4, HostISRStep
<1>5. CASE Fetch
  BY <1>5, FetchStep
<1>6. CASE PutUsed
  BY <1>6, PutUsedStep
<1>7. CASE PublishUsed
  BY <1>7, PublishUsedStep
<1>8. CASE GuestWaits \/ Timeout \/ GuestISR
  BY <1>1, <1>8, GuestWaitsQuiet, QuietStep
<1>9. CASE UNCHANGED vars
  <2>1. Quiet /\ TypeOK'
    BY <1>1, <1>9 DEF Quiet, vars, Linked, Holds, Nothing, SomethingToFetch, TypeOK
  <2>2. QED
    BY <2>1, QuietStep
<1>10. QED
  BY <1>2, <1>3, <1>4, <1>5, <1>6, <1>7, <1>8, <1>9 DEF Next, GuestTask, GuestWaits

\* The invariant holds always.
THEOREM MessageQueueInvariance == Spec => []MQInv
<1>1. Init => MQInv
  BY InitInv
<1>2. MQInv /\ [Next]_vars => MQInv'
  BY NextInv
<1>3. QED
  BY <1>1, <1>2, PTL DEF Spec

\* Whatever the two sides do when, no buffer and no descriptor is lost or counted
\* twice (MQ_take, MQ_send, MQ_return and the interrupt).
THEOREM ConsistentAlways == Spec => []Consistent
<1>1. MQInv => Consistent
  BY DEF MQInv
<1>2. QED
  BY <1>1, MessageQueueInvariance, PTL

\* No descriptor is ever in two places: the sender does not write to a buffer the
\* receiver reads, nor free one twice.
THEOREM OnePlaceAlways == Spec => []OnePlace
<1>1. MQInv => OnePlace
  BY DEF MQInv
<1>2. QED
  BY <1>1, MessageQueueInvariance, PTL

\* Messages are received in the order sent, each once, and what comes back comes
\* back in the order returned: the queue does what a courier does.
THEOREM MessagesInOrder == Spec => InOrder
<1>1. Init => Promise!Init
  BY InitInv
<1>2. MQInv /\ [Next]_vars => [Promise!Next]_(Promise!vars)
  BY NextInv
<1>3. QED
  BY <1>1, <1>2, MessageQueueInvariance, PTL DEF Spec, InOrder, Promise!Spec
=============================================================================
