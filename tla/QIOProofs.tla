----------------------------- MODULE QIOProofs ------------------------------
(***************************************************************************)
(* Proofs about queued I/O (QIO), for any operations, tasks and devices: the *)
(* control blocks, the queues, the counts and the power agree, and each      *)
(* operation is answered once, with what has happened to it.                *)
(***************************************************************************)
EXTENDS QIO, QueueLemmas

-----------------------------------------------------------------------------
(* The inductive invariant, of a device s of kind k.                         *)

\* An operation is on one of the queues.
Queued(s, i) == \E p \in Place : Contains(s.on[p], i)

\* A control block says where it is (StateTellsPlace); a timer runs only for those
\* that have one; and what has been answered is on no queue until the answer has
\* been taken.
Tells(s, i) ==
  /\ s.ioState[i] = "pending" <=> \E p \in Place \ {"active"} : Contains(s.on[p], i)
  /\ i \notin Handled => (s.ioState[i] = "active" <=> Contains(s.on["active"], i))
  /\ s.timer[i] = "set" => s.timerSet[i] /\ Queued(s, i)
  /\ s.timer[i] # "off" => i \in Timed
  /\ Contains(s.mailbox, i) => i \notin Handled /\ s.ioState[i] \in Final
  /\ s.handled[i] # "no" => i \in Handled /\ ~Queued(s, i)

Blocks(s) ==
  /\ s \in Device
  /\ Table(s.on, Place, Iocb)
  /\ \A i \in Iocb : Tells(s, i)

Counts(s, k) == s.active = Len(s.on["active"]) /\ s.active <= k.rank

\* PowerFollows
Powered(s, k) ==
  k.powerClass # "none" =>
    /\ s.active > 0 => s.powerState = "normal"
    /\ s.enabled /\ k.powerClass = "coarse" => s.powerState = "normal"
    /\ s.active = 0 /\ (~s.enabled \/ k.powerClass = "fine") => s.powerState # "normal"

\* KeepsBusy
Busy(s, k) == s.on["pending"] # <<>> => s.enabled /\ s.active = k.rank

\* What holds also between QIO_complete and QIO_start, and what holds after.
Steady(s, k) == Blocks(s) /\ Counts(s, k) /\ Powered(s, k)
Sound(s, k)  == Steady(s, k) /\ s.working = s.active /\ Busy(s, k)

IInv ==
  /\ Sound(io, kind)
  /\ pc \in [Task -> {"user", "cancelling", "disabling", "disable"}]
  /\ kind \in Kinds

\* The code leaves the state of an operation active when its completion function
\* disposes of it, so such an operation must not be cancelled nor have a timeout.
HandledApart == Handled \cap (Cancellable \cup Timed) = {}
-----------------------------------------------------------------------------
(* Queues, devices and fates.                                              *)

LEMMA PlaceFacts ==
  /\ "pending" \in Place /\ "active" \in Place /\ "pending" # "active"
  /\ \A t \in Canceller : t \in Place /\ t # "pending" /\ t # "active"
  /\ \A p \in Place : p = "pending" \/ p = "active" \/ p \in Canceller
BY QIOAssumption DEF Place

LEMMA KindFacts ==
  ASSUME kind \in Kinds
  PROVE  kind.rank \in Nat \ {0} /\ kind.powerClass \in {"none", "coarse", "fine"}
BY QIOAssumption

LEMMA DeviceFacts ==
  ASSUME NEW s \in Device
  PROVE  /\ s.on \in [Place -> Seq(Iocb)] /\ s.active \in Int /\ s.enabled \in BOOLEAN
         /\ s.powerState \in {"unknown", "normal", "save"} /\ s.working \in Nat
         /\ s.ioState \in [Iocb -> Final \cup {"new", "pending", "active"}]
         /\ s.timerSet \in [Iocb -> BOOLEAN] /\ s.timer \in [Iocb -> {"off", "set", "due"}]
         /\ s.mailbox \in Seq(Iocb) /\ s.handled \in [Iocb -> Final \cup {"no"}]
BY DEF Device

\* A device is the record of its fields.
LEMMA DeviceIs ==
  ASSUME NEW s \in Device
  PROVE  s = [on |-> s.on, active |-> s.active, enabled |-> s.enabled,
              powerState |-> s.powerState, working |-> s.working, ioState |-> s.ioState,
              timerSet |-> s.timerSet, timer |-> s.timer, mailbox |-> s.mailbox,
              handled |-> s.handled]
BY DEF Device

\* The fate of an operation on a device s (Fate).
FateOf(s, i) ==
  IF Contains(s.on["pending"], i) THEN "waiting"
  ELSE IF Contains(s.on["active"], i) THEN "started"
  ELSE IF \E t \in Canceller : Contains(s.on[t], i) THEN "picked"
  ELSE IF Contains(s.mailbox, i) THEN s.ioState[i]
  ELSE IF s.handled[i] # "no" THEN s.handled[i]
  ELSE "idle"

\* What is appended is there, and nothing else is new.
LEMMA AppendContains ==
  ASSUME NEW S, NEW s \in Seq(S), NEW x \in S
  PROVE  \A y : Contains(Append(s, x), y) <=> Contains(s, y) \/ y = x
<1> DEFINE t == Append(s, x)
<1>1. /\ Len(t) = Len(s) + 1 /\ t[Len(s) + 1] = x /\ \A i \in 1 .. Len(s) : t[i] = s[i]
  BY AppendProperties
<1>2. Len(s) \in Nat
  BY LenProperties
<1> HIDE DEF t
<1>3. ASSUME NEW y, Contains(t, y) PROVE Contains(s, y) \/ y = x
  BY <1>1, <1>2, <1>3 DEF Contains
<1>4. ASSUME NEW y, Contains(s, y) PROVE Contains(t, y)
  BY <1>1, <1>2, <1>4 DEF Contains
<1>5. Contains(t, x)
  BY <1>1, <1>2 DEF Contains
<1>6. QED
  BY <1>3, <1>4, <1>5 DEF t

\* What is left when the head has been taken.
LEMMA TailContains ==
  ASSUME NEW S, NEW s \in Seq(S), s # <<>>, NEW i, i = Head(s), NEW m, m = Tail(s)
  PROVE  /\ i \in S /\ m \in Seq(S) /\ Contains(s, i)
         /\ \A y : Contains(m, y) => Contains(s, y)
         /\ \A y : Contains(s, y) => Contains(m, y) \/ y = i
<1> DEFINE n == Len(s)
<1>1. /\ m \in Seq(S) /\ Len(m) = n - 1 /\ i = s[1]
      /\ \A k \in 1 .. Len(m) : m[k] = s[k + 1]
  BY HeadTailProperties
<1>2. n \in Nat \ {0} /\ i \in S
  BY EmptySeq, <1>1, ElementOfSeq
<1>3. Contains(s, i)
  BY <1>1, <1>2 DEF Contains
<1>4. ASSUME NEW y, Contains(m, y) PROVE Contains(s, y)
  <2>1. PICK k \in 1 .. Len(m) : m[k] = y
    BY <1>4 DEF Contains
  <2>2. k + 1 \in 1 .. n /\ s[k + 1] = y
    BY <2>1, <1>1, <1>2
  <2>3. QED
    BY <2>2 DEF Contains
<1>5. ASSUME NEW y, Contains(s, y), y # i PROVE Contains(m, y)
  <2>1. PICK k \in 1 .. n : s[k] = y
    BY <1>5 DEF Contains
  <2>2. k - 1 \in 1 .. Len(m) /\ m[k - 1] = y
    BY <2>1, <1>1, <1>2, <1>5
  <2>3. QED
    BY <2>2 DEF Contains
<1>6. QED
  BY <1>1, <1>2, <1>3, <1>4, <1>5

\* The one element of a sequence is its head.
LEMMA OnlyOne ==
  ASSUME NEW S, NEW q \in Seq(S), Len(q) <= 1, NEW x, Contains(q, x)
  PROVE  q # <<>> /\ Len(q) = 1 /\ x = Head(q)
<1> DEFINE m == Len(q)
<1>1. PICK n \in Nat : n >= 1 /\ n <= m /\ q[n] = x
  BY DEF Contains
<1>2. m \in Nat /\ m <= 1
  BY LenProperties
<1> HIDE DEF m
<1>3. n = 1 /\ m = 1
  BY ONLY <1>1, <1>2
<1>4. q # <<>>
  BY <1>3, EmptySeq DEF m
<1>5. QED
  BY <1>1, <1>3, <1>4, HeadTailProperties DEF m

\* An operation that is answered: on no queue, with no timer set, and what it has
\* been told is where the consumer looks for it.
Ends(r, s, i, status) ==
  /\ \A j \in Iocb \ {i} :
       /\ r.ioState[j] = s.ioState[j] /\ r.timer[j] = s.timer[j]
       /\ r.timerSet[j] = s.timerSet[j] /\ r.handled[j] = s.handled[j]
       /\ Contains(r.mailbox, j) <=> Contains(s.mailbox, j)
  /\ r.timer[i] # "set" /\ (r.timer[i] # "off" => i \in Timed)
  /\ i \in Handled =>
       r.handled[i] = status /\ r.ioState[i] # "pending" /\ ~Contains(r.mailbox, i)
  /\ i \notin Handled =>
       r.handled[i] = "no" /\ r.ioState[i] = status /\ Contains(r.mailbox, i)

LEMMA EndsTells ==
  ASSUME NEW s, Blocks(s), NEW i \in Iocb, NEW status \in Final,
         NEW r \in Device, Table(r.on, Place, Iocb), Drops(r.on, s.on, Place, i),
         Ends(r, s, i, status)
  PROVE  /\ Blocks(r) /\ FateOf(r, i) = status
         /\ \A j \in Iocb \ {i} : FateOf(r, j) = FateOf(s, j)
<1>1. \A p \in Place : \A j \in Iocb \ {i} : Contains(r.on[p], j) <=> Contains(s.on[p], j)
  BY DEF Drops
<1>2. \A p \in Place : ~Contains(r.on[p], i)
  BY DEF Drops
<1>3. ASSUME NEW j \in Iocb \ {i} PROVE Tells(r, j) /\ FateOf(r, j) = FateOf(s, j)
  <2>1. Tells(s, j)
    BY DEF Blocks
  <2>2. /\ r.ioState[j] = s.ioState[j] /\ r.timer[j] = s.timer[j]
        /\ r.timerSet[j] = s.timerSet[j] /\ r.handled[j] = s.handled[j]
        /\ Contains(r.mailbox, j) <=> Contains(s.mailbox, j)
    BY DEF Ends
  <2>3. Tells(r, j)
    BY <1>1, <2>1, <2>2, PlaceFacts DEF Tells, Queued
  <2>4. FateOf(r, j) = FateOf(s, j)
    BY <1>1, <2>2, PlaceFacts DEF FateOf
  <2>5. QED
    BY <2>3, <2>4
<1>4. Tells(r, i) /\ FateOf(r, i) = status
  <2>1. status # "no" /\ status # "pending" /\ status # "active"
    BY DEF Final
  <2>2. /\ r.timer[i] # "set" /\ (r.timer[i] # "off" => i \in Timed)
        /\ i \in Handled =>
             r.handled[i] = status /\ r.ioState[i] # "pending" /\ ~Contains(r.mailbox, i)
        /\ i \notin Handled =>
             r.handled[i] = "no" /\ r.ioState[i] = status /\ Contains(r.mailbox, i)
    BY DEF Ends
  <2>3. Tells(r, i)
    BY <1>2, <2>1, <2>2, PlaceFacts DEF Tells, Queued
  <2>4. FateOf(r, i) = status
    BY <1>2, <2>1, <2>2, PlaceFacts DEF FateOf
  <2>5. QED
    BY <2>3, <2>4
<1>5. QED
  BY <1>3, <1>4 DEF Blocks

\* What the fate of an operation says of its control block.
LEMMA FateFacts ==
  ASSUME NEW s, Blocks(s), NEW i \in Iocb
  PROVE  /\ Contains(s.on["pending"], i) => FateOf(s, i) = "waiting"
         /\ Contains(s.on["active"], i) => FateOf(s, i) = "started"
         /\ \A t \in Canceller : Contains(s.on[t], i) => FateOf(s, i) = "picked"
         /\ Queued(s, i) => ~Contains(s.mailbox, i) /\ s.handled[i] = "no"
         /\ Contains(s.on["active"], i) => s.ioState[i] # "pending"
<1>1. Tells(s, i) /\ Table(s.on, Place, Iocb)
  BY DEF Blocks
<1>2. \A p, q \in Place : Contains(s.on[p], i) /\ Contains(s.on[q], i) => p = q
  BY <1>1, TableOneQueue
<1>3. Contains(s.on["active"], i) => s.ioState[i] # "pending"
  BY <1>1, <1>2, PlaceFacts DEF Tells
<1>4. Queued(s, i) => ~Contains(s.mailbox, i) /\ s.handled[i] = "no"
  <2>1. SUFFICES ASSUME Queued(s, i), Contains(s.mailbox, i) PROVE FALSE
    BY <1>1 DEF Tells
  <2>2. i \notin Handled /\ s.ioState[i] \in Final
    BY <1>1, <2>1 DEF Tells
  <2>3. s.ioState[i] # "pending" /\ s.ioState[i] # "active"
    BY <2>2 DEF Final
  <2>4. \A p \in Place : ~Contains(s.on[p], i)
    BY <1>1, <2>2, <2>3, PlaceFacts DEF Tells
  <2>5. QED
    BY <2>1, <2>4 DEF Queued
<1>5. QED
  BY <1>2, <1>3, <1>4, PlaceFacts DEF FateOf
-----------------------------------------------------------------------------
(* The routines, one by one.                                               *)

LEMMA CancelTimerFields ==
  ASSUME NEW s \in Device, NEW i \in Iocb, NEW r, r = CancelTimer(s, i)
  PROVE  /\ r \in Device
         /\ r.on = s.on /\ r.active = s.active /\ r.enabled = s.enabled
         /\ r.powerState = s.powerState /\ r.working = s.working /\ r.ioState = s.ioState
         /\ r.timerSet = s.timerSet /\ r.mailbox = s.mailbox /\ r.handled = s.handled
         /\ r.timer[i] = IF s.timer[i] = "set" THEN "off" ELSE s.timer[i]
         /\ \A j \in Iocb \ {i} : r.timer[j] = s.timer[j]
BY DEF CancelTimer, Device

LEMMA TellFields ==
  ASSUME NEW s \in Device, NEW i \in Iocb, NEW status \in Final, NEW r, r = Tell(s, i, status)
  PROVE  /\ r \in Device
         /\ r.on = s.on /\ r.active = s.active /\ r.enabled = s.enabled
         /\ r.powerState = s.powerState /\ r.working = s.working /\ r.ioState = s.ioState
         /\ r.timerSet = s.timerSet /\ r.timer = s.timer
         /\ \A j \in Iocb \ {i} :
              r.handled[j] = s.handled[j] /\ (Contains(r.mailbox, j) <=> Contains(s.mailbox, j))
         /\ i \in Handled => r.handled[i] = status /\ r.mailbox = s.mailbox
         /\ i \notin Handled => r.handled = s.handled /\ Contains(r.mailbox, i)
<1>1. CASE i \in Handled
  <2>1. r = [s EXCEPT !.handled[i] = status]
    BY <1>1 DEF Tell
  <2>2. s.handled \in [Iocb -> Final \cup {"no"}]
    BY DEF Device
  <2>3. [s.handled EXCEPT ![i] = status] \in [Iocb -> Final \cup {"no"}]
    BY <2>2
  <2>4. r.handled = [s.handled EXCEPT ![i] = status]
    BY <2>1 DEF Device
  <2>5. r \in Device
    BY <2>1, <2>3 DEF Device
  <2>6. /\ r.on = s.on /\ r.active = s.active /\ r.enabled = s.enabled
        /\ r.powerState = s.powerState /\ r.working = s.working /\ r.ioState = s.ioState
        /\ r.timerSet = s.timerSet /\ r.timer = s.timer /\ r.mailbox = s.mailbox
    BY <2>1 DEF Device
  <2>7. r.handled[i] = status /\ \A j \in Iocb \ {i} : r.handled[j] = s.handled[j]
    BY <2>2, <2>4
  <2>8. QED
    BY <1>1, <2>5, <2>6, <2>7
<1>2. CASE i \notin Handled
  <2>1. r = [s EXCEPT !.mailbox = Append(@, i)]
    BY <1>2 DEF Tell
  <2>2. s.mailbox \in Seq(Iocb)
    BY DEF Device
  <2>3. Append(s.mailbox, i) \in Seq(Iocb)
    BY <2>2
  <2>4. \A y : Contains(Append(s.mailbox, i), y) <=> Contains(s.mailbox, y) \/ y = i
    BY <2>2, AppendContains
  <2> DEFINE m == Append(s.mailbox, i)
  <2>5. r \in Device /\ r.mailbox = m
    <3>1. m \in Seq(Iocb) /\ r = [s EXCEPT !.mailbox = m]
      BY <2>1, <2>3
    <3> HIDE DEF m
    <3>2. [s EXCEPT !.mailbox = m] \in Device
      BY <3>1 DEF Device
    <3>3. [s EXCEPT !.mailbox = m].mailbox = m
      BY DEF Device
    <3>4. QED
      BY <3>1, <3>2, <3>3
  <2>6. /\ r.on = s.on /\ r.active = s.active /\ r.enabled = s.enabled
        /\ r.powerState = s.powerState /\ r.working = s.working /\ r.ioState = s.ioState
        /\ r.timerSet = s.timerSet /\ r.timer = s.timer /\ r.handled = s.handled
    BY <2>1 DEF Device
  <2>7. QED
    BY <1>2, <2>4, <2>5, <2>6
<1>3. QED
  BY <1>1, <1>2

LEMMA PowerUpFields ==
  ASSUME NEW s \in Device, NEW r, r = PowerUp(s)
  PROVE  /\ r \in Device
         /\ r.on = s.on /\ r.active = s.active /\ r.enabled = s.enabled
         /\ r.working = s.working /\ r.ioState = s.ioState
         /\ r.timerSet = s.timerSet /\ r.timer = s.timer
         /\ r.mailbox = s.mailbox /\ r.handled = s.handled
         /\ r.powerState = IF kind.powerClass = "none" THEN s.powerState ELSE "normal"
<1>1. CASE kind.powerClass = "none"
  BY <1>1 DEF PowerUp
<1>2. CASE kind.powerClass # "none"
  <2>1. r = [s EXCEPT !.powerState = "normal"]
    BY <1>2 DEF PowerUp
  <2>2. QED
    BY <1>2, <2>1 DEF Device
<1>3. QED
  BY <1>1, <1>2

LEMMA PowerDownFields ==
  ASSUME NEW s \in Device, NEW r, r = PowerDown(s)
  PROVE  /\ r \in Device
         /\ r.on = s.on /\ r.active = s.active /\ r.enabled = s.enabled
         /\ r.working = s.working /\ r.ioState = s.ioState
         /\ r.timerSet = s.timerSet /\ r.timer = s.timer
         /\ r.mailbox = s.mailbox /\ r.handled = s.handled
         /\ r.powerState = IF kind.powerClass = "fine" \/ (kind.powerClass = "coarse" /\ ~s.enabled)
                             THEN "save" ELSE s.powerState
<1> DEFINE Saves == kind.powerClass = "fine" \/ (kind.powerClass = "coarse" /\ ~s.enabled)
<1>1. CASE Saves
  <2>1. r = [s EXCEPT !.powerState = "save"]
    BY <1>1 DEF PowerDown
  <2>2. QED
    BY <1>1, <2>1 DEF Device
<1>2. CASE ~Saves
  BY <1>2 DEF PowerDown
<1>3. QED
  BY <1>1, <1>2

LEMMA StateFields ==
  ASSUME NEW s \in Device, NEW i \in Iocb, NEW v \in Final \cup {"new", "pending", "active"},
         NEW r, r = [s EXCEPT !.ioState[i] = v]
  PROVE  /\ r \in Device
         /\ r.on = s.on /\ r.active = s.active /\ r.enabled = s.enabled
         /\ r.powerState = s.powerState /\ r.working = s.working
         /\ r.timerSet = s.timerSet /\ r.timer = s.timer
         /\ r.mailbox = s.mailbox /\ r.handled = s.handled
         /\ r.ioState[i] = v /\ \A j \in Iocb \ {i} : r.ioState[j] = s.ioState[j]
<1> DEFINE e == [s.ioState EXCEPT ![i] = v]
<1>1. s.ioState \in [Iocb -> Final \cup {"new", "pending", "active"}]
  BY DEF Device
<1>2. /\ e \in [Iocb -> Final \cup {"new", "pending", "active"}]
      /\ e[i] = v /\ \A j \in Iocb \ {i} : e[j] = s.ioState[j]
  BY <1>1
<1>3. r = [s EXCEPT !.ioState = e]
  OBVIOUS
<1> HIDE DEF e
<1>4. r \in Device
  BY <1>2, <1>3 DEF Device
<1>5. r.ioState = e
  BY <1>3 DEF Device
<1>6. /\ r.on = s.on /\ r.active = s.active /\ r.enabled = s.enabled
      /\ r.powerState = s.powerState /\ r.working = s.working
      /\ r.timerSet = s.timerSet /\ r.timer = s.timer
      /\ r.mailbox = s.mailbox /\ r.handled = s.handled
  BY <1>3 DEF Device
<1>7. QED
  BY <1>2, <1>4, <1>5, <1>6

\* QIO_complete answers the oldest active operation.
LEMMA CompleteStep ==
  ASSUME kind \in Kinds, NEW s, Steady(s, kind), s.on["active"] # <<>>,
         NEW status \in Final, NEW r, r = Complete(s, status),
         NEW i, i = Head(s.on["active"])
  PROVE  /\ Steady(r, kind)
         /\ r.active = s.active - 1 /\ r.working = s.working /\ r.enabled = s.enabled
         /\ i \in Iocb /\ Contains(s.on["active"], i)
         /\ \A p \in Place \ {"active"} : r.on[p] = s.on[p]
         /\ FateOf(s, i) = "started" /\ FateOf(r, i) = status
         /\ \A j \in Iocb \ {i} : FateOf(r, j) = FateOf(s, j)
<1> DEFINE on == RemoveHead(s.on, "active")
           c  == [s EXCEPT !.on = on, !.active = @ - 1]
           p  == IF c.active <= 0 THEN PowerDown(c) ELSE c
           t  == Tell(p, i, status)
           st == IF i \in Handled THEN t ELSE [t EXCEPT !.ioState[i] = status]
<1>1. /\ Blocks(s) /\ s \in Device /\ Table(s.on, Place, Iocb)
      /\ s.active = Len(s.on["active"]) /\ s.active <= kind.rank /\ Powered(s, kind)
      /\ s.on \in [Place -> Seq(Iocb)] /\ s.active \in Int
  BY DeviceFacts DEF Steady, Blocks, Counts
<1>2. r = IF s.timerSet[i] THEN CancelTimer(st, i) ELSE st
  BY DEF Complete
<1>3. /\ Table(on, Place, Iocb) /\ Drops(on, s.on, Place, i)
      /\ i \in Iocb /\ Contains(s.on["active"], i)
  BY <1>1, PlaceFacts, RemoveHeadTable
<1>4. /\ on \in [Place -> Seq(Iocb)] /\ on["active"] = Tail(s.on["active"])
      /\ \A q \in Place \ {"active"} : on[q] = s.on[q]
  BY <1>1, <1>3, PlaceFacts DEF RemoveHead, Table
<1>5. Len(on["active"]) = s.active - 1
  <2>1. s.on["active"] \in Seq(Iocb) /\ s.on["active"] # <<>>
    BY <1>1, PlaceFacts
  <2>2. Len(Tail(s.on["active"])) = Len(s.on["active"]) - 1
    BY <2>1, HeadTailProperties
  <2>3. QED
    BY <1>1, <1>4, <2>2
<1> HIDE DEF on
<1>6. /\ c \in Device /\ c.on = on /\ c.active = s.active - 1 /\ c.enabled = s.enabled
      /\ c.powerState = s.powerState /\ c.working = s.working /\ c.ioState = s.ioState
      /\ c.timerSet = s.timerSet /\ c.timer = s.timer
      /\ c.mailbox = s.mailbox /\ c.handled = s.handled
  <2> DEFINE n == s.active - 1
  <2>1. /\ s \in Device /\ on \in [Place -> Seq(Iocb)] /\ n \in Int
        /\ c = [s EXCEPT !.on = on, !.active = n]
    BY <1>1, <1>4
  <2> HIDE DEF n, c
  <2>2. /\ c \in Device /\ c.on = on /\ c.active = n /\ c.enabled = s.enabled
        /\ c.powerState = s.powerState /\ c.working = s.working /\ c.ioState = s.ioState
        /\ c.timerSet = s.timerSet /\ c.timer = s.timer
        /\ c.mailbox = s.mailbox /\ c.handled = s.handled
    <3>1. c \in Device
      BY <2>1 DEF Device
    <3>2. c.on = on /\ c.active = n
      BY <2>1 DEF Device
    <3>3. /\ c.enabled = s.enabled
          /\ c.powerState = s.powerState /\ c.working = s.working /\ c.ioState = s.ioState
          /\ c.timerSet = s.timerSet /\ c.timer = s.timer
          /\ c.mailbox = s.mailbox /\ c.handled = s.handled
      BY <2>1 DEF Device
    <3>4. QED
      BY <3>1, <3>2, <3>3
  <2>3. QED
    BY <2>2 DEF n
<1> HIDE DEF c
<1>7. /\ p \in Device /\ p.on = on /\ p.active = s.active - 1 /\ p.enabled = s.enabled
      /\ p.working = s.working /\ p.ioState = s.ioState
      /\ p.timerSet = s.timerSet /\ p.timer = s.timer
      /\ p.mailbox = s.mailbox /\ p.handled = s.handled
      /\ p.powerState =
           IF s.active - 1 <= 0 /\ (kind.powerClass = "fine" \/ (kind.powerClass = "coarse" /\ ~s.enabled))
             THEN "save" ELSE s.powerState
  <2>1. CASE s.active - 1 <= 0
    <3>1. p = PowerDown(c)
      BY <2>1, <1>6
    <3> HIDE DEF p
    <3>2. QED
      BY <2>1, <3>1, <1>6, PowerDownFields
  <2>2. CASE ~(s.active - 1 <= 0)
    BY <2>2, <1>6
  <2>3. QED
    BY <2>1, <2>2
<1> HIDE DEF p
<1>8. /\ t \in Device
      /\ t.on = p.on /\ t.active = p.active /\ t.enabled = p.enabled
      /\ t.powerState = p.powerState /\ t.working = p.working /\ t.ioState = p.ioState
      /\ t.timerSet = p.timerSet /\ t.timer = p.timer
      /\ \A j \in Iocb \ {i} :
           t.handled[j] = p.handled[j] /\ (Contains(t.mailbox, j) <=> Contains(p.mailbox, j))
      /\ i \in Handled => t.handled[i] = status /\ t.mailbox = p.mailbox
      /\ i \notin Handled => t.handled = p.handled /\ Contains(t.mailbox, i)
  BY <1>3, <1>7, TellFields
<1> HIDE DEF t
<1>9. /\ st \in Device
      /\ st.on = t.on /\ st.active = t.active /\ st.enabled = t.enabled
      /\ st.powerState = t.powerState /\ st.working = t.working
      /\ st.timerSet = t.timerSet /\ st.timer = t.timer
      /\ st.mailbox = t.mailbox /\ st.handled = t.handled
      /\ i \in Handled => st.ioState[i] = t.ioState[i]
      /\ i \notin Handled => st.ioState[i] = status
      /\ \A j \in Iocb \ {i} : st.ioState[j] = t.ioState[j]
  <2>1. CASE i \in Handled
    BY <2>1, <1>8
  <2>2. CASE i \notin Handled
    <3>1. st = [t EXCEPT !.ioState[i] = status]
      BY <2>2
    <3> HIDE DEF st
    <3>2. i \in Iocb /\ t \in Device /\ status \in Final \cup {"new", "pending", "active"}
      BY <1>3, <1>8
    <3>3. /\ st \in Device
          /\ st.on = t.on /\ st.active = t.active /\ st.enabled = t.enabled
          /\ st.powerState = t.powerState /\ st.working = t.working
          /\ st.timerSet = t.timerSet /\ st.timer = t.timer
          /\ st.mailbox = t.mailbox /\ st.handled = t.handled
          /\ st.ioState[i] = status /\ \A j \in Iocb \ {i} : st.ioState[j] = t.ioState[j]
      BY <3>1, <3>2, StateFields
    <3>4. QED
      BY <2>2, <3>3
  <2>3. QED
    BY <2>1, <2>2
<1> HIDE DEF st
<1>10. /\ r \in Device
       /\ r.on = st.on /\ r.active = st.active /\ r.enabled = st.enabled
       /\ r.powerState = st.powerState /\ r.working = st.working /\ r.ioState = st.ioState
       /\ r.timerSet = st.timerSet /\ r.mailbox = st.mailbox /\ r.handled = st.handled
       /\ r.timer[i] = IF s.timerSet[i] /\ s.timer[i] = "set" THEN "off" ELSE s.timer[i]
       /\ \A j \in Iocb \ {i} : r.timer[j] = s.timer[j]
  <2>1. CASE s.timerSet[i]
    <3>1. r = CancelTimer(st, i) /\ st \in Device /\ i \in Iocb
      BY <2>1, <1>2, <1>3, <1>9
    <3>2. /\ r \in Device
          /\ r.on = st.on /\ r.active = st.active /\ r.enabled = st.enabled
          /\ r.powerState = st.powerState /\ r.working = st.working /\ r.ioState = st.ioState
          /\ r.timerSet = st.timerSet /\ r.mailbox = st.mailbox /\ r.handled = st.handled
          /\ r.timer[i] = IF st.timer[i] = "set" THEN "off" ELSE st.timer[i]
          /\ \A j \in Iocb \ {i} : r.timer[j] = st.timer[j]
      BY <3>1, CancelTimerFields
    <3>3. st.timer = s.timer
      BY <1>7, <1>8, <1>9
    <3>4. QED
      BY <2>1, <3>2, <3>3
  <2>2. CASE ~s.timerSet[i]
    BY <2>2, <1>2, <1>7, <1>8, <1>9
  <2>3. QED
    BY <2>1, <2>2
<1>11. /\ ~Contains(s.mailbox, i) /\ s.handled[i] = "no" /\ s.ioState[i] # "pending"
       /\ FateOf(s, i) = "started" /\ Tells(s, i)
  <2>1. Queued(s, i)
    BY <1>3, PlaceFacts DEF Queued
  <2>2. QED
    BY <1>1, <1>3, <2>1, FateFacts DEF Blocks
<1>12. Ends(r, s, i, status)
  <2>1. \A j \in Iocb \ {i} :
          /\ r.ioState[j] = s.ioState[j] /\ r.timer[j] = s.timer[j]
          /\ r.timerSet[j] = s.timerSet[j] /\ r.handled[j] = s.handled[j]
          /\ Contains(r.mailbox, j) <=> Contains(s.mailbox, j)
    BY <1>7, <1>8, <1>9, <1>10
  <2>2. r.timer[i] # "set" /\ (r.timer[i] # "off" => i \in Timed)
    BY <1>10, <1>11 DEF Tells
  <2>3. i \in Handled =>
          r.handled[i] = status /\ r.ioState[i] # "pending" /\ ~Contains(r.mailbox, i)
    BY <1>7, <1>8, <1>9, <1>10, <1>11
  <2>4. i \notin Handled =>
          r.handled[i] = "no" /\ r.ioState[i] = status /\ Contains(r.mailbox, i)
    BY <1>7, <1>8, <1>9, <1>10, <1>11
  <2>5. QED
    BY <2>1, <2>2, <2>3, <2>4 DEF Ends
<1>13. r.on = on
  BY <1>7, <1>8, <1>9, <1>10
<1>14. /\ Blocks(r) /\ FateOf(r, i) = status
       /\ \A j \in Iocb \ {i} : FateOf(r, j) = FateOf(s, j)
  BY <1>1, <1>3, <1>10, <1>12, <1>13, EndsTells
<1>15. r.active = s.active - 1 /\ r.working = s.working /\ r.enabled = s.enabled
  BY <1>7, <1>8, <1>9, <1>10
<1>16. Counts(r, kind)
  BY <1>1, <1>5, <1>13, <1>15, KindFacts DEF Counts
<1>17. Powered(r, kind)
  <2>1. r.powerState =
          IF s.active - 1 <= 0 /\ (kind.powerClass = "fine" \/ (kind.powerClass = "coarse" /\ ~s.enabled))
            THEN "save" ELSE s.powerState
    BY <1>7, <1>8, <1>9, <1>10
  <2>2. s.active >= 1
    BY <1>1, EmptySeq, PlaceFacts
  <2>3. s.active \in Int
    BY <1>1
  <2>4. CASE s.active - 1 <= 0
    <3>1. r.active = 0 /\ s.active > 0
      BY <2>2, <2>3, <2>4, <1>15
    <3>2. QED
      BY <1>1, <1>15, <2>1, <2>4, <3>1, KindFacts DEF Powered
  <2>5. CASE ~(s.active - 1 <= 0)
    <3>1. r.active > 0 /\ r.active # 0 /\ s.active > 0
      BY <2>3, <2>5, <1>15
    <3>2. QED
      BY <1>1, <1>15, <2>1, <2>5, <3>1, KindFacts DEF Powered
  <2>6. QED
    BY <2>4, <2>5
<1>18. \A q \in Place \ {"active"} : r.on[q] = s.on[q]
  BY <1>4, <1>13
<1>19. QED
  BY <1>3, <1>11, <1>14, <1>15, <1>16, <1>17, <1>18 DEF Steady
\* How many operations QIO_start starts.
Room(s) == IF s.active < kind.rank THEN kind.rank - s.active ELSE 0
Fit(s)  == IF Room(s) < Len(s.on["pending"]) THEN Room(s) ELSE Len(s.on["pending"])

LEMMA FitFacts ==
  ASSUME kind \in Kinds, NEW s \in Device, Counts(s, kind), NEW n, n = Fit(s)
  PROVE  /\ n \in 0 .. Len(s.on["pending"]) /\ n \in Nat
         /\ s.active \in Nat /\ s.active + n <= kind.rank
         /\ n = Len(s.on["pending"]) \/ s.active + n = kind.rank
         /\ s.on["pending"] \in Seq(Iocb) /\ s.on["active"] \in Seq(Iocb)
<1>1. s.on["pending"] \in Seq(Iocb) /\ s.on["active"] \in Seq(Iocb)
  BY PlaceFacts, DeviceFacts
<1>2. Len(s.on["pending"]) \in Nat /\ Len(s.on["active"]) \in Nat
  BY <1>1, LenProperties
<1>3. s.active \in Nat /\ s.active <= kind.rank /\ kind.rank \in Nat
  BY <1>2, KindFacts DEF Counts
<1>4. QED
  BY <1>1, <1>2, <1>3 DEF Fit, Room

\* b is s with the operations a, n of them, moved to the active queue.
Begins(b, s, n, a) ==
  /\ b.on["pending"] = SubSeq(s.on["pending"], n + 1, Len(s.on["pending"]))
  /\ b.on["active"] = s.on["active"] \o a
  /\ \A p \in Place \ {"pending", "active"} : b.on[p] = s.on[p]
  /\ b.active = s.active + n /\ b.working = s.working + n
  /\ b.enabled = s.enabled /\ b.powerState = s.powerState
  /\ b.timerSet = s.timerSet /\ b.timer = s.timer
  /\ b.mailbox = s.mailbox /\ b.handled = s.handled
  /\ \A i \in Iocb : b.ioState[i] = IF i \in ToSet(a) THEN "active" ELSE s.ioState[i]

LEMMA BegunFields ==
  ASSUME kind \in Kinds, NEW s \in Device, Counts(s, kind), NEW n, n = Fit(s),
         NEW a, a = SubSeq(s.on["pending"], 1, n), NEW b, b = Begun(s)
  PROVE  b \in Device /\ Begins(b, s, n, a)
<1> DEFINE on == [s.on EXCEPT !["pending"] = SubSeq(s.on["pending"], n + 1, Len(s.on["pending"])),
                              !["active"] = s.on["active"] \o a]
           x == s.active + n
           w == s.working + n
           e == [i \in Iocb |-> IF i \in ToSet(a) THEN "active" ELSE s.ioState[i]]
<1>1. /\ s.on \in [Place -> Seq(Iocb)] /\ s.working \in Nat
      /\ s.ioState \in [Iocb -> Final \cup {"new", "pending", "active"}]
  BY DeviceFacts
<1>2. /\ n \in 0 .. Len(s.on["pending"]) /\ n \in Nat /\ s.active \in Nat
      /\ s.on["pending"] \in Seq(Iocb) /\ s.on["active"] \in Seq(Iocb)
  BY FitFacts
<1>3. on \in [Place -> Seq(Iocb)]
  <2> DEFINE c == SubSeq(s.on["pending"], n + 1, Len(s.on["pending"]))
             d == s.on["active"] \o a
  <2>1. a \in Seq(Iocb) /\ c \in Seq(Iocb)
    BY <1>2, SubSeqProperties
  <2>2. d \in Seq(Iocb)
    BY <1>2, <2>1, ConcatProperties
  <2> HIDE DEF c, d
  <2>3. [s.on EXCEPT !["pending"] = c, !["active"] = d] \in [Place -> Seq(Iocb)]
    BY <1>1, <2>1, <2>2
  <2>4. QED
    BY <2>3 DEF c, d
<1>4. x \in Int /\ w \in Nat
  BY <1>1, <1>2
<1>5. e \in [Iocb -> Final \cup {"new", "pending", "active"}]
  BY <1>1
<1>6. b = [s EXCEPT !.on = on, !.active = x, !.working = w, !.ioState = e]
  BY PlaceFacts, <1>1 DEF Begun, Fit, Room
<1>7. \A i \in Iocb : e[i] = IF i \in ToSet(a) THEN "active" ELSE s.ioState[i]
  OBVIOUS
<1>12. /\ on["pending"] = SubSeq(s.on["pending"], n + 1, Len(s.on["pending"]))
       /\ on["active"] = s.on["active"] \o a
       /\ \A p \in Place \ {"pending", "active"} : on[p] = s.on[p]
  BY <1>1, PlaceFacts
<1> HIDE DEF on, x, w, e
<1>8. b \in Device
  <2>1. b = [on |-> on, active |-> x, enabled |-> s.enabled,
             powerState |-> s.powerState, working |-> w, ioState |-> e,
             timerSet |-> s.timerSet, timer |-> s.timer, mailbox |-> s.mailbox,
             handled |-> s.handled]
    BY <1>6 DEF Device
  <2>2. QED
    BY <1>3, <1>4, <1>5, <2>1, DeviceFacts DEF Device
<1>9. b.on = on /\ b.active = x /\ b.working = w /\ b.ioState = e
  BY <1>6 DEF Device
<1>10. /\ b.enabled = s.enabled /\ b.powerState = s.powerState
       /\ b.timerSet = s.timerSet /\ b.timer = s.timer
       /\ b.mailbox = s.mailbox /\ b.handled = s.handled
  BY <1>6 DEF Device
<1>11. QED
  BY <1>7, <1>8, <1>9, <1>10, <1>12 DEF Begins, x, w

\* Nothing is begun, and QIO_start does nothing, if no operation waits.
LEMMA NoneBegun ==
  ASSUME kind \in Kinds, NEW s \in Device, Counts(s, kind), s.on["pending"] = <<>>
  PROVE  Begun(s) = s
<1> DEFINE b == Begun(s)
           n == Fit(s)
           a == SubSeq(s.on["pending"], 1, n)
<1>1. n = 0
  BY FitFacts
<1>2. a = <<>> /\ SubSeq(s.on["pending"], n + 1, Len(s.on["pending"])) = <<>>
  BY <1>1
<1>3. s.on["active"] \o a = s.on["active"]
  <2>1. s.on["active"] \in Seq(Iocb)
    BY PlaceFacts, DeviceFacts
  <2>2. QED
    BY <1>2, <2>1, ConcatEmptySeq
<1>4. n = Fit(s) /\ a = SubSeq(s.on["pending"], 1, n) /\ b = Begun(s)
  OBVIOUS
<1> HIDE DEF n, a, b
<1>5. b \in Device /\ Begins(b, s, n, a)
  BY <1>4, BegunFields
<1>6. b.on = s.on
  <2>1. \A p \in Place : b.on[p] = s.on[p]
    BY <1>2, <1>3, <1>5, PlaceFacts DEF Begins
  <2>2. QED
    BY <2>1, <1>5, DeviceFacts
<1>7. b.ioState = s.ioState
  <2>1. ToSet(a) = {}
    BY <1>2 DEF ToSet
  <2>2. QED
    BY <1>5, <2>1, DeviceFacts DEF Begins
<1>8. b.active = s.active /\ b.working = s.working
  BY <1>1, <1>5, DeviceFacts DEF Begins
<1>9. b = s
  BY <1>5, <1>6, <1>7, <1>8, DeviceIs DEF Begins
<1>10. QED
  BY <1>9 DEF b
\* Nothing happens to an operation unless it is started.
Carries(r, s, j) ==
  \/ FateOf(r, j) = FateOf(s, j)
  \/ FateOf(s, j) = "waiting" /\ FateOf(r, j) = "started"

\* QIO_start: what fits is started; nothing else happens to any operation.
LEMMA StartStep ==
  ASSUME kind \in Kinds, NEW s, Steady(s, kind), s.working = s.active,
         s.on["pending"] # <<>> => s.enabled, NEW r, r = Start(s)
  PROVE  /\ Sound(r, kind) /\ r.enabled = s.enabled
         /\ \A p \in Place \ {"pending", "active"} : r.on[p] = s.on[p]
         /\ \A j \in Iocb : Carries(r, s, j)
<1> DEFINE b == Begun(s)
           n == Fit(s)
           a == SubSeq(s.on["pending"], 1, n)
<1>1. /\ Blocks(s) /\ s \in Device /\ Table(s.on, Place, Iocb) /\ Counts(s, kind)
      /\ s.active = Len(s.on["active"]) /\ s.active <= kind.rank /\ Powered(s, kind)
  BY DEF Steady, Blocks, Counts
<1>2. n = Fit(s) /\ a = SubSeq(s.on["pending"], 1, n) /\ b = Begun(s)
  OBVIOUS
<1>3. r = IF b = s THEN s ELSE PowerUp(b)
  BY DEF Start
<1>4. b = s \/ s.on["pending"] # <<>>
  BY <1>1, NoneBegun
<1> HIDE DEF n, a, b
<1>5. /\ n \in 0 .. Len(s.on["pending"]) /\ n \in Nat
      /\ s.active \in Nat /\ s.active + n <= kind.rank
      /\ n = Len(s.on["pending"]) \/ s.active + n = kind.rank
      /\ s.on["pending"] \in Seq(Iocb) /\ s.on["active"] \in Seq(Iocb)
  BY <1>1, <1>2, FitFacts
<1>6. b \in Device /\ Begins(b, s, n, a)
  BY <1>1, <1>2, <1>5, BegunFields
<1>7. /\ Table(b.on, Place, Iocb) /\ Moves(b.on, s.on, Place, "active", ToSet(a))
      /\ ToSet(a) \subseteq Iocb /\ \A y \in ToSet(a) : Contains(s.on["pending"], y)
      /\ Len(b.on["pending"]) = Len(s.on["pending"]) - n
      /\ Len(b.on["active"]) = Len(s.on["active"]) + n
  <2>1. b.on \in [Place -> Seq(Iocb)] /\ MovesFirst(b.on, s.on, Place, "pending", "active", n, a)
    BY <1>6, DeviceFacts DEF Begins, MovesFirst
  <2>2. QED
    <3> DEFINE f == s.on
               g == b.on
    <3>1. /\ Table(f, Place, Iocb) /\ "pending" \in Place /\ "active" \in Place
          /\ "pending" # "active" /\ n \in 0 .. Len(f["pending"]) /\ a = SubSeq(f["pending"], 1, n)
          /\ g \in [Place -> Seq(Iocb)] /\ MovesFirst(g, f, Place, "pending", "active", n, a)
      BY <1>1, <1>2, <1>5, <2>1, PlaceFacts
    <3> HIDE DEF f, g
    <3>2. Moved(g, f, Place, Iocb, "pending", "active", n, a)
      BY <3>1, MoveTable
    <3>3. QED
      BY <3>2 DEF f, g, Moved
<1>8. b.active = s.active + n /\ b.working = s.working + n /\ b.enabled = s.enabled
  BY <1>6 DEF Begins
<1>9. /\ r \in Device
      /\ r.on = b.on /\ r.active = b.active /\ r.enabled = b.enabled
      /\ r.working = b.working /\ r.ioState = b.ioState
      /\ r.timerSet = b.timerSet /\ r.timer = b.timer
      /\ r.mailbox = b.mailbox /\ r.handled = b.handled
      /\ r.powerState = IF kind.powerClass # "none" /\ b.active > 0 THEN "normal" ELSE s.powerState
  <2>1. CASE b = s
    <3>1. kind.powerClass # "none" /\ s.active > 0 => s.powerState = "normal"
      BY <1>1 DEF Powered
    <3>2. QED
      BY <2>1, <3>1, <1>1, <1>3
  <2>2. CASE b # s
    <3>1. Len(s.on["pending"]) # 0 /\ kind.rank # 0 /\ kind.rank \in Nat
      BY <2>2, <1>4, <1>5, EmptySeq, KindFacts
    <3>2. b.active > 0
      BY <3>1, <1>5, <1>8
    <3>3. b.powerState = s.powerState /\ r = PowerUp(b)
      BY <2>2, <1>3, <1>6 DEF Begins
    <3>4. QED
      BY <3>2, <3>3, <1>6, PowerUpFields
  <2>3. QED
    BY <2>1, <2>2
<1>10. /\ \A p \in Place : \A y : Contains(r.on[p], y) <=>
            IF y \in ToSet(a) THEN p = "active" ELSE Contains(s.on[p], y)
       /\ \A j \in Iocb : r.ioState[j] = IF j \in ToSet(a) THEN "active" ELSE s.ioState[j]
       /\ r.timerSet = s.timerSet /\ r.timer = s.timer
       /\ r.mailbox = s.mailbox /\ r.handled = s.handled
  BY <1>6, <1>7, <1>9 DEF Begins, Moves
<1>11. ASSUME NEW j \in Iocb
       PROVE  /\ Tells(r, j)
              /\ \/ FateOf(r, j) = FateOf(s, j)
                 \/ FateOf(s, j) = "waiting" /\ FateOf(r, j) = "started"
  <2>1. Tells(s, j)
    BY <1>1 DEF Blocks
  <2>2. CASE j \in ToSet(a)
    <3>1. Contains(s.on["pending"], j) /\ FateOf(s, j) = "waiting" /\ Queued(s, j)
      BY <2>2, <1>1, <1>7, PlaceFacts, FateFacts DEF Queued
    <3>2. \A p \in Place : Contains(r.on[p], j) <=> p = "active"
      BY <2>2, <1>10
    <3>3. FateOf(r, j) = "started" /\ Queued(r, j)
      BY <3>2, PlaceFacts DEF FateOf, Queued
    <3>4. ~Contains(r.mailbox, j) /\ r.handled[j] = "no" /\ r.ioState[j] = "active"
      BY <2>2, <3>1, <1>1, <1>10, FateFacts
    <3>5. Tells(r, j)
      BY <2>1, <3>1, <3>2, <3>3, <3>4, <1>10, PlaceFacts DEF Tells
    <3>6. QED
      BY <3>1, <3>3, <3>5
  <2>3. CASE j \notin ToSet(a)
    <3>1. \A p \in Place : Contains(r.on[p], j) <=> Contains(s.on[p], j)
      BY <2>3, <1>10
    <3>2. r.ioState[j] = s.ioState[j]
      BY <2>3, <1>10
    <3>3. Tells(r, j)
      BY <2>1, <3>1, <3>2, <1>10, PlaceFacts DEF Tells, Queued
    <3>4. FateOf(r, j) = FateOf(s, j)
      BY <3>1, <3>2, <1>10, PlaceFacts DEF FateOf
    <3>5. QED
      BY <3>3, <3>4
  <2>4. QED
    BY <2>2, <2>3
<1>12. Blocks(r)
  BY <1>7, <1>9, <1>11 DEF Blocks
<1>13. Counts(r, kind) /\ r.working = r.active
  BY <1>1, <1>5, <1>7, <1>8, <1>9 DEF Counts
<1>14. Powered(r, kind)
  <2>1. CASE b.active > 0
    BY <2>1, <1>9 DEF Powered
  <2>2. CASE ~(b.active > 0)
    <3>1. s.active = 0 /\ b.active = 0
      BY <2>2, <1>5, <1>8
    <3>2. r.powerState = s.powerState /\ r.enabled = s.enabled /\ r.active = s.active
      BY <2>2, <3>1, <1>8, <1>9
    <3>3. QED
      BY <3>2, <1>1 DEF Powered
  <2>3. QED
    BY <2>1, <2>2
<1>15. Busy(r, kind)
  <2>1. SUFFICES ASSUME r.on["pending"] # <<>> PROVE r.enabled /\ r.active = kind.rank
    BY DEF Busy
  <2>2. b.on["pending"] \in Seq(Iocb) /\ Len(b.on["pending"]) # 0
    BY <2>1, <1>6, <1>9, PlaceFacts, DeviceFacts, EmptySeq
  <2>3. n # Len(s.on["pending"]) /\ Len(s.on["pending"]) # 0
    BY <2>2, <1>5, <1>7
  <2>4. s.on["pending"] # <<>>
    BY <2>3
  <2>5. QED
    BY <2>3, <2>4, <1>5, <1>8, <1>9
<1>16. \A p \in Place \ {"pending", "active"} : r.on[p] = s.on[p]
  BY <1>6, <1>9 DEF Begins
<1>17. QED
  BY <1>8, <1>9, <1>11, <1>12, <1>13, <1>14, <1>15, <1>16 DEF Sound, Steady, Carries
-----------------------------------------------------------------------------
(* _QIO_cancelIO.                                                          *)

\* The same control blocks on the same queues.
Alike(r, s) ==
  /\ r.on = s.on /\ r.ioState = s.ioState /\ r.timerSet = s.timerSet
  /\ r.timer = s.timer /\ r.mailbox = s.mailbox /\ r.handled = s.handled

LEMMA AlikeBlocks ==
  ASSUME NEW s, Blocks(s), NEW r \in Device, Alike(r, s)
  PROVE  Blocks(r) /\ \A i \in Iocb : FateOf(r, i) = FateOf(s, i)
<1>1. ASSUME NEW i \in Iocb PROVE Tells(r, i) /\ FateOf(r, i) = FateOf(s, i)
  <2>1. Tells(s, i)
    BY DEF Blocks
  <2>2. Tells(r, i)
    BY <2>1 DEF Tells, Queued, Alike
  <2>3. FateOf(r, i) = FateOf(s, i)
    BY DEF FateOf, Alike
  <2>4. QED
    BY <2>2, <2>3
<1>2. QED
  BY <1>1 DEF Blocks, Alike

LEMMA StopFields ==
  ASSUME NEW s \in Device, NEW r, r = Stop(s)
  PROVE  /\ r \in Device /\ Alike(r, s) /\ r.working = 0
         /\ r.active = s.active /\ r.enabled = s.enabled /\ r.powerState = s.powerState
<1>1. r = [s EXCEPT !.working = 0]
  BY DEF Stop
<1>2. r \in Device
  <2>1. r = [on |-> s.on, active |-> s.active, enabled |-> s.enabled,
             powerState |-> s.powerState, working |-> 0, ioState |-> s.ioState,
             timerSet |-> s.timerSet, timer |-> s.timer, mailbox |-> s.mailbox,
             handled |-> s.handled]
    BY <1>1 DEF Device
  <2>2. QED
    BY <2>1, DeviceFacts DEF Device
<1>3. /\ r.working = 0
      /\ r.active = s.active /\ r.enabled = s.enabled /\ r.powerState = s.powerState
  BY <1>1 DEF Device
<1>4. Alike(r, s)
  BY <1>1 DEF Alike, Device
<1>5. QED
  BY <1>2, <1>3, <1>4

LEMMA TimerFields ==
  ASSUME NEW s \in Device, NEW i \in Iocb, NEW v \in {"off", "set", "due"},
         NEW r, r = [s EXCEPT !.timer[i] = v]
  PROVE  /\ r \in Device
         /\ r.on = s.on /\ r.active = s.active /\ r.enabled = s.enabled
         /\ r.powerState = s.powerState /\ r.working = s.working /\ r.ioState = s.ioState
         /\ r.timerSet = s.timerSet /\ r.mailbox = s.mailbox /\ r.handled = s.handled
         /\ r.timer[i] = v /\ \A j \in Iocb \ {i} : r.timer[j] = s.timer[j]
<1> DEFINE e == [s.timer EXCEPT ![i] = v]
<1>1. e \in [Iocb -> {"off", "set", "due"}] /\ e[i] = v /\ \A j \in Iocb \ {i} : e[j] = s.timer[j]
  BY DeviceFacts
<1>2. r = [s EXCEPT !.timer = e]
  OBVIOUS
<1> HIDE DEF e
<1>3. r \in Device
  BY <1>1, <1>2 DEF Device
<1>4. r.timer = e
  BY <1>2 DEF Device
<1>5. /\ r.on = s.on /\ r.active = s.active /\ r.enabled = s.enabled
      /\ r.powerState = s.powerState /\ r.working = s.working /\ r.ioState = s.ioState
      /\ r.timerSet = s.timerSet /\ r.mailbox = s.mailbox /\ r.handled = s.handled
  BY <1>2 DEF Device
<1>6. QED
  BY <1>1, <1>3, <1>4, <1>5

\* What has been answered, and nothing else.
Answers(r, s, i, status) ==
  FateOf(r, i) = status /\ \A j \in Iocb \ {i} : FateOf(r, j) = FateOf(s, j)

\* Cancelling a pending operation takes it off its queue, whichever it is.
LEMMA TakenOff ==
  ASSUME NEW s, Blocks(s), NEW i \in Iocb, s.ioState[i] = "pending",
         NEW status \in Final, NEW r, r = CancelIO(s, i, status)
  PROVE  /\ Blocks(r) /\ Answers(r, s, i, status)
         /\ r.active = s.active /\ r.enabled = s.enabled
         /\ r.powerState = s.powerState /\ r.working = s.working
         /\ r.on["active"] = s.on["active"] /\ Drops(r.on, s.on, Place, i)
         /\ FateOf(s, i) \in {"waiting", "picked"}
<1> DEFINE un == Unlinked(s.on, i)
           e  == [s.ioState EXCEPT ![i] = status]
           off == [s EXCEPT !.on = Unlinked(@, i), !.ioState[i] = status]
           u  == IF s.timerSet[i] THEN CancelTimer(off, i) ELSE off
<1>1. /\ s \in Device /\ Table(s.on, Place, Iocb) /\ Tells(s, i)
      /\ s.on \in [Place -> Seq(Iocb)]
  BY DeviceFacts DEF Blocks
<1>2. r = Tell(u, i, status)
  BY DEF CancelIO
<1>3. Table(un, Place, Iocb) /\ Drops(un, s.on, Place, i)
  BY <1>1, UnlinkedTable
<1>4. PICK q \in Place \ {"active"} : Contains(s.on[q], i)
  BY <1>1 DEF Tells
<1>5. FateOf(s, i) \in {"waiting", "picked"} /\ ~Contains(s.mailbox, i) /\ s.handled[i] = "no"
  BY <1>4, PlaceFacts, FateFacts DEF Queued
<1>6. un["active"] = s.on["active"]
  <2>1. ~Contains(s.on["active"], i)
    BY <1>1, <1>4, PlaceFacts, TableOneQueue
  <2>2. un["active"] = RemoveFirst(s.on["active"], i)
    BY <1>1, PlaceFacts DEF Unlinked
  <2>3. QED
    BY <2>1, <2>2 DEF RemoveFirst, Contains
<1>7. /\ e \in [Iocb -> Final \cup {"new", "pending", "active"}]
      /\ e[i] = status /\ \A j \in Iocb \ {i} : e[j] = s.ioState[j]
  BY <1>1, DeviceFacts
<1>8. off = [s EXCEPT !.on = un, !.ioState = e]
  OBVIOUS
<1>9. un \in [Place -> Seq(Iocb)]
  BY <1>3 DEF Table
<1> HIDE DEF un, e, off
<1>10. /\ off \in Device
       /\ off.on = un /\ off.active = s.active /\ off.enabled = s.enabled
       /\ off.powerState = s.powerState /\ off.working = s.working
       /\ off.timerSet = s.timerSet /\ off.timer = s.timer /\ off.ioState = e
       /\ off.mailbox = s.mailbox /\ off.handled = s.handled
  <2>1. off = [on |-> un, active |-> s.active, enabled |-> s.enabled,
               powerState |-> s.powerState, working |-> s.working, ioState |-> e,
               timerSet |-> s.timerSet, timer |-> s.timer, mailbox |-> s.mailbox,
               handled |-> s.handled]
    BY <1>1, <1>8 DEF Device
  <2>2. off \in Device
    BY <1>1, <1>7, <1>9, <2>1, DeviceFacts DEF Device
  <2>3. QED
    BY <2>1, <2>2
<1>11. /\ u \in Device
       /\ u.on = un /\ u.active = s.active /\ u.enabled = s.enabled
       /\ u.powerState = s.powerState /\ u.working = s.working
       /\ u.timerSet = s.timerSet /\ u.ioState = e
       /\ u.mailbox = s.mailbox /\ u.handled = s.handled
       /\ u.timer[i] = IF s.timerSet[i] /\ s.timer[i] = "set" THEN "off" ELSE s.timer[i]
       /\ \A j \in Iocb \ {i} : u.timer[j] = s.timer[j]
  <2>1. CASE s.timerSet[i]
    <3>1. u = CancelTimer(off, i)
      BY <2>1
    <3> HIDE DEF u
    <3>2. /\ u \in Device
          /\ u.on = off.on /\ u.active = off.active /\ u.enabled = off.enabled
          /\ u.powerState = off.powerState /\ u.working = off.working /\ u.ioState = off.ioState
          /\ u.timerSet = off.timerSet /\ u.mailbox = off.mailbox /\ u.handled = off.handled
          /\ u.timer[i] = IF off.timer[i] = "set" THEN "off" ELSE off.timer[i]
          /\ \A j \in Iocb \ {i} : u.timer[j] = off.timer[j]
      BY <1>10, <3>1, CancelTimerFields
    <3>3. QED
      BY <2>1, <3>2, <1>10
  <2>2. CASE ~s.timerSet[i]
    BY <2>2, <1>10
  <2>3. QED
    BY <2>1, <2>2
<1> HIDE DEF u
<1>12. /\ r \in Device
       /\ r.on = u.on /\ r.active = u.active /\ r.enabled = u.enabled
       /\ r.powerState = u.powerState /\ r.working = u.working /\ r.ioState = u.ioState
       /\ r.timerSet = u.timerSet /\ r.timer = u.timer
       /\ \A j \in Iocb \ {i} :
            r.handled[j] = u.handled[j] /\ (Contains(r.mailbox, j) <=> Contains(u.mailbox, j))
       /\ i \in Handled => r.handled[i] = status /\ r.mailbox = u.mailbox
       /\ i \notin Handled => r.handled = u.handled /\ Contains(r.mailbox, i)
  BY <1>2, <1>11, TellFields
<1>13. Ends(r, s, i, status)
  <2>1. \A j \in Iocb \ {i} :
          /\ r.ioState[j] = s.ioState[j] /\ r.timer[j] = s.timer[j]
          /\ r.timerSet[j] = s.timerSet[j] /\ r.handled[j] = s.handled[j]
          /\ Contains(r.mailbox, j) <=> Contains(s.mailbox, j)
    BY <1>7, <1>11, <1>12
  <2>2. r.timer[i] # "set" /\ (r.timer[i] # "off" => i \in Timed)
    BY <1>1, <1>11, <1>12 DEF Tells
  <2>3. r.ioState[i] = status /\ status # "pending"
    BY <1>7, <1>11, <1>12 DEF Final
  <2>4. i \in Handled =>
          r.handled[i] = status /\ r.ioState[i] # "pending" /\ ~Contains(r.mailbox, i)
    BY <2>3, <1>5, <1>11, <1>12
  <2>5. i \notin Handled =>
          r.handled[i] = "no" /\ r.ioState[i] = status /\ Contains(r.mailbox, i)
    BY <2>3, <1>5, <1>11, <1>12
  <2>6. QED
    BY <2>1, <2>2, <2>4, <2>5 DEF Ends
<1>14. r.on = un
  BY <1>11, <1>12
<1>15. Blocks(r) /\ Answers(r, s, i, status)
  BY <1>3, <1>12, <1>13, <1>14, EndsTells DEF Answers
<1>16. /\ r.active = s.active /\ r.enabled = s.enabled
       /\ r.powerState = s.powerState /\ r.working = s.working
  BY <1>11, <1>12
<1>17. QED
  BY <1>3, <1>5, <1>6, <1>14, <1>15, <1>16
\* An operation that is cancelled or whose time is over is answered, or nothing
\* happens to it; others may be started.
Ended(r, s, i, status) ==
  \A j \in Iocb :
    \/ Carries(r, s, j)
    \/ j = i /\ FateOf(s, i) \in {"waiting", "picked", "started"} /\ FateOf(r, i) = status

LEMMA CancelStep ==
  ASSUME kind \in Kinds, NEW s, Sound(s, kind), NEW i \in Iocb, NEW status \in Final,
         s.ioState[i] = "active" => i \notin Handled, NEW r, r = CancelIO(s, i, status)
  PROVE  Sound(r, kind) /\ Ended(r, s, i, status)
<1>1. /\ Steady(s, kind) /\ Blocks(s) /\ s \in Device /\ Table(s.on, Place, Iocb)
      /\ Counts(s, kind) /\ Powered(s, kind) /\ Busy(s, kind) /\ s.working = s.active
  BY DEF Sound, Steady, Blocks
<1>2. CASE s.ioState[i] = "pending"
  <2>1. /\ Blocks(r) /\ Answers(r, s, i, status)
        /\ r.active = s.active /\ r.enabled = s.enabled
        /\ r.powerState = s.powerState /\ r.working = s.working
        /\ r.on["active"] = s.on["active"] /\ Drops(r.on, s.on, Place, i)
        /\ FateOf(s, i) \in {"waiting", "picked"}
    BY <1>1, <1>2, TakenOff
  <2>2. Counts(r, kind) /\ Powered(r, kind) /\ r.working = r.active
    BY <1>1, <2>1 DEF Counts, Powered
  <2>3. Busy(r, kind)
    <3>1. Table(r.on, Place, Iocb)
      BY <2>1 DEF Blocks
    <3>2. r.on["pending"] # <<>> => s.on["pending"] # <<>>
      BY <1>1, <2>1, <3>1, PlaceFacts, TableMembers DEF Drops
    <3>3. QED
      BY <1>1, <2>1, <3>2 DEF Busy
  <2>4. Ended(r, s, i, status)
    BY <2>1 DEF Ended, Carries, Answers
  <2>5. QED
    BY <2>1, <2>2, <2>3, <2>4 DEF Sound, Steady
<1>3. CASE s.ioState[i] = "active" /\ kind.rank = 1 /\ kind.cancelFunc
  <2> DEFINE p == Stop(s)
             c == Complete(p, status)
  <2>1. r = Start(c)
    BY <1>3 DEF CancelIO
  <2>2. /\ p \in Device /\ Alike(p, s) /\ p.working = 0
        /\ p.active = s.active /\ p.enabled = s.enabled /\ p.powerState = s.powerState
    BY <1>1, StopFields
  <2>3. c = Complete(p, status)
    OBVIOUS
  <2> HIDE DEF p, c
  <2>4. Steady(p, kind) /\ \A j \in Iocb : FateOf(p, j) = FateOf(s, j)
    <3>1. Blocks(p) /\ \A j \in Iocb : FateOf(p, j) = FateOf(s, j)
      BY <1>1, <2>2, AlikeBlocks
    <3>2. Counts(p, kind) /\ Powered(p, kind)
      BY <1>1, <2>2 DEF Counts, Powered, Alike
    <3>3. QED
      BY <3>1, <3>2 DEF Steady
  <2>5. p.on = s.on
    BY <2>2 DEF Alike
  <2>6. Contains(s.on["active"], i) /\ s.on["active"] \in Seq(Iocb)
    <3>1. Tells(s, i)
      BY <1>1 DEF Blocks
    <3>2. QED
      BY <3>1, <1>1, <1>3, PlaceFacts, DeviceFacts DEF Tells
  <2>7. s.on["active"] # <<>> /\ Len(s.on["active"]) = 1 /\ i = Head(s.on["active"])
    <3>1. Len(s.on["active"]) <= 1
      BY <1>1, <1>3 DEF Counts
    <3>2. QED
      BY <2>6, <3>1, OnlyOne
  <2>8. /\ Steady(c, kind)
        /\ c.active = p.active - 1 /\ c.working = p.working /\ c.enabled = p.enabled
        /\ \A q \in Place \ {"active"} : c.on[q] = p.on[q]
        /\ FateOf(p, i) = "started" /\ FateOf(c, i) = status
        /\ \A j \in Iocb \ {i} : FateOf(c, j) = FateOf(p, j)
    BY <2>3, <2>4, <2>5, <2>7, CompleteStep
  <2>9. c.working = c.active
    BY <1>1, <2>2, <2>7, <2>8 DEF Counts
  <2>10. c.on["pending"] # <<>> => c.enabled
    BY <1>1, <2>2, <2>5, <2>8, PlaceFacts DEF Busy
  <2>11. Sound(r, kind) /\ \A j \in Iocb : Carries(r, c, j)
    BY <2>1, <2>8, <2>9, <2>10, StartStep
  <2>12. FateOf(r, i) = status
    <3>1. Carries(r, c, i) /\ FateOf(c, i) = status /\ status # "waiting"
      BY <2>8, <2>11 DEF Final
    <3>2. QED
      BY <3>1 DEF Carries
  <2>13. Ended(r, s, i, status)
    BY <2>4, <2>8, <2>11, <2>12 DEF Ended, Carries
  <2>14. QED
    BY <2>11, <2>13
<1>4. CASE s.ioState[i] # "pending" /\ ~(s.ioState[i] = "active" /\ kind.rank = 1 /\ kind.cancelFunc)
  <2>1. r = s
    BY <1>4 DEF CancelIO
  <2>2. QED
    BY <2>1 DEF Ended, Carries
<1>5. QED
  BY <1>2, <1>3, <1>4
-----------------------------------------------------------------------------
(* QIO_cancelAll.                                                          *)

\* The devices QIO_complete passes through, n times (CompleteAll).
Completing(w, s, n) ==
  w = [k \in 0 .. n |-> IF k = 0 THEN s ELSE Complete(w[k - 1], "cancelled")]

LEMMA CompletingExists ==
  ASSUME NEW s, NEW n \in Nat
  PROVE  \E w : Completing(w, s, n)
<1> DEFINE Bad == {k \in Nat : ~ \E w : Completing(w, s, k)}
<1>1. SUFFICES ASSUME Bad # {} PROVE FALSE
  OBVIOUS
<1>2. PICK k \in Nat : k = Min(Bad) /\ k \in Bad /\ \A j \in Bad : k <= j
  BY <1>1, MinProperties
<1>3. CASE k = 0
  <2> DEFINE w == [m \in 0 .. 0 |-> s]
  <2>1. Completing(w, s, 0)
    BY DEF Completing
  <2>2. QED
    BY <2>1, <1>2, <1>3
<1>4. CASE k # 0
  <2>1. k - 1 \in Nat /\ k - 1 \notin Bad
    BY <1>2, <1>4
  <2>2. PICK v : Completing(v, s, k - 1)
    BY <2>1
  <2> DEFINE next == Complete(v[k - 1], "cancelled")
             w == [m \in 0 .. k |-> IF m = k THEN next ELSE v[m]]
  <2>3. \A m \in 0 .. k - 1 : v[m] = IF m = 0 THEN s ELSE Complete(v[m - 1], "cancelled")
    BY <2>1, <2>2 DEF Completing
  <2>4. ASSUME NEW m \in 0 .. k
        PROVE  w[m] = IF m = 0 THEN s ELSE Complete(w[m - 1], "cancelled")
    <3>1. CASE m = k
      <4>1. w[m] = next /\ w[m - 1] = v[k - 1] /\ m # 0
        BY <3>1, <1>4
      <4>2. QED
        BY <4>1
    <3>2. CASE m # k
      <4>1. m \in 0 .. k - 1
        BY <3>2
      <4>2. w[m] = v[m] /\ (m # 0 => w[m - 1] = v[m - 1])
        BY <4>1
      <4> HIDE DEF w
      <4>3. QED
        BY <4>1, <4>2, <2>3
    <3>3. QED
      BY <3>1, <3>2
  <2>5. Completing(w, s, k)
    BY <2>4 DEF Completing
  <2>6. QED
    BY <2>5, <1>2
<1>5. QED
  BY <1>3, <1>4

LEMMA CompleteAllIs ==
  ASSUME NEW s, NEW n \in Nat
  PROVE  \E w : /\ CompleteAll(s, n) = w[n] /\ w[0] = s
                /\ \A k \in 1 .. n : w[k] = Complete(w[k - 1], "cancelled")
<1>1. \E w : Completing(w, s, n)
  BY CompletingExists
<1> DEFINE w == CHOOSE w : Completing(w, s, n)
<1>2. Completing(w, s, n)
  BY <1>1
<1>3. CompleteAll(s, n) = w[n]
  BY DEF CompleteAll, Completing
<1> HIDE DEF w
<1>4. w[0] = s /\ \A k \in 1 .. n : w[k] = Complete(w[k - 1], "cancelled")
  BY <1>2 DEF Completing
<1>5. QED
  BY <1>3, <1>4

\* What the hardware had has been cancelled; nothing else has happened.
Cleared(r, s) ==
  \A j \in Iocb :
    \/ FateOf(r, j) = FateOf(s, j)
    \/ FateOf(s, j) = "started" /\ FateOf(r, j) = "cancelled"

LEMMA CompleteAllStep ==
  ASSUME kind \in Kinds, NEW s, Steady(s, kind), NEW r, r = CompleteAll(s, s.active)
  PROVE  /\ Steady(r, kind) /\ r.active = 0 /\ r.working = s.working /\ r.enabled = s.enabled
         /\ \A p \in Place \ {"active"} : r.on[p] = s.on[p]
         /\ Cleared(r, s)
<1> DEFINE n == s.active
<1>1. s \in Device /\ Counts(s, kind) /\ n \in Nat
  BY FitFacts DEF Steady, Blocks
<1>2. PICK w : /\ CompleteAll(s, n) = w[n] /\ w[0] = s
               /\ \A k \in 1 .. n : w[k] = Complete(w[k - 1], "cancelled")
  BY <1>1, CompleteAllIs
<1> DEFINE Good(k) == /\ Steady(w[k], kind) /\ w[k].active = n - k
                      /\ w[k].working = s.working /\ w[k].enabled = s.enabled
                      /\ \A p \in Place \ {"active"} : w[k].on[p] = s.on[p]
                      /\ Cleared(w[k], s)
           Bad == {k \in 0 .. n : ~Good(k)}
<1>3. Good(0)
  BY <1>1, <1>2 DEF Cleared
<1>4. ASSUME NEW k \in 1 .. n, Good(k - 1) PROVE Good(k)
  <2> DEFINE v == w[k - 1]
             x == w[k]
             i == Head(v.on["active"])
  <2>1. x = Complete(v, "cancelled")
    BY <1>2
  <2>2. Steady(v, kind) /\ v.active = n - (k - 1) /\ v.working = s.working /\ v.enabled = s.enabled
    BY <1>4
  <2>3. (\A p \in Place \ {"active"} : v.on[p] = s.on[p]) /\ Cleared(v, s)
    BY <1>4
  <2>4. i = Head(v.on["active"]) /\ "cancelled" \in Final
    BY DEF Final
  <2> HIDE DEF v, x, i
  <2>5. v.on["active"] # <<>>
    <3>1. v.active = Len(v.on["active"])
      BY <2>2 DEF Steady, Counts
    <3>2. v.active # 0
      BY <2>2, <1>1
    <3>3. QED
      BY <3>1, <3>2
  <2>6. /\ Steady(x, kind)
        /\ x.active = v.active - 1 /\ x.working = v.working /\ x.enabled = v.enabled
        /\ \A p \in Place \ {"active"} : x.on[p] = v.on[p]
        /\ i \in Iocb
        /\ FateOf(v, i) = "started" /\ FateOf(x, i) = "cancelled"
        /\ \A j \in Iocb \ {i} : FateOf(x, j) = FateOf(v, j)
    BY <2>1, <2>2, <2>4, <2>5, CompleteStep
  <2>7. x.active = n - k
    BY <2>2, <2>6, <1>1
  <2>8. Cleared(x, s)
    BY <2>3, <2>6 DEF Cleared
  <2>9. \A p \in Place \ {"active"} : x.on[p] = s.on[p]
    BY <2>3, <2>6
  <2>10. QED
    BY <2>2, <2>6, <2>7, <2>8, <2>9 DEF x
<1> HIDE DEF Good
<1>5. Bad = {}
  <2>1. SUFFICES ASSUME Bad # {} PROVE FALSE
    OBVIOUS
  <2>2. PICK k \in Nat : k \in Bad /\ \A j \in Bad : k <= j
    <3>1. Bad \in SUBSET Nat
      BY <1>1
    <3> HIDE DEF Bad
    <3>2. QED
      BY <2>1, <3>1, MinProperties
  <2>3. k # 0 /\ k \in 1 .. n /\ ~Good(k)
    BY <1>1, <1>3, <2>2
  <2>4. k - 1 \notin Bad /\ k - 1 \in 0 .. n
    BY <1>1, <2>2, <2>3
  <2>5. QED
    BY <1>4, <2>3, <2>4
<1>6. Good(n)
  BY <1>1, <1>5
<1>7. r = w[n] /\ n - n = 0
  BY <1>1, <1>2
<1>8. QED
  BY <1>6, <1>7 DEF Good
\* The pending operations are set aside on the queue of a canceller.
Aside(s, t) == [s EXCEPT !.on[t] = @ \o s.on["pending"], !.on["pending"] = <<>>]

LEMMA AsideStep ==
  ASSUME NEW s, Blocks(s), NEW t \in Canceller, NEW r, r = Aside(s, t)
  PROVE  /\ Blocks(r) /\ r.on["pending"] = <<>> /\ r.on["active"] = s.on["active"]
         /\ r.active = s.active /\ r.enabled = s.enabled
         /\ r.powerState = s.powerState /\ r.working = s.working
         /\ \A j \in Iocb :
              \/ FateOf(r, j) = FateOf(s, j)
              \/ FateOf(s, j) = "waiting" /\ FateOf(r, j) = "picked"
<1> DEFINE f == s.on
           c == f[t] \o f["pending"]
           g == [f EXCEPT ![t] = c, !["pending"] = <<>>]
           n == Len(f["pending"])
           a == SubSeq(f["pending"], 1, n)
<1>1. /\ s \in Device /\ Table(f, Place, Iocb) /\ f \in [Place -> Seq(Iocb)]
      /\ t \in Place /\ t # "pending" /\ t # "active"
      /\ f["pending"] \in Seq(Iocb) /\ f[t] \in Seq(Iocb)
  BY DeviceFacts, PlaceFacts DEF Blocks
<1>2. n \in Nat /\ a = f["pending"] /\ SubSeq(f["pending"], n + 1, n) = <<>>
  BY <1>1, LenProperties
<1>3. r = [s EXCEPT !.on = g]
  BY <1>1 DEF Aside
<1>4. c \in Seq(Iocb)
  BY <1>1, ConcatProperties
<1> HIDE DEF c
<1>5. /\ g \in [Place -> Seq(Iocb)] /\ g["pending"] = <<>> /\ g[t] = c
      /\ \A q \in Place \ {"pending", t} : g[q] = f[q]
  <2> HIDE DEF f
  <2> DEFINE e == <<>>
  <2>1. e \in Seq(Iocb) /\ "pending" \in Place /\ g = [f EXCEPT ![t] = c, !["pending"] = e]
    BY PlaceFacts
  <2> HIDE DEF e, g
  <2>2. g \in [Place -> Seq(Iocb)] /\ g["pending"] = e /\ g[t] = c
    BY <1>1, <1>4, <2>1
  <2>3. \A q \in Place \ {"pending", t} : g[q] = f[q]
    BY <1>1, <2>1
  <2>4. QED
    BY <2>2, <2>3 DEF e
<1> HIDE DEF g
<1>6. MovesFirst(g, f, Place, "pending", t, n, a)
  BY <1>2, <1>5 DEF MovesFirst, c
<1>7. Moved(g, f, Place, Iocb, "pending", t, n, a)
  <2>1. n \in 0 .. Len(f["pending"]) /\ a = SubSeq(f["pending"], 1, n) /\ "pending" \in Place
    BY <1>2, PlaceFacts
  <2> HIDE DEF f, n, a
  <2>2. QED
    BY <2>1, <1>1, <1>5, <1>6, MoveTable
<1>8. /\ r \in Device
      /\ r.on = g /\ r.active = s.active /\ r.enabled = s.enabled
      /\ r.powerState = s.powerState /\ r.working = s.working /\ r.ioState = s.ioState
      /\ r.timerSet = s.timerSet /\ r.timer = s.timer
      /\ r.mailbox = s.mailbox /\ r.handled = s.handled
  <2>1. r = [on |-> g, active |-> s.active, enabled |-> s.enabled,
             powerState |-> s.powerState, working |-> s.working, ioState |-> s.ioState,
             timerSet |-> s.timerSet, timer |-> s.timer, mailbox |-> s.mailbox,
             handled |-> s.handled]
    BY <1>1, <1>3 DEF Device
  <2>2. r \in Device
    BY <1>1, <1>5, <2>1, DeviceFacts DEF Device
  <2>3. QED
    BY <2>1, <2>2
<1>9. /\ Table(r.on, Place, Iocb)
      /\ \A p \in Place : \A y : Contains(r.on[p], y) <=>
            IF y \in ToSet(a) THEN p = t ELSE Contains(s.on[p], y)
      /\ \A y \in ToSet(a) : Contains(s.on["pending"], y)
  BY <1>7, <1>8 DEF Moved, Moves
<1> HIDE DEF f, n, a
<1>10. ASSUME NEW j \in Iocb
       PROVE  /\ Tells(r, j)
              /\ \/ FateOf(r, j) = FateOf(s, j)
                 \/ FateOf(s, j) = "waiting" /\ FateOf(r, j) = "picked"
  <2>1. Tells(s, j)
    BY DEF Blocks
  <2>2. CASE j \in ToSet(a)
    <3>1. Contains(s.on["pending"], j) /\ FateOf(s, j) = "waiting" /\ Queued(s, j)
      BY <2>2, <1>9, PlaceFacts, FateFacts DEF Queued
    <3>2. \A p \in Place : Contains(r.on[p], j) <=> p = t
      BY <2>2, <1>9
    <3>3. FateOf(r, j) = "picked" /\ Queued(r, j)
      BY <3>2, <1>1, PlaceFacts DEF FateOf, Queued
    <3>4. ~Contains(s.on["active"], j)
      BY <3>1, <1>1, PlaceFacts, TableOneQueue DEF f
    <3>5. Tells(r, j)
      BY <2>1, <3>1, <3>2, <3>3, <3>4, <1>1, <1>8, PlaceFacts DEF Tells
    <3>6. QED
      BY <3>1, <3>3, <3>5
  <2>3. CASE j \notin ToSet(a)
    <3>1. \A p \in Place : Contains(r.on[p], j) <=> Contains(s.on[p], j)
      BY <2>3, <1>9
    <3>2. Tells(r, j)
      BY <2>1, <3>1, <1>8, PlaceFacts DEF Tells, Queued
    <3>3. FateOf(r, j) = FateOf(s, j)
      BY <3>1, <1>8, PlaceFacts DEF FateOf
    <3>4. QED
      BY <3>2, <3>3
  <2>4. QED
    BY <2>2, <2>3
<1>11. r.on["pending"] = <<>> /\ r.on["active"] = s.on["active"]
  BY <1>1, <1>5, <1>8, PlaceFacts DEF f
<1>12. QED
  BY <1>8, <1>9, <1>10, <1>11 DEF Blocks

\* The first section of QIO_cancelAll: nothing waits any more.
LEMMA SetAsideStep ==
  ASSUME kind \in Kinds, NEW s, Sound(s, kind), NEW t \in Canceller, NEW r, r = SetAside(s, t)
  PROVE  /\ Sound(r, kind) /\ r.on["pending"] = <<>> /\ r.enabled = s.enabled
         /\ \A j \in Iocb :
              \/ FateOf(r, j) = FateOf(s, j)
              \/ FateOf(s, j) = "waiting" /\ FateOf(r, j) = "picked"
              \/ FateOf(s, j) = "started" /\ FateOf(r, j) = "cancelled"
<1> DEFINE x == Aside(s, t)
           p == Stop(x)
<1>1. /\ Blocks(s) /\ Counts(s, kind) /\ Powered(s, kind) /\ s.working = s.active
  BY DEF Sound, Steady
<1>2. r = IF kind.cancelFunc /\ s.active > 0 THEN CompleteAll(p, s.active) ELSE x
  BY DEF SetAside, Aside
<1>3. /\ Blocks(x) /\ x.on["pending"] = <<>> /\ x.on["active"] = s.on["active"]
      /\ x.active = s.active /\ x.enabled = s.enabled
      /\ x.powerState = s.powerState /\ x.working = s.working
      /\ \A j \in Iocb :
           \/ FateOf(x, j) = FateOf(s, j)
           \/ FateOf(s, j) = "waiting" /\ FateOf(x, j) = "picked"
  BY <1>1, AsideStep
<1> HIDE DEF x
<1>4. Counts(x, kind) /\ Powered(x, kind)
  BY <1>1, <1>3 DEF Counts, Powered
<1>5. CASE ~(kind.cancelFunc /\ s.active > 0)
  <2>1. r = x
    BY <1>2, <1>5
  <2>2. Sound(x, kind)
    BY <1>1, <1>3, <1>4 DEF Sound, Steady, Busy
  <2>3. QED
    BY <2>1, <2>2, <1>3
<1>6. CASE kind.cancelFunc /\ s.active > 0
  <2>1. /\ p \in Device /\ Alike(p, x) /\ p.working = 0
        /\ p.active = x.active /\ p.enabled = x.enabled /\ p.powerState = x.powerState
    BY <1>3, StopFields DEF Blocks
  <2>2. r = CompleteAll(p, p.active)
    BY <1>2, <1>3, <1>6, <2>1
  <2> HIDE DEF p
  <2>3. Blocks(p) /\ \A j \in Iocb : FateOf(p, j) = FateOf(x, j)
    BY <1>3, <2>1, AlikeBlocks
  <2>4. Steady(p, kind)
    BY <1>4, <2>1, <2>3 DEF Steady, Counts, Powered, Alike
  <2>5. /\ Steady(r, kind) /\ r.active = 0 /\ r.working = p.working /\ r.enabled = p.enabled
        /\ \A q \in Place \ {"active"} : r.on[q] = p.on[q]
        /\ Cleared(r, p)
    BY <2>2, <2>4, CompleteAllStep
  <2>6. r.on["pending"] = <<>>
    BY <1>3, <2>1, <2>5, PlaceFacts DEF Alike
  <2>7. Sound(r, kind)
    BY <2>1, <2>5, <2>6 DEF Sound, Busy
  <2>8. ASSUME NEW j \in Iocb
        PROVE  \/ FateOf(r, j) = FateOf(s, j)
               \/ FateOf(s, j) = "waiting" /\ FateOf(r, j) = "picked"
               \/ FateOf(s, j) = "started" /\ FateOf(r, j) = "cancelled"
    BY <1>3, <2>3, <2>5 DEF Cleared
  <2>9. QED
    BY <1>3, <2>1, <2>5, <2>6, <2>7, <2>8
<1>7. QED
  BY <1>5, <1>6
\* The devices _QIO_cancelIO passes through for the first n operations of q
\* (CancelEach).
Cancelling(w, s, q, n) ==
  w = [k \in 0 .. n |-> IF k = 0 THEN s ELSE CancelIO(w[k - 1], q[k], "cancelled")]

LEMMA CancellingExists ==
  ASSUME NEW s, NEW q, NEW n \in Nat
  PROVE  \E w : Cancelling(w, s, q, n)
<1> DEFINE Bad == {k \in Nat : ~ \E w : Cancelling(w, s, q, k)}
<1>1. SUFFICES ASSUME Bad # {} PROVE FALSE
  OBVIOUS
<1>2. PICK k \in Nat : k = Min(Bad) /\ k \in Bad /\ \A j \in Bad : k <= j
  BY <1>1, MinProperties
<1>3. CASE k = 0
  <2> DEFINE w == [m \in 0 .. 0 |-> s]
  <2>1. Cancelling(w, s, q, 0)
    BY DEF Cancelling
  <2>2. QED
    BY <2>1, <1>2, <1>3
<1>4. CASE k # 0
  <2>1. k - 1 \in Nat /\ k - 1 \notin Bad
    BY <1>2, <1>4
  <2>2. PICK v : Cancelling(v, s, q, k - 1)
    BY <2>1
  <2> DEFINE next == CancelIO(v[k - 1], q[k], "cancelled")
             w == [m \in 0 .. k |-> IF m = k THEN next ELSE v[m]]
  <2>3. \A m \in 0 .. k - 1 : v[m] = IF m = 0 THEN s ELSE CancelIO(v[m - 1], q[m], "cancelled")
    BY <2>1, <2>2 DEF Cancelling
  <2>4. ASSUME NEW m \in 0 .. k
        PROVE  w[m] = IF m = 0 THEN s ELSE CancelIO(w[m - 1], q[m], "cancelled")
    <3>1. CASE m = k
      <4>1. w[m] = next /\ w[m - 1] = v[k - 1] /\ m # 0
        BY <3>1, <1>4
      <4>2. QED
        BY <3>1, <4>1
    <3>2. CASE m # k
      <4>1. m \in 0 .. k - 1
        BY <3>2
      <4>2. w[m] = v[m] /\ (m # 0 => w[m - 1] = v[m - 1])
        BY <4>1
      <4> HIDE DEF w
      <4>3. QED
        BY <4>1, <4>2, <2>3
    <3>3. QED
      BY <3>1, <3>2
  <2>5. Cancelling(w, s, q, k)
    BY <2>4 DEF Cancelling
  <2>6. QED
    BY <2>5, <1>2
<1>5. QED
  BY <1>3, <1>4

LEMMA CancelEachIs ==
  ASSUME NEW s, NEW q \in Seq(Iocb)
  PROVE  \E w : /\ CancelEach(s, q) = w[Len(q)] /\ w[0] = s
                /\ \A k \in 1 .. Len(q) : w[k] = CancelIO(w[k - 1], q[k], "cancelled")
<1>1. \E w : Cancelling(w, s, q, Len(q))
  BY CancellingExists, LenProperties
<1> DEFINE w == CHOOSE w : Cancelling(w, s, q, Len(q))
<1>2. Cancelling(w, s, q, Len(q))
  BY <1>1
<1>3. CancelEach(s, q) = w[Len(q)]
  BY DEF CancelEach, Cancelling
<1> HIDE DEF w
<1>4. w[0] = s /\ \A k \in 1 .. Len(q) : w[k] = CancelIO(w[k - 1], q[k], "cancelled")
  BY <1>2, LenProperties DEF Cancelling
<1>5. QED
  BY <1>3, <1>4

\* Operations on the queue of a canceller have been cancelled; nothing else has
\* happened, and nothing has been put on a queue.
Dropped(r, s) ==
  /\ r.active = s.active /\ r.enabled = s.enabled
  /\ r.powerState = s.powerState /\ r.working = s.working
  /\ r.on["active"] = s.on["active"]
  /\ \A p \in Place : \A y : Contains(r.on[p], y) => Contains(s.on[p], y)
  /\ \A j \in Iocb :
       \/ FateOf(r, j) = FateOf(s, j)
       \/ FateOf(s, j) = "picked" /\ FateOf(r, j) = "cancelled"

LEMMA CancelEachStep ==
  ASSUME NEW s, Blocks(s), NEW t \in Canceller, NEW q, q = s.on[t], NEW r, r = CancelEach(s, q)
  PROVE  Blocks(r) /\ Dropped(r, s)
<1> DEFINE n == Len(q)
<1>1. /\ Table(s.on, Place, Iocb) /\ t \in Place /\ t # "pending" /\ t # "active"
      /\ s.on \in [Place -> Seq(Iocb)] /\ q \in Seq(Iocb)
  BY PlaceFacts, DeviceFacts DEF Blocks
<1>2. n \in Nat /\ Apart(q) /\ \A k \in 1 .. n : q[k] \in Iocb
  <2>1. EachApart(s.on, Place)
    BY <1>1, TableApart
  <2>2. Apart(q)
    BY <1>1, <2>1 DEF EachApart
  <2>3. QED
    BY <1>1, <2>2, LenProperties, ElementOfSeq
<1>3. PICK w : /\ CancelEach(s, q) = w[n] /\ w[0] = s
               /\ \A k \in 1 .. n : w[k] = CancelIO(w[k - 1], q[k], "cancelled")
  BY <1>1, CancelEachIs
<1> DEFINE Good(k) == /\ Blocks(w[k]) /\ Dropped(w[k], s)
                      /\ \A j \in 1 .. n : k < j => Contains(w[k].on[t], q[j])
           Bad == {k \in 0 .. n : ~Good(k)}
<1>4. Good(0)
  <2>1. Dropped(s, s)
    BY DEF Dropped
  <2>2. \A j \in 1 .. n : Contains(s.on[t], q[j])
    BY DEF Contains
  <2>3. QED
    BY <1>3, <2>1, <2>2
<1> HIDE DEF n
<1>5. ASSUME NEW k \in 1 .. n, Good(k - 1) PROVE Good(k)
  <2> DEFINE v == w[k - 1]
             x == w[k]
             i == q[k]
  <2>1. x = CancelIO(v, i, "cancelled") /\ i \in Iocb /\ "cancelled" \in Final
    BY <1>2, <1>3 DEF Final
  <2>2. Blocks(v) /\ Dropped(v, s) /\ Contains(v.on[t], i)
    BY <1>2, <1>5
  <2>3. \A j \in 1 .. n : k < j => Contains(v.on[t], q[j]) /\ q[j] # i
    BY <1>2, <1>5 DEF Apart, n
  <2> HIDE DEF v, x, i
  <2>4. v.ioState[i] = "pending"
    BY <2>1, <2>2, <1>1 DEF Blocks, Tells
  <2>5. FateOf(v, i) = "picked"
    BY <2>1, <2>2, FateFacts
  <2>6. /\ Blocks(x) /\ Answers(x, v, i, "cancelled")
        /\ x.active = v.active /\ x.enabled = v.enabled
        /\ x.powerState = v.powerState /\ x.working = v.working
        /\ x.on["active"] = v.on["active"] /\ Drops(x.on, v.on, Place, i)
    BY <2>1, <2>2, <2>4, TakenOff
  <2>7. Dropped(x, s)
    <3>1. /\ x.active = s.active /\ x.enabled = s.enabled
          /\ x.powerState = s.powerState /\ x.working = s.working
          /\ x.on["active"] = s.on["active"]
      BY <2>2, <2>6 DEF Dropped
    <3>2. \A p \in Place : \A y : Contains(x.on[p], y) => Contains(s.on[p], y)
      BY <2>2, <2>6 DEF Dropped, Drops
    <3>3. \A j \in Iocb :
            \/ FateOf(x, j) = FateOf(s, j)
            \/ FateOf(s, j) = "picked" /\ FateOf(x, j) = "cancelled"
      BY <2>2, <2>5, <2>6 DEF Dropped, Answers
    <3>4. QED
      BY <3>1, <3>2, <3>3 DEF Dropped
  <2>8. \A j \in 1 .. n : k < j => Contains(x.on[t], q[j])
    BY <2>3, <2>6, <1>1 DEF Drops
  <2>9. QED
    BY <2>6, <2>7, <2>8 DEF x
<1> HIDE DEF Good
<1>6. Bad = {}
  <2>1. SUFFICES ASSUME Bad # {} PROVE FALSE
    OBVIOUS
  <2>2. PICK k \in Nat : k \in Bad /\ \A j \in Bad : k <= j
    <3>1. Bad \in SUBSET Nat
      BY <1>2
    <3> HIDE DEF Bad
    <3>2. QED
      BY <2>1, <3>1, MinProperties
  <2>3. k # 0 /\ k \in 1 .. n /\ ~Good(k)
    BY <1>2, <1>4, <2>2
  <2>4. k - 1 \notin Bad /\ k - 1 \in 0 .. n
    BY <1>2, <2>2, <2>3
  <2>5. QED
    BY <1>5, <2>3, <2>4
<1>7. Good(n) /\ r = w[n]
  BY <1>2, <1>3, <1>6
<1>8. QED
  BY <1>7 DEF Good
-----------------------------------------------------------------------------
(* The steps.                                                              *)

\* What a step does to the operations is what is promised of it.
Kept == \A j \in Iocb : Promise!Follows(j, FateOf(io, j), FateOf(io', j))

LEMMA SameKept ==
  ASSUME \A j \in Iocb : FateOf(io', j) = FateOf(io, j)
  PROVE  Kept
BY DEF Kept, Promise!Follows

LEMMA EndedKept ==
  ASSUME NEW i \in Iocb, NEW status \in {"cancelled", "timeout"}, Ended(io', io, i, status),
         status = "timeout" => io.timer[i] = "due"
  PROVE  Kept
BY DEF Kept, Ended, Carries, Promise!Follows

\* The fields of a control block that QIO_qio sets.
Arms(r, s, i, timeout) ==
  /\ r.on = s.on /\ r.active = s.active /\ r.enabled = s.enabled
  /\ r.powerState = s.powerState /\ r.working = s.working /\ r.ioState = s.ioState
  /\ r.mailbox = s.mailbox /\ r.handled = s.handled
  /\ r.timerSet[i] = timeout
  /\ r.timer[i] = IF timeout THEN "set" ELSE s.timer[i]
  /\ \A j \in Iocb \ {i} : r.timerSet[j] = s.timerSet[j] /\ r.timer[j] = s.timer[j]

LEMMA ArmedFields ==
  ASSUME NEW s \in Device, NEW i \in Iocb, NEW timeout \in BOOLEAN, NEW r,
         r = [s EXCEPT !.timerSet[i] = timeout, !.timer[i] = IF timeout THEN "set" ELSE @]
  PROVE  r \in Device /\ Arms(r, s, i, timeout)
<1> DEFINE e == [s.timerSet EXCEPT ![i] = timeout]
           v == IF timeout THEN "set" ELSE s.timer[i]
           f == [s.timer EXCEPT ![i] = v]
<1>1. s.timerSet \in [Iocb -> BOOLEAN] /\ s.timer \in [Iocb -> {"off", "set", "due"}]
  BY DeviceFacts
<1>2. /\ e \in [Iocb -> BOOLEAN] /\ e[i] = timeout
      /\ \A j \in Iocb \ {i} : e[j] = s.timerSet[j]
  BY <1>1
<1>3. v \in {"off", "set", "due"}
  BY <1>1
<1>4. r = [s EXCEPT !.timerSet = e, !.timer = f]
  BY DEF Device
<1> HIDE DEF v
<1>5. f \in [Iocb -> {"off", "set", "due"}] /\ f[i] = v /\ \A j \in Iocb \ {i} : f[j] = s.timer[j]
  BY <1>1, <1>3
<1> HIDE DEF e, f
<1>6. r = [on |-> s.on, active |-> s.active, enabled |-> s.enabled,
           powerState |-> s.powerState, working |-> s.working, ioState |-> s.ioState,
           timerSet |-> e, timer |-> f, mailbox |-> s.mailbox,
           handled |-> s.handled]
  BY <1>4 DEF Device
<1>7. r \in Device
  BY <1>2, <1>5, <1>6, DeviceFacts DEF Device
<1>8. /\ r.on = s.on /\ r.active = s.active /\ r.enabled = s.enabled
      /\ r.powerState = s.powerState /\ r.working = s.working /\ r.ioState = s.ioState
      /\ r.mailbox = s.mailbox /\ r.handled = s.handled /\ r.timerSet = e /\ r.timer = f
  <2>1. /\ r.on = s.on /\ r.active = s.active
        /\ r.powerState = s.powerState /\ r.working = s.working /\ r.ioState = s.ioState
        /\ r.mailbox = s.mailbox /\ r.handled = s.handled /\ r.timer = f
    BY ONLY <1>6
  <2>2. r.enabled = s.enabled
    BY <1>4 DEF Device
  <2>3. r.timerSet = e
    BY <1>4 DEF Device
  <2>4. QED
    BY <2>1, <2>2, <2>3
<1>9. r.timer[i] = IF timeout THEN "set" ELSE s.timer[i]
  BY <1>5, <1>8 DEF v
<1>10. r.timerSet[i] = timeout
  BY <1>2, <1>8, Zenon
<1>11. \A j \in Iocb \ {i} : r.timerSet[j] = s.timerSet[j] /\ r.timer[j] = s.timer[j]
  BY <1>2, <1>5, <1>8
<1>12. QED
  BY <1>7, <1>8, <1>9, <1>10, <1>11 DEF Arms

\* The control block is the application's (Free): the operation is idle.
LEMMA FreeIdle ==
  ASSUME Blocks(io), NEW i \in Iocb, Free(i), Settled
  PROVE  /\ FateOf(io, i) = "idle" /\ io.timer[i] = "off" /\ Off(io.on, Place, i)
         /\ ~Contains(io.mailbox, i) /\ io.handled[i] = "no"
<1>1. Tells(io, i) /\ io.timer[i] \in {"off", "set", "due"}
  BY DeviceFacts DEF Blocks
<1>2. Off(io.on, Place, i) /\ ~Queued(io, i)
  BY DEF Free, Off, Queued
<1>3. QED
  BY <1>1, <1>2, PlaceFacts DEF Tells, Free, Settled, FateOf, Off

LEMMA QueueEnabled ==
  ASSUME IInv, NEW t \in Task, NEW i \in Iocb, NEW timeout \in BOOLEAN, Queue(t, i, timeout), io.enabled
  PROVE  Sound(io', kind) /\ Kept
<1> DEFINE armed == [io EXCEPT !.timerSet[i] = timeout,
                               !.timer[i] = IF timeout THEN "set" ELSE @]
           q == AddTail(io.on, "pending", i)
           e == [io.ioState EXCEPT ![i] = "pending"]
           x == [armed EXCEPT !.ioState[i] = "pending", !.on = AddTail(@, "pending", i)]
<1>1. /\ kind \in Kinds /\ Blocks(io) /\ Counts(io, kind) /\ Powered(io, kind)
      /\ io.working = io.active /\ io \in Device /\ Table(io.on, Place, Iocb)
  BY DEF IInv, Sound, Steady, Blocks
<1>2. /\ FateOf(io, i) = "idle" /\ io.timer[i] = "off" /\ Off(io.on, Place, i)
      /\ ~Contains(io.mailbox, i) /\ io.handled[i] = "no"
  BY <1>1, FreeIdle DEF Queue, At
<1>3. io' = Start(x) /\ (timeout => i \in Timed)
  BY DEF Queue
<1>4. armed \in Device /\ Arms(armed, io, i, timeout)
  BY <1>1, ArmedFields
<1>5. Table(q, Place, Iocb) /\ Adds(q, io.on, Place, "pending", i)
  BY <1>1, <1>2, PlaceFacts, AddTailTable
<1>6. /\ e \in [Iocb -> Final \cup {"new", "pending", "active"}]
      /\ e[i] = "pending" /\ \A j \in Iocb \ {i} : e[j] = io.ioState[j]
  BY <1>1, DeviceFacts
<1>7. q["active"] = io.on["active"]
  BY <1>1, PlaceFacts, DeviceFacts DEF AddTail
<1> HIDE DEF armed
<1>8. x = [armed EXCEPT !.ioState = e, !.on = q]
  BY <1>4 DEF Arms
<1> HIDE DEF q, e, x
<1>9. /\ x \in Device
      /\ x.on = q /\ x.active = armed.active /\ x.enabled = armed.enabled
      /\ x.powerState = armed.powerState /\ x.working = armed.working /\ x.ioState = e
      /\ x.timerSet = armed.timerSet /\ x.timer = armed.timer
      /\ x.mailbox = armed.mailbox /\ x.handled = armed.handled
  <2>1. x = [on |-> q, active |-> armed.active, enabled |-> armed.enabled,
             powerState |-> armed.powerState, working |-> armed.working, ioState |-> e,
             timerSet |-> armed.timerSet, timer |-> armed.timer, mailbox |-> armed.mailbox,
             handled |-> armed.handled]
    BY <1>4, <1>8 DEF Device
  <2>2. x \in Device
    BY <1>4, <1>5, <1>6, <2>1, DeviceFacts DEF Device, Table
  <2>3. QED
    BY <2>1, <2>2
<1>10. /\ x.active = io.active /\ x.enabled = io.enabled
       /\ x.powerState = io.powerState /\ x.working = io.working
       /\ x.mailbox = io.mailbox /\ x.handled = io.handled
       /\ x.timerSet[i] = timeout /\ x.timer[i] = IF timeout THEN "set" ELSE "off"
       /\ \A j \in Iocb \ {i} : x.timerSet[j] = io.timerSet[j] /\ x.timer[j] = io.timer[j]
  BY <1>2, <1>4, <1>9 DEF Arms
<1>11. \A p \in Place : \A y : Contains(x.on[p], y) <=>
          Contains(io.on[p], y) \/ (p = "pending" /\ y = i)
  BY <1>5, <1>9 DEF Adds
<1>12. \A p \in Place : ~Contains(io.on[p], i)
  BY <1>2 DEF Off
<1>13. Tells(x, i) /\ FateOf(x, i) = "waiting"
  <2>1. \A p \in Place : Contains(x.on[p], i) <=> p = "pending"
    BY <1>11, <1>12
  <2>2. /\ x.ioState[i] = "pending" /\ Queued(x, i)
        /\ ~Contains(x.mailbox, i) /\ x.handled[i] = "no"
    BY <2>1, <1>2, <1>6, <1>9, <1>10, PlaceFacts DEF Queued
  <2>3. Tells(x, i)
    BY <2>1, <2>2, <1>3, <1>10, PlaceFacts DEF Tells
  <2>4. FateOf(x, i) = "waiting"
    BY <2>1, PlaceFacts DEF FateOf
  <2>5. QED
    BY <2>3, <2>4
<1>14. ASSUME NEW j \in Iocb \ {i} PROVE Tells(x, j) /\ FateOf(x, j) = FateOf(io, j)
  <2>1. Tells(io, j)
    BY <1>1 DEF Blocks
  <2>2. \A p \in Place : Contains(x.on[p], j) <=> Contains(io.on[p], j)
    BY <1>11
  <2>3. x.ioState[j] = io.ioState[j]
    BY <1>6, <1>9
  <2>4. Tells(x, j)
    BY <2>1, <2>2, <2>3, <1>10, PlaceFacts DEF Tells, Queued
  <2>5. FateOf(x, j) = FateOf(io, j)
    BY <2>2, <2>3, <1>10, PlaceFacts DEF FateOf
  <2>6. QED
    BY <2>4, <2>5
<1>15. Steady(x, kind) /\ x.working = x.active
  <2>1. Blocks(x)
    BY <1>5, <1>9, <1>13, <1>14 DEF Blocks
  <2>2. Counts(x, kind) /\ Powered(x, kind)
    BY <1>1, <1>7, <1>9, <1>10 DEF Counts, Powered
  <2>3. QED
    BY <2>1, <2>2, <1>1, <1>10 DEF Steady
<1>16. Sound(io', kind) /\ \A j \in Iocb : Carries(io', x, j)
  BY <1>1, <1>3, <1>10, <1>15, StartStep
<1>17. Kept
  <2>1. ASSUME NEW j \in Iocb PROVE Promise!Follows(j, FateOf(io, j), FateOf(io', j))
    <3>1. CASE j = i
      BY <3>1, <1>2, <1>13, <1>16 DEF Carries, Promise!Follows
    <3>2. CASE j # i
      BY <3>2, <1>14, <1>16 DEF Carries, Promise!Follows
    <3>3. QED
      BY <3>1, <3>2
  <2>2. QED
    BY <2>1 DEF Kept
<1>18. QED
  BY <1>16, <1>17
LEMMA QueueDisabled ==
  ASSUME IInv, NEW t \in Task, NEW i \in Iocb, NEW timeout \in BOOLEAN, Queue(t, i, timeout), ~io.enabled
  PROVE  Sound(io', kind) /\ Kept
<1> DEFINE armed == [io EXCEPT !.timerSet[i] = timeout,
                               !.timer[i] = IF timeout THEN "set" ELSE @]
           x == [armed EXCEPT !.ioState[i] = "cancelled"]
           y == Tell(x, i, "cancelled")
           r == IF timeout THEN CancelTimer(y, i) ELSE y
<1>1. /\ kind \in Kinds /\ Blocks(io) /\ Counts(io, kind) /\ Powered(io, kind) /\ Busy(io, kind)
      /\ io.working = io.active /\ io \in Device /\ Table(io.on, Place, Iocb)
  BY DEF IInv, Sound, Steady, Blocks
<1>2. /\ FateOf(io, i) = "idle" /\ io.timer[i] = "off" /\ Off(io.on, Place, i)
      /\ ~Contains(io.mailbox, i) /\ io.handled[i] = "no"
  BY <1>1, FreeIdle DEF Queue, At
<1>3. io' = r /\ (timeout => i \in Timed)
  BY DEF Queue
<1>4. armed \in Device /\ Arms(armed, io, i, timeout)
  BY <1>1, ArmedFields
<1> HIDE DEF armed
<1>5. "cancelled" \in Final /\ "cancelled" \in Final \cup {"new", "pending", "active"}
  BY DEF Final
<1>6. /\ x \in Device
      /\ x.on = armed.on /\ x.active = armed.active /\ x.enabled = armed.enabled
      /\ x.powerState = armed.powerState /\ x.working = armed.working
      /\ x.timerSet = armed.timerSet /\ x.timer = armed.timer
      /\ x.mailbox = armed.mailbox /\ x.handled = armed.handled
      /\ x.ioState[i] = "cancelled" /\ \A j \in Iocb \ {i} : x.ioState[j] = armed.ioState[j]
  BY <1>4, <1>5, StateFields
<1> HIDE DEF x
<1>7. /\ y \in Device
      /\ y.on = x.on /\ y.active = x.active /\ y.enabled = x.enabled
      /\ y.powerState = x.powerState /\ y.working = x.working /\ y.ioState = x.ioState
      /\ y.timerSet = x.timerSet /\ y.timer = x.timer
      /\ \A j \in Iocb \ {i} :
           y.handled[j] = x.handled[j] /\ (Contains(y.mailbox, j) <=> Contains(x.mailbox, j))
      /\ i \in Handled => y.handled[i] = "cancelled" /\ y.mailbox = x.mailbox
      /\ i \notin Handled => y.handled = x.handled /\ Contains(y.mailbox, i)
  BY <1>5, <1>6, TellFields
<1> HIDE DEF y
<1>8. /\ y.on = io.on /\ y.active = io.active /\ y.enabled = io.enabled
      /\ y.powerState = io.powerState /\ y.working = io.working
      /\ y.timer[i] = IF timeout THEN "set" ELSE "off"
      /\ \A j \in Iocb \ {i} : /\ y.timerSet[j] = io.timerSet[j] /\ y.timer[j] = io.timer[j]
                               /\ y.ioState[j] = io.ioState[j] /\ y.handled[j] = io.handled[j]
                               /\ Contains(y.mailbox, j) <=> Contains(io.mailbox, j)
      /\ y.ioState[i] = "cancelled"
      /\ i \in Handled => y.handled[i] = "cancelled" /\ ~Contains(y.mailbox, i)
      /\ i \notin Handled => y.handled[i] = "no" /\ Contains(y.mailbox, i)
  BY <1>2, <1>4, <1>6, <1>7 DEF Arms
<1>9. /\ r \in Device
      /\ r.on = y.on /\ r.active = y.active /\ r.enabled = y.enabled
      /\ r.powerState = y.powerState /\ r.working = y.working /\ r.ioState = y.ioState
      /\ r.timerSet = y.timerSet /\ r.mailbox = y.mailbox /\ r.handled = y.handled
      /\ r.timer[i] = "off" /\ \A j \in Iocb \ {i} : r.timer[j] = y.timer[j]
  <2>1. CASE timeout
    <3>1. r = CancelTimer(y, i)
      BY <2>1
    <3> HIDE DEF r
    <3>2. /\ r \in Device
          /\ r.on = y.on /\ r.active = y.active /\ r.enabled = y.enabled
          /\ r.powerState = y.powerState /\ r.working = y.working /\ r.ioState = y.ioState
          /\ r.timerSet = y.timerSet /\ r.mailbox = y.mailbox /\ r.handled = y.handled
          /\ r.timer[i] = IF y.timer[i] = "set" THEN "off" ELSE y.timer[i]
          /\ \A j \in Iocb \ {i} : r.timer[j] = y.timer[j]
      BY <3>1, <1>7, CancelTimerFields
    <3>3. QED
      BY <2>1, <3>2, <1>8
  <2>2. CASE ~timeout
    BY <2>2, <1>7, <1>8
  <2>3. QED
    BY <2>1, <2>2
<1> HIDE DEF r
<1>10. Ends(r, io, i, "cancelled")
  BY <1>8, <1>9 DEF Ends
<1>11. Drops(r.on, io.on, Place, i) /\ Table(r.on, Place, Iocb)
  BY <1>1, <1>2, <1>8, <1>9 DEF Drops, Off
<1>12. /\ Blocks(r) /\ FateOf(r, i) = "cancelled"
       /\ \A j \in Iocb \ {i} : FateOf(r, j) = FateOf(io, j)
  BY <1>1, <1>5, <1>9, <1>10, <1>11, EndsTells
<1>13. Sound(r, kind)
  BY <1>1, <1>8, <1>9, <1>12 DEF Sound, Steady, Counts, Powered, Busy
<1>14. \A j \in Iocb : Promise!Follows(j, FateOf(io, j), FateOf(r, j))
  BY <1>2, <1>12 DEF Promise!Follows
<1>15. QED
  BY <1>3, <1>13, <1>14 DEF Kept

LEMMA CancelKept ==
  ASSUME IInv, HandledApart, NEW t \in Task, NEW i \in Iocb, Cancel(t, i)
  PROVE  Sound(io', kind) /\ Kept
<1>1. kind \in Kinds /\ Sound(io, kind) /\ i \notin Handled /\ "cancelled" \in Final
  BY DEF IInv, HandledApart, Cancel, Final
<1>2. io' = CancelIO(io, i, "cancelled")
  BY DEF Cancel
<1>3. Sound(io', kind) /\ Ended(io', io, i, "cancelled")
  BY <1>1, <1>2, CancelStep
<1>4. QED
  BY <1>3, EndedKept

LEMMA CancelNextKept ==
  ASSUME IInv, NEW t \in Canceller, CancelNext(t)
  PROVE  Sound(io', kind) /\ Kept
<1> DEFINE i == Head(io.on[t])
<1>1. /\ kind \in Kinds /\ Sound(io, kind) /\ Blocks(io) /\ Table(io.on, Place, Iocb)
      /\ t \in Place /\ t # "active" /\ "cancelled" \in Final
  BY PlaceFacts DEF IInv, Sound, Steady, Blocks, Final
<1>2. io' = CancelIO(io, i, "cancelled") /\ io.on[t] # <<>>
  BY DEF CancelNext
<1>3. i \in Iocb /\ Contains(io.on[t], i)
  BY <1>1, <1>2, RemoveHeadTable
<1> HIDE DEF i
<1>4. io.ioState[i] = "pending"
  BY <1>1, <1>3 DEF Blocks, Tells
<1>5. Sound(io', kind) /\ Ended(io', io, i, "cancelled")
  BY <1>1, <1>2, <1>3, <1>4, CancelStep
<1>6. QED
  BY <1>3, <1>5, EndedKept

LEMMA CancelAllKept ==
  ASSUME IInv, NEW t \in Canceller, NEW step, CancelAll(t, step)
  PROVE  Sound(io', kind) /\ Kept
<1>1. kind \in Kinds /\ Sound(io, kind) /\ io' = SetAside(io, t)
  BY DEF IInv, CancelAll
<1>2. /\ Sound(io', kind)
      /\ \A j \in Iocb :
           \/ FateOf(io', j) = FateOf(io, j)
           \/ FateOf(io, j) = "waiting" /\ FateOf(io', j) = "picked"
           \/ FateOf(io, j) = "started" /\ FateOf(io', j) = "cancelled"
  BY <1>1, SetAsideStep
<1>3. QED
  BY <1>2 DEF Kept, Promise!Follows
\* A device of the same control blocks, in another state of power.
LEMMA EnableFields ==
  ASSUME NEW s \in Device, NEW v \in BOOLEAN, NEW r, r = [s EXCEPT !.enabled = v]
  PROVE  /\ r \in Device /\ Alike(r, s) /\ r.enabled = v
         /\ r.active = s.active /\ r.working = s.working /\ r.powerState = s.powerState
<1>1. r = [on |-> s.on, active |-> s.active, enabled |-> v,
           powerState |-> s.powerState, working |-> s.working, ioState |-> s.ioState,
           timerSet |-> s.timerSet, timer |-> s.timer, mailbox |-> s.mailbox,
           handled |-> s.handled]
  BY DEF Device
<1>2. r \in Device
  BY <1>1, DeviceFacts DEF Device
<1>3. Alike(r, s)
  BY ONLY <1>1 DEF Alike
<1>4. /\ r.active = s.active /\ r.working = s.working /\ r.powerState = s.powerState
  BY ONLY <1>1
<1>5. r.enabled = v
  BY ONLY <1>1, Zenon
<1>6. QED
  BY <1>2, <1>3, <1>4, <1>5

LEMMA DisableKept ==
  ASSUME IInv, NEW t \in Canceller, Disable(t)
  PROVE  Sound(io', kind) /\ Kept
<1> DEFINE a == SetAside(io, t)
           c == CancelEach(a, a.on[t])
           off == [c EXCEPT !.enabled = FALSE]
           r == IF off.active <= 0 THEN PowerDown(off) ELSE off
<1>1. kind \in Kinds /\ Sound(io, kind)
  BY DEF IInv
<1>2. io' = r
  BY DEF Disable, CancelAllProtected
<1>3. a = SetAside(io, t)
  OBVIOUS
<1> HIDE DEF a
<1>4. /\ Sound(a, kind) /\ a.on["pending"] = <<>> /\ a.enabled = io.enabled
      /\ \A j \in Iocb :
           \/ FateOf(a, j) = FateOf(io, j)
           \/ FateOf(io, j) = "waiting" /\ FateOf(a, j) = "picked"
           \/ FateOf(io, j) = "started" /\ FateOf(a, j) = "cancelled"
  BY <1>1, <1>3, SetAsideStep
<1>5. /\ Blocks(a) /\ Counts(a, kind) /\ Powered(a, kind) /\ a.working = a.active
      /\ Table(a.on, Place, Iocb)
  BY <1>4 DEF Sound, Steady, Blocks
<1>6. Blocks(c) /\ Dropped(c, a)
  BY <1>5, CancelEachStep
<1> HIDE DEF c
<1>7. c \in Device /\ Table(c.on, Place, Iocb)
  BY <1>6 DEF Blocks
<1>8. /\ off \in Device /\ Alike(off, c) /\ off.enabled = FALSE
      /\ off.active = c.active /\ off.working = c.working /\ off.powerState = c.powerState
  BY <1>7, EnableFields
<1> HIDE DEF off
<1>9. /\ c.active = a.active /\ c.powerState = a.powerState /\ c.working = a.working
      /\ c.on["active"] = a.on["active"]
      /\ \A y : Contains(c.on["pending"], y) => Contains(a.on["pending"], y)
      /\ \A j \in Iocb :
           \/ FateOf(c, j) = FateOf(a, j)
           \/ FateOf(a, j) = "picked" /\ FateOf(c, j) = "cancelled"
  BY <1>6, PlaceFacts DEF Dropped
<1>10. c.on["pending"] = <<>>
  BY <1>4, <1>5, <1>7, <1>9, PlaceFacts, TableMembers
<1>11. /\ r \in Device /\ Alike(r, c) /\ r.enabled = FALSE
       /\ r.active = a.active /\ r.working = a.working
       /\ r.powerState =
            IF a.active <= 0 /\ kind.powerClass \in {"fine", "coarse"} THEN "save" ELSE a.powerState
  <2>1. CASE off.active <= 0
    <3>1. r = PowerDown(off)
      BY <2>1
    <3> HIDE DEF r
    <3>2. /\ r \in Device
          /\ r.on = off.on /\ r.active = off.active /\ r.enabled = off.enabled
          /\ r.working = off.working /\ r.ioState = off.ioState
          /\ r.timerSet = off.timerSet /\ r.timer = off.timer
          /\ r.mailbox = off.mailbox /\ r.handled = off.handled
          /\ r.powerState = IF kind.powerClass = "fine" \/ (kind.powerClass = "coarse" /\ ~off.enabled)
                              THEN "save" ELSE off.powerState
      BY <1>8, <3>1, PowerDownFields
    <3>3. Alike(r, c)
      BY <1>8, <3>2 DEF Alike
    <3>4. QED
      BY <2>1, <1>8, <1>9, <3>2, <3>3
  <2>2. CASE ~(off.active <= 0)
    BY <2>2, <1>8, <1>9
  <2>3. QED
    BY <2>1, <2>2
<1> HIDE DEF r
<1>12. Blocks(r) /\ \A j \in Iocb : FateOf(r, j) = FateOf(c, j)
  BY <1>6, <1>11, AlikeBlocks
<1>13. Counts(r, kind) /\ r.working = r.active /\ Busy(r, kind)
  BY <1>5, <1>9, <1>10, <1>11 DEF Counts, Busy, Alike
<1>14. Powered(r, kind)
  <2>1. a.active \in Nat
    BY <1>1, <1>5, FitFacts DEF Blocks
  <2>2. CASE a.active = 0
    BY <2>2, <1>1, <1>11, KindFacts DEF Powered
  <2>3. CASE a.active # 0
    <3>1. a.active > 0 /\ ~(a.active <= 0)
      BY <2>1, <2>3
    <3>2. r.powerState = a.powerState /\ r.active > 0 /\ r.active # 0
      BY <3>1, <1>11
    <3>3. QED
      BY <3>1, <3>2, <1>5, <1>11 DEF Powered
  <2>4. QED
    BY <2>2, <2>3
<1>15. \A j \in Iocb : Promise!Follows(j, FateOf(io, j), FateOf(r, j))
  BY <1>4, <1>9, <1>12 DEF Promise!Follows
<1>16. QED
  BY <1>2, <1>12, <1>13, <1>14, <1>15 DEF Sound, Steady, Kept

LEMMA EnableKept ==
  ASSUME IInv, NEW t \in Canceller, Enable(t)
  PROVE  Sound(io', kind) /\ Kept
<1> DEFINE on == [io EXCEPT !.enabled = TRUE]
           r == IF kind.powerClass = "coarse" THEN PowerUp(on) ELSE on
<1>1. /\ kind \in Kinds /\ Blocks(io) /\ Counts(io, kind) /\ Powered(io, kind) /\ Busy(io, kind)
      /\ io.working = io.active /\ io \in Device
  BY DEF IInv, Sound, Steady, Blocks
<1>2. io' = r
  BY DEF Enable
<1>3. /\ on \in Device /\ Alike(on, io) /\ on.enabled = TRUE
      /\ on.active = io.active /\ on.working = io.working /\ on.powerState = io.powerState
  BY <1>1, EnableFields
<1> HIDE DEF on
<1>4. /\ r \in Device /\ Alike(r, io) /\ r.enabled = TRUE
      /\ r.active = io.active /\ r.working = io.working
      /\ r.powerState = IF kind.powerClass = "coarse" THEN "normal" ELSE io.powerState
  <2>1. CASE kind.powerClass = "coarse"
    <3>1. r = PowerUp(on)
      BY <2>1
    <3> HIDE DEF r
    <3>2. /\ r \in Device
          /\ r.on = on.on /\ r.active = on.active /\ r.enabled = on.enabled
          /\ r.working = on.working /\ r.ioState = on.ioState
          /\ r.timerSet = on.timerSet /\ r.timer = on.timer
          /\ r.mailbox = on.mailbox /\ r.handled = on.handled
          /\ r.powerState = IF kind.powerClass = "none" THEN on.powerState ELSE "normal"
      BY <1>3, <3>1, PowerUpFields
    <3>3. Alike(r, io)
      BY <1>3, <3>2 DEF Alike
    <3>4. QED
      BY <2>1, <1>3, <3>2, <3>3
  <2>2. CASE kind.powerClass # "coarse"
    BY <2>2, <1>3
  <2>3. QED
    BY <2>1, <2>2
<1> HIDE DEF r
<1>5. Blocks(r) /\ \A j \in Iocb : FateOf(r, j) = FateOf(io, j)
  BY <1>1, <1>4, AlikeBlocks
<1>6. Counts(r, kind) /\ Powered(r, kind) /\ Busy(r, kind)
  BY <1>1, <1>4 DEF Counts, Powered, Busy, Alike
<1>7. QED
  BY <1>1, <1>2, <1>4, <1>5, <1>6, SameKept DEF Sound, Steady

LEMMA DeviceKept ==
  ASSUME IInv, DeviceISR
  PROVE  Sound(io', kind) /\ Kept
<1> DEFINE x == [io EXCEPT !.working = @ - 1]
           c == Complete(x, "complete")
           i == Head(x.on["active"])
           w == io.working - 1
<1>1. /\ kind \in Kinds /\ Blocks(io) /\ Counts(io, kind) /\ Powered(io, kind) /\ Busy(io, kind)
      /\ io.working = io.active /\ io \in Device
  BY DEF IInv, Sound, Steady, Blocks
<1>2. io' = Start(c) /\ io.working > 0
  BY DEF DeviceISR
<1>3. /\ c = Complete(x, "complete") /\ i = Head(x.on["active"]) /\ "complete" \in Final
      /\ x = [io EXCEPT !.working = w]
  BY DEF Final
<1>4. w \in Nat
  BY <1>1, <1>2, DeviceFacts
<1> HIDE DEF x, c, i, w
<1>5. x \in Device /\ Alike(x, io) /\ x.working = w /\ x.active = io.active
      /\ x.enabled = io.enabled /\ x.powerState = io.powerState
  <2>1. x = [on |-> io.on, active |-> io.active, enabled |-> io.enabled,
             powerState |-> io.powerState, working |-> w, ioState |-> io.ioState,
             timerSet |-> io.timerSet, timer |-> io.timer, mailbox |-> io.mailbox,
             handled |-> io.handled]
    BY <1>1, <1>3 DEF Device
  <2>2. x \in Device
    BY <1>1, <1>4, <2>1, DeviceFacts DEF Device
  <2>3. Alike(x, io)
    BY ONLY <2>1 DEF Alike
  <2>4. QED
    BY <2>1, <2>2, <2>3
<1>6. Steady(x, kind) /\ \A j \in Iocb : FateOf(x, j) = FateOf(io, j)
  <2>1. Blocks(x) /\ \A j \in Iocb : FateOf(x, j) = FateOf(io, j)
    BY <1>1, <1>5, AlikeBlocks
  <2>2. Counts(x, kind) /\ Powered(x, kind)
    BY <1>1, <1>5 DEF Counts, Powered, Alike
  <2>3. QED
    BY <2>1, <2>2 DEF Steady
<1>7. x.on = io.on
  BY <1>5 DEF Alike
<1>8. x.on["active"] # <<>>
  <2>1. Len(io.on["active"]) > 0
    BY <1>1, <1>2 DEF Counts
  <2>2. QED
    BY <2>1, <1>7
<1>9. /\ Steady(c, kind)
      /\ c.active = x.active - 1 /\ c.working = x.working /\ c.enabled = x.enabled
      /\ \A p \in Place \ {"active"} : c.on[p] = x.on[p]
      /\ i \in Iocb
      /\ FateOf(x, i) = "started" /\ FateOf(c, i) = "complete"
      /\ \A j \in Iocb \ {i} : FateOf(c, j) = FateOf(x, j)
  <2>1. /\ kind \in Kinds /\ Steady(x, kind) /\ c = Complete(x, "complete")
        /\ i = Head(x.on["active"]) /\ "complete" \in Final
    BY <1>1, <1>3, <1>6
  <2>2. QED
    BY ONLY <2>1, <1>8, CompleteStep
<1>10. c.working = c.active
  BY <1>1, <1>5, <1>9 DEF w
<1>11. c.on["pending"] # <<>> => c.enabled
  BY <1>1, <1>5, <1>7, <1>9, PlaceFacts DEF Busy
<1>12. Sound(io', kind) /\ \A j \in Iocb : Carries(io', c, j)
  BY <1>1, <1>2, <1>9, <1>10, <1>11, StartStep
<1>13. Kept
  <2>1. ASSUME NEW j \in Iocb PROVE Promise!Follows(j, FateOf(io, j), FateOf(io', j))
    <3>1. CASE j = i
      BY <3>1, <1>6, <1>9, <1>12 DEF Carries, Promise!Follows
    <3>2. CASE j # i
      BY <3>2, <1>6, <1>9, <1>12 DEF Carries, Promise!Follows
    <3>3. QED
      BY <3>1, <3>2
  <2>2. QED
    BY <2>1 DEF Kept
<1>14. QED
  BY <1>12, <1>13
LEMMA ResultKept ==
  ASSUME IInv, Result
  PROVE  Sound(io', kind) /\ Kept
<1> DEFINE r == [io EXCEPT !.mailbox = Tail(@)]
           i == Head(io.mailbox)
           m == Tail(io.mailbox)
<1>1. /\ kind \in Kinds /\ Blocks(io) /\ Counts(io, kind) /\ Powered(io, kind) /\ Busy(io, kind)
      /\ io.working = io.active /\ io \in Device /\ io.mailbox \in Seq(Iocb)
  BY DeviceFacts DEF IInv, Sound, Steady, Blocks
<1>2. io' = r /\ io.mailbox # <<>>
  BY DEF Result
<1>3. /\ i \in Iocb /\ m \in Seq(Iocb) /\ Contains(io.mailbox, i)
      /\ \A y : Contains(m, y) => Contains(io.mailbox, y)
      /\ \A y : Contains(io.mailbox, y) => Contains(m, y) \/ y = i
  <2> DEFINE s == io.mailbox
  <2>1. s \in Seq(Iocb) /\ s # <<>> /\ i = Head(s) /\ m = Tail(s)
    BY <1>1, <1>2
  <2> HIDE DEF s, m, i
  <2>2. /\ i \in Iocb /\ m \in Seq(Iocb) /\ Contains(s, i)
        /\ \A y : Contains(m, y) => Contains(s, y)
        /\ \A y : Contains(s, y) => Contains(m, y) \/ y = i
    BY ONLY <2>1, TailContains
  <2>3. QED
    BY <2>2 DEF s
<1>12. r = [io EXCEPT !.mailbox = m]
  OBVIOUS
<1> HIDE DEF m, i, r
<1>4. r = [on |-> io.on, active |-> io.active, enabled |-> io.enabled,
           powerState |-> io.powerState, working |-> io.working, ioState |-> io.ioState,
           timerSet |-> io.timerSet, timer |-> io.timer, mailbox |-> m,
           handled |-> io.handled]
  BY <1>1, <1>12 DEF Device
<1>5. r \in Device
  BY <1>1, <1>3, <1>4, DeviceFacts DEF Device
<1>6. /\ r.on = io.on /\ r.active = io.active /\ r.powerState = io.powerState
      /\ r.working = io.working /\ r.ioState = io.ioState /\ r.timerSet = io.timerSet
      /\ r.timer = io.timer /\ r.handled = io.handled /\ r.mailbox = m
  BY ONLY <1>4
<1>7. r.enabled = io.enabled
  BY ONLY <1>4, Zenon
<1>8. ASSUME NEW j \in Iocb
      PROVE  Tells(r, j) /\ Promise!Follows(j, FateOf(io, j), FateOf(r, j))
  <2>1. Tells(io, j)
    BY <1>1 DEF Blocks
  <2>2. Tells(r, j)
    BY <2>1, <1>3, <1>6 DEF Tells, Queued
  <2>3. CASE Contains(m, j) <=> Contains(io.mailbox, j)
    <3>1. FateOf(r, j) = FateOf(io, j)
      BY <2>3, <1>6 DEF FateOf
    <3>2. QED
      BY <2>2, <3>1 DEF Promise!Follows
  <2>4. CASE ~Contains(m, j) /\ Contains(io.mailbox, j)
    <3>1. j \notin Handled /\ io.ioState[j] \in Final /\ io.handled[j] = "no"
      BY <2>1, <2>4 DEF Tells
    <3>2. \A p \in Place : ~Contains(io.on[p], j)
      BY <1>1, <2>4, FateFacts DEF Queued
    <3>3. FateOf(io, j) = io.ioState[j] /\ FateOf(r, j) = "idle"
      BY <2>4, <3>1, <3>2, <1>6, PlaceFacts DEF FateOf
    <3>4. QED
      BY <2>2, <3>1, <3>3 DEF Promise!Follows, Promise!Statuses, Final
  <2>5. QED
    BY <2>3, <2>4, <1>3
<1>9. Blocks(r)
  BY <1>1, <1>5, <1>6, <1>8 DEF Blocks
<1>10. Counts(r, kind) /\ Powered(r, kind) /\ Busy(r, kind) /\ r.working = r.active
  BY <1>1, <1>6, <1>7 DEF Counts, Powered, Busy
<1>11. QED
  BY <1>2, <1>8, <1>9, <1>10 DEF Sound, Steady, Kept

LEMMA ReuseKept ==
  ASSUME IInv, NEW i \in Iocb, Reuse(i)
  PROVE  Sound(io', kind) /\ Kept
<1> DEFINE r == [io EXCEPT !.handled[i] = "no"]
           h == [io.handled EXCEPT ![i] = "no"]
<1>1. /\ kind \in Kinds /\ Blocks(io) /\ Counts(io, kind) /\ Powered(io, kind) /\ Busy(io, kind)
      /\ io.working = io.active /\ io \in Device /\ io.handled \in [Iocb -> Final \cup {"no"}]
  BY DeviceFacts DEF IInv, Sound, Steady, Blocks
<1>2. io' = r /\ io.handled[i] # "no"
  BY DEF Reuse
<1>3. /\ h \in [Iocb -> Final \cup {"no"}] /\ h[i] = "no"
      /\ \A j \in Iocb \ {i} : h[j] = io.handled[j]
  BY <1>1
<1>12. r = [io EXCEPT !.handled = h]
  OBVIOUS
<1> HIDE DEF h, r
<1>4. r = [on |-> io.on, active |-> io.active, enabled |-> io.enabled,
           powerState |-> io.powerState, working |-> io.working, ioState |-> io.ioState,
           timerSet |-> io.timerSet, timer |-> io.timer, mailbox |-> io.mailbox,
           handled |-> h]
  BY <1>1, <1>12 DEF Device
<1>5. r \in Device
  BY <1>1, <1>3, <1>4, DeviceFacts DEF Device
<1>6. /\ r.on = io.on /\ r.active = io.active /\ r.powerState = io.powerState
      /\ r.working = io.working /\ r.ioState = io.ioState /\ r.timerSet = io.timerSet
      /\ r.timer = io.timer /\ r.handled = h /\ r.mailbox = io.mailbox
  BY ONLY <1>4
<1>7. r.enabled = io.enabled
  BY ONLY <1>4, Zenon
<1>8. ASSUME NEW j \in Iocb
      PROVE  Tells(r, j) /\ Promise!Follows(j, FateOf(io, j), FateOf(r, j))
  <2>1. Tells(io, j)
    BY <1>1 DEF Blocks
  <2>2. Tells(r, j)
    BY <2>1, <1>3, <1>6 DEF Tells, Queued
  <2>3. CASE j # i
    <3>1. FateOf(r, j) = FateOf(io, j)
      BY <2>3, <1>3, <1>6 DEF FateOf
    <3>2. QED
      BY <2>2, <3>1 DEF Promise!Follows
  <2>4. CASE j = i
    <3>1. io.handled[j] \in Final /\ ~Queued(io, j) /\ ~Contains(io.mailbox, j) /\ h[j] = "no"
      BY <2>1, <2>4, <1>1, <1>2, <1>3 DEF Tells
    <3>2. \A p \in Place : ~Contains(io.on[p], j)
      BY <3>1 DEF Queued
    <3>3. FateOf(io, j) = io.handled[j] /\ FateOf(r, j) = "idle"
      BY <2>4, <3>1, <3>2, <1>2, <1>6, PlaceFacts DEF FateOf
    <3>4. QED
      BY <2>2, <3>1, <3>3 DEF Promise!Follows, Promise!Statuses, Final
  <2>5. QED
    BY <2>3, <2>4
<1>9. Blocks(r)
  BY <1>1, <1>5, <1>6, <1>8 DEF Blocks
<1>10. Counts(r, kind) /\ Powered(r, kind) /\ Busy(r, kind) /\ r.working = r.active
  BY <1>1, <1>6, <1>7 DEF Counts, Powered, Busy
<1>11. QED
  BY <1>2, <1>8, <1>9, <1>10 DEF Sound, Steady, Kept

\* A timer that expires, or is served, changes no fate by itself.
LEMMA TimerStep ==
  ASSUME kind \in Kinds, Sound(io, kind), NEW i \in Iocb, io.timer[i] # "off",
         NEW v \in {"off", "due"}, NEW r, r = [io EXCEPT !.timer[i] = v]
  PROVE  /\ Sound(r, kind) /\ r.ioState = io.ioState
         /\ \A j \in Iocb : FateOf(r, j) = FateOf(io, j)
<1>1. /\ Blocks(io) /\ Counts(io, kind) /\ Powered(io, kind) /\ Busy(io, kind)
      /\ io.working = io.active /\ io \in Device
  BY DEF Sound, Steady, Blocks
<1>2. /\ r \in Device
      /\ r.on = io.on /\ r.active = io.active /\ r.enabled = io.enabled
      /\ r.powerState = io.powerState /\ r.working = io.working /\ r.ioState = io.ioState
      /\ r.timerSet = io.timerSet /\ r.mailbox = io.mailbox /\ r.handled = io.handled
      /\ r.timer[i] = v /\ \A j \in Iocb \ {i} : r.timer[j] = io.timer[j]
  BY <1>1, TimerFields
<1>3. ASSUME NEW j \in Iocb PROVE Tells(r, j)
  <2>1. Tells(io, j)
    BY <1>1 DEF Blocks
  <2>2. r.timer[j] = io.timer[j] \/ (r.timer[j] # "set" /\ io.timer[j] # "off")
    BY <1>2
  <2>3. QED
    BY <2>1, <2>2, <1>2 DEF Tells, Queued
<1>4. \A j \in Iocb : FateOf(r, j) = FateOf(io, j)
  BY <1>2 DEF FateOf
<1>5. Blocks(r)
  BY <1>1, <1>2, <1>3 DEF Blocks
<1>6. QED
  BY <1>1, <1>2, <1>4, <1>5 DEF Sound, Steady, Counts, Powered, Busy

LEMMA TimerISRKept ==
  ASSUME IInv, NEW i \in Iocb, TimerISR(i)
  PROVE  Sound(io', kind) /\ Kept
<1>1. io' = [io EXCEPT !.timer[i] = "due"] /\ io.timer[i] # "off"
  BY DEF TimerISR
<1>2. Sound(io', kind) /\ \A j \in Iocb : FateOf(io', j) = FateOf(io, j)
  BY <1>1, TimerStep DEF IInv
<1>3. QED
  BY <1>2, SameKept

LEMMA TimerTaskKept ==
  ASSUME IInv, HandledApart, NEW i \in Iocb, TimerTask(i)
  PROVE  Sound(io', kind) /\ Kept
<1> DEFINE x == [io EXCEPT !.timer[i] = "off"]
<1>1. io' = CancelIO(x, i, "timeout") /\ io.timer[i] = "due"
  BY DEF TimerTask
<1>2. kind \in Kinds /\ Sound(io, kind) /\ "timeout" \in Final
  BY DEF IInv, Final
<1>3. /\ Sound(x, kind) /\ x.ioState = io.ioState
      /\ \A j \in Iocb : FateOf(x, j) = FateOf(io, j)
  BY <1>1, <1>2, TimerStep
<1>4. i \notin Handled
  BY <1>1, <1>2 DEF Sound, Steady, Blocks, Tells, HandledApart
<1> HIDE DEF x
<1>5. Sound(io', kind) /\ Ended(io', x, i, "timeout")
  BY <1>1, <1>2, <1>3, <1>4, CancelStep
<1>6. Ended(io', io, i, "timeout")
  BY <1>3, <1>5 DEF Ended, Carries
<1>7. QED
  BY <1>1, <1>5, <1>6, EndedKept
-----------------------------------------------------------------------------
(* The theorems.                                                           *)

LEMMA InitSound == Init => IInv
<1> SUFFICES ASSUME Init PROVE IInv
  OBVIOUS
<1> DEFINE on == [p \in Place |-> <<>>]
           st == [i \in Iocb |-> "new"]
           ts == [i \in Iocb |-> FALSE]
           tm == [i \in Iocb |-> "off"]
           hd == [i \in Iocb |-> "no"]
           mb == <<>>
<1>1. io = [on |-> on, active |-> 0, enabled |-> FALSE, powerState |-> "unknown",
            working |-> 0, ioState |-> st, timerSet |-> ts, timer |-> tm,
            mailbox |-> mb, handled |-> hd]
  BY DEF Init
<1>2. /\ on \in [Place -> Seq(Iocb)] /\ st \in [Iocb -> Final \cup {"new", "pending", "active"}]
      /\ ts \in [Iocb -> BOOLEAN] /\ tm \in [Iocb -> {"off", "set", "due"}]
      /\ hd \in [Iocb -> Final \cup {"no"}] /\ mb \in Seq(Iocb)
  OBVIOUS
<1>3. /\ \A p \in Place : on[p] = <<>>
      /\ \A i \in Iocb : st[i] = "new" /\ tm[i] = "off" /\ hd[i] = "no"
      /\ mb = <<>>
  OBVIOUS
<1> HIDE DEF on, st, ts, tm, hd, mb
<1>4. /\ io.on = on /\ io.active = 0 /\ io.powerState = "unknown"
      /\ io.working = 0 /\ io.ioState = st /\ io.timer = tm
      /\ io.mailbox = mb /\ io.handled = hd
  BY ONLY <1>1
<1>5. ~io.enabled
  BY ONLY <1>1, Zenon
<1>6. io \in Device
  BY <1>1, <1>2 DEF Device
<1>7. (\A y : ~Contains(<<>>, y)) /\ Len(<<>>) = 0
  BY DEF Contains
<1>8. Table(io.on, Place, Iocb)
  BY <1>2, <1>3, <1>4 DEF Table, Once
<1>9. \A i \in Iocb : Tells(io, i)
  BY <1>3, <1>4, <1>7, PlaceFacts DEF Tells, Queued, Final
<1>10. kind \in Kinds
  BY DEF Init
<1>11. Counts(io, kind) /\ Powered(io, kind) /\ Busy(io, kind)
  BY <1>3, <1>4, <1>5, <1>7, <1>10, PlaceFacts, KindFacts DEF Counts, Powered, Busy
<1>12. pc \in [Task -> {"user", "cancelling", "disabling", "disable"}]
  BY DEF Init
<1>13. QED
  BY <1>4, <1>6, <1>8, <1>9, <1>10, <1>11, <1>12 DEF IInv, Sound, Steady, Blocks

\* Where the tasks are.
LEMMA GotoKept ==
  ASSUME NEW t \in Task, NEW step \in {"user", "cancelling", "disabling", "disable"},
         pc \in [Task -> {"user", "cancelling", "disabling", "disable"}], Goto(t, step)
  PROVE  kind' = kind /\ pc' \in [Task -> {"user", "cancelling", "disabling", "disable"}]
BY DEF Goto

LEMMA NextKept ==
  ASSUME IInv, HandledApart, Next
  PROVE  IInv' /\ Kept
<1>1. /\ Sound(io, kind) /\ kind \in Kinds
      /\ pc \in [Task -> {"user", "cancelling", "disabling", "disable"}]
      /\ Canceller \subseteq Task
  BY QIOAssumption DEF IInv
<1>2. SUFFICES /\ Sound(io', kind) /\ Kept
               /\ kind' = kind
               /\ pc' \in [Task -> {"user", "cancelling", "disabling", "disable"}]
  BY <1>1 DEF IInv
<1>3. ASSUME NEW t \in Task, NEW i \in Iocb, NEW timeout \in BOOLEAN, Queue(t, i, timeout)
      PROVE  /\ Sound(io', kind) /\ Kept /\ kind' = kind
             /\ pc' \in [Task -> {"user", "cancelling", "disabling", "disable"}]
  <2>1. Sound(io', kind) /\ Kept
    BY <1>3, QueueEnabled, QueueDisabled
  <2>2. Goto(t, "user")
    BY <1>3 DEF Queue
  <2>3. QED
    BY <2>1, <2>2, <1>1, GotoKept
<1>4. ASSUME NEW t \in Task, NEW i \in Iocb, Cancel(t, i)
      PROVE  /\ Sound(io', kind) /\ Kept /\ kind' = kind
             /\ pc' \in [Task -> {"user", "cancelling", "disabling", "disable"}]
  <2>1. Goto(t, "user")
    BY <1>4 DEF Cancel
  <2>2. QED
    BY <1>1, <1>4, <2>1, CancelKept, GotoKept
<1>5. ASSUME NEW t \in Canceller, NEW step \in {"cancelling", "disabling"}, CancelAll(t, step)
      PROVE  /\ Sound(io', kind) /\ Kept /\ kind' = kind
             /\ pc' \in [Task -> {"user", "cancelling", "disabling", "disable"}]
  <2>1. Goto(t, step) /\ t \in Task /\ step \in {"user", "cancelling", "disabling", "disable"}
    BY <1>1, <1>5 DEF CancelAll
  <2>2. QED
    BY <1>1, <1>5, <2>1, CancelAllKept, GotoKept
<1>6. ASSUME NEW t \in Canceller, CancelNext(t)
      PROVE  /\ Sound(io', kind) /\ Kept /\ kind' = kind
             /\ pc' \in [Task -> {"user", "cancelling", "disabling", "disable"}]
  <2> DEFINE step == pc[t]
  <2>1. Goto(t, step) /\ t \in Task /\ step \in {"user", "cancelling", "disabling", "disable"}
    BY <1>1, <1>6 DEF CancelNext
  <2> HIDE DEF step
  <2>2. QED
    BY <1>1, <1>6, <2>1, CancelNextKept, GotoKept
<1>7. ASSUME NEW t \in Canceller, CancelEnd(t)
      PROVE  /\ Sound(io', kind) /\ Kept /\ kind' = kind
             /\ pc' \in [Task -> {"user", "cancelling", "disabling", "disable"}]
  <2> DEFINE step == IF pc[t] = "disabling" THEN "disable" ELSE "user"
  <2>1. /\ Goto(t, step) /\ t \in Task /\ step \in {"user", "cancelling", "disabling", "disable"}
        /\ io' = io
    BY <1>1, <1>7 DEF CancelEnd
  <2> HIDE DEF step
  <2>2. Sound(io', kind) /\ Kept
    BY <1>1, <2>1, SameKept
  <2>3. QED
    BY <1>1, <2>1, <2>2, GotoKept
<1>8. ASSUME NEW t \in Canceller, Disable(t)
      PROVE  /\ Sound(io', kind) /\ Kept /\ kind' = kind
             /\ pc' \in [Task -> {"user", "cancelling", "disabling", "disable"}]
  <2>1. Goto(t, "user") /\ t \in Task
    BY <1>1, <1>8 DEF Disable
  <2>2. QED
    BY <1>1, <1>8, <2>1, DisableKept, GotoKept
<1>9. ASSUME NEW t \in Canceller, Enable(t)
      PROVE  /\ Sound(io', kind) /\ Kept /\ kind' = kind
             /\ pc' \in [Task -> {"user", "cancelling", "disabling", "disable"}]
  <2>1. Goto(t, "user") /\ t \in Task
    BY <1>1, <1>9 DEF Enable
  <2>2. QED
    BY <1>1, <1>9, <2>1, EnableKept, GotoKept
<1>10. CASE Result
  BY <1>1, <1>10, ResultKept DEF Result
<1>11. ASSUME NEW i \in Iocb, Reuse(i)
       PROVE  /\ Sound(io', kind) /\ Kept /\ kind' = kind
              /\ pc' \in [Task -> {"user", "cancelling", "disabling", "disable"}]
  BY <1>1, <1>11, ReuseKept DEF Reuse
<1>12. ASSUME NEW i \in Iocb, TimerISR(i)
       PROVE  /\ Sound(io', kind) /\ Kept /\ kind' = kind
              /\ pc' \in [Task -> {"user", "cancelling", "disabling", "disable"}]
  BY <1>1, <1>12, TimerISRKept DEF TimerISR
<1>13. ASSUME NEW i \in Iocb, TimerTask(i)
       PROVE  /\ Sound(io', kind) /\ Kept /\ kind' = kind
              /\ pc' \in [Task -> {"user", "cancelling", "disabling", "disable"}]
  BY <1>1, <1>13, TimerTaskKept DEF TimerTask
<1>14. CASE DeviceISR
  BY <1>1, <1>14, DeviceKept DEF DeviceISR
<1>15. QED
  BY <1>3, <1>4, <1>5, <1>6, <1>7, <1>8, <1>9, <1>10, <1>11, <1>12, <1>13, <1>14
     DEF Next, CancelSteps

\* The inductive invariant holds of every device, whatever is queued, cancelled,
\* answered and expires, provided that operations whose completion function
\* disposes of them are neither cancelled one by one nor given a timeout
\* (qio.c:308-338 leaves the ioState of such an operation active).
THEOREM QIOInvariance ==
  ASSUME HandledApart
  PROVE  Spec => []IInv
<1>1. Init => IInv
  BY InitSound
<1>2. IInv /\ [Next]_vars => IInv'
  <2>1. SUFFICES ASSUME IInv, [Next]_vars PROVE IInv'
    OBVIOUS
  <2>2. CASE Next
    BY <2>1, <2>2, NextKept
  <2>3. CASE UNCHANGED vars
    BY <2>1, <2>3 DEF vars, IInv
  <2>4. QED
    BY <2>1, <2>2, <2>3
<1>3. QED
  BY <1>1, <1>2, PTL DEF Spec

\* Control blocks, queues, counts and hardware agree (Consistent): ioState says
\* where an operation is, interrupts are not lost count of, and nothing waits for
\* a device that has room (qio.c:97-338).
THEOREM QIOConsistentAlways ==
  ASSUME HandledApart
  PROVE  Spec => []Consistent
<1>1. IInv => Consistent
  <2>1. SUFFICES ASSUME IInv PROVE Consistent
    OBVIOUS
  <2>2. /\ Blocks(io) /\ Counts(io, kind) /\ Busy(io, kind)
        /\ io.working = io.active /\ io \in Device /\ Table(io.on, Place, Iocb)
        /\ kind \in Kinds /\ pc \in [Task -> {"user", "cancelling", "disabling", "disable"}]
    BY <2>1 DEF IInv, Sound, Steady, Blocks
  <2>3. TypeOK
    BY <2>2 DEF TypeOK
  <2>4. StateTellsPlace
    <3>1. Once(io.on, Place)
      BY <2>2 DEF Table
    <3>2. ASSUME NEW i \in Iocb
          PROVE  /\ io.ioState[i] = "pending" <=>
                      \E p \in Place \ {"active"} : Contains(io.on[p], i)
                 /\ i \notin Handled =>
                      (io.ioState[i] = "active" <=> Contains(io.on["active"], i))
                 /\ io.timer[i] = "set" =>
                      io.timerSet[i] /\ \E p \in Place : Contains(io.on[p], i)
      BY <2>2 DEF Blocks, Tells, Queued
    <3>3. QED
      BY <3>1, <3>2 DEF StateTellsPlace
  <2>5. InterruptsCounted /\ KeepsBusy
    BY <2>2 DEF InterruptsCounted, KeepsBusy, Counts, Busy
  <2>6. QED
    BY <2>3, <2>4, <2>5 DEF Consistent
<1>2. QED
  BY <1>1, QIOInvariance, PTL

\* The device has power while it works, and loses it when it is disabled or, where
\* each operation is powered for, with the last one (_QIO_powerUp, _QIO_powerDown).
THEOREM PowerFollowsAlways ==
  ASSUME HandledApart
  PROVE  Spec => []PowerFollows
<1>1. IInv => PowerFollows
  BY DEF IInv, Sound, Steady, Powered, PowerFollows
<1>2. QED
  BY <1>1, QIOInvariance, PTL

\* Every operation has one of the fates the promise knows.
LEMMA FateRange ==
  ASSUME NEW s, Blocks(s), NEW i \in Iocb
  PROVE  FateOf(s, i) \in Promise!Fates
<1>1. Tells(s, i) /\ s.handled[i] \in Final \cup {"no"}
  BY DeviceFacts DEF Blocks
<1>2. QED
  BY <1>1 DEF FateOf, Tells, Final, Promise!Fates, Promise!Statuses

\* Queued I/O keeps its promise (Requests): each operation is answered once, with
\* the status that says what happened to it, and is not started once it has been
\* picked for cancellation (qio.c:97-338).
THEOREM RequestsAnswered ==
  ASSUME HandledApart
  PROVE  Spec => Answered
<1> DEFINE fate    == [i \in Iocb |-> Fate(i)]
           overdue == {i \in Iocb : io.timer[i] = "due"}
<1>1. Init => Promise!Init
  <2>1. SUFFICES ASSUME Init PROVE Promise!Init
    OBVIOUS
  <2>2. \A i \in Iocb : Fate(i) = "idle" /\ io.timer[i] # "due"
    <3>1. /\ \A p \in Place : io.on[p] = <<>>
          /\ io.mailbox = <<>> /\ \A i \in Iocb : io.handled[i] = "no" /\ io.timer[i] = "off"
      BY <2>1 DEF Init
    <3>2. \A y : ~Contains(<<>>, y)
      BY DEF Contains
    <3>3. QED
      BY <3>1, <3>2, PlaceFacts DEF Fate
  <2>3. QED
    BY <2>2 DEF Promise!Init
<1>2. IInv /\ [Next]_vars => [Promise!Next]_<<fate, overdue>>
  <2>1. SUFFICES ASSUME IInv, [Next]_vars PROVE [Promise!Next]_<<fate, overdue>>
    OBVIOUS
  <2>2. CASE UNCHANGED vars
    <3>1. io' = io
      BY <2>2 DEF vars
    <3>2. fate' = fate /\ overdue' = overdue
      BY <3>1 DEF Fate
    <3>3. QED
      BY <3>2
  <2>3. CASE Next
    <3>1. IInv' /\ Kept
      BY <2>1, <2>3, NextKept
    <3>2. Blocks(io')
      BY <3>1 DEF IInv, Sound, Steady
    <3>3. \A i \in Iocb : Fate(i) = FateOf(io, i) /\ Fate(i)' = FateOf(io', i)
      BY DEF Fate, FateOf
    <3>4. \A i \in Iocb : Fate(i)' \in Promise!Fates
      BY <3>2, <3>3, FateRange
    <3>5. \A i \in Iocb : Promise!Follows(i, Fate(i), Fate(i)')
      BY <3>1, <3>3 DEF Kept
    <3>6. Promise!Next
      BY <3>4, <3>5 DEF Promise!Next
    <3>7. QED
      BY <3>6
  <2>4. QED
    BY <2>1, <2>2, <2>3
<1>3. QED
  BY <1>1, <1>2, QIOInvariance, PTL DEF Spec, Answered, Promise!Spec
=============================================================================
