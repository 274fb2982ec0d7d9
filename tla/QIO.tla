-------------------------------- MODULE QIO ---------------------------------
(***************************************************************************)
(* Queued I/O (src/support/1/qio): a device, the operations queued on it,   *)
(* the interrupts of the device, cancellation and timeouts.  Each section   *)
(* of code with the IPL raised is one step.  The routines called in such a  *)
(* section (QIO_start, QIO_complete, _QIO_cancelIO) call each other, so they*)
(* are functions from the state before to the state after: io is one record.*)
(*                                                                          *)
(* The driver's start function hands an operation to the hardware, which    *)
(* works through what it has in order; its cancel function stops all of it, *)
(* interrupts included.  The timer task is alone at the highest priority: no*)
(* other task runs while it has an expired timer to serve.                  *)
(***************************************************************************)
EXTENDS Integers, FiniteSets, Queues

CONSTANTS
  Iocb,        \* I/O control blocks
  Task,        \* tasks that queue and cancel
  Timed,       \* operations that may have a timeout
  Handled,     \* operations whose completion function disposes of them
  Cancellable, \* operations QIO_cancel is called for
  Canceller,   \* tasks that cancel all operations, enable and disable the device
  Kinds        \* devices: rank, whether there is a cancelFunc, power class

ASSUME QIOAssumption ==
  /\ Timed \subseteq Iocb /\ Handled \subseteq Iocb /\ Cancellable \subseteq Iocb
  /\ Canceller \subseteq Task /\ Task \cap {"pending", "active"} = {}
  /\ \A k \in Kinds : /\ k.rank \in Nat \ {0} /\ k.cancelFunc \in BOOLEAN
                      /\ k.powerClass \in {"none", "coarse", "fine"}

VARIABLES
  io,    \* the device, its operations and the mailbox they are sent to
  pc,    \* what each task is doing
  kind   \* the device, chosen at the start

vars == <<io, pc, kind>>

Final == {"complete", "cancelled", "timeout"}

\* Each canceller has a queue of operations in its stack frame.
Place == {"pending", "active"} \cup Canceller

Device ==
  [on         : [Place -> Seq(Iocb)],  \* the queues
   active     : Int,                   \* dev->active
   enabled    : BOOLEAN,
   powerState : {"unknown", "normal", "save"},
   working    : Nat,                   \* operations the hardware has
   ioState    : [Iocb -> Final \cup {"new", "pending", "active"}],
   timerSet   : [Iocb -> BOOLEAN],
   timer      : [Iocb -> {"off", "set", "due"}],
   mailbox    : Seq(Iocb),
   handled    : [Iocb -> Final \cup {"no"}]]  \* told to the function

TypeOK ==
  /\ io \in Device
  /\ pc \in [Task -> {"user", "cancelling", "disabling", "disable"}]
  /\ kind \in Kinds

-----------------------------------------------------------------------------
(* The routines.                                                           *)

\* _QIO_powerUp, _QIO_powerDown
PowerUp(s) ==
  IF kind.powerClass = "none" THEN s ELSE [s EXCEPT !.powerState = "normal"]

PowerDown(s) ==
  IF kind.powerClass = "fine" \/ (kind.powerClass = "coarse" /\ ~s.enabled)
    THEN [s EXCEPT !.powerState = "save"] ELSE s

\* KRN_cancelTimer does nothing to a timer that has expired.
CancelTimer(s, i) == [s EXCEPT !.timer[i] = IF @ = "set" THEN "off" ELSE @]

\* The completion function is called; unless it returns non-zero the control
\* block goes to the mailbox.
Tell(s, i, status) ==
  IF i \in Handled THEN [s EXCEPT !.handled[i] = status]
  ELSE [s EXCEPT !.mailbox = Append(@, i)]

\* The operations QIO_start starts: those at the head of the pending queue, as
\* many as the device takes.
Begun(s) ==
  LET room == IF s.active < kind.rank THEN kind.rank - s.active ELSE 0
      n    == IF room < Len(s.on["pending"]) THEN room ELSE Len(s.on["pending"])
      S    == ToSet(SubSeq(s.on["pending"], 1, n))
  IN  [s EXCEPT !.on["pending"] = SubSeq(@, n + 1, Len(@)),
                !.on["active"] = @ \o SubSeq(s.on["pending"], 1, n),
                !.active = @ + n, !.working = @ + n,
                !.ioState = [i \in Iocb |-> IF i \in S THEN "active" ELSE @[i]]]

\* QIO_start
Start(s) == IF Begun(s) = s THEN s ELSE PowerUp(Begun(s))

\* Mutated form of Complete: power stays on until the next operation.
CompletePowered(s, status) ==
  LET i == Head(s.on["active"])
      counted == [s EXCEPT !.on = RemoveHead(@, "active"), !.active = @ - 1]
      told    == Tell(counted, i, status)
      stated  == IF i \in Handled THEN told ELSE [told EXCEPT !.ioState[i] = status]
  IN  IF s.timerSet[i] THEN CancelTimer(stated, i) ELSE stated

\* QIO_complete: the oldest active operation.  A completion function that
\* returns non-zero leaves ioState as it is.  When there is no operation the
\* assertion fails; without assertions the code goes on with a NULL pointer.
Complete(s, status) ==
  LET i == Head(s.on["active"])
      counted == [s EXCEPT !.on = RemoveHead(@, "active"), !.active = @ - 1]
      powered == IF counted.active <= 0 THEN PowerDown(counted) ELSE counted
      told    == Tell(powered, i, status)
      stated  == IF i \in Handled THEN told ELSE [told EXCEPT !.ioState[i] = status]
  IN  IF s.on["active"] = <<>> THEN [s EXCEPT !.active = @ - 1]
      ELSE IF s.timerSet[i] THEN CancelTimer(stated, i) ELSE stated

\* The driver's cancelFunc
Stop(s) == [s EXCEPT !.working = 0]

\* Mutated forms of CancelIO: the state of the operation is not looked at; the
\* room an active operation leaves is not used.
CancelIOAnyway(s, i, status) ==
  IF s.ioState[i] = "active" /\ kind.rank = 1 /\ kind.cancelFunc
    THEN Start(Complete(Stop(s), status))
  ELSE Tell([s EXCEPT !.on = Unlinked(@, i), !.ioState[i] = status], i, status)

CancelIONoStart(s, i, status) ==
  IF s.ioState[i] = "pending"
    THEN LET off == [s EXCEPT !.on = Unlinked(@, i), !.ioState[i] = status]
         IN  Tell(IF s.timerSet[i] THEN CancelTimer(off, i) ELSE off, i, status)
  ELSE IF s.ioState[i] = "active" /\ kind.rank = 1 /\ kind.cancelFunc
    THEN Complete(Stop(s), status)
  ELSE s

\* _QIO_cancelIO
CancelIO(s, i, status) ==
  IF s.ioState[i] = "pending"
    THEN LET off == [s EXCEPT !.on = Unlinked(@, i), !.ioState[i] = status]
         IN  Tell(IF s.timerSet[i] THEN CancelTimer(off, i) ELSE off, i, status)
  ELSE IF s.ioState[i] = "active" /\ kind.rank = 1 /\ kind.cancelFunc
    THEN Start(Complete(Stop(s), status))
  ELSE s

\* QIO_complete for the n operations that are active, and _QIO_cancelIO for each
\* of a queue.
CompleteAll(s, n) ==
  LET done[k \in 0 .. n] ==
        IF k = 0 THEN s ELSE Complete(done[k - 1], "cancelled")
  IN  done[n]

CancelEach(s, q) ==
  LET done[k \in 0 .. Len(q)] ==
        IF k = 0 THEN s ELSE CancelIO(done[k - 1], q[k], "cancelled")
  IN  done[Len(q)]

\* The first section of QIO_cancelAll: pending operations are set aside, those
\* the hardware has are cancelled.
SetAside(s, t) ==
  LET aside == [s EXCEPT !.on[t] = @ \o s.on["pending"], !.on["pending"] = <<>>]
  IN  IF kind.cancelFunc /\ s.active > 0 THEN CompleteAll(Stop(aside), s.active)
      ELSE aside

\* _QIO_cancelAllProtected
CancelAllProtected(s, t) ==
  LET aside == SetAside(s, t) IN CancelEach(aside, aside.on[t])
-----------------------------------------------------------------------------
(* The calls.                                                              *)

\* The timer task has nothing to do.
Settled == \A i \in Iocb : io.timer[i] # "due"

At(t, step) == Settled /\ pc[t] = step

Goto(t, step) == pc' = [pc EXCEPT ![t] = step] /\ UNCHANGED kind

\* The control block is the application's: the last operation has been answered
\* and the answer taken.
Free(i) ==
  /\ \A p \in Place : ~Contains(io.on[p], i)
  /\ ~Contains(io.mailbox, i) /\ io.handled[i] = "no"

\* QIO_qio.  On a device that is not enabled the operation is cancelled at once,
\* and so is its timer.
Queue(t, i, timeout) ==
  LET armed == [io EXCEPT !.timerSet[i] = timeout,
                          !.timer[i] = IF timeout THEN "set" ELSE @]
  IN  /\ At(t, "user") /\ Free(i)
      /\ timeout => i \in Timed
      /\ io' = IF io.enabled
                 THEN Start([armed EXCEPT !.ioState[i] = "pending",
                                          !.on = AddTail(@, "pending", i)])
               ELSE LET told == Tell([armed EXCEPT !.ioState[i] = "cancelled"],
                                     i, "cancelled")
                    IN  IF timeout THEN CancelTimer(told, i) ELSE told
      /\ Goto(t, "user")

\* QIO_cancel, of an operation that may be over by now.
Cancel(t, i) ==
  /\ At(t, "user") /\ i \in Cancellable /\ io.ioState[i] # "new"
  /\ io' = CancelIO(io, i, "cancelled")
  /\ Goto(t, "user")

\* QIO_cancelAll, called by the application or by QIO_disable: the first section,
\* and then one operation at a time.
CancelAll(t, step) ==
  /\ At(t, "user")
  /\ step \in {"cancelling", "disabling"}
  /\ io' = SetAside(io, t)
  /\ Goto(t, step)

CancelNext(t) ==
  /\ Settled /\ pc[t] \in {"cancelling", "disabling"} /\ io.on[t] # <<>>
  /\ io' = CancelIO(io, Head(io.on[t]), "cancelled")
  /\ Goto(t, pc[t])

CancelEnd(t) ==
  /\ Settled /\ pc[t] \in {"cancelling", "disabling"} /\ io.on[t] = <<>>
  /\ UNCHANGED io
  /\ Goto(t, IF pc[t] = "disabling" THEN "disable" ELSE "user")

\* The last section of QIO_disable.
Disable(t) ==
  LET off == [CancelAllProtected(io, t) EXCEPT !.enabled = FALSE]
  IN  /\ At(t, "disable")
      /\ io' = IF off.active <= 0 THEN PowerDown(off) ELSE off
      /\ Goto(t, "user")

\* QIO_enable
Enable(t) ==
  LET on == [io EXCEPT !.enabled = TRUE]
  IN  /\ At(t, "user")
      /\ io' = IF kind.powerClass = "coarse" THEN PowerUp(on) ELSE on
      /\ Goto(t, "user")

\* QIO_result: the consumer takes the answer and reads its status.
Result ==
  /\ Settled /\ io.mailbox # <<>>
  /\ io' = [io EXCEPT !.mailbox = Tail(@)]
  /\ UNCHANGED <<pc, kind>>

\* A control block its completion function has returned to a pool is taken again.
Reuse(i) ==
  /\ Settled /\ io.handled[i] # "no"
  /\ io' = [io EXCEPT !.handled[i] = "no"]
  /\ UNCHANGED <<pc, kind>>

\* The device interrupts: defaultISRFunction.
DeviceISR ==
  /\ io.working > 0
  /\ io' = Start(Complete([io EXCEPT !.working = @ - 1], "complete"))
  /\ UNCHANGED <<pc, kind>>

\* Mutated form of TimerTask: the expiry is dropped.
TimerTaskIdle(i) ==
  /\ io.timer[i] = "due"
  /\ io' = [io EXCEPT !.timer[i] = "off"]
  /\ UNCHANGED <<pc, kind>>

\* _KRN_timerISR finds the timer of an operation expired; the timer task calls
\* _QIO_timeout.
TimerISR(i) ==
  /\ io.timer[i] = "set"
  /\ io' = [io EXCEPT !.timer[i] = "due"]
  /\ UNCHANGED <<pc, kind>>

TimerTask(i) ==
  /\ io.timer[i] = "due"
  /\ io' = CancelIO([io EXCEPT !.timer[i] = "off"], i, "timeout")
  /\ UNCHANGED <<pc, kind>>

-----------------------------------------------------------------------------
\* QIO_init
Init ==
  /\ io = [on |-> [p \in Place |-> <<>>], active |-> 0, enabled |-> FALSE,
           powerState |-> "unknown", working |-> 0,
           ioState |-> [i \in Iocb |-> "new"],
           timerSet |-> [i \in Iocb |-> FALSE],
           timer |-> [i \in Iocb |-> "off"],
           mailbox |-> <<>>, handled |-> [i \in Iocb |-> "no"]]
  /\ pc = [t \in Task |-> "user"]
  /\ kind \in Kinds

CancelSteps(t) == CancelNext(t) \/ CancelEnd(t) \/ Disable(t)

Next ==
  \/ \E t \in Task, i \in Iocb :
       \/ \E timeout \in BOOLEAN : Queue(t, i, timeout)
       \/ Cancel(t, i)
  \/ \E t \in Canceller :
       \/ \E step \in {"cancelling", "disabling"} : CancelAll(t, step)
       \/ CancelSteps(t)
       \/ Enable(t)
  \/ Result
  \/ \E i \in Iocb : Reuse(i) \/ TimerISR(i) \/ TimerTask(i)
  \/ DeviceISR

\* Time passes, the timer task gets the processor first, and a task that has
\* begun to cancel goes on.  Nothing is said of the hardware.
Fairness ==
  /\ \A i \in Iocb : WF_vars(TimerISR(i)) /\ WF_vars(TimerTask(i))
  /\ \A t \in Canceller : SF_vars(CancelSteps(t))

Spec == Init /\ [][Next]_vars /\ Fairness

-----------------------------------------------------------------------------
(* Properties.                                                             *)

Fate(i) ==
  IF Contains(io.on["pending"], i) THEN "waiting"
  ELSE IF Contains(io.on["active"], i) THEN "started"
  ELSE IF \E t \in Canceller : Contains(io.on[t], i) THEN "picked"
  ELSE IF Contains(io.mailbox, i) THEN io.ioState[i]
  ELSE IF io.handled[i] # "no" THEN io.handled[i]
  ELSE "idle"

\* Whatever is cancelled, expires, completes and is queued again in whatever
\* order, each operation is answered once, the status found in the mailbox is the
\* one it was answered with, and says what has happened to it (qio.c:97-338).
Promise == INSTANCE Requests WITH
  fate <- [i \in Iocb |-> Fate(i)],
  overdue <- {i \in Iocb : io.timer[i] = "due"}
Answered == Promise!Spec

\* ioState, by which QIO_cancel and the timeout decide what to do with a control
\* block, says where it is: on one queue, of the device or of a canceller, or on
\* none, and no timer runs that was not set for the operation on it.
StateTellsPlace ==
  /\ Once(io.on, Place)
  /\ \A i \in Iocb :
       /\ io.ioState[i] = "pending" <=>
            \E p \in Place \ {"active"} : Contains(io.on[p], i)
       /\ i \notin Handled =>
            (io.ioState[i] = "active" <=> Contains(io.on["active"], i))
       /\ io.timer[i] = "set" =>
            io.timerSet[i] /\ \E p \in Place : Contains(io.on[p], i)

\* The hardware works on as many operations as the driver counts and as are on
\* the active queue, never on more than it takes.
InterruptsCounted ==
  /\ io.working = io.active
  /\ io.active = Len(io.on["active"])
  /\ io.active <= kind.rank

\* Nothing waits for a device that has room, and nothing for one that is disabled.
KeepsBusy ==
  io.on["pending"] # <<>> => io.enabled /\ io.active = kind.rank

\* "check we haven't lost count of interrupts" (qio.c:318): whatever is queued,
\* cancelled, completed and expires in between, control blocks, queues, counts and
\* hardware agree.
Consistent == TypeOK /\ StateTellsPlace /\ InterruptsCounted /\ KeepsBusy

\* The device has power while it works and, where power is managed by the whole
\* device, while it is enabled; it loses power when it is disabled, or with the
\* last of the operations that could not be cancelled.
PowerFollows ==
  kind.powerClass # "none" =>
    /\ io.active > 0 => io.powerState = "normal"
    /\ io.enabled /\ kind.powerClass = "coarse" => io.powerState = "normal"
    /\ io.active = 0 /\ (~io.enabled \/ kind.powerClass = "fine") =>
         io.powerState # "normal"

\* A timeout ends an operation that waits, and one the hardware never answers if
\* the device takes one at a time and can be stopped (qio.xml, QIO_qio).
TimeoutEnds ==
  \A i \in Timed :
    /\ io.ioState[i] = "pending" /\ io.timer[i] = "set" ~> io.ioState[i] # "pending"
    /\ (/\ Contains(io.on["active"], i) /\ io.timer[i] = "set"
        /\ kind.rank = 1 /\ kind.cancelFunc) ~> ~Contains(io.on["active"], i)

\* QIO_cancelAll and QIO_disable return, however many operations others queue
\* meanwhile.
CancelEnds == \A t \in Canceller : pc[t] # "user" ~> pc[t] = "user"

\* What has been given a time, or told to stop, ends even if the hardware is dead.
EndsInTime == TimeoutEnds /\ CancelEnds
=============================================================================
