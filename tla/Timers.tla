-------------------------------- MODULE Timers --------------------------------
(***************************************************************************)
(* The tickless timer queue (src/kernel/timer.c, timtask.c): timers kept in *)
(* expiry order, each holding its delay relative to the one before, the     *)
(* first relative to lastTimer; the timer interrupt that completes the due  *)
(* ones; the compare register that raises it (targets/mips/baseline/tmr.c). *)
(*                                                                          *)
(* The hardware count is clock modulo Word (2^32 in the code); deltaJiffy   *)
(* is unsigned of twice that width.  An action is a section of code that    *)
(* runs with the IPL raised; what comes before TMR_set in it is taken at one *)
(* reading of the count, and TMR_set, which reads the count and the cause    *)
(* register again and again, has actions of its own.                        *)
(***************************************************************************)
EXTENDS Integers, Queues

CONSTANTS
  Timer,        \* timer objects
  Delays,       \* delays a caller may ask for
  Tolerances,   \* tolerances a caller may accept
  ClockSpeed,   \* TMR_clockSpeed(): jiffies per unit of delay
  Word,         \* the count wraps at Word
  MaxSlip,      \* ticks while TMR_set looks and writes once (bound)
  MaxLatency,   \* ticks an interrupt may stay pending (bound)
  StartClock,   \* clock at the start of the behaviour
  MaxClock      \* clock at its end (bound)

ASSUME TimersAssumption ==
  /\ Delays \subseteq Nat /\ Tolerances \subseteq Nat
  /\ ClockSpeed \in Nat \ {0}
  /\ Word \in Nat /\ Word % 4 = 0 /\ Word >= 8
  /\ MaxSlip \in Nat /\ ClockSpeed + 2 * MaxSlip < Word \div 4
  /\ MaxLatency \in Nat
  /\ StartClock \in Nat /\ MaxClock \in Nat /\ StartClock <= MaxClock

VARIABLES
  clock,        \* ticks since the start: the count is clock % Word
  lastTimer,    \* count at the last timer interrupt
  timers,       \* the timer queue
  deltaJiffy,   \* per timer: jiffies after the timer before it
  active,       \* per timer: queued and cancellable
  mailbox,      \* timerMailbox: expired timers waiting for the timer task
  timerExpire,  \* count at which the first timer is due
  compare,      \* the compare register
  pending,      \* ticks the timer interrupt has been pending; -1: it is not
  arming,       \* TMR_set: about to "write" or "check" compare, or "done"
  abstime,      \* the count it asks for
  add,          \* how far it has put off a time already missed; 0: it was not
  slip,         \* ticks since it read the count (bounded)
  earliest,     \* history: clock before which the timer must not expire ...
  latest        \* ... and the last one it may be held back to

vars == <<clock, lastTimer, timers, deltaJiffy, active, mailbox, timerExpire,
          compare, pending, arming, abstime, add, slip, earliest, latest>>

\* Where TMR_set is.
setting == <<arming, abstime, add, slip>>

TypeOK ==
  /\ clock \in 0 .. MaxClock /\ lastTimer \in 0 .. Word - 1
  /\ timers \in Seq(Timer) /\ mailbox \in Seq(Timer)
  /\ deltaJiffy \in [Timer -> 0 .. Word * Word - 1]
  /\ active \in [Timer -> BOOLEAN]
  /\ timerExpire \in 0 .. Word - 1 /\ compare \in 0 .. Word - 1
  /\ pending \in -1 .. MaxLatency
  /\ arming \in {"write", "check", "done"} /\ abstime \in 0 .. Word - 1
  /\ add \in 0 .. ClockSpeed + 2 * MaxSlip /\ slip \in 0 .. MaxSlip
  /\ earliest \in [Timer -> Nat] /\ latest \in [Timer -> Nat]

-----------------------------------------------------------------------------
Count == clock % Word

\* Mutated form of Signed: the difference is taken as unsigned.
Unsigned(x) == x % Word

\* (int32_t) x and (uint64_t) x
Signed(x) == LET r == x % Word IN IF r >= Word \div 2 THEN r - Word ELSE r
Wide(x)   == x % (Word * Word)

\* The deltas d of the first k timers of the queue q, added up.
Total(q, d, k) ==
  LET sum[n \in 0 .. Len(q)] == IF n = 0 THEN 0 ELSE sum[n - 1] + d[q[n]]
  IN  sum[k]

\* Jiffies from the start of the queue to its k-th timer.
UpTo(k) == Total(timers, deltaJiffy, k)

\* How many timers a new one goes behind that is dj jiffies from the start.
Before(dj) == CHOOSE k \in 0 .. Len(timers) :
                /\ k = Len(timers) \/ UpTo(k + 1) >= dj
                /\ \A j \in 0 .. k - 1 : UpTo(j + 1) < dj

\* _KRN_setExpiryCore, time slicing off: at most a quarter word ahead.
Expiry(at) == IF Signed(at - Count) < Word \div 4 THEN at
              ELSE (Count + Word \div 4) % Word

\* TMR_set is called: while an interrupt is pending, for it would be lost, the
\* register is left alone.
SetCompare(busy, at) ==
  /\ arming' = IF busy THEN "done" ELSE "write"
  /\ abstime' = IF busy THEN 0 ELSE at
  /\ add' = 0 /\ slip' = 0

\* The history of a timer that is idle again is of no further interest; nor is
\* the delta of one that has left the queue, which the code lets lie.
Forget(t) ==
  /\ earliest' = [earliest EXCEPT ![t] = 0]
  /\ latest' = [latest EXCEPT ![t] = 0]

-----------------------------------------------------------------------------
Tick ==
  /\ clock < MaxClock
  /\ pending < MaxLatency
  /\ clock' = clock + 1
  /\ pending' = IF pending >= 0 THEN pending + 1
                ELSE IF (clock + 1) % Word = compare THEN 0 ELSE -1
  /\ IF arming = "done" THEN UNCHANGED slip
     ELSE slip < MaxSlip /\ slip' = slip + 1
  /\ UNCHANGED <<lastTimer, timers, deltaJiffy, active, mailbox, timerExpire,
                 compare, arming, abstime, add, earliest, latest>>

\* TMR_set writes the register, which takes back an interrupt raised since.
WriteCompare ==
  /\ arming = "write"
  /\ compare' = abstime
  /\ pending' = -1
  /\ arming' = "check"
  /\ UNCHANGED <<clock, lastTimer, timers, deltaJiffy, active, mailbox,
                 timerExpire, abstime, add, slip, earliest, latest>>

\* Mutated form of CheckCompare: a time gone by is taken for set.
CheckCompareNever ==
  /\ arming = "check"
  /\ arming' = "done" /\ abstime' = 0 /\ slip' = 0
  /\ UNCHANGED <<clock, lastTimer, timers, deltaJiffy, active, mailbox,
                 timerExpire, compare, pending, add, earliest, latest>>

\* TMR_set makes sure that the interrupt will come: a time gone by is put off,
\* each time by twice as much.  The loop looks at the cause register before it
\* reads the count, so that an interrupt between the two is not seen.
CheckCompare ==
  /\ arming = "check"
  /\ \E clear \in {pending < 0} \cup (IF add > 0 THEN {TRUE} ELSE {}) :
       IF clear /\ Signed(Count - abstime) >= 0
         THEN /\ add' = IF add = 0 THEN ClockSpeed ELSE 2 * add
              /\ abstime' = (Count + add') % Word
              /\ arming' = "write" /\ slip' = 0
         ELSE /\ arming' = "done" /\ abstime' = 0 /\ slip' = 0
              /\ UNCHANGED add
  /\ UNCHANGED <<clock, lastTimer, timers, deltaJiffy, active, mailbox,
                 timerExpire, compare, pending, earliest, latest>>

\* KRN_setSoftTimer of a timer that its caller may set, delay > 0.
SetSoftTimer(t, delay, tolerance) ==
  LET delayj == (delay * ClockSpeed) % Word
      tolj   == Wide(Signed(tolerance * ClockSpeed))
      dj     == Wide(Wide(Count - lastTimer) + delayj)
      before == Before(dj)
      delta  == dj - UpTo(before)
      atEnd  == before = Len(timers)
      succ   == timers[before + 1]
      rest   == deltaJiffy[succ] - delta
      merge  == rest < tolj
  IN  /\ arming = "done"
      /\ delay > 0
      /\ active' = [active EXCEPT ![t] = TRUE]
      /\ timers' = InsertAt(timers, before + 1, t)
      /\ deltaJiffy' =
           IF atEnd THEN [deltaJiffy EXCEPT ![t] = delta]
           ELSE [deltaJiffy EXCEPT ![t] = IF merge THEN delta + rest ELSE delta,
                                   ![succ] = IF merge THEN 0 ELSE rest]
      /\ IF before = 0
           THEN /\ timerExpire' = (Count + delayj) % Word
                /\ SetCompare(pending >= 0, Expiry(timerExpire'))
           ELSE UNCHANGED <<timerExpire, setting>>
      /\ earliest' = [earliest EXCEPT ![t] = clock + delay * ClockSpeed]
      /\ latest' = [latest EXCEPT ![t] = clock + delay * ClockSpeed +
                      (IF tolerance = 0 THEN 0 ELSE tolerance * ClockSpeed - 1)]
      /\ UNCHANGED <<clock, lastTimer, mailbox, compare, pending>>

\* KRN_setSoftTimer with no delay: straight to the timer task.
SetImmediate(t) ==
  /\ arming = "done"
  /\ 0 \in Delays
  /\ mailbox' = Append(mailbox, t)
  /\ earliest' = [earliest EXCEPT ![t] = clock]
  /\ latest' = [latest EXCEPT ![t] = clock]
  /\ UNCHANGED <<clock, lastTimer, timers, deltaJiffy, active, timerExpire,
                 compare, pending, setting>>

\* Mutated form of Unhooked: the successor does not inherit the jiffies.
UnhookedAlone(i) == [deltaJiffy EXCEPT ![timers[i]] = 0]

\* The deltas once the i-th timer is taken out: its successor inherits its own.
Unhooked(i) ==
  IF i = Len(timers) THEN [deltaJiffy EXCEPT ![timers[i]] = 0]
  ELSE [deltaJiffy EXCEPT ![timers[i]] = 0,
                          ![timers[i + 1]] = Wide(@ + deltaJiffy[timers[i]])]

\* KRN_cancelTimer of an active timer; of any other it does nothing.
CancelTimer(t) ==
  LET i    == SelectInSeq(timers, LAMBDA s : s = t)
      left == RemoveAt(timers, i)
  IN  /\ arming = "done"
      /\ active[t]
      /\ active' = [active EXCEPT ![t] = FALSE]
      /\ timers' = left
      /\ deltaJiffy' = Unhooked(i)
      /\ IF left = <<>> THEN UNCHANGED <<timerExpire, setting>>
         ELSE /\ timerExpire' = (lastTimer + deltaJiffy'[left[1]]) % Word
              /\ SetCompare(pending >= 0, Expiry(timerExpire'))
      /\ Forget(t)
      /\ UNCHANGED <<clock, lastTimer, mailbox, compare, pending>>

\* The interrupt's reading of the count, carried past a wrap.
Now == IF Count < lastTimer THEN Count + Word ELSE Count

At(k) == lastTimer + UpTo(k)

Due(k) == Signed(Now - At(k)) > 0

\* How many timers, from the front, are due.
Done == CHOOSE k \in 0 .. Len(timers) :
          /\ k = Len(timers) \/ ~Due(k + 1)
          /\ \A j \in 1 .. k : Due(j)

\* Mutated form of Completed: expired timers stay cancellable.
CompletedActive(gone) ==
  /\ mailbox' = mailbox \o gone
  /\ UNCHANGED active

\* Expired timers go to the timer task and can no longer be cancelled.
Completed(gone) ==
  /\ mailbox' = mailbox \o gone
  /\ active' = [t \in Timer |-> active[t] /\ ~Contains(gone, t)]

\* _KRN_timerISR: complete the timers that are due, rebase the first of the
\* others on the present, and ask for the next interrupt.
TimerISR ==
  LET gone == SubSeq(timers, 1, Done)
      left == SubSeq(timers, Done + 1, Len(timers))
  IN  /\ arming = "done"
      /\ pending >= 0
      /\ pending' = -1
      /\ timers' = left
      /\ Completed(gone)
      /\ timerExpire' = (IF left = <<>> THEN Now + Word \div 4 ELSE At(Done + 1)) % Word
      /\ deltaJiffy' = [t \in Timer |->
                          IF Contains(gone, t) THEN 0
                          ELSE IF left # <<>> /\ t = left[1]
                            THEN Wide(At(Done + 1) - Now)
                          ELSE deltaJiffy[t]]
      /\ lastTimer' = Count
      /\ SetCompare(FALSE, Expiry(timerExpire'))
      /\ UNCHANGED <<clock, compare, earliest, latest>>

\* KRN_timerTask takes an expired timer and calls its function.
TimerTask ==
  /\ arming = "done"
  /\ mailbox # <<>>
  /\ mailbox' = Tail(mailbox)
  /\ Forget(Head(mailbox))
  /\ UNCHANGED <<clock, lastTimer, timers, deltaJiffy, active, timerExpire,
                 compare, pending, setting>>

-----------------------------------------------------------------------------
\* A timer interrupt has just found nothing to do; the next one is a quarter
\* word away.
Init ==
  /\ clock = StartClock
  /\ lastTimer = Count
  /\ timers = <<>> /\ mailbox = <<>>
  /\ deltaJiffy = [t \in Timer |-> 0]
  /\ active = [t \in Timer |-> FALSE]
  /\ timerExpire = (Count + Word \div 4) % Word
  /\ compare = timerExpire
  /\ pending = -1
  /\ arming = "done" /\ abstime = 0 /\ add = 0 /\ slip = 0
  /\ earliest = [t \in Timer |-> 0]
  /\ latest = [t \in Timer |-> 0]

\* A caller sets only a timer that is neither queued nor with the timer task:
\* DQ_addBefore of a queued one would break the list.
Idle(t) == ~active[t] /\ ~Contains(mailbox, t)

Next ==
  \/ Tick
  \/ WriteCompare
  \/ CheckCompare
  \/ \E t \in Timer, d \in Delays, tol \in Tolerances :
       Idle(t) /\ SetSoftTimer(t, d, tol)
  \/ \E t \in Timer : Idle(t) /\ SetImmediate(t)
  \/ \E t \in Timer : CancelTimer(t)
  \/ TimerISR
  \/ TimerTask

Spec == Init /\ [][Next]_vars

-----------------------------------------------------------------------------
(* Properties.                                                             *)

\* Whatever timers were inserted before or after it, cancelled around it or
\* merged with it, and however often the count has wrapped since the last
\* interrupt, the deltas keep every queued timer at its own count, held back by
\* less than its tolerance.
DeltasExact ==
  \A k \in 1 .. Len(timers) :
    (At(k) - earliest[timers[k]]) % Word <= latest[timers[k]] - earliest[timers[k]]

\* A timer object is on the timer queue exactly while it can be cancelled, and
\* is never both queued and already handed to the timer task.
ActiveIffQueued ==
  /\ TypeOK
  /\ \A t \in Timer : active[t] <=> Contains(timers, t)
  /\ \A t \in Timer : ~(Contains(timers, t) /\ Contains(mailbox, t))
  /\ IsInjective(timers) /\ IsInjective(mailbox)

\* Ticks to the next match of the compare register, and to the count of the
\* first timer.
ToMatch == ((compare - Count - 1) % Word) + 1
Left    == -Signed(Count - At(1))

\* Once TMR_set is done the interrupt for the first timer is never lost, though
\* the count goes by while it writes: the interrupt is pending, or the compare
\* register will match no later than the timer is due, or, due already, no later
\* than it was put off.
InterruptArmed ==
  timers # <<>> /\ arming = "done" =>
    pending >= 0 \/ ToMatch <= (IF Left > 0 THEN Left ELSE 0) + add

\* A timer reaches the timer task only after its delay has gone by.
NeverEarly ==
  [][\A t \in Timer : active[t] /\ Contains(mailbox', t) => clock > earliest[t]]_vars

\* What timer.c:75 says of the queue: it is in the order of the expiry times.
InExpiryOrder ==
  \A j, k \in 1 .. Len(timers) :
    j < k => earliest[timers[j]] <= latest[timers[k]]
=============================================================================
