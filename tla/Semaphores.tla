----------------------------- MODULE Semaphores -----------------------------
(***************************************************************************)
(* A counting semaphore of one thread (src/kernel/sem.c; the branches for   *)
(* imported and exported semaphores are left out).  A lock is a semaphore   *)
(* of initial value 1 whose users test and set 1 (src/kernel/lock.c).       *)
(***************************************************************************)
EXTENDS Blocking

CONSTANTS
  sem,      \* the semaphore's wait queue
  Amount,   \* the amounts tested for and set
  Modulus,  \* the value is a uint32_t: 2^32
  Initial   \* the value KRN_initSemaphore gives it

ASSUME SemaphoreAssumption ==
  /\ sem \in Queue
  /\ Modulus \in Nat \ {0}
  /\ Initial \in 0 .. Modulus - 1
  /\ Amount \subseteq 0 .. Modulus - 1
  /\ Amount # {}

VARIABLES
  value,    \* the semaphore's value
  testPar   \* the amount a task is testing for

vars == <<blocking, value, testPar>>

TypeOK ==
  /\ BlockingTypeOK({"test"})
  /\ value \in 0 .. Modulus - 1
  /\ testPar \in [Task -> Amount]

Init ==
  /\ BlockingInit
  /\ value = Initial
  /\ testPar \in {f \in [Task -> Amount] : \A t, u \in Task : f[t] = f[u]}

\* KRN_testSemaphore as far as the raising of the IPL.
TestSemaphore(t, testvalue, timeout) ==
  /\ Begin(t, "test", timeout)
  /\ testPar' = [testPar EXCEPT ![t] = testvalue]
  /\ UNCHANGED value

Testing(t) == Runs(t) /\ pc[t] = "test"

\* Mutated form of Suffices: after a wake the value is not looked at again.
SufficesOnce(t) == testPar[t] <= value \/ timedOut[t] = "running"

Suffices(t) == testPar[t] <= value

\* The three ways through the loop of KRN_testSemaphoreProtected, first and
\* after each wake: the semaphore is claimed,
Claim(t) ==
  /\ Testing(t)
  /\ Suffices(t)
  /\ value' = value - testPar[t]
  /\ Return(t)
  /\ UNCHANGED <<waitq, testPar>>

\* the test fails,
Fail(t) ==
  /\ Testing(t)
  /\ ~Suffices(t)
  /\ timedOut[t] # "running"
  /\ Return(t)
  /\ UNCHANGED <<waitq, value, testPar>>

\* or the task sleeps.
Block(t) ==
  /\ Testing(t)
  /\ ~Suffices(t)
  /\ timedOut[t] = "running"
  /\ SleepOn(t, sem)
  /\ UNCHANGED <<value, testPar>>

\* KRN_testSemaphore with the IPL raised or in an interrupt handler.
TestNow(testvalue) ==
  /\ testvalue <= value
  /\ value' = value - testvalue
  /\ UNCHANGED <<blocking, testPar>>

\* Mutated forms of Unwoken: the first task alone is woken; a task is left
\* asleep when the value is exactly what it asked for.
UnwokenFirst(total) == IF waitq[sem] = <<>> THEN <<>> ELSE Tail(waitq[sem])
UnwokenExact(total) == Sifted(waitq[sem], {t \in Task : testPar[t] >= total})

\* The tasks KRN_setSemaphore leaves asleep: all others may try again, so that
\* the scheduler decides which of them gets the semaphore.
Unwoken(total) == Sifted(waitq[sem], {t \in Task : testPar[t] > total})

\* KRN_setSemaphore, by the running task or in an interrupt handler.
SetSemaphore(increment) ==
  LET total == (value + increment) % Modulus
  IN  /\ value' = total
      /\ waitq' = [waitq EXCEPT ![sem] = Unwoken(total)]
      /\ UNCHANGED <<hold, timer, timedOut, pc, limit, testPar>>

Next ==
  \/ \E t \in Task :
       \/ \E n \in Amount, timeout \in Timeout : TestSemaphore(t, n, timeout)
       \/ Claim(t) \/ Fail(t) \/ Block(t)
  \/ \E n \in Amount : TestNow(n) \/ SetSemaphore(n)
  \/ Around /\ UNCHANGED <<value, testPar>>

Spec == Init /\ [][Next]_vars
-----------------------------------------------------------------------------
(* Properties.                                                             *)

\* A task sleeps only while the value does not cover its request, whatever
\* order sets, tests, expiries and interrupts come in: no wake is lost.
NoneOverlooked ==
  \A t \in Task : AsleepOn(t, sem) => pc[t] = "test" /\ testPar[t] > value

\* The timer lies in the stack frame of the call: it is neither queued nor in
\* the timer task's mailbox once the call has returned.
TimerInCall ==
  \A t \in Task : timer[t] # "off" => pc[t] = "test" /\ limit[t] = "ticks"

Asking  == {t \in Task : pc[t] = "test"}
Expired == {t \in Asking : timedOut[t] = "timedout"}

Promise == INSTANCE Counting WITH
  asking <- Asking, want <- testPar, expired <- Expired

\* The kernel's loop implements the atomic semaphore: never more is granted
\* than was set, the highest priority is served first, a refusal means that
\* the value fell short and the timeout had run out.
KeepsPromise == Promise!Spec
-----------------------------------------------------------------------------
(* Progress, under the fairness module Locks states.                       *)

\* A test with a timeout ends, granted or refused.
TimedTestEnds ==
  \A t \in Task : pc[t] = "test" /\ limit[t] # "forever" ~> pc[t] = "user"

\* A request that stays covered by the value is granted.
CoveredIsGranted ==
  \A t \in Task : pc[t] = "test" /\ testPar[t] <= value
                    ~> pc[t] = "user" \/ testPar[t] > value
=============================================================================
