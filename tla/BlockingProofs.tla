--------------------------- MODULE BlockingProofs ---------------------------
(* What tasks block on, with any tasks, priorities and queues.  Semaphores of  *)
(* any amounts: their invariants, and their refinement of the abstract         *)
(* semaphore of module Counting.  Locks, which are semaphores of one unit      *)
(* (LockConstants).  Rings of any size, where they are used as Disciplined     *)
(* says.  A mailbox or pool, event flags and a synchronisation object with any *)
(* items, flags and calls, used in any combination: their invariants, and what *)
(* their calls return, with every timeout.  KRN_sync leaves the timer of a     *)
(* caller that slept as it is (src/kernel/sync.c); what the other calls do     *)
(* with theirs is shown of the tasks that give KRN_sync no positive timeout.   *)
EXTENDS Locks, Rings, Objects, QueueLemmas, FiniteSetTheorems

-----------------------------------------------------------------------------
(* The inductive invariant.  NoneOverlooked and TimerInCall hold up only       *)
(* together with what they say nothing of: where tasks sleep, that none is on  *)
(* its way to a queue, and what timedOut means to a call.                      *)

WellLinked == Table(waitq, Queue, Task)

\* The semaphore is the only object here that tasks sleep on.
OneQueue == \A t \in Task, q \in Queue : AsleepOn(t, q) => q = sem

\* Tasks are linked at once, and none is waiting for the scheduler to do it.
NoneHeld == \A t \in Task : hold[t] = None

\* timedOut is KRN_ZERO only in a call with a zero timeout.
ZeroMeansZero ==
  \A t \in Task : pc[t] = "test" /\ timedOut[t] = "zero" => limit[t] = "zero"

IInv ==
  /\ TypeOK
  /\ WellLinked
  /\ OneQueue
  /\ NoneHeld
  /\ NoneOverlooked
  /\ TimerInCall
  /\ ZeroMeansZero

\* A task in a call is not asleep elsewhere, and goes on with its call.
LEMMA RousedInCall ==
  ASSUME NEW S, pc \in [Task -> S], NEW t \in Task, pc[t] # "away", pc' = Roused(t)
  PROVE  pc' = pc
BY DEF Roused

\* Amounts and values can be compared.
LEMMA AmountsAreNumbers ==
  ASSUME TypeOK
  PROVE  value \in Int /\ \A t \in Task : testPar[t] \in Int
<1>1. Modulus \in Int
  BY SemaphoreAssumption
<1>2. value \in Int
  BY <1>1 DEF TypeOK
<1>3. Amount \subseteq Int
  BY <1>1, SemaphoreAssumption
<1>4. QED
  BY <1>2, <1>3 DEF TypeOK

\* At the start nobody calls, sleeps or has a timer.
LEMMA InitIInv == Init => IInv
<1>1. SUFFICES ASSUME Init PROVE IInv
  OBVIOUS
<1>2. /\ waitq = [q \in Queue |-> <<>>] /\ hold = [t \in Task |-> None]
      /\ timer = [t \in Task |-> "off"] /\ timedOut = [t \in Task |-> "running"]
      /\ pc = [t \in Task |-> "user"] /\ limit = [t \in Task |-> "zero"]
      /\ value = Initial /\ testPar \in [Task -> Amount]
  BY <1>1 DEF Init, BlockingInit
<1>3. \A q \in Queue : \A x : ~Contains(waitq[q], x)
  BY <1>2 DEF Contains
<1>4. waitq \in [Queue -> Seq(Task)]
  BY <1>2
<1>5. WellLinked
  BY <1>2, <1>4 DEF WellLinked, Table, Once
<1>6. TypeOK
  BY <1>2, <1>4, SemaphoreAssumption DEF TypeOK, BlockingTypeOK, Timeout
<1>7. OneQueue /\ NoneOverlooked
  BY <1>3, SemaphoreAssumption DEF OneQueue, NoneOverlooked, AsleepOn
<1>8. NoneHeld /\ TimerInCall /\ ZeroMeansZero
  BY <1>2 DEF NoneHeld, TimerInCall, ZeroMeansZero
<1>9. QED
  BY <1>5, <1>6, <1>7, <1>8 DEF IInv
-----------------------------------------------------------------------------
(* The steps.                                                                *)

\* Nothing is to show of the queues for a step that leaves them alone,
LEMMA QueuesAlone ==
  ASSUME IInv, UNCHANGED <<waitq, hold>>
  PROVE  WellLinked' /\ OneQueue' /\ NoneHeld'
<1>1. WellLinked'
  BY DEF IInv, WellLinked
<1>2. OneQueue'
  BY DEF IInv, OneQueue, AsleepOn
<1>3. NoneHeld'
  BY DEF IInv, NoneHeld
<1>4. QED
  BY <1>1, <1>2, <1>3

\* and little for one that only takes tasks off them.
LEMMA QueuesShrink ==
  ASSUME IInv, Table(waitq', Queue, Task), UNCHANGED hold,
         \A q \in Queue : \A y : Contains(waitq'[q], y) => Contains(waitq[q], y)
  PROVE  WellLinked' /\ OneQueue' /\ NoneHeld'
<1>1. WellLinked'
  BY DEF WellLinked
<1>2. OneQueue'
  BY DEF IInv, OneQueue, AsleepOn
<1>3. NoneHeld'
  BY DEF IInv, NoneHeld
<1>4. QED
  BY <1>1, <1>2, <1>3

\* A task that runs is not asleep, and nothing is left to the timer task.
LEMMA RunningIsAwake ==
  ASSUME IInv, NEW t \in Task, Runs(t)
  PROVE  ~AsleepOn(t, sem) /\ \A u \in Task : timer[u] # "due"
BY SemaphoreAssumption DEF Runs, Ready, Asleep, Settled

\* The call begins.
LEMMA TestSemaphoreKeepsIInv ==
  ASSUME IInv, NEW t \in Task, NEW n \in Amount, NEW timeout \in Timeout,
         TestSemaphore(t, n, timeout)
  PROVE  IInv'
<1>1. /\ pc[t] = "user" /\ UNCHANGED <<waitq, hold, value>>
      /\ timedOut' = [timedOut EXCEPT ![t] = IF timeout = "zero" THEN "zero" ELSE "running"]
      /\ timer' = IF timeout = "ticks" THEN [timer EXCEPT ![t] = "set"] ELSE timer
      /\ limit' = [limit EXCEPT ![t] = timeout]
      /\ pc' = [pc EXCEPT ![t] = "test"]
      /\ testPar' = [testPar EXCEPT ![t] = n]
  BY DEF TestSemaphore, Begin, Armed
<1>2. TypeOK
  BY DEF IInv
<1>3. TypeOK'
  BY <1>1, <1>2 DEF TypeOK, BlockingTypeOK
<1>4. NoneOverlooked'
  <2>1. SUFFICES ASSUME NEW u \in Task, Contains(waitq[sem], u)
                 PROVE  pc'[u] = "test" /\ testPar'[u] > value
    BY <1>1 DEF NoneOverlooked, AsleepOn
  <2>2. pc[u] = "test" /\ testPar[u] > value
    BY <2>1 DEF IInv, NoneOverlooked, AsleepOn
  <2>3. u # t
    BY <1>1, <2>2
  <2>4. QED
    BY <1>1, <1>2, <2>2, <2>3 DEF TypeOK, BlockingTypeOK
<1>5. TimerInCall'
  BY <1>1, <1>2 DEF IInv, TimerInCall, TypeOK, BlockingTypeOK
<1>6. ZeroMeansZero'
  BY <1>1, <1>2 DEF IInv, ZeroMeansZero, TypeOK, BlockingTypeOK
<1>7. QED
  BY <1>1, <1>3, <1>4, <1>5, <1>6, QueuesAlone DEF IInv

\* The call ends: its timer is off, and the value may have been lowered.
LEMMA ReturnKeepsIInv ==
  ASSUME IInv, NEW t \in Task, Testing(t), Return(t), UNCHANGED <<waitq, testPar>>,
         value' \in 0 .. Modulus - 1, value' <= value
  PROVE  IInv'
<1>1. TypeOK /\ pc[t] = "test" /\ ~AsleepOn(t, sem) /\ timer[t] # "due"
  BY RunningIsAwake DEF Testing, IInv
<1>2. /\ UNCHANGED <<waitq, hold, timedOut, limit, testPar>>
      /\ timer' = IF limit[t] = "ticks"
                    THEN [timer EXCEPT ![t] = IF timer[t] = "set" THEN "off" ELSE timer[t]]
                    ELSE timer
      /\ pc' = [pc EXCEPT ![t] = "user"]
  BY DEF Return, Restored, Cancelled
<1>3. TypeOK'
  BY <1>1, <1>2 DEF TypeOK, BlockingTypeOK
<1>4. NoneOverlooked'
  <2>1. SUFFICES ASSUME NEW u \in Task, Contains(waitq[sem], u)
                 PROVE  pc'[u] = "test" /\ testPar[u] > value'
    BY <1>2 DEF NoneOverlooked, AsleepOn
  <2>2. pc[u] = "test" /\ testPar[u] > value /\ u # t
    BY <1>1, <2>1 DEF IInv, NoneOverlooked, AsleepOn
  <2>3. value \in Int /\ value' \in Int /\ testPar[u] \in Int
    BY <1>1, <1>3, AmountsAreNumbers DEF TypeOK
  <2>4. pc'[u] = "test"
    BY <1>1, <1>2, <2>2 DEF TypeOK, BlockingTypeOK
  <2>5. QED
    BY <2>2, <2>3, <2>4
<1>5. TimerInCall'
  <2>1. timer'[t] = "off"
    BY <1>1, <1>2 DEF IInv, TimerInCall, TypeOK, BlockingTypeOK
  <2>2. QED
    BY <1>1, <1>2, <2>1 DEF IInv, TimerInCall, TypeOK, BlockingTypeOK
<1>6. ZeroMeansZero'
  BY <1>1, <1>2 DEF IInv, ZeroMeansZero, TypeOK, BlockingTypeOK
<1>7. QED
  BY <1>2, <1>3, <1>4, <1>5, <1>6, QueuesAlone DEF IInv


\* KRN_testSemaphore where it cannot sleep.
LEMMA TestNowKeepsIInv ==
  ASSUME IInv, NEW n \in Amount, TestNow(n)
  PROVE  IInv'
<1>1. TypeOK /\ n \in 0 .. Modulus - 1 /\ Modulus \in Nat
  BY SemaphoreAssumption DEF IInv
<1>2. /\ UNCHANGED <<waitq, hold, timer, timedOut, pc, limit, testPar>>
      /\ n <= value /\ value' = value - n
  BY DEF TestNow, blocking
<1>3. value' \in 0 .. Modulus - 1 /\ value' <= value
  BY <1>1, <1>2 DEF TypeOK
<1>4. TypeOK'
  BY <1>1, <1>2, <1>3 DEF TypeOK, BlockingTypeOK
<1>5. NoneOverlooked'
  <2>1. value \in Int /\ value' \in Int /\ \A u \in Task : testPar[u] \in Int
    BY <1>1, <1>3, AmountsAreNumbers DEF TypeOK
  <2>2. QED
    BY <1>2, <1>3, <2>1 DEF IInv, NoneOverlooked, AsleepOn
<1>6. TimerInCall' /\ ZeroMeansZero'
  BY <1>2 DEF IInv, TimerInCall, ZeroMeansZero
<1>7. QED
  BY <1>2, <1>4, <1>5, <1>6, QueuesAlone DEF IInv

\* The task sleeps: it had looked at the value in the same critical section.
LEMMA BlockKeepsIInv ==
  ASSUME IInv, NEW t \in Task, Block(t)
  PROVE  IInv'
<1>1. /\ UNCHANGED <<hold, timer, timedOut, pc, limit, value, testPar>>
      /\ waitq' = AddTail(Unlinked(waitq, t), sem, t)
      /\ pc[t] = "test" /\ ~(testPar[t] <= value)
  BY DEF Block, Testing, Suffices, SleepOn
<1>2. TypeOK /\ WellLinked /\ sem \in Queue
  BY SemaphoreAssumption DEF IInv
<1> DEFINE off == Unlinked(waitq, t)
<1>3. Table(off, Queue, Task) /\ Drops(off, waitq, Queue, t)
  BY <1>2, UnlinkedTable DEF WellLinked
<1>4. Off(off, Queue, t)
  BY <1>3 DEF Off, Drops
<1>5. Table(waitq', Queue, Task) /\ Adds(waitq', off, Queue, sem, t)
  <2> HIDE DEF off
  <2>1. waitq' = AddTail(off, sem, t)
    BY <1>1 DEF off
  <2>2. QED
    BY <1>2, <1>3, <1>4, <2>1, AddTailTable
<1>6. \A q \in Queue, u \in Task :
        AsleepOn(u, q)' => AsleepOn(u, q) \/ (u = t /\ q = sem)
  <2> HIDE DEF off
  <2> QED BY <1>3, <1>5 DEF Drops, Adds, AsleepOn
<1>7. TypeOK'
  BY <1>1, <1>2, <1>5 DEF TypeOK, BlockingTypeOK, Table
<1>8. NoneOverlooked'
  <2>1. testPar[t] \in Int /\ value \in Int
    BY <1>2, AmountsAreNumbers DEF TypeOK
  <2>2. testPar[t] > value
    BY <1>1, <2>1
  <2>3. ASSUME NEW u \in Task, AsleepOn(u, sem)'
        PROVE  pc'[u] = "test" /\ testPar'[u] > value'
    <3>1. CASE u = t
      BY <3>1, <1>1, <2>2
    <3>2. CASE AsleepOn(u, sem)
      BY <3>2, <1>1 DEF IInv, NoneOverlooked
    <3>3. QED
      BY <3>1, <3>2, <2>3, <1>2, <1>6
  <2>4. QED
    BY <2>3 DEF NoneOverlooked
<1>9. OneQueue'
  BY <1>6 DEF IInv, OneQueue
<1>10. WellLinked'
  BY <1>5 DEF WellLinked
<1>11. NoneHeld' /\ TimerInCall' /\ ZeroMeansZero'
  BY <1>1 DEF IInv, NoneHeld, TimerInCall, ZeroMeansZero
<1>12. QED
  BY <1>7, <1>8, <1>9, <1>10, <1>11 DEF IInv

\* The value is raised, and whoever it covers now is woken.  It may wrap: who
\* stays asleep is judged by the value there is afterwards.
LEMMA SetSemaphoreKeepsIInv ==
  ASSUME IInv, NEW n \in Amount, SetSemaphore(n)
  PROVE  IInv'
<1>1. TypeOK /\ WellLinked /\ n \in 0 .. Modulus - 1 /\ Modulus \in Nat \ {0} /\ sem \in Queue
  BY SemaphoreAssumption DEF IInv
<1> DEFINE X == {u \in Task : testPar[u] > value'}
<1>2. /\ UNCHANGED <<hold, timer, timedOut, pc, limit, testPar>>
      /\ value' = (value + n) % Modulus
      /\ waitq' = [waitq EXCEPT ![sem] = Sifted(waitq[sem], X)]
  BY DEF SetSemaphore, Unwoken
<1>3. value' \in 0 .. Modulus - 1
  BY <1>1, <1>2 DEF TypeOK
<1>4. /\ Table(waitq', Queue, Task)
      /\ \A q \in Queue : \A y :
           Contains(waitq'[q], y) <=> Contains(waitq[q], y) /\ (q # sem \/ y \in X)
  <2> HIDE DEF X
  <2> QED BY <1>1, <1>2, SiftedTable DEF WellLinked
<1>5. TypeOK'
  BY <1>1, <1>2, <1>3, <1>4 DEF TypeOK, BlockingTypeOK, Table
<1>6. NoneOverlooked'
  <2>1. SUFFICES ASSUME NEW u \in Task, Contains(waitq'[sem], u)
                 PROVE  pc'[u] = "test" /\ testPar'[u] > value'
    BY DEF NoneOverlooked, AsleepOn
  <2>2. Contains(waitq[sem], u) /\ u \in X
    BY <1>1, <1>4, <2>1
  <2>3. QED
    BY <1>2, <2>2 DEF IInv, NoneOverlooked, AsleepOn
<1>7. TimerInCall' /\ ZeroMeansZero'
  BY <1>2 DEF IInv, TimerInCall, ZeroMeansZero
<1>8. QED
  BY <1>2, <1>4, <1>5, <1>6, <1>7, QueuesShrink DEF IInv

\* A timer expires.
LEMMA TimerISRKeepsIInv ==
  ASSUME IInv, NEW t \in Task, TimerISR(t), UNCHANGED <<value, testPar>>
  PROVE  IInv'
<1>1. /\ UNCHANGED <<waitq, hold, timedOut, pc, limit, value, testPar>>
      /\ timer[t] = "set" /\ timer' = [timer EXCEPT ![t] = "due"]
  BY DEF TimerISR
<1>2. TypeOK'
  BY <1>1 DEF IInv, TypeOK, BlockingTypeOK
<1>3. NoneOverlooked' /\ ZeroMeansZero'
  BY <1>1 DEF IInv, NoneOverlooked, ZeroMeansZero, AsleepOn
<1>4. TimerInCall'
  BY <1>1 DEF IInv, TimerInCall, TypeOK, BlockingTypeOK
<1>5. QED
  BY <1>1, <1>2, <1>3, <1>4, QueuesAlone DEF IInv

\* The timer task takes a task off its queue.
LEMMA TimeoutWakeKeepsIInv ==
  ASSUME IInv, NEW t \in Task, TimeoutWake(t), UNCHANGED <<value, testPar>>
  PROVE  IInv'
<1>0. /\ UNCHANGED <<hold, limit, value, testPar>> /\ pc' = Roused(t)
      /\ timer[t] = "due" /\ timer' = [timer EXCEPT ![t] = "off"]
      /\ timedOut' = [timedOut EXCEPT ![t] = "timedout"]
      /\ waitq' = Unlinked(waitq, t)
  BY DEF TimeoutWake
<1>1. /\ UNCHANGED <<hold, pc, limit, value, testPar>>
      /\ timer[t] = "due" /\ timer' = [timer EXCEPT ![t] = "off"]
      /\ timedOut' = [timedOut EXCEPT ![t] = "timedout"]
      /\ waitq' = Unlinked(waitq, t)
  BY <1>0, RousedInCall DEF IInv, TimerInCall, TypeOK, BlockingTypeOK
<1>2. Table(waitq', Queue, Task) /\ Drops(waitq', waitq, Queue, t)
  BY <1>1, UnlinkedTable DEF IInv, WellLinked
<1>3. \A q \in Queue : \A y : Contains(waitq'[q], y) => Contains(waitq[q], y)
  BY <1>2 DEF Drops
<1>4. TypeOK'
  BY <1>1, <1>2 DEF IInv, TypeOK, BlockingTypeOK, Table
<1>5. NoneOverlooked'
  BY <1>1, <1>3, SemaphoreAssumption DEF IInv, NoneOverlooked, AsleepOn
<1>6. TimerInCall' /\ ZeroMeansZero'
  BY <1>1 DEF IInv, TimerInCall, ZeroMeansZero, TypeOK, BlockingTypeOK
<1>7. QED
  BY <1>1, <1>2, <1>3, <1>4, <1>5, <1>6, QueuesShrink DEF IInv

\* A task goes to sleep elsewhere.
LEMMA LeaveKeepsIInv ==
  ASSUME IInv, NEW t \in Task, Leave(t), UNCHANGED <<value, testPar>>
  PROVE  IInv'
<1>1. /\ UNCHANGED <<waitq, hold, timer, timedOut, limit, value, testPar>>
      /\ pc[t] = "user" /\ pc' = [pc EXCEPT ![t] = "away"]
  BY DEF Leave
<1>2. TypeOK'
  BY <1>1 DEF IInv, TypeOK, BlockingTypeOK
<1>3. \A u \in Task : pc[u] = "test" <=> pc'[u] = "test"
  BY <1>1 DEF IInv, TypeOK, BlockingTypeOK
<1>4. NoneOverlooked' /\ TimerInCall' /\ ZeroMeansZero'
  BY <1>1, <1>3 DEF IInv, NoneOverlooked, TimerInCall, ZeroMeansZero, AsleepOn
<1>5. QED
  BY <1>1, <1>2, <1>4, QueuesAlone DEF IInv

\* A task is resumed, be it asleep here, elsewhere or not at all.
LEMMA ResumeKeepsIInv ==
  ASSUME IInv, NEW t \in Task, Resume(t), UNCHANGED <<value, testPar>>
  PROVE  IInv'
<1>1. /\ UNCHANGED <<timer, timedOut, limit, value, testPar>>
      /\ waitq' = Unlinked(waitq, t)
      /\ hold' = [hold EXCEPT ![t] = None]
      /\ pc' = [pc EXCEPT ![t] = IF pc[t] = "away" THEN "user" ELSE pc[t]]
  BY DEF Resume, Roused
<1>2. hold' = hold
  BY <1>1 DEF IInv, NoneHeld, TypeOK, BlockingTypeOK
<1>3. Table(waitq', Queue, Task) /\ Drops(waitq', waitq, Queue, t)
  BY <1>1, UnlinkedTable DEF IInv, WellLinked
<1>4. \A q \in Queue : \A y : Contains(waitq'[q], y) => Contains(waitq[q], y)
  BY <1>3 DEF Drops
<1>5. TypeOK'
  BY <1>1, <1>2, <1>3 DEF IInv, TypeOK, BlockingTypeOK, Table
<1>6. \A u \in Task : pc[u] = "test" <=> pc'[u] = "test"
  BY <1>1 DEF IInv, TypeOK, BlockingTypeOK
<1>7. NoneOverlooked'
  BY <1>1, <1>4, <1>6, SemaphoreAssumption DEF IInv, NoneOverlooked, AsleepOn
<1>8. TimerInCall' /\ ZeroMeansZero'
  BY <1>1, <1>6 DEF IInv, TimerInCall, ZeroMeansZero
<1>9. QED
  BY <1>2, <1>3, <1>4, <1>5, <1>7, <1>8, QueuesShrink DEF IInv
-----------------------------------------------------------------------------
(* The invariants.                                                           *)

\* Every step keeps the invariant.
LEMMA NextKeepsIInv ==
  ASSUME IInv, [Next]_vars
  PROVE  IInv'
<1>1. CASE UNCHANGED vars
  <2>1. UNCHANGED <<waitq, hold, timer, timedOut, pc, limit, value, testPar>>
    BY <1>1 DEF vars, blocking
  <2>2. QED
    BY <2>1 DEF IInv, TypeOK, BlockingTypeOK, WellLinked, OneQueue, NoneHeld,
                NoneOverlooked, TimerInCall, ZeroMeansZero, AsleepOn
<1>2. ASSUME NEW t \in Task, NEW n \in Amount, NEW timeout \in Timeout,
             TestSemaphore(t, n, timeout)
      PROVE  IInv'
  BY <1>2, TestSemaphoreKeepsIInv
<1>3. ASSUME NEW t \in Task, Claim(t) PROVE IInv'
  <2>1. /\ Testing(t) /\ Return(t) /\ UNCHANGED <<waitq, testPar>>
        /\ testPar[t] <= value /\ value' = value - testPar[t]
    BY <1>3 DEF Claim, Suffices
  <2>2. testPar[t] \in 0 .. Modulus - 1 /\ value \in 0 .. Modulus - 1 /\ Modulus \in Nat
    BY SemaphoreAssumption DEF IInv, TypeOK
  <2>3. value' \in 0 .. Modulus - 1 /\ value' <= value
    BY <2>1, <2>2
  <2>4. QED
    BY <2>1, <2>3, ReturnKeepsIInv
<1>4. ASSUME NEW t \in Task, Fail(t) PROVE IInv'
  <2>1. Testing(t) /\ Return(t) /\ UNCHANGED <<waitq, value, testPar>>
    BY <1>4 DEF Fail
  <2>2. value' \in 0 .. Modulus - 1 /\ value' <= value
    BY <2>1, SemaphoreAssumption DEF IInv, TypeOK
  <2>3. QED
    BY <2>1, <2>2, ReturnKeepsIInv
<1>5. ASSUME NEW t \in Task, Block(t) PROVE IInv'
  BY <1>5, BlockKeepsIInv
<1>6. ASSUME NEW n \in Amount, TestNow(n) \/ SetSemaphore(n) PROVE IInv'
  BY <1>6, TestNowKeepsIInv, SetSemaphoreKeepsIInv
<1>7. ASSUME Around, UNCHANGED <<value, testPar>> PROVE IInv'
  <2>1. PICK t \in Task : TimerISR(t) \/ TimeoutWake(t) \/ Leave(t) \/ Resume(t)
    BY <1>7 DEF Around
  <2>2. QED
    BY <2>1, <1>7, TimerISRKeepsIInv, TimeoutWakeKeepsIInv, LeaveKeepsIInv, ResumeKeepsIInv
<1>8. QED
  BY <1>1, <1>2, <1>3, <1>4, <1>5, <1>6, <1>7 DEF Next

\* The inductive invariant holds in every reachable state.
THEOREM SemaphoreInvariance == Spec => []IInv
<1>1. IInv /\ [Next]_vars => IInv'
  BY NextKeepsIInv
<1>2. QED
  BY <1>1, InitIInv, PTL DEF Spec

\* The fields of the semaphore and of the tasks that use it keep their types;
\* the value never leaves the range of a uint32_t.
THEOREM SemaphoreTypes == Spec => []TypeOK
<1>1. IInv => TypeOK
  BY DEF IInv
<1>2. QED
  BY <1>1, SemaphoreInvariance, PTL

\* A task is asleep on the semaphore only while the value does not cover what it
\* asked for, in whatever order KRN_testSemaphore, KRN_setSemaphore, expiries and
\* resumes come.
THEOREM NoneOverlookedAlways == Spec => []NoneOverlooked
<1>1. IInv => NoneOverlooked
  BY DEF IInv
<1>2. QED
  BY <1>1, SemaphoreInvariance, PTL

\* The timer in the stack frame of KRN_testSemaphore does not outlive the call.
THEOREM TimerInCallAlways == Spec => []TimerInCall
<1>1. IInv => TimerInCall
  BY DEF IInv
<1>2. QED
  BY <1>1, SemaphoreInvariance, PTL
-----------------------------------------------------------------------------
(* The refinement: KRN_testSemaphore's loop implements the atomic semaphore.   *)

\* The request is made when the IPL is raised.
LEMMA TestSemaphoreAsks ==
  ASSUME IInv, NEW t \in Task, NEW n \in Amount, NEW timeout \in Timeout,
         TestSemaphore(t, n, timeout)
  PROVE  Promise!Ask(t, n, timeout)
<1>1. /\ pc[t] = "user" /\ UNCHANGED value
      /\ timedOut' = [timedOut EXCEPT ![t] = IF timeout = "zero" THEN "zero" ELSE "running"]
      /\ limit' = [limit EXCEPT ![t] = timeout]
      /\ pc' = [pc EXCEPT ![t] = "test"]
      /\ testPar' = [testPar EXCEPT ![t] = n]
  BY DEF TestSemaphore, Begin, Armed
<1>2. TypeOK
  BY DEF IInv
<1>3. Asking' = Asking \cup {t} /\ t \notin Asking
  BY <1>1, <1>2 DEF Asking, TypeOK, BlockingTypeOK
<1>4. Expired' = Expired \ {t}
  BY <1>1, <1>2 DEF Asking, Expired, TypeOK, BlockingTypeOK
<1>5. QED
  BY <1>1, <1>3, <1>4 DEF Promise!Ask

\* When a call returns the request is gone.
LEMMA ReturnEnds ==
  ASSUME IInv, NEW t \in Task, Testing(t), Return(t)
  PROVE  /\ t \in Asking /\ Asking' = Asking \ {t} /\ Expired' = Expired \ {t}
         /\ UNCHANGED limit
<1>1. /\ pc[t] = "test" /\ pc' = [pc EXCEPT ![t] = "user"]
      /\ UNCHANGED <<timedOut, limit>> /\ TypeOK
  BY DEF Testing, Return, IInv
<1>2. Asking' = Asking \ {t} /\ t \in Asking
  BY <1>1 DEF Asking, TypeOK, BlockingTypeOK
<1>3. Expired' = Expired \ {t}
  BY <1>1, <1>2 DEF Expired
<1>4. QED
  BY <1>1, <1>2, <1>3

\* A claim is granted: whoever has a higher priority and a request is asleep, or
\* it would run in the claimant's place, so the value does not cover its request.
LEMMA ClaimGrants ==
  ASSUME IInv, NEW t \in Task, Claim(t)
  PROVE  Promise!Grant(t)
<1>1. /\ Testing(t) /\ Return(t) /\ UNCHANGED testPar
      /\ testPar[t] <= value /\ value' = value - testPar[t]
  BY DEF Claim, Suffices
<1>2. ASSUME NEW u \in Asking, Priority[u] > Priority[t]
      PROVE  testPar[u] > value
  <2>1. u \in Task /\ pc[u] = "test"
    BY DEF Asking
  <2>2. ~Ready(u)
    <3>1. Ready(u) => Priority[u] <= Priority[t]
      BY <1>1, <2>1 DEF Testing, Runs
    <3>2. Priority[u] \in Int /\ Priority[t] \in Int
      BY <2>1, BlockingAssumption
    <3>3. QED
      BY <3>1, <3>2, <1>2
  <2>3. PICK q \in Queue : AsleepOn(u, q)
    BY <2>1, <2>2 DEF Ready, Asleep
  <2>4. AsleepOn(u, sem)
    BY <2>1, <2>3 DEF IInv, OneQueue
  <2>5. QED
    BY <2>1, <2>4 DEF IInv, NoneOverlooked
<1>3. QED
  BY <1>1, <1>2, ReturnEnds DEF Promise!Grant

\* A test fails only if the value falls short and the timeout, if it was not
\* zero, ran out during this very call.
LEMMA FailRefuses ==
  ASSUME IInv, NEW t \in Task, Fail(t)
  PROVE  Promise!Refuse(t)
<1>1. /\ Testing(t) /\ Return(t) /\ UNCHANGED <<value, testPar>>
      /\ ~(testPar[t] <= value) /\ timedOut[t] # "running"
  BY DEF Fail, Suffices
<1>2. testPar[t] > value
  <2>1. testPar[t] \in Int /\ value \in Int
    BY AmountsAreNumbers DEF IInv
  <2>2. QED
    BY <1>1, <2>1
<1>3. limit[t] = "zero" \/ t \in Expired
  <2>1. timedOut[t] = "timedout" \/ timedOut[t] = "zero"
    BY <1>1 DEF IInv, TypeOK, BlockingTypeOK
  <2>2. QED
    BY <1>1, <2>1 DEF IInv, ZeroMeansZero, Testing, Asking, Expired
<1>4. QED
  BY <1>1, <1>2, <1>3, ReturnEnds DEF Promise!Refuse

\* Only the timer of a call in progress expires.
LEMMA TimeoutWakeExpires ==
  ASSUME IInv, NEW t \in Task, TimeoutWake(t), UNCHANGED <<value, testPar>>
  PROVE  Promise!Expire(t)
<1>1. /\ timer[t] = "due" /\ UNCHANGED <<pc, limit, value, testPar>>
      /\ timedOut' = [timedOut EXCEPT ![t] = "timedout"]
  BY RousedInCall DEF TimeoutWake, IInv, TimerInCall, TypeOK, BlockingTypeOK
<1>2. pc[t] = "test" /\ limit[t] = "ticks"
  BY <1>1 DEF IInv, TimerInCall
<1>3. Asking' = Asking /\ t \in Asking
  BY <1>1, <1>2 DEF Asking
<1>4. Expired' = Expired \cup {t}
  BY <1>1, <1>3 DEF IInv, TypeOK, BlockingTypeOK, Expired, Asking
<1>5. QED
  BY <1>1, <1>2, <1>3, <1>4 DEF Promise!Expire

\* Who asks, and who of them has timed out, is nobody else's to change.
LEMMA OthersStutter ==
  ASSUME IInv, NEW t \in Task,
         Block(t) \/ ((TimerISR(t) \/ Leave(t) \/ Resume(t)) /\ UNCHANGED <<value, testPar>>)
  PROVE  UNCHANGED Promise!vars
<1>1. UNCHANGED <<value, testPar, limit, timedOut>>
  BY DEF Block, SleepOn, TimerISR, Leave, Resume
<1>2. \A u \in Task : pc'[u] = "test" <=> pc[u] = "test"
  BY DEF IInv, TypeOK, BlockingTypeOK, Block, SleepOn, TimerISR, Leave, Resume, Roused
<1>3. Asking' = Asking
  BY <1>2 DEF Asking
<1>4. Expired' = Expired
  BY <1>1, <1>3 DEF Expired
<1>5. QED
  BY <1>1, <1>3, <1>4 DEF Promise!vars

\* KRN_testSemaphore and KRN_setSemaphore implement the semaphore of module
\* Counting: nothing is granted that was not set, priority decides who is served,
\* and a refusal means that the value fell short when the timeout had run out.
THEOREM SemaphoreKeepsPromise == Spec => KeepsPromise
<1>1. Init => Promise!Init
  <2>1. SUFFICES ASSUME Init PROVE Promise!Init
    OBVIOUS
  <2>2. /\ value = Initial /\ testPar \in [Task -> Amount]
        /\ pc = [t \in Task |-> "user"] /\ limit = [t \in Task |-> "zero"]
    BY <2>1 DEF Init, BlockingInit
  <2>3. Asking = {} /\ Expired = {}
    BY <2>2 DEF Asking, Expired
  <2>4. QED
    BY <2>2, <2>3 DEF Promise!Init
<1>2. IInv /\ [Next]_vars => [Promise!Next]_(Promise!vars)
  <2>1. SUFFICES ASSUME IInv, [Next]_vars PROVE Promise!Next \/ UNCHANGED Promise!vars
    OBVIOUS
  <2>2. CASE UNCHANGED vars
    BY <2>2 DEF vars, blocking, Promise!vars, Asking, Expired
  <2>3. ASSUME NEW t \in Task, NEW n \in Amount, NEW timeout \in Timeout,
               TestSemaphore(t, n, timeout)
        PROVE  Promise!Next
    BY <2>1, <2>3, TestSemaphoreAsks DEF Promise!Next, Timeout
  <2>4. ASSUME NEW t \in Task, Claim(t) \/ Fail(t) PROVE Promise!Next
    BY <2>1, <2>4, ClaimGrants, FailRefuses DEF Promise!Next
  <2>5. ASSUME NEW t \in Task, Block(t) PROVE UNCHANGED Promise!vars
    BY <2>1, <2>5, OthersStutter
  <2>6. ASSUME NEW n \in Amount, TestNow(n) \/ SetSemaphore(n) PROVE Promise!Next
    <3>1. UNCHANGED <<testPar, limit, pc, timedOut>>
      BY <2>6 DEF TestNow, SetSemaphore, blocking
    <3>2. Asking' = Asking /\ Expired' = Expired
      BY <3>1 DEF Asking, Expired
    <3>3. CASE TestNow(n)
      BY <3>1, <3>2, <3>3 DEF TestNow, Promise!Try, Promise!Next
    <3>4. CASE SetSemaphore(n)
      BY <3>1, <3>2, <3>4 DEF SetSemaphore, Promise!Give, Promise!Next
    <3>5. QED
      BY <2>6, <3>3, <3>4
  <2>7. ASSUME Around, UNCHANGED <<value, testPar>>
        PROVE  Promise!Next \/ UNCHANGED Promise!vars
    <3>1. PICK t \in Task : TimerISR(t) \/ TimeoutWake(t) \/ Leave(t) \/ Resume(t)
      BY <2>7 DEF Around
    <3>2. CASE TimeoutWake(t)
      BY <2>1, <2>7, <3>2, TimeoutWakeExpires DEF Promise!Next
    <3>3. CASE TimerISR(t) \/ Leave(t) \/ Resume(t)
      BY <2>1, <2>7, <3>3, OthersStutter
    <3>4. QED
      BY <3>1, <3>2, <3>3
  <2>8. QED
    BY <2>1, <2>2, <2>3, <2>4, <2>5, <2>6, <2>7 DEF Next
<1>3. QED
  BY <1>1, <1>2, SemaphoreInvariance, PTL DEF Spec, KeepsPromise, Promise!Spec
-----------------------------------------------------------------------------
(* Locks.                                                                  *)

\* KRN_lock and KRN_unlock are uses of a semaphore.
LEMMA LockSteps ==
  ASSUME LockConstants
  PROVE  [LockNext]_lockVars => [Next]_vars
<1>1. SUFFICES ASSUME LockNext PROVE Next
  BY DEF lockVars
<1>2. 1 \in Amount
  BY DEF LockConstants
<1>3. ASSUME NEW t \in Task,
             \/ \E timeout \in Timeout : Lock(t, timeout)
             \/ Locked(t) \/ NotLocked(t) \/ Unlock(t)
      PROVE  Next
  BY <1>2, <1>3 DEF Lock, Locked, NotLocked, Unlock, Next
<1>4. ASSUME Around /\ UNCHANGED <<value, testPar, holders>> PROVE Next
  BY <1>4 DEF Next
<1>5. QED
  BY <1>1, <1>3, <1>4 DEF LockNext

\* src/kernel/lock.c uses the semaphore as src/kernel/sem.c means it to be used.
THEOREM LocksAreSemaphores ==
  ASSUME LockConstants
  PROVE  LockSpec => Spec
<1>1. LockInit => Init
  BY DEF LockInit
<1>2. QED
  BY <1>1, LockSteps, PTL DEF LockSpec, Spec

\* The one unit goes from the semaphore to a holder and back.
LEMMA LockNextKeepsExclusion ==
  ASSUME LockConstants, TypeOK, MutualExclusion, [LockNext]_lockVars
  PROVE  MutualExclusion'
<1>1. ASSUME UNCHANGED <<value, holders>> PROVE MutualExclusion'
  BY <1>1 DEF MutualExclusion
<1>2. CASE UNCHANGED lockVars
  BY <1>1, <1>2 DEF lockVars, vars
<1>3. ASSUME NEW t \in Task, NEW timeout \in Timeout, Lock(t, timeout)
      PROVE  MutualExclusion'
  BY <1>1, <1>3 DEF Lock, TestSemaphore
<1>4. ASSUME NEW t \in Task, Locked(t) PROVE MutualExclusion'
  <2>1. testPar[t] = 1
    BY DEF TypeOK, LockConstants
  <2>2. 1 <= value /\ value' = value - 1 /\ holders' = holders \cup {t}
    BY <1>4, <2>1 DEF Locked, Claim, Suffices
  <2>3. holders = {} /\ value = 1
    BY <2>2 DEF MutualExclusion
  <2>4. value' = 0 /\ holders' = {t}
    BY <2>2, <2>3
  <2>5. QED
    BY <2>4 DEF MutualExclusion
<1>5. ASSUME NEW t \in Task, NotLocked(t) PROVE MutualExclusion'
  BY <1>1, <1>5 DEF NotLocked, Fail, Block
<1>6. ASSUME NEW t \in Task, Unlock(t) PROVE MutualExclusion'
  <2>1. t \in holders /\ holders' = holders \ {t} /\ value' = (value + 1) % Modulus
    BY <1>6 DEF Unlock, SetSemaphore
  <2>2. value = 0 /\ holders = {t}
    BY <2>1 DEF MutualExclusion
  <2>3. value' = 1
    BY <2>1, <2>2, SemaphoreAssumption DEF LockConstants
  <2>4. holders' = {}
    BY <2>1, <2>2
  <2>5. QED
    BY <2>3, <2>4 DEF MutualExclusion
<1>7. ASSUME Around /\ UNCHANGED <<value, testPar, holders>> PROVE MutualExclusion'
  BY <1>1, <1>7
<1>8. QED
  BY <1>2, <1>3, <1>4, <1>5, <1>6, <1>7 DEF LockNext

\* Two tasks are never both between KRN_lock and KRN_unlock, whatever their
\* priorities and timeouts, and a free lock is not lost.
THEOREM LocksExclude ==
  ASSUME LockConstants
  PROVE  LockSpec => []MutualExclusion
<1>1. LockInit => MutualExclusion
  BY DEF LockConstants, LockInit, Init, MutualExclusion
<1>2. TypeOK /\ MutualExclusion /\ [LockNext]_lockVars => MutualExclusion'
  BY LockNextKeepsExclusion
<1>3. LockSpec => []TypeOK
  BY LocksAreSemaphores, SemaphoreTypes, PTL
<1>4. QED
  BY <1>1, <1>2, <1>3, PTL DEF LockSpec
-----------------------------------------------------------------------------
(* Rings: the arithmetic of the indices, and the contents as a sequence.       *)

\* Sizes and positions are numbers.
LEMMA PositionFacts ==
  /\ Size \in Nat \ {0} /\ Size \in Int /\ Size > 1
  /\ \A p : p \in Position <=> p \in 0 .. Size - 1
BY RingAssumption DEF Position

\* How far one position is ahead of another.
LEMMA Distance ==
  ASSUME NEW p \in 0 .. Size - 1, NEW q \in 0 .. Size - 1
  PROVE  /\ (Size + p - q) % Size \in 0 .. Size - 1
         /\ (Size + p - q) % Size = IF p >= q THEN p - q ELSE p - q + Size
<1>1. Size \in Nat \ {0}
  BY PositionFacts
<1>2. CASE p >= q
  <2>1. p - q \in 0 .. Size - 1 /\ Size + p - q \in Int /\ Size + p - q = Size * 1 + (p - q)
    BY <1>1, <1>2
  <2>2. QED
    BY ONLY <1>1, <1>2, <2>1, ModIs
<1>3. CASE ~(p >= q)
  <2>1. Size + p - q \in 0 .. Size - 1 /\ p - q + Size = Size + p - q
    BY <1>1, <1>3
  <2>2. QED
    BY ONLY <1>1, <1>3, <2>1, ModSmall
<1>4. QED
  BY <1>2, <1>3

\* The bytes in the ring are counted by the difference of its indices.
LEMMA UsedFacts ==
  ASSUME RingTypeOK
  PROVE  /\ Used \in 0 .. Size - 1
         /\ Used = IF head >= tail THEN head - tail ELSE head - tail + Size
         /\ Empty <=> Used = 0
         /\ Full <=> Used = Size - 1
         /\ Space = Size - Used
<1>1. head \in 0 .. Size - 1 /\ tail \in 0 .. Size - 1 /\ Size \in Nat \ {0} /\ Size > 1
  BY PositionFacts DEF RingTypeOK
<1>2. Used = IF head >= tail THEN head - tail ELSE head - tail + Size
  BY <1>1, Distance DEF Used
<1>3. (head + 1) % Size = IF head + 1 = Size THEN 0 ELSE head + 1
  BY ONLY <1>1, NextIndex
<1>4. QED
  BY ONLY <1>1, <1>2, <1>3 DEF Empty, Full, Space

\* The same of the ring after a step.
LEMMA UsedNext ==
  ASSUME RingTypeOK'
  PROVE  /\ Used' \in 0 .. Size - 1
         /\ Empty' <=> Used' = 0
         /\ Full' <=> Used' = Size - 1
<1> DEFINE h == head'
           l == tail'
           u == Used'
<1>1. h \in 0 .. Size - 1 /\ l \in 0 .. Size - 1 /\ Size \in Nat \ {0} /\ Size > 1
  BY PositionFacts DEF RingTypeOK
<1>2. u = (Size + h - l) % Size /\ (Empty' <=> h = l) /\ (Full' <=> (h + 1) % Size = l)
  BY DEF Used, Empty, Full
<1> HIDE DEF h, l, u
<1>3. u = IF h >= l THEN h - l ELSE h - l + Size
  BY <1>1, <1>2, Distance
<1>4. (h + 1) % Size = IF h + 1 = Size THEN 0 ELSE h + 1
  BY ONLY <1>1, NextIndex
<1>5. u \in 0 .. Size - 1 /\ (h = l <=> u = 0) /\ ((h + 1) % Size = l <=> u = Size - 1)
  BY ONLY <1>1, <1>3, <1>4
<1>6. QED
  BY <1>2, <1>5 DEF u

\* u bytes from position p on.
Bytes(b, p, u) == [i \in 1 .. u |-> b[(p + i - 1) % Size]]

\* They are a sequence of that length.
LEMMA BytesFacts ==
  ASSUME NEW b \in [Position -> Data], NEW p \in Int, NEW u \in Nat
  PROVE  /\ Bytes(b, p, u) \in Seq(Data) /\ Len(Bytes(b, p, u)) = u
         /\ \A i \in 1 .. u : Bytes(b, p, u)[i] = b[(p + i - 1) % Size]
<1>1. ASSUME NEW i \in 1 .. u
      PROVE  b[(p + i - 1) % Size] \in Data
  <2>1. p + i - 1 \in Int
    OBVIOUS
  <2>2. (p + i - 1) % Size \in Position
    BY <2>1, ModRange, PositionFacts
  <2>3. QED
    BY <2>2
<1>2. QED
  BY <1>1 DEF Bytes

\* The contents are the bytes from the tail on.
LEMMA ContentsFacts ==
  ASSUME RingTypeOK
  PROVE  /\ Contents \in Seq(Data) /\ Len(Contents) = Used
         /\ \A i \in 1 .. Used : Contents[i] = buffer[(tail + i - 1) % Size]
<1>1. Used \in Nat /\ tail \in Int /\ buffer \in [Position -> Data]
  BY UsedFacts, PositionFacts DEF RingTypeOK
<1>2. Contents = Bytes(buffer, tail, Used)
  BY DEF Contents, Bytes
<1>3. QED
  BY ONLY <1>1, <1>2, BytesFacts

\* A distance is where it leads.
LEMMA Onward ==
  ASSUME RingTypeOK, NEW n \in 0 .. Size
  PROVE  /\ Ahead(head, n) \in Position /\ Ahead(tail, n) \in Position
         /\ Ahead(head, n) = IF head + n < Size THEN head + n ELSE head + n - Size
         /\ Ahead(tail, n) = IF tail + n < Size THEN tail + n ELSE tail + n - Size
<1>1. head \in 0 .. Size - 1 /\ tail \in 0 .. Size - 1 /\ Size \in Nat \ {0}
  BY PositionFacts DEF RingTypeOK
<1>2. ASSUME NEW p \in 0 .. Size - 1
      PROVE  /\ (p + n) % Size \in 0 .. Size - 1
             /\ (p + n) % Size = IF p + n < Size THEN p + n ELSE p + n - Size
  <2>1. CASE p + n < Size
    BY <1>1, <1>2, <2>1, ModSmall
  <2>2. CASE ~(p + n < Size)
    <3>1. p + n \in Int /\ p + n - Size \in 0 .. Size - 1 /\ p + n = Size * 1 + (p + n - Size)
      BY <1>1, <1>2, <2>2
    <3>2. QED
      BY ONLY <1>1, <2>2, <3>1, ModIs
  <2>3. QED
    BY <2>1, <2>2
<1>3. QED
  BY <1>1, <1>2, PositionFacts DEF Ahead

\* What is stored where there is room comes after what was there, and nothing
\* else changes.
LEMMA Stored ==
  ASSUME RingTypeOK, RingTypeOK', NEW ds \in Seq(Data), Store(ds),
         1 <= Len(ds), Used + Len(ds) < Size
  PROVE  Contents' = Contents \o ds /\ Used' = Used + Len(ds)
<1> DEFINE n == Len(ds)
           u == Used
<1>1. /\ head \in 0 .. Size - 1 /\ tail \in 0 .. Size - 1 /\ Size \in Nat \ {0} /\ n \in Nat
      /\ u \in 0 .. Size - 1 /\ u = IF head >= tail THEN head - tail ELSE head - tail + Size
      /\ n \in 0 .. Size /\ 1 <= n /\ u + n < Size /\ tail' = tail /\ head' = Ahead(head, n)
  BY UsedFacts, PositionFacts DEF RingTypeOK, Store
<1>2. head' = IF head + n < Size THEN head + n ELSE head + n - Size
  BY <1>1, Onward
<1>3. Used' = IF head' >= tail' THEN head' - tail' ELSE head' - tail' + Size
  <2>1. head' \in 0 .. Size - 1 /\ tail' \in 0 .. Size - 1
    BY PositionFacts DEF RingTypeOK
  <2>2. QED
    BY <2>1, Distance DEF Used
<1>4. Used' = u + n
  BY ONLY <1>1, <1>2, <1>3
<1>5. (tail + u) % Size = head
  <2>1. CASE tail + u < Size
    <3>1. tail + u = head /\ tail + u \in 0 .. Size - 1
      BY ONLY <1>1, <2>1
    <3>2. QED
      BY ONLY <1>1, <3>1, ModSmall
  <2>2. CASE ~(tail + u < Size)
    <3>1. tail + u \in Int /\ tail + u = Size * 1 + head
      BY ONLY <1>1, <2>2
    <3>2. QED
      BY ONLY <1>1, <3>1, ModIs
  <2>3. QED
    BY <2>1, <2>2
<1>6. \A i \in 1 .. u + n :
        buffer'[(tail + i - 1) % Size] = IF i <= u THEN buffer[(tail + i - 1) % Size] ELSE ds[i - u]
  <2>1. SUFFICES ASSUME NEW i \in 1 .. u + n
                 PROVE  buffer'[(tail + i - 1) % Size]
                          = IF i <= u THEN buffer[(tail + i - 1) % Size] ELSE ds[i - u]
    OBVIOUS
  <2> DEFINE x == tail + i - 1
             s == x % Size
             j == ((s - head) % Size) + 1
             y == i - 1 - u
  <2>2. /\ x \in Int /\ y \in Int /\ i \in Int /\ y = x - (tail + u) /\ tail + u \in Int
        /\ s \in 0 .. Size - 1
    <3>1. x \in Int /\ y \in Int /\ i \in Int /\ y = x - (tail + u) /\ tail + u \in Int
      BY <1>1
    <3> HIDE DEF x
    <3>2. s \in 0 .. Size - 1
      BY <1>1, <3>1, ModRange
    <3>3. QED
      BY <3>1, <3>2
  <2>3. (s - head) % Size = y % Size
    <3>1. (s - head) % Size = (x - head) % Size
      <4>1. -head \in Int /\ s + (-head) = s - head /\ x + (-head) = x - head
        BY <1>1, <2>2
      <4>2. QED
        BY <1>1, <2>2, <4>1, ModPlus
    <3>2. (x - head) % Size = (x - (tail + u)) % Size
      <4> DEFINE w == tail + u
      <4>1. w \in Int /\ head = w % Size
        BY <1>5, <2>2
      <4> HIDE DEF x, w
      <4>2. (x - (w % Size)) % Size = (x - w) % Size
        BY ONLY <1>1, <2>2, <4>1, ModMinus
      <4>3. QED
        BY <4>1, <4>2 DEF w
    <3>3. QED
      BY <2>2, <3>1, <3>2
  <2>4. buffer'[s] = IF j \in DOMAIN ds THEN ds[j] ELSE buffer[s]
    BY <2>2, PositionFacts DEF Store, Placed
  <2>5. DOMAIN ds = 1 .. n
    BY <1>1
  <2> HIDE DEF x, s, n, u, y
  <2>6. CASE i <= u
    <3>1. y % Size = y + Size
      <4>1. -Size <= y /\ y < 0
        BY <1>1, <2>2, <2>6 DEF y
      <4>2. QED
        BY <1>1, <2>2, <4>1, ModNegative
    <3>2. j = i - u + Size
      BY <1>1, <2>2, <2>3, <3>1 DEF y
    <3>3. j \notin 1 .. n
      BY <1>1, <2>2, <2>6, <3>2
    <3>4. QED
      BY <2>4, <2>5, <2>6, <3>3 DEF s, x
  <2>7. CASE ~(i <= u)
    <3>1. y \in 0 .. Size - 1
      BY <1>1, <2>1, <2>2, <2>7 DEF y
    <3>2. j = i - u
      <4>1. y % Size = y
        BY <1>1, <3>1, ModSmall
      <4>2. QED
        BY <1>1, <2>2, <2>3, <4>1 DEF y
    <3>3. j \in 1 .. n
      BY <1>1, <2>1, <2>2, <2>7, <3>2
    <3>4. QED
      BY <2>4, <2>5, <2>7, <3>2, <3>3 DEF s, x
  <2>8. QED
    BY <2>6, <2>7
<1>7. Contents' = Contents \o ds
  <2>1. Contents' = Bytes(buffer', tail, u + n)
    BY <1>1, <1>4 DEF Contents, Bytes
  <2>2. buffer' \in [Position -> Data] /\ tail \in Int /\ u + n \in Nat /\ u \in Nat
    BY <1>1 DEF RingTypeOK
  <2>3. Contents \in Seq(Data) /\ Len(Contents) = u
        /\ \A i \in 1 .. u : Contents[i] = buffer[(tail + i - 1) % Size]
    BY ContentsFacts
  <2> DEFINE c == Bytes(buffer', tail, u + n)
             d == Contents \o ds
  <2>4. /\ c \in Seq(Data) /\ Len(c) = u + n
        /\ \A i \in 1 .. u + n : c[i] = buffer'[(tail + i - 1) % Size]
    BY ONLY <2>2, BytesFacts
  <2>5. /\ d \in Seq(Data) /\ Len(d) = u + n
        /\ \A i \in 1 .. u + n : d[i] = IF i <= u THEN Contents[i] ELSE ds[i - u]
    BY <2>3, ConcatProperties
  <2> HIDE DEF c, d, n, u
  <2>6. \A i \in 1 .. u + n : i <= u => Contents[i] = buffer[(tail + i - 1) % Size]
    BY <1>1, <2>2, <2>3
  <2>7. \A i \in 1 .. Len(c) : c[i] = d[i]
    BY ONLY <2>4, <2>5, <2>6, <1>6
  <2>8. c = d
    BY ONLY <2>4, <2>5, <2>7, SeqEqual
  <2>9. QED
    BY <2>1, <2>8 DEF c, d
<1>8. QED
  BY <1>4, <1>7

\* What is consumed was at the front.
LEMMA Consumed ==
  ASSUME RingTypeOK, RingTypeOK', NEW n \in 1 .. Used, Consume(n)
  PROVE  Contents' = SubSeq(Contents, n + 1, Len(Contents)) /\ Used' = Used - n
<1> DEFINE u == Used
<1>1. /\ head \in 0 .. Size - 1 /\ tail \in 0 .. Size - 1 /\ Size \in Nat \ {0}
      /\ u \in 0 .. Size - 1 /\ u = IF head >= tail THEN head - tail ELSE head - tail + Size
      /\ n \in 1 .. u /\ n \in 0 .. Size /\ head' = head /\ tail' = Ahead(tail, n) /\ buffer' = buffer
  BY UsedFacts, PositionFacts DEF RingTypeOK, Consume
<1>2. tail' = IF tail + n < Size THEN tail + n ELSE tail + n - Size
  BY <1>1, Onward
<1>3. Used' = IF head' >= tail' THEN head' - tail' ELSE head' - tail' + Size
  <2>1. head' \in 0 .. Size - 1 /\ tail' \in 0 .. Size - 1
    BY PositionFacts DEF RingTypeOK
  <2>2. QED
    BY <2>1, Distance DEF Used
<1>4. Used' = u - n
  BY ONLY <1>1, <1>2, <1>3
<1>5. Contents' = Bytes(buffer, tail', u - n)
  BY <1>1, <1>4 DEF Contents, Bytes
<1> DEFINE c == Bytes(buffer, tail', u - n)
           d == SubSeq(Contents, n + 1, Len(Contents))
<1>6. buffer \in [Position -> Data] /\ tail' \in Int /\ u - n \in Nat
  BY <1>1, PositionFacts DEF RingTypeOK
<1>7. /\ Contents \in Seq(Data) /\ Len(Contents) = u
      /\ \A i \in 1 .. u : Contents[i] = buffer[(tail + i - 1) % Size]
  BY ContentsFacts
<1>8. /\ c \in Seq(Data) /\ Len(c) = u - n
      /\ \A i \in 1 .. u - n : c[i] = buffer[(tail' + i - 1) % Size]
  BY ONLY <1>6, BytesFacts
<1>9. /\ d \in Seq(Data) /\ Len(d) = u - n
      /\ \A i \in 1 .. u - n : d[i] = Contents[n + i]
  <2>1. \A i \in n + 1 .. Len(Contents) : Contents[i] \in Data
    BY <1>1, <1>7
  <2>2. /\ d \in Seq(Data) /\ Len(d) = IF n + 1 <= u THEN u - (n + 1) + 1 ELSE 0
        /\ \A i \in 1 .. u - (n + 1) + 1 : d[i] = Contents[n + 1 + i - 1]
    <3> DEFINE m == n + 1
               l == Len(Contents)
    <3>1. m \in Int /\ l \in Int /\ (\A i \in m .. l : Contents[i] \in Data) /\ l = u
      BY <1>1, <1>7, <2>1
    <3> HIDE DEF m, l
    <3>2. /\ SubSeq(Contents, m, l) \in Seq(Data)
          /\ Len(SubSeq(Contents, m, l)) = IF m <= l THEN l - m + 1 ELSE 0
          /\ \A i \in 1 .. l - m + 1 : SubSeq(Contents, m, l)[i] = Contents[m + i - 1]
      BY ONLY <3>1, SubSeqProperties
    <3>3. QED
      BY ONLY <3>1, <3>2 DEF m, l
  <2> HIDE DEF d, u
  <2>3. QED
    BY <1>1, <2>2
<1>10. ASSUME NEW i \in 1 .. u - n
       PROVE  c[i] = d[i]
  <2> DEFINE x == tail + n
             y == i - 1
  <2>1. x \in Int /\ y \in Int /\ n + i \in 1 .. u /\ tail' = x % Size
        /\ tail' + i - 1 = tail' + y /\ tail + (n + i) - 1 = x + y
    BY <1>1, <1>6 DEF Consume, Ahead
  <2> HIDE DEF x, y
  <2>2. ((x % Size) + y) % Size = (x + y) % Size
    BY ONLY <1>1, <2>1, ModPlus
  <2>3. c[i] = buffer[(tail' + y) % Size]
    BY <1>8, <1>10, <2>1
  <2>4. d[i] = buffer[(x + y) % Size]
    BY <1>7, <1>9, <1>10, <2>1
  <2>5. QED
    BY ONLY <2>1, <2>2, <2>3, <2>4
<1> HIDE DEF c, d, u
<1>11. c = d
  BY ONLY <1>8, <1>9, <1>10, SeqEqual
<1>12. QED
  BY <1>4, <1>5, <1>11 DEF c, d, u

\* The ring stays one.
LEMMA StoreTypes ==
  ASSUME RingTypeOK, NEW ds \in Seq(Data), Len(ds) \in 0 .. Size, Store(ds)
  PROVE  buffer' \in [Position -> Data] /\ head' \in Position /\ tail' \in Position
<1>1. head' \in Position /\ tail' \in Position
  BY Onward DEF Store, RingTypeOK
<1>2. ASSUME NEW s \in Position
      PROVE  Placed(ds)[s] \in Data
  BY DEF Placed, RingTypeOK
<1>3. Placed(ds) \in [Position -> Data]
  BY <1>2 DEF Placed
<1>4. QED
  BY <1>1, <1>3 DEF Store

LEMMA ConsumeTypes ==
  ASSUME RingTypeOK, NEW n \in 0 .. Size, Consume(n)
  PROVE  buffer' \in [Position -> Data] /\ head' \in Position /\ tail' \in Position
BY Onward DEF Consume, RingTypeOK

\* A sequence that has grown at the end, in the words of BoundedQueue,
LEMMA GrownSequence ==
  ASSUME NEW S, NEW s \in Seq(S), NEW d \in Seq(S), 1 <= Len(d)
  PROVE  /\ Len(s \o d) > Len(s) /\ IsPrefix(s, s \o d)
         /\ SubSeq(s \o d, Len(s) + 1, Len(s \o d)) = d
<1> DEFINE c == s \o d
           l == Len(s)
           m == Len(d)
           e == SubSeq(c, l + 1, l + m)
<1>1. /\ c \in Seq(S) /\ Len(c) = l + m /\ l \in Nat /\ m \in Nat /\ 1 <= m
      /\ \A i \in 1 .. l + m : c[i] = IF i <= l THEN s[i] ELSE d[i - l]
  BY ConcatProperties
<1>2. SubSeq(c, 1, l) = SubSeq(s, 1, l)
  <2>1. CASE l = 0
    BY <1>1, <2>1, SubSeqEmpty
  <2>2. CASE l # 0
    BY <1>1, <2>2, SubSeqOfConcat1
  <2>3. QED
    BY <2>1, <2>2
<1>3. /\ e \in Seq(S) /\ Len(e) = m
      /\ \A i \in 1 .. m : e[i] = d[i]
  <2> DEFINE a == l + 1
             b == l + m
  <2>1. a \in Int /\ b \in Int /\ (\A i \in a .. b : c[i] \in S) /\ a = l + 1 /\ b = l + m
    BY <1>1, ElementOfSeq
  <2> HIDE DEF a, b, c
  <2>2. /\ SubSeq(c, a, b) \in Seq(S)
        /\ Len(SubSeq(c, a, b)) = IF a <= b THEN b - a + 1 ELSE 0
        /\ \A i \in 1 .. b - a + 1 : SubSeq(c, a, b)[i] = c[a + i - 1]
    BY ONLY <2>1, SubSeqProperties
  <2>3. e = SubSeq(c, a, b)
    BY <2>1
  <2>4. Len(e) = m /\ e \in Seq(S)
    BY <1>1, <2>1, <2>2, <2>3
  <2>5. ASSUME NEW i \in 1 .. m
        PROVE  e[i] = d[i]
    <3> DEFINE k == a + i - 1
    <3>1. e[i] = c[k] /\ k \in 1 .. l + m /\ ~(k <= l) /\ k - l = i
      BY <1>1, <2>1, <2>2, <2>3, <2>5
    <3> HIDE DEF k, l, m
    <3>2. c[k] = d[k - l]
      BY <1>1, <3>1
    <3>3. QED
      BY <3>1, <3>2
  <2>6. QED
    BY <2>4, <2>5
<1> HIDE DEF e
<1>4. e = d
  BY <1>3, SeqEqual
<1>5. QED
  BY <1>1, <1>2, <1>4 DEF e, IsPrefix

\* and one that has lost some of its front.
LEMMA ShortenedSequence ==
  ASSUME NEW S, NEW s \in Seq(S), NEW n \in 1 .. Len(s)
  PROVE  /\ Len(SubSeq(s, n + 1, Len(s))) = Len(s) - n
         /\ IsSuffix(SubSeq(s, n + 1, Len(s)), s)
<1> DEFINE l == Len(s)
           e == SubSeq(s, n + 1, l)
           r == Reverse(e)
           q == Reverse(s)
<1>1. l \in Nat /\ n \in 1 .. l
  OBVIOUS
<1>2. e \in Seq(S) /\ Len(e) = l - n /\ \A i \in 1 .. l - n : e[i] = s[n + i]
  <2> DEFINE a == n + 1
  <2>1. a \in Int /\ l \in Int /\ (\A i \in a .. l : s[i] \in S) /\ a = n + 1
    BY <1>1, ElementOfSeq
  <2> HIDE DEF a
  <2>2. /\ SubSeq(s, a, l) \in Seq(S)
        /\ Len(SubSeq(s, a, l)) = IF a <= l THEN l - a + 1 ELSE 0
        /\ \A i \in 1 .. l - a + 1 : SubSeq(s, a, l)[i] = s[a + i - 1]
    BY ONLY <2>1, SubSeqProperties
  <2>3. QED
    BY ONLY <1>1, <2>1, <2>2
<1>3. r = [i \in 1 .. l - n |-> e[(l - n) - i + 1]] /\ q = [i \in 1 .. l |-> s[l - i + 1]]
  BY <1>2 DEF Reverse
<1>4. /\ Len(r) = l - n /\ Len(q) = l
      /\ \A i \in 1 .. l - n : r[i] = q[i]
  <2>1. ASSUME NEW i \in 1 .. l - n
        PROVE  r[i] = q[i]
    <3>1. /\ r[i] = e[(l - n) - i + 1] /\ q[i] = s[l - i + 1]
          /\ (l - n) - i + 1 \in 1 .. l - n /\ n + ((l - n) - i + 1) = l - i + 1
      BY <1>1, <1>3, <2>1
    <3>2. QED
      BY <1>2, <3>1
  <2>2. QED
    <3>1. l - n \in Nat
      BY <1>1
    <3> HIDE DEF l, e
    <3>2. Len(r) = l - n
      BY <1>3, <3>1
    <3>3. Len(q) = l
      BY <1>1, <1>3
    <3>4. QED
      BY <2>1, <3>2, <3>3
<1>5. SubSeq(r, 1, l - n) = SubSeq(q, 1, l - n)
  BY <1>1, <1>4
<1>6. QED
  BY <1>1, <1>2, <1>4, <1>5 DEF IsSuffix, IsPrefix

\* The front of a sequence is a prefix of it.
LEMMA FrontOfSequence ==
  ASSUME NEW S, NEW s \in Seq(S), NEW n \in 1 .. Len(s)
  PROVE  /\ SubSeq(s, 1, n) \in Seq(S) /\ Len(SubSeq(s, 1, n)) = n
         /\ IsPrefix(SubSeq(s, 1, n), s)
<1> DEFINE e == SubSeq(s, 1, n)
<1>1. /\ e \in Seq(S) /\ Len(e) = n
  OBVIOUS
<1>2. SubSeq(e, 1, n) = e
  BY <1>1, SubSeqFull
<1>3. QED
  BY <1>1, <1>2 DEF IsPrefix

-----------------------------------------------------------------------------
(* Who uses the ring, and the inductive invariant.                         *)

\* A task that writes with RING_write, or reads with RING_read, has its end of the
\* ring for itself, and only interrupt handlers at the other end: both calls go on
\* after they have slept without looking at the ring again.
Alone(u, op, other) ==
  \A t \in Task : <<t, op>> \in u =>
    \A use \in u : use[1] = t \/ use[2] = "peekContiguous" \/ use = <<Interrupt, other>>
Disciplined ==
  \A u \in Roles : Alone(u, "read", "write") /\ Alone(u, "write", "read")

Calling(t, op) == <<t, op>> \in roles

Reading == {"read", "sleep", "reading", "copy", "advance"}
Waiting == {"writing", "filling", "draining", "peeking", "skipping"}

\* The calls whose timer runs before they raise the IPL.
Protected ==
  {"write", "writeBuffer", "readBuffer", "peekContiguous", "skipContiguous"} \cup Waiting

\* A task is in calls it makes,
InCall(t) ==
  /\ pc[t] \in {"write", "writing"} => Calling(t, "write")
  /\ pc[t] \in Reading => Calling(t, "read")
  /\ pc[t] \in {"writeBuffer", "filling"} => Calling(t, "writeBuffer")
  /\ pc[t] \in {"readBuffer", "draining"} => Calling(t, "readBuffer")
  /\ pc[t] \in {"peekContiguous", "peeking"} => Calling(t, "peekContiguous")
  /\ pc[t] \in {"skipContiguous", "skipping"} => Calling(t, "skipContiguous")
  /\ pc[t] = "wakeReader" => Calling(t, "write") \/ Calling(t, "writeBuffer")
  /\ pc[t] = "wakeWriter" =>
       Calling(t, "read") \/ Calling(t, "readBuffer") \/ Calling(t, "skipContiguous")

\* sleeps where they sleep (the block readers on the writers' queue),
SleepsThere(t) ==
  \A q \in Queue : AsleepOn(t, q) \/ hold[t] = q =>
    (q = rq /\ pc[t] = "reading") \/ (q = wq /\ pc[t] \in Waiting)

\* has a timer only in a call that asked for one,
TimerThere(t) ==
  timer[t] # "off" =>
    /\ limit[t] = "ticks"
    /\ pc[t] = "reading" \/ (pc[t] \in Protected /\ timedOut[t] = "running")

\* and has been given something to write.
Given(t) ==
  /\ pc[t] \in {"write", "writing"} => Len(bytes[t]) = 1
  /\ pc[t] \in {"writeBuffer", "filling"} => Len(bytes[t]) \in 1 .. Size

OwnInv(t) == InCall(t) /\ SleepsThere(t) /\ TimerThere(t) /\ Given(t)

\* Woken by the other end of the ring, a task still finds what it waited for.
Awake(t) == hold[t] = None /\ ~Asleep(t)
RoomFor(t) == pc[t] = "writing" /\ timedOut[t] = "running" /\ Awake(t) => ~Full
ByteFor(t) ==
  /\ pc[t] = "reading" /\ (limit[t] = "ticks" => timedOut[t] = "running") /\ Awake(t)
       => ~Empty
  /\ pc[t] \in {"copy", "advance"} => ~Empty
  /\ pc[t] = "advance" => bytes[t] = <<buffer[tail]>>

TaskInv(t) == OwnInv(t) /\ RoomFor(t) /\ ByteFor(t)

RInv ==
  /\ RingTypeOK
  /\ WellLinked
  /\ roles \in Roles
  /\ \A t \in Task : TaskInv(t)

\* What BoundedQueue says of a step.
Bounded ==
  /\ head' # head /\ ~(ByBuffer /\ head' = tail) => Kept
  /\ tail' # tail => Taken
-----------------------------------------------------------------------------
(* Steps.                                                                  *)

\* Where a task writes with RING_write or reads with RING_read, no other does
\* anything but look.
LEMMA Bystander ==
  ASSUME RInv, Disciplined, NEW t \in Task, NEW op, Calling(t, op), op # "peekContiguous",
         NEW u \in Task, u # t
  PROVE  pc[u] \notin {"write", "writing"} \cup Reading
<1>1. roles \in Roles /\ InCall(u) /\ t # Interrupt
  BY RingAssumption DEF RInv, TaskInv, OwnInv
<1>2. Alone(roles, "read", "write") /\ Alone(roles, "write", "read")
  BY <1>1 DEF Disciplined
<1>3. <<t, op>> \in roles /\ <<t, op>>[1] = t /\ <<t, op>>[2] = op
      /\ <<t, op>> # <<Interrupt, "read">> /\ <<t, op>> # <<Interrupt, "write">>
  BY <1>1 DEF Calling
<1>4. ~Calling(u, "read") /\ ~Calling(u, "write")
  BY <1>2, <1>3 DEF Alone, Calling
<1>5. QED
  BY <1>1, <1>4 DEF InCall

\* Where handlers write no task does, and where they read none does.
LEMMA HandlerFree ==
  ASSUME RInv, Disciplined, NEW u \in Task
  PROVE  /\ Calling(Interrupt, "write") => pc[u] \notin {"write", "writing"}
         /\ Calling(Interrupt, "read") => pc[u] \notin Reading
<1>1. roles \in Roles /\ InCall(u) /\ u # Interrupt
  BY RingAssumption DEF RInv, TaskInv, OwnInv
<1>2. Alone(roles, "read", "write") /\ Alone(roles, "write", "read")
  BY <1>1 DEF Disciplined
<1>3. ASSUME Calling(Interrupt, "write"), Calling(u, "write")
      PROVE  FALSE
  <2> DEFINE use == <<Interrupt, "write">>
  <2>1. use \in roles /\ use[1] = Interrupt /\ use[2] = "write" /\ use # <<Interrupt, "read">>
    BY <1>3 DEF Calling
  <2>2. QED
    BY <1>1, <1>2, <1>3, <2>1 DEF Alone, Calling
<1>4. ASSUME Calling(Interrupt, "read"), Calling(u, "read")
      PROVE  FALSE
  <2> DEFINE use == <<Interrupt, "read">>
  <2>1. use \in roles /\ use[1] = Interrupt /\ use[2] = "read" /\ use # <<Interrupt, "write">>
    BY <1>4 DEF Calling
  <2>2. QED
    BY <1>1, <1>2, <1>4, <2>1 DEF Alone, Calling
<1>5. QED
  BY <1>1, <1>3, <1>4 DEF InCall

\* A task the step is not about: it may be linked by the scheduler or woken.
Same(u) ==
  /\ pc'[u] = pc[u] /\ limit'[u] = limit[u] /\ timedOut'[u] = timedOut[u]
  /\ timer'[u] = timer[u] /\ bytes'[u] = bytes[u] /\ hold'[u] = hold[u]

\* What is its own stays as it was, and
LEMMA OwnSame ==
  ASSUME NEW u \in Task, OwnInv(u), Same(u), roles' = roles,
         \A q \in Queue : AsleepOn(u, q)' => AsleepOn(u, q)
  PROVE  OwnInv(u)'
<1>1. InCall(u)' /\ TimerThere(u)' /\ Given(u)'
  BY DEF OwnInv, Same, InCall, TimerThere, Given, Calling
<1>2. SleepsThere(u)'
  BY DEF OwnInv, Same, SleepsThere
<1>3. QED
  BY <1>1, <1>2 DEF OwnInv

\* so does what it waits for, if the ring does, or
LEMMA AwakeSame ==
  ASSUME NEW u \in Task, TaskInv(u), Same(u), UNCHANGED ring, Awake(u)' => Awake(u)
  PROVE  RoomFor(u)' /\ ByteFor(u)'
BY DEF TaskInv, Same, RoomFor, ByteFor, ring, Full, Empty

\* if it waits for nothing.
LEMMA FreeOfBoth ==
  ASSUME NEW u, Same(u), pc[u] \notin {"write", "writing"} \cup Reading
  PROVE  RoomFor(u)' /\ ByteFor(u)'
BY DEF Same, RoomFor, ByteFor, Reading

\* A step of one task that wakes nobody: what is to show is about that task.
OnlyTask(t) == \A u \in Task : u # t => Same(u)

\* The others keep their parts of the invariant: the ring stays, or the task is alone with it.
LEMMA OwnStep ==
  ASSUME RInv, Disciplined, NEW t \in Task, OnlyTask(t), UNCHANGED <<waitq, roles>>,
         RingTypeOK', TaskInv(t)',
         UNCHANGED ring \/ \E op : Calling(t, op) /\ op # "peekContiguous"
  PROVE  RInv'
<1>1. WellLinked' /\ (roles \in Roles)'
  BY DEF RInv, WellLinked
<1>2. ASSUME NEW u \in Task, u # t
      PROVE  TaskInv(u)'
  <2>1. TaskInv(u) /\ OwnInv(u) /\ Same(u) /\ \A q \in Queue : AsleepOn(u, q)' <=> AsleepOn(u, q)
    BY <1>2 DEF RInv, TaskInv, OnlyTask, AsleepOn
  <2>2. OwnInv(u)'
    BY <2>1, OwnSame
  <2>3. RoomFor(u)' /\ ByteFor(u)'
    <3>1. CASE UNCHANGED ring
      <4>1. Awake(u)' => Awake(u)
        BY <2>1 DEF Awake, Asleep, Same
      <4>2. QED
        BY <2>1, <3>1, <4>1, AwakeSame
    <3>2. CASE \E op : Calling(t, op) /\ op # "peekContiguous"
      <4>1. PICK op : Calling(t, op) /\ op # "peekContiguous"
        BY <3>2
      <4>2. pc[u] \notin {"write", "writing"} \cup Reading
        BY <1>2, <4>1, Bystander
      <4>3. QED
        BY <2>1, <4>2, FreeOfBoth
    <3>3. QED
      BY <3>1, <3>2
  <2>4. QED
    BY <2>2, <2>3 DEF TaskInv
<1>3. QED
  BY <1>1, <1>2 DEF RInv

\* Nothing is to show of the contents while the ring stays.
LEMMA RingAlone ==
  ASSUME UNCHANGED ring
  PROVE  Bounded
BY DEF ring, Bounded

\* A task that runs is awake, its timer is not with the timer task, and none is to be linked.
LEMMA RunningFacts ==
  ASSUME RInv, NEW t \in Task, Runs(t)
  PROVE  /\ hold[t] = None /\ hold[t] \notin Queue /\ \A q \in Queue : ~AsleepOn(t, q)
         /\ timer[t] # "due" /\ TaskInv(t) /\ RingTypeOK
BY BlockingAssumption DEF RInv, Runs, Ready, Settled, Asleep

\* A call begins.
LEMMA BeginStep ==
  ASSUME RInv, Disciplined, NEW t \in Task, NEW timeout \in Timeout,
         NEW step \in {"write", "writeBuffer", "readBuffer", "peekContiguous", "skipContiguous"},
         Begin(t, step, timeout), Calling(t, step), UNCHANGED <<ring, roles>>,
         bytes' \in [Task -> Seq(Data)], length' \in [Task -> 0 .. Size],
         \A u \in Task : u # t => bytes'[u] = bytes[u],
         step = "write" => Len(bytes'[t]) = 1,
         step = "writeBuffer" => Len(bytes'[t]) \in 1 .. Size
  PROVE  RInv' /\ Bounded
<1>1. /\ Runs(t) /\ pc[t] = "user" /\ UNCHANGED <<waitq, hold, buffer, head, tail, roles>>
      /\ timedOut' = [timedOut EXCEPT ![t] = IF timeout = "zero" THEN "zero" ELSE "running"]
      /\ timer' = IF timeout = "ticks" THEN [timer EXCEPT ![t] = "set"] ELSE timer
      /\ limit' = [limit EXCEPT ![t] = timeout]
      /\ pc' = [pc EXCEPT ![t] = step]
  BY DEF Begin, Armed, ring
<1>2. /\ RingTypeOK /\ BlockingTypeOK(Steps) /\ TaskInv(t)
      /\ \A q \in Queue : ~AsleepOn(t, q) /\ hold[t] # q
  BY <1>1, RunningFacts DEF RingTypeOK
<1>3. RingTypeOK'
  BY <1>1, <1>2 DEF RingTypeOK, BlockingTypeOK, Steps
<1>4. /\ pc'[t] = step /\ limit'[t] = timeout /\ hold'[t] = hold[t]
      /\ timedOut'[t] = (IF timeout = "zero" THEN "zero" ELSE "running")
      /\ timer'[t] = (IF timeout = "ticks" THEN "set" ELSE timer[t])
  BY <1>1, <1>2 DEF BlockingTypeOK
<1>5. OnlyTask(t)
  BY <1>1, <1>2 DEF OnlyTask, Same, BlockingTypeOK
<1>6. InCall(t)'
  BY <1>1, <1>4 DEF InCall, Calling, Reading
<1>7. timer[t] = "off"
  BY <1>1, <1>2 DEF TaskInv, OwnInv, TimerThere, Protected, Waiting
<1>8. TimerThere(t)'
  BY <1>4, <1>7 DEF TimerThere, Protected
<1>9. SleepsThere(t)'
  BY <1>1, <1>2 DEF SleepsThere, AsleepOn
<1>10. Given(t)'
  BY <1>4 DEF Given
<1>11. RoomFor(t)' /\ ByteFor(t)'
  BY <1>4 DEF RoomFor, ByteFor
<1>12. TaskInv(t)'
  BY <1>6, <1>8, <1>9, <1>10, <1>11 DEF TaskInv, OwnInv
<1>13. QED
  BY <1>1, <1>3, <1>5, <1>12, OwnStep, RingAlone

\* RING_write is called with one byte,
LEMMA WriteKept ==
  ASSUME RInv, Disciplined, NEW t \in Task, NEW d \in Data, NEW timeout \in Timeout,
         Write(t, d, timeout)
  PROVE  RInv' /\ Bounded
<1>1. /\ bytes \in [Task -> Seq(Data)] /\ length \in [Task -> 0 .. Size]
      /\ bytes' = [bytes EXCEPT ![t] = <<d>>] /\ length' = length
      /\ Begin(t, "write", timeout) /\ Calling(t, "write") /\ UNCHANGED <<ring, roles>>
  BY DEF RInv, RingTypeOK, Write, Calling
<1>2. <<d>> \in Seq(Data) /\ Len(<<d>>) = 1
  OBVIOUS
<1>3. /\ bytes' \in [Task -> Seq(Data)] /\ Len(bytes'[t]) = 1
      /\ \A u \in Task : u # t => bytes'[u] = bytes[u]
  BY <1>1, <1>2
<1>4. QED
  BY <1>1, <1>3, BeginStep

\* blocks are bytes, no more of them than the buffer holds,
LEMMA BlockFacts ==
  ASSUME NEW ds \in Blocks
  PROVE  ds \in Seq(Data) /\ Len(ds) \in 1 .. Size
<1>1. PICK n \in 1 .. Size : ds \in [1 .. n -> Data]
  BY RingAssumption
<1>2. n \in Nat
  BY <1>1, PositionFacts
<1>3. QED
  BY <1>1, <1>2

\* RING_writeBuffer with a block,
LEMMA WriteBufferKept ==
  ASSUME RInv, Disciplined, NEW t \in Task, NEW ds \in Blocks, NEW timeout \in Timeout,
         WriteBuffer(t, ds, timeout)
  PROVE  RInv' /\ Bounded
<1>1. /\ bytes \in [Task -> Seq(Data)] /\ length \in [Task -> 0 .. Size]
      /\ bytes' = [bytes EXCEPT ![t] = ds] /\ length' = length
      /\ Begin(t, "writeBuffer", timeout) /\ Calling(t, "writeBuffer") /\ UNCHANGED <<ring, roles>>
  BY DEF RInv, RingTypeOK, WriteBuffer, Calling
<1>2. ds \in Seq(Data) /\ Len(ds) \in 1 .. Size
  BY BlockFacts
<1>3. /\ bytes' \in [Task -> Seq(Data)] /\ Len(bytes'[t]) \in 1 .. Size
      /\ \A u \in Task : u # t => bytes'[u] = bytes[u]
  BY <1>1, <1>2
<1>4. QED
  BY <1>1, <1>3, BeginStep

\* and the block readers go on, each at a step of its own,
LEMMA AgainFacts ==
  /\ DOMAIN Again = {"readBuffer", "peekContiguous", "skipContiguous"}
  /\ Again["readBuffer"] = "draining" /\ Again["peekContiguous"] = "peeking"
  /\ Again["skipContiguous"] = "skipping"
BY DEF Again

\* when they have slept.
LEMMA BlockReadKept ==
  ASSUME RInv, Disciplined, NEW t \in Task, NEW op \in DOMAIN Again, NEW n \in 1 .. Size,
         NEW timeout \in Timeout, BlockRead(t, op, n, timeout)
  PROVE  RInv' /\ Bounded
<1>1. /\ bytes \in [Task -> Seq(Data)] /\ length \in [Task -> 0 .. Size]
      /\ length' = [length EXCEPT ![t] = n] /\ bytes' = bytes
      /\ Begin(t, op, timeout) /\ Calling(t, op) /\ UNCHANGED <<ring, roles>>
  BY DEF RInv, RingTypeOK, BlockRead, Calling
<1>2. /\ length' \in [Task -> 0 .. Size] /\ bytes' \in [Task -> Seq(Data)]
      /\ \A u \in Task : u # t => bytes'[u] = bytes[u]
  BY <1>1, PositionFacts
<1>3. op \in {"readBuffer", "peekContiguous", "skipContiguous"}
  BY AgainFacts
<1>4. QED
  BY <1>1, <1>2, <1>3, BeginStep

\* A call goes to its next step and changes nothing else, or ends without result.
LEMMA GotoStep ==
  ASSUME RInv, Disciplined, NEW t \in Task, NEW step \in Steps \cup {"user"},
         Runs(t), Goto(t, step), UNCHANGED <<ring, roles>>,
         bytes' \in [Task -> Seq(Data)], length' \in [Task -> 0 .. Size],
         \A u \in Task : u # t => bytes'[u] = bytes[u],
         step \in {"copy", "advance"} => ~Empty,
         step = "advance" => bytes'[t] = <<buffer[tail]>>,
         step = "user" => timer[t] = "off",
         step # "user" => pc[t] \in {"read", "copy"} /\ step \in {"sleep", "copy", "advance"}
  PROVE  RInv' /\ Bounded
<1>1. /\ UNCHANGED <<waitq, hold, timer, timedOut, limit, buffer, head, tail, roles>>
      /\ pc' = [pc EXCEPT ![t] = step]
  BY DEF Goto, ring
<1>2. /\ RingTypeOK /\ BlockingTypeOK(Steps) /\ TaskInv(t)
      /\ \A q \in Queue : ~AsleepOn(t, q) /\ hold[t] # q
  BY <1>1, RunningFacts DEF RingTypeOK
<1>3. RingTypeOK'
  BY <1>1, <1>2 DEF RingTypeOK, BlockingTypeOK
<1>4. pc'[t] = step
  BY <1>1, <1>2 DEF BlockingTypeOK
<1>5. OnlyTask(t)
  BY <1>1, <1>2 DEF OnlyTask, Same, BlockingTypeOK
<1>6. InCall(t)' /\ Given(t)'
  BY <1>1, <1>2, <1>4 DEF TaskInv, OwnInv, InCall, Calling, Reading, Given
<1>8. TimerThere(t)'
  <2>1. timer[t] = "off"
    BY <1>2 DEF TaskInv, OwnInv, TimerThere, Protected, Waiting
  <2>2. QED
    BY <1>1, <2>1 DEF TimerThere
<1>9. SleepsThere(t)'
  BY <1>1, <1>2 DEF SleepsThere, AsleepOn
<1>11. RoomFor(t)' /\ ByteFor(t)'
  BY <1>1, <1>4 DEF RoomFor, ByteFor, Empty
<1>12. TaskInv(t)'
  BY <1>6, <1>8, <1>9, <1>11 DEF TaskInv, OwnInv
<1>13. QED
  BY <1>1, <1>3, <1>5, <1>12, OwnStep, RingAlone

\* A call returns without result, when it may not wait or its time has run out.
LEMMA GiveUpStep ==
  ASSUME RInv, Disciplined, NEW t \in Task, Runs(t), GiveUp(t),
         pc[t] \in Protected, limit[t] = "zero" \/ timedOut[t] # "running"
  PROVE  RInv' /\ Bounded
<1>1. /\ Goto(t, "user") /\ bytes' = [bytes EXCEPT ![t] = <<>>]
      /\ length' = [length EXCEPT ![t] = 0] /\ UNCHANGED <<ring, roles>>
      /\ bytes \in [Task -> Seq(Data)] /\ length \in [Task -> 0 .. Size]
  BY DEF GiveUp, Forget, RInv, RingTypeOK
<1>2. timer[t] = "off"
  BY DEF RInv, TaskInv, OwnInv, TimerThere, Protected, Waiting
<1>3. /\ bytes' \in [Task -> Seq(Data)] /\ length' \in [Task -> 0 .. Size]
      /\ \A u \in Task : u # t => bytes'[u] = bytes[u]
  BY <1>1, PositionFacts
<1>4. QED
  BY <1>1, <1>2, <1>3, GotoStep

\* The caller asks to be put on a queue.
LEMMA DozeStep ==
  ASSUME RInv, Disciplined, NEW t \in Task, NEW step, Runs(t), Doze(t, wq, step),
         \/ pc[t] \in {"write", "writing"} /\ step = "writing"
         \/ pc[t] \in {"writeBuffer", "filling"} /\ step = "filling"
         \/ pc[t] \in {"readBuffer", "draining"} /\ step = "draining"
         \/ pc[t] \in {"peekContiguous", "peeking"} /\ step = "peeking"
         \/ pc[t] \in {"skipContiguous", "skipping"} /\ step = "skipping"
  PROVE  RInv' /\ Bounded
<1>1. /\ UNCHANGED <<waitq, timer, timedOut, limit, ring, buffer, head, tail, bytes, length, roles>>
      /\ pc' = [pc EXCEPT ![t] = step] /\ hold' = [hold EXCEPT ![t] = wq]
      /\ wq \in Queue /\ wq # None /\ wq # rq
  BY RingAssumption, BlockingAssumption DEF Doze, ring, args
<1>2. /\ RingTypeOK /\ BlockingTypeOK(Steps) /\ TaskInv(t)
      /\ \A q \in Queue : ~AsleepOn(t, q) /\ hold[t] # q
  BY <1>1, RunningFacts DEF RingTypeOK
<1>3. RingTypeOK'
  <2>1. hold' \in [Task -> Queue \cup {None}] /\ step \in Steps
    BY <1>1, <1>2 DEF BlockingTypeOK, Steps
  <2>2. QED
    BY <1>1, <1>2, <2>1 DEF RingTypeOK, BlockingTypeOK
<1>4. pc'[t] = step /\ hold'[t] = wq
  BY <1>1, <1>2 DEF BlockingTypeOK
<1>5. OnlyTask(t)
  BY <1>1, <1>2 DEF OnlyTask, Same, BlockingTypeOK
<1>6. InCall(t)' /\ Given(t)'
  BY <1>1, <1>2, <1>4 DEF TaskInv, OwnInv, InCall, Calling, Reading, Given
<1>7. TimerThere(t)'
  BY <1>1, <1>2, <1>4 DEF TaskInv, OwnInv, TimerThere, Protected, Waiting
<1>8. SleepsThere(t)'
  BY <1>1, <1>2, <1>4 DEF SleepsThere, AsleepOn, Waiting
<1>9. RoomFor(t)' /\ ByteFor(t)'
  BY <1>1, <1>4 DEF RoomFor, ByteFor, Awake
<1>10. TaskInv(t)'
  BY <1>6, <1>7, <1>8, <1>9 DEF TaskInv, OwnInv
<1>11. QED
  BY <1>1, <1>3, <1>5, <1>10, OwnStep, RingAlone

\* The caller's business with the ring is done, whatever it has done to it.
LEMMA DoneStep ==
  ASSUME RInv, Disciplined, NEW t \in Task, NEW step \in {"wakeReader", "wakeWriter", "user"},
         Runs(t), Done(t, step),
         buffer' \in [Position -> Data], head' \in Position, tail' \in Position,
         step = "wakeReader" => Calling(t, "write") \/ Calling(t, "writeBuffer"),
         step = "wakeWriter" => Calling(t, "readBuffer") \/ Calling(t, "skipContiguous"),
         step = "user" => UNCHANGED ring
  PROVE  RInv'
<1>1. /\ UNCHANGED <<waitq, hold, timedOut, limit, roles>>
      /\ pc' = [pc EXCEPT ![t] = step]
      /\ timer' = IF limit[t] = "ticks"
                    THEN [timer EXCEPT ![t] = IF timer[t] = "set" THEN "off" ELSE timer[t]]
                    ELSE timer
      /\ bytes' = [bytes EXCEPT ![t] = <<>>] /\ length' = [length EXCEPT ![t] = 0]
  BY DEF Done, Forget, Restored, Cancelled
<1>2. /\ RingTypeOK /\ BlockingTypeOK(Steps) /\ TaskInv(t) /\ timer[t] # "due"
      /\ \A q \in Queue : ~AsleepOn(t, q) /\ hold[t] # q
  BY RunningFacts DEF RingTypeOK
<1>3. bytes' \in [Task -> Seq(Data)] /\ length' \in [Task -> 0 .. Size]
  BY <1>1, <1>2, PositionFacts DEF RingTypeOK
<1>4. RingTypeOK'
  BY <1>1, <1>2, <1>3 DEF RingTypeOK, BlockingTypeOK, Steps
<1>5. pc'[t] = step /\ timer'[t] = "off"
  BY <1>1, <1>2 DEF BlockingTypeOK, TaskInv, OwnInv, TimerThere
<1>6. OnlyTask(t)
  BY <1>1, <1>2 DEF OnlyTask, Same, BlockingTypeOK, RingTypeOK
<1>7. InCall(t)' /\ Given(t)' /\ TimerThere(t)'
  BY <1>1, <1>5 DEF InCall, Calling, Reading, Given, TimerThere
<1>8. SleepsThere(t)'
  BY <1>1, <1>2 DEF SleepsThere, AsleepOn
<1>9. RoomFor(t)' /\ ByteFor(t)'
  BY <1>5 DEF RoomFor, ByteFor
<1>10. TaskInv(t)'
  BY <1>7, <1>8, <1>9 DEF TaskInv, OwnInv
<1>11. UNCHANGED ring \/ \E op : Calling(t, op) /\ op # "peekContiguous"
  OBVIOUS
<1>12. QED
  BY <1>1, <1>4, <1>6, <1>10, <1>11, OwnStep

\* Something is stored: it is added to the contents, none of which is lost.
LEMMA StoreStep ==
  ASSUME RInv, Disciplined, NEW t \in Task, NEW ds \in Seq(Data),
         1 <= Len(ds), Len(ds) <= Space, IsPrefix(ds, bytes[t]),
         Runs(t), Store(ds), Done(t, "wakeReader"),
         \/ pc[t] \in {"write", "writing"} /\ Len(ds) < Space
         \/ pc[t] \in {"writeBuffer", "filling"}
  PROVE  RInv' /\ Bounded
<1>1. /\ RingTypeOK /\ TaskInv(t) /\ pc' = [pc EXCEPT ![t] = "wakeReader"]
      /\ pc \in [Task -> {"user", "away"} \cup Steps]
      /\ tail' = tail /\ head' = Ahead(head, Len(ds))
  BY RunningFacts DEF Done, Store, RingTypeOK, BlockingTypeOK
<1>2. /\ Used \in 0 .. Size - 1 /\ Space = Size - Used /\ Size \in Nat \ {0} /\ Len(ds) \in 0 .. Size
      /\ Used = IF head >= tail THEN head - tail ELSE head - tail + Size
      /\ head \in 0 .. Size - 1 /\ tail \in 0 .. Size - 1
  BY <1>1, UsedFacts, PositionFacts DEF RingTypeOK
<1>3. buffer' \in [Position -> Data] /\ head' \in Position /\ tail' \in Position
  BY <1>1, <1>2, StoreTypes
<1>4. Calling(t, "write") \/ Calling(t, "writeBuffer")
  BY <1>1 DEF TaskInv, OwnInv, InCall
<1>5. RInv'
  BY <1>3, <1>4, DoneStep
<1>6. ASSUME ~(ByBuffer /\ head' = tail)
      PROVE  Kept
  <2>1. Accepted(t) /\ \A u \in Task : Accepted(u) => u = t
    BY <1>1 DEF Accepted
  <2>2. Used + Len(ds) < Size
    <3>1. CASE Len(ds) < Space
      BY <1>2, <3>1
    <3>2. CASE pc[t] \in {"writeBuffer", "filling"}
      <4>1. head' # tail
        BY <1>6, <2>1, <3>2 DEF ByBuffer
      <4>2. head' = IF head + Len(ds) < Size THEN head + Len(ds) ELSE head + Len(ds) - Size
        BY <1>1, <1>2, Onward
      <4>3. QED
        BY ONLY <1>2, <4>1, <4>2, Len(ds) <= Space
    <3>3. QED
      BY <3>1, <3>2
  <2>3. RingTypeOK'
    BY <1>5 DEF RInv
  <2>4. Contents' = Contents \o ds
    BY <1>1, <2>2, <2>3, Stored
  <2>5. Contents \in Seq(Data)
    BY <1>1, ContentsFacts
  <2>6. /\ Len(Contents') > Len(Contents) /\ IsPrefix(Contents, Contents')
        /\ SubSeq(Contents', Len(Contents) + 1, Len(Contents')) = ds
    BY <2>4, <2>5, GrownSequence
  <2>7. QED
    BY <2>1, <2>6 DEF Kept
<1>7. QED
  BY <1>1, <1>5, <1>6 DEF Bounded

\* RING_write.  A task that has slept finds room when it runs (RoomFor).
LEMMA WriteStep ==
  ASSUME RInv, Disciplined, NEW t \in Task, WriteTest(t) \/ WriteWoken(t)
  PROVE  RInv' /\ Bounded
<1>1. Runs(t) /\ pc[t] \in {"write", "writing"}
  BY DEF WriteTest, WriteWoken, At
<1>2. /\ RingTypeOK /\ TaskInv(t) /\ hold[t] = None /\ \A q \in Queue : ~AsleepOn(t, q)
      /\ bytes[t] \in Seq(Data) /\ Len(bytes[t]) = 1
  BY <1>1, RunningFacts DEF RingTypeOK, TaskInv, OwnInv, Given
<1>3. CASE ~Full /\ Store(bytes[t]) /\ Done(t, "wakeReader")
  <2>1. 1 <= Len(bytes[t]) /\ Len(bytes[t]) < Space /\ Len(bytes[t]) <= Space
    BY <1>2, <1>3, UsedFacts, PositionFacts
  <2>2. IsPrefix(bytes[t], bytes[t])
    BY <1>2 DEF IsPrefix
  <2>3. QED
    BY <1>1, <1>2, <1>3, <2>1, <2>2, StoreStep
<1>4. CASE GiveUp(t) /\ (limit[t] = "zero" \/ timedOut[t] # "running")
  BY <1>1, <1>4, GiveUpStep DEF Protected, Waiting
<1>5. CASE Doze(t, wq, "writing")
  BY <1>1, <1>5, DozeStep
<1>6. CASE WriteWoken(t) /\ timedOut[t] = "running" /\ Store(bytes[t]) /\ Done(t, "wakeReader")
  <2>1. ~Full
    BY <1>2, <1>6 DEF WriteWoken, At, TaskInv, RoomFor, Awake, Asleep
  <2>2. QED
    BY <1>3, <1>6, <2>1
<1>7. QED
  BY <1>3, <1>4, <1>5, <1>6 DEF WriteTest, WriteWoken, MayWrite

\* RING_read, up to the copying of the byte.
LEMMA ReadKept ==
  ASSUME RInv, Disciplined, NEW t \in Task, NEW timeout \in Timeout, Read(t, timeout)
  PROVE  RInv' /\ Bounded
<1>1. /\ UNCHANGED <<waitq, hold, timer, timedOut, ring, buffer, head, tail, bytes, length, roles>>
      /\ Runs(t) /\ pc[t] = "user" /\ Calling(t, "read")
      /\ pc' = [pc EXCEPT ![t] = "read"] /\ limit' = [limit EXCEPT ![t] = timeout]
  BY DEF Read, At, ring, args, Calling
<1>2. /\ RingTypeOK /\ BlockingTypeOK(Steps) /\ TaskInv(t)
      /\ \A q \in Queue : ~AsleepOn(t, q) /\ hold[t] # q
  BY <1>1, RunningFacts DEF RingTypeOK
<1>3. RingTypeOK'
  BY <1>1, <1>2 DEF RingTypeOK, BlockingTypeOK, Steps
<1>4. pc'[t] = "read"
  BY <1>1, <1>2 DEF BlockingTypeOK
<1>5. OnlyTask(t)
  BY <1>1, <1>2 DEF OnlyTask, Same, BlockingTypeOK
<1>6. InCall(t)' /\ Given(t)'
  BY <1>1, <1>4 DEF InCall, Calling, Reading, Given
<1>7. TimerThere(t)'
  BY <1>1, <1>2 DEF TaskInv, OwnInv, TimerThere, Protected, Waiting
<1>8. SleepsThere(t)'
  BY <1>1, <1>2 DEF SleepsThere, AsleepOn
<1>9. RoomFor(t)' /\ ByteFor(t)'
  BY <1>4 DEF RoomFor, ByteFor
<1>10. TaskInv(t)'
  BY <1>6, <1>7, <1>8, <1>9 DEF TaskInv, OwnInv
<1>11. QED
  BY <1>1, <1>3, <1>5, <1>10, OwnStep, RingAlone

\* It looks once,
LEMMA ReadTestKept ==
  ASSUME RInv, Disciplined, NEW t \in Task, ReadTest(t)
  PROVE  RInv' /\ Bounded
<1> DEFINE step == IF ~Empty THEN "copy" ELSE IF limit[t] = "zero" THEN "user" ELSE "sleep"
<1>1. /\ Runs(t) /\ pc[t] = "read" /\ Goto(t, step) /\ UNCHANGED <<ring, bytes, length, roles>>
      /\ bytes \in [Task -> Seq(Data)] /\ length \in [Task -> 0 .. Size]
  BY DEF ReadTest, At, args, RInv, RingTypeOK
<1>2. timer[t] = "off"
  BY <1>1 DEF RInv, TaskInv, OwnInv, TimerThere, Protected, Waiting
<1>3. step \in Steps \cup {"user"} /\ pc[t] \in {"read", "copy"}
  BY <1>1 DEF Steps
<1>4. QED
  BY <1>1, <1>2, <1>3, GotoStep

\* copies the byte that is there,
LEMMA ReadCopyKept ==
  ASSUME RInv, Disciplined, NEW t \in Task, ReadCopy(t)
  PROVE  RInv' /\ Bounded
<1>1. /\ Runs(t) /\ pc[t] = "copy" /\ Goto(t, "advance") /\ UNCHANGED <<ring, length, roles>>
      /\ bytes' = [bytes EXCEPT ![t] = <<buffer[tail]>>]
      /\ bytes \in [Task -> Seq(Data)] /\ length \in [Task -> 0 .. Size]
      /\ buffer[tail] \in Data
  BY DEF ReadCopy, At, RInv, RingTypeOK
<1>2. ~Empty
  BY <1>1 DEF RInv, TaskInv, ByteFor
<1>3. <<buffer[tail]>> \in Seq(Data)
  BY <1>1
<1>4. /\ bytes' \in [Task -> Seq(Data)] /\ bytes'[t] = <<buffer[tail]>>
      /\ \A u \in Task : u # t => bytes'[u] = bytes[u]
  BY <1>1, <1>3
<1>5. QED
  BY <1>1, <1>2, <1>4, GotoStep DEF Steps

\* or asks to be put to sleep.
LEMMA ReadSleepKept ==
  ASSUME RInv, Disciplined, NEW t \in Task, ReadSleep(t)
  PROVE  RInv' /\ Bounded
<1>1. /\ UNCHANGED <<waitq, timedOut, limit, ring, buffer, head, tail, bytes, length, roles>>
      /\ Runs(t) /\ pc[t] = "sleep" /\ rq \in Queue /\ rq # None /\ rq # wq
      /\ hold' = [hold EXCEPT ![t] = rq] /\ pc' = [pc EXCEPT ![t] = "reading"]
      /\ timer' = IF limit[t] = "ticks" THEN [timer EXCEPT ![t] = "set"] ELSE timer
  BY RingAssumption, BlockingAssumption DEF ReadSleep, At, ring, args
<1>2. /\ RingTypeOK /\ BlockingTypeOK(Steps) /\ TaskInv(t)
      /\ \A q \in Queue : ~AsleepOn(t, q) /\ hold[t] # q
  BY <1>1, RunningFacts DEF RingTypeOK
<1>3. RingTypeOK'
  BY <1>1, <1>2 DEF RingTypeOK, BlockingTypeOK, Steps
<1>4. /\ pc'[t] = "reading" /\ hold'[t] = rq
      /\ timer'[t] = IF limit[t] = "ticks" THEN "set" ELSE timer[t]
  BY <1>1, <1>2 DEF BlockingTypeOK
<1>5. OnlyTask(t)
  BY <1>1, <1>2 DEF OnlyTask, Same, BlockingTypeOK
<1>6. InCall(t)' /\ Given(t)'
  BY <1>1, <1>2, <1>4 DEF TaskInv, OwnInv, InCall, Calling, Reading, Given
<1>7. timer[t] = "off"
  BY <1>1, <1>2 DEF TaskInv, OwnInv, TimerThere, Protected, Waiting
<1>8. TimerThere(t)'
  BY <1>1, <1>4, <1>7 DEF TimerThere
<1>9. SleepsThere(t)'
  BY <1>1, <1>2, <1>4 DEF SleepsThere, AsleepOn
<1>10. RoomFor(t)' /\ ByteFor(t)'
  BY <1>1, <1>4 DEF RoomFor, ByteFor, Awake
<1>11. TaskInv(t)'
  BY <1>6, <1>8, <1>9, <1>10 DEF TaskInv, OwnInv
<1>12. QED
  BY <1>1, <1>3, <1>5, <1>11, OwnStep, RingAlone

\* Woken by a byte it goes on to copy one, although it does not look.
LEMMA ReadWokenKept ==
  ASSUME RInv, Disciplined, NEW t \in Task, ReadWoken(t)
  PROVE  RInv' /\ Bounded
<1> DEFINE step == IF limit[t] = "ticks" /\ timedOut[t] # "running" THEN "user" ELSE "copy"
<1>1. /\ UNCHANGED <<waitq, hold, timedOut, limit, ring, buffer, head, tail, bytes, length, roles>>
      /\ Runs(t) /\ pc[t] = "reading" /\ pc' = [pc EXCEPT ![t] = step]
      /\ timer' = IF limit[t] = "ticks"
                    THEN [timer EXCEPT ![t] = IF timer[t] = "set" THEN "off" ELSE timer[t]]
                    ELSE timer
  BY DEF ReadWoken, At, ring, args, Restored, Cancelled
<1>2. /\ RingTypeOK /\ BlockingTypeOK(Steps) /\ TaskInv(t) /\ timer[t] # "due" /\ hold[t] = None
      /\ \A q \in Queue : ~AsleepOn(t, q) /\ hold[t] # q
  BY <1>1, RunningFacts DEF RingTypeOK
<1>3. RingTypeOK'
  BY <1>1, <1>2 DEF RingTypeOK, BlockingTypeOK, Steps
<1>4. pc'[t] = step /\ timer'[t] = "off"
  BY <1>1, <1>2 DEF BlockingTypeOK, TaskInv, OwnInv, TimerThere
<1>5. OnlyTask(t)
  BY <1>1, <1>2 DEF OnlyTask, Same, BlockingTypeOK
<1>6. InCall(t)' /\ Given(t)' /\ TimerThere(t)'
  BY <1>1, <1>2, <1>4 DEF TaskInv, OwnInv, InCall, Calling, Reading, Given, TimerThere
<1>7. SleepsThere(t)'
  BY <1>1, <1>2 DEF SleepsThere, AsleepOn
<1>8. step = "copy" => ~Empty
  BY <1>1, <1>2 DEF TaskInv, ByteFor, Awake, Asleep
<1>9. RoomFor(t)' /\ ByteFor(t)'
  BY <1>1, <1>4, <1>8 DEF RoomFor, ByteFor, Empty
<1>10. TaskInv(t)'
  BY <1>6, <1>7, <1>9 DEF TaskInv, OwnInv
<1>11. QED
  BY <1>1, <1>3, <1>5, <1>10, OwnStep, RingAlone

\* Something is consumed: the rest of the contents stays, and with one reader the byte
\* copied is the first.
LEMMA ConsumeStep ==
  ASSUME RInv, RInv', NEW n \in 1 .. Used, Consume(n), HandedOut
  PROVE  Bounded
<1>1. RingTypeOK /\ RingTypeOK'
  BY DEF RInv
<1>2. Contents' = SubSeq(Contents, n + 1, Len(Contents))
  BY <1>1, Consumed
<1>3. Contents \in Seq(Data) /\ Len(Contents) = Used /\ Used \in Nat
  BY <1>1, ContentsFacts, UsedFacts, PositionFacts
<1>4. n \in 1 .. Len(Contents)
  BY <1>3
<1>5. /\ Len(SubSeq(Contents, n + 1, Len(Contents))) = Len(Contents) - n
      /\ IsSuffix(SubSeq(Contents, n + 1, Len(Contents)), Contents)
  BY ONLY <1>3, <1>4, ShortenedSequence
<1>6. Len(Contents') < Len(Contents) /\ IsSuffix(Contents', Contents)
  <2>1. Len(Contents') = Len(Contents) - n /\ IsSuffix(Contents', Contents)
    BY <1>2, <1>5
  <2>2. QED
    BY ONLY <1>3, <2>1, n \in 1 .. Used
<1>7. Taken
  BY <1>6 DEF Taken
<1>8. head' = head
  BY DEF Consume
<1>9. QED
  BY <1>7, <1>8 DEF Bounded

\* The first byte of the contents is at the tail.
LEMMA FirstByte ==
  ASSUME RingTypeOK, ~Empty
  PROVE  /\ 1 \in 1 .. Used /\ Contents # <<>> /\ Head(Contents) = buffer[tail]
         /\ buffer[tail] \in Data
<1>1. Used \in 0 .. Size - 1 /\ Used # 0 /\ Size \in Nat \ {0} /\ tail \in 0 .. Size - 1
  BY UsedFacts, PositionFacts DEF RingTypeOK
<1>2. 1 \in 1 .. Used
  BY <1>1
<1>3. /\ Contents \in Seq(Data) /\ Len(Contents) = Used
      /\ \A i \in 1 .. Used : Contents[i] = buffer[(tail + i - 1) % Size]
  BY ContentsFacts
<1>4. tail + 1 - 1 = tail /\ tail % Size = tail
  BY <1>1, ModSmall
<1>5. Contents[1] = buffer[tail]
  BY <1>2, <1>3, <1>4
<1>6. QED
  BY <1>1, <1>2, <1>3, <1>5 DEF RingTypeOK

\* The byte it advances over is the one it has copied, whatever handlers have written.
LEMMA ReadAdvanceKept ==
  ASSUME RInv, Disciplined, NEW t \in Task, ReadAdvance(t)
  PROVE  RInv' /\ Bounded
<1>1. /\ UNCHANGED <<waitq, hold, timer, timedOut, limit, roles>>
      /\ Runs(t) /\ pc[t] = "advance" /\ pc' = [pc EXCEPT ![t] = "wakeWriter"]
      /\ bytes' = [bytes EXCEPT ![t] = <<>>] /\ length' = [length EXCEPT ![t] = 0]
      /\ Consume(1)
  BY DEF ReadAdvance, At, Goto, Forget
<1>2. /\ RingTypeOK /\ BlockingTypeOK(Steps) /\ TaskInv(t)
      /\ \A q \in Queue : ~AsleepOn(t, q) /\ hold[t] # q
  BY <1>1, RunningFacts DEF RingTypeOK
<1>3. ~Empty /\ bytes[t] = <<buffer[tail]>> /\ Calling(t, "read") /\ timer[t] = "off"
  BY <1>1, <1>2 DEF TaskInv, OwnInv, InCall, TimerThere, ByteFor, Reading, Protected, Waiting
<1>4. RingTypeOK'
  <2>1. bytes' \in [Task -> Seq(Data)] /\ length' \in [Task -> 0 .. Size]
    BY <1>1, <1>2, PositionFacts DEF RingTypeOK
  <2>2. buffer' \in [Position -> Data] /\ head' \in Position /\ tail' \in Position
    BY <1>1, <1>2, PositionFacts, ConsumeTypes
  <2>3. QED
    BY <1>1, <1>2, <2>1, <2>2 DEF RingTypeOK, BlockingTypeOK, Steps
<1>5. pc'[t] = "wakeWriter"
  BY <1>1, <1>2 DEF BlockingTypeOK
<1>6. OnlyTask(t)
  BY <1>1, <1>2 DEF OnlyTask, Same, BlockingTypeOK, RingTypeOK
<1>7. InCall(t)' /\ Given(t)' /\ TimerThere(t)'
  BY <1>1, <1>3, <1>5 DEF InCall, Calling, Reading, Given, TimerThere
<1>8. SleepsThere(t)'
  BY <1>1, <1>2 DEF SleepsThere, AsleepOn
<1>9. RoomFor(t)' /\ ByteFor(t)'
  BY <1>5 DEF RoomFor, ByteFor
<1>10. TaskInv(t)'
  BY <1>7, <1>8, <1>9 DEF TaskInv, OwnInv
<1>11. RInv'
  BY <1>1, <1>3, <1>4, <1>6, <1>10, OwnStep
<1>12. HandedOut
  <2>1. \A u \in Task : pc[u] = "advance" /\ pc'[u] # "advance" => u = t
    BY <1>6 DEF OnlyTask, Same
  <2>2. Head(Contents) = buffer[tail]
    BY <1>2, <1>3, FirstByte
  <2>3. QED
    BY <1>3, <2>1, <2>2 DEF HandedOut
<1>13. QED
  BY <1>1, <1>2, <1>3, <1>11, <1>12, FirstByte, ConsumeStep

\* RING_writeBuffer stores as much as there is room for.
LEMMA FillStep ==
  ASSUME RInv, Disciplined, NEW t \in Task, FillTest(t) \/ FillWoken(t)
  PROVE  RInv' /\ Bounded
<1>1. Runs(t) /\ pc[t] \in {"writeBuffer", "filling"}
  BY DEF FillTest, FillWoken, At
<1>2. /\ RingTypeOK /\ bytes[t] \in Seq(Data) /\ Len(bytes[t]) \in 1 .. Size
  BY <1>1, RunningFacts DEF RingTypeOK, TaskInv, OwnInv, Given
<1>3. /\ Space \in 1 .. Size /\ Size \in Nat \ {0}
  BY <1>2, UsedFacts, PositionFacts
<1>4. CASE StoreUpTo(t, Space)
  <2> DEFINE n == AtMost(Len(bytes[t]), Space)
             ds == SubSeq(bytes[t], 1, n)
  <2>1. n \in 1 .. Len(bytes[t]) /\ n <= Space /\ 1 <= n
    BY <1>2, <1>3 DEF AtMost
  <2>2. ds \in Seq(Data) /\ Len(ds) = n /\ IsPrefix(ds, bytes[t])
    BY <1>2, <2>1, FrontOfSequence
  <2>3. Store(ds) /\ Done(t, "wakeReader")
    BY <1>4 DEF StoreUpTo
  <2>4. 1 <= Len(ds) /\ Len(ds) <= Space
    BY <2>1, <2>2
  <2> HIDE DEF ds
  <2>5. QED
    BY <1>1, <2>2, <2>3, <2>4, StoreStep
<1>5. CASE GiveUp(t) /\ (limit[t] = "zero" \/ timedOut[t] # "running")
  BY <1>1, <1>5, GiveUpStep DEF Protected, Waiting
<1>6. CASE Doze(t, wq, "filling")
  BY <1>1, <1>6, DozeStep
<1>7. QED
  <2>1. ASSUME NEW stop, Fill(t, stop), stop => limit[t] = "zero" \/ timedOut[t] # "running"
        PROVE  \/ StoreUpTo(t, Space) \/ Doze(t, wq, "filling")
               \/ GiveUp(t) /\ (limit[t] = "zero" \/ timedOut[t] # "running")
    BY <2>1, Zenon DEF Fill
  <2>2. \/ StoreUpTo(t, Space) \/ Doze(t, wq, "filling")
        \/ GiveUp(t) /\ (limit[t] = "zero" \/ timedOut[t] # "running")
    BY <2>1, Zenon DEF FillTest, FillWoken
  <2>3. QED
    BY <1>4, <1>5, <1>6, <2>2

\* The block readers.
LEMMA DrainStep ==
  ASSUME RInv, Disciplined, NEW t \in Task, NEW op \in DOMAIN Again,
         DrainTest(t, op) \/ DrainWoken(t, op)
  PROVE  RInv' /\ Bounded
<1>1. /\ Runs(t) /\ op \in {"readBuffer", "peekContiguous", "skipContiguous"}
      /\ pc[t] \in {op, Again[op]}
  BY AgainFacts DEF DrainTest, DrainWoken, At
<1>2. pc[t] \in Protected /\ pc[t] # "advance"
  BY <1>1, AgainFacts DEF Protected, Waiting
<1>3. RingTypeOK /\ TaskInv(t) /\ length[t] \in 0 .. Size /\ tail \in 0 .. Size - 1 /\ Size \in Nat \ {0}
  BY <1>1, RunningFacts, PositionFacts DEF RingTypeOK
<1>4. Used \in 0 .. Size - 1 /\ Available(t) \in 0 .. Used
  BY <1>3, UsedFacts DEF Available, AtMost
<1>5. op # "peekContiguous" => Calling(t, "readBuffer") \/ Calling(t, "skipContiguous")
  BY <1>1, <1>3, AgainFacts DEF TaskInv, OwnInv, InCall
<1>6. ASSUME NEW n \in 0 .. Used, Consume(n), Done(t, "wakeWriter"), op # "peekContiguous"
      PROVE  RInv' /\ Bounded
  <2>1. buffer' \in [Position -> Data] /\ head' \in Position /\ tail' \in Position
    BY <1>3, <1>4, <1>6, ConsumeTypes
  <2>2. RInv'
    BY <1>1, <1>5, <1>6, <2>1, DoneStep
  <2>3. HandedOut
    BY <1>2, <1>3, <1>6 DEF HandedOut, Done, RingTypeOK, BlockingTypeOK
  <2>4. CASE n = 0
    <3>1. UNCHANGED ring
      BY <1>3, <1>6, <2>4, ModSmall DEF Consume, Ahead, ring
    <3>2. QED
      BY <2>2, <3>1, RingAlone
  <2>5. CASE n # 0
    <3>1. n \in 1 .. Used
      BY <1>4, <1>6, <2>5
    <3>2. QED
      BY <1>6, <2>2, <2>3, <3>1, ConsumeStep
  <2>6. QED
    BY <2>4, <2>5
<1>7. CASE Finish(t, op, Available(t))
  <2>1. CASE op = "readBuffer"
    BY <1>4, <1>6, <1>7, <2>1 DEF Finish
  <2>2. CASE op = "skipContiguous"
    <3>1. AtMost(Available(t), Size - tail) \in 0 .. Used
      BY <1>3, <1>4 DEF AtMost
    <3>2. QED
      BY <1>6, <1>7, <2>2, <3>1 DEF Finish
  <2>3. CASE op = "peekContiguous"
    <3>1. UNCHANGED ring /\ Done(t, "user") /\ UNCHANGED <<buffer, head, tail>>
      BY <1>7, <2>3 DEF Finish, ring
    <3>2. RInv'
      BY <1>1, <1>3, <3>1, DoneStep DEF RingTypeOK
    <3>3. QED
      BY <3>1, <3>2, RingAlone
  <2>4. QED
    BY <1>1, <2>1, <2>2, <2>3
<1>8. CASE GiveUp(t) /\ (limit[t] = "zero" \/ timedOut[t] # "running")
  BY <1>1, <1>2, <1>8, GiveUpStep
<1>9. CASE Doze(t, wq, Again[op])
  BY <1>1, <1>9, AgainFacts, DozeStep
<1>10. QED
  <2>1. ASSUME NEW stop, Drain(t, op, stop), stop => limit[t] = "zero" \/ timedOut[t] # "running"
        PROVE  \/ Finish(t, op, Available(t)) \/ Doze(t, wq, Again[op])
               \/ GiveUp(t) /\ (limit[t] = "zero" \/ timedOut[t] # "running")
    BY <2>1, Zenon DEF Drain
  <2>2. \/ Finish(t, op, Available(t)) \/ Doze(t, wq, Again[op])
        \/ GiveUp(t) /\ (limit[t] = "zero" \/ timedOut[t] # "running")
    BY <2>1, Zenon DEF DrainTest, DrainWoken
  <2>3. QED
    BY <1>7, <1>8, <1>9, <2>2

-----------------------------------------------------------------------------
(* Waking, and what the scheduler and the timer do.                        *)

\* KRN_wake takes off the queue only tasks asleep on it, and puts none on any.
OnlyOff(q) ==
  \A r \in Queue, u \in Task :
    /\ AsleepOn(u, r)' => AsleepOn(u, r)
    /\ AsleepOn(u, r) /\ ~AsleepOn(u, r)' => r = q

\* The queues stay well linked.
LEMMA WokenQueue ==
  ASSUME WellLinked, NEW q \in Queue, waitq' = Woken(q)
  PROVE  WellLinked' /\ OnlyOff(q)
<1>1. CASE waitq[q] = <<>>
  BY <1>1 DEF Woken, WellLinked, OnlyOff, AsleepOn
<1>2. CASE waitq[q] # <<>>
  <2>1. waitq' = RemoveHead(waitq, q)
    BY <1>2 DEF Woken
  <2>2. Table(waitq, Queue, Task)
    BY DEF WellLinked
  <2>3. /\ Table(waitq', Queue, Task) /\ Drops(waitq', waitq, Queue, Head(waitq[q]))
        /\ Contains(waitq[q], Head(waitq[q]))
    BY <1>2, <2>1, <2>2, RemoveHeadTable
  <2>4. ASSUME NEW r \in Queue, NEW u \in Task, AsleepOn(u, r), ~AsleepOn(u, r)'
        PROVE  r = q
    <3>1. u = Head(waitq[q]) /\ Contains(waitq[r], u)
      BY <2>3, <2>4 DEF AsleepOn, Drops
    <3>2. QED
      BY <2>2, <2>3, <3>1, TableOneQueue
  <2>5. QED
    BY <2>3, <2>4 DEF WellLinked, OnlyOff, AsleepOn, Drops
<1>3. QED
  BY <1>1, <1>2

\* A task that no wake of q concerns is awake afterwards only if it was before.
LEMMA NotWoken ==
  ASSUME NEW q \in Queue, OnlyOff(q), NEW u \in Task, ~AsleepOn(u, q), Same(u)
  PROVE  Awake(u)' => Awake(u)
BY DEF OnlyOff, Awake, Asleep, Same

\* KRN_wake of the other side, by the task that wrote or read.
LEMMA WakeOtherKept ==
  ASSUME RInv, Disciplined, NEW t \in Task, WakeOther(t)
  PROVE  RInv' /\ Bounded
<1>1. PICK q \in {rq, wq} : waitq' = Woken(q)
  BY DEF WakeOther
<1>2. /\ UNCHANGED <<hold, timer, timedOut, limit, ring, buffer, head, tail, bytes, length, roles>>
      /\ Runs(t) /\ pc[t] \in {"wakeReader", "wakeWriter"} /\ pc' = [pc EXCEPT ![t] = "user"]
  BY DEF WakeOther, At, ring, args
<1>3. q \in Queue
  BY <1>1, RingAssumption
<1>4. /\ RingTypeOK /\ BlockingTypeOK(Steps) /\ TaskInv(t)
      /\ \A r \in Queue : ~AsleepOn(t, r) /\ hold[t] # r
  BY <1>2, RunningFacts DEF RingTypeOK
<1>5. WellLinked' /\ OnlyOff(q)
  BY <1>1, <1>3, WokenQueue DEF RInv
<1>6. RingTypeOK'
  BY <1>2, <1>4, <1>5 DEF RingTypeOK, BlockingTypeOK, WellLinked, Table
<1>7. pc'[t] = "user" /\ timer'[t] = "off"
  BY <1>2, <1>4 DEF BlockingTypeOK, TaskInv, OwnInv, TimerThere, Protected, Waiting
<1>8. OnlyTask(t)
  BY <1>2, <1>4 DEF OnlyTask, Same, BlockingTypeOK
<1>9. TaskInv(t)'
  <2>1. InCall(t)' /\ Given(t)' /\ TimerThere(t)' /\ RoomFor(t)' /\ ByteFor(t)'
    BY <1>7 DEF InCall, Reading, Given, TimerThere, RoomFor, ByteFor
  <2>2. SleepsThere(t)'
    BY <1>2, <1>4, <1>5 DEF SleepsThere, OnlyOff
  <2>3. QED
    BY <2>1, <2>2 DEF TaskInv, OwnInv
<1>10. PICK op : Calling(t, op) /\ op # "peekContiguous"
  BY <1>2, <1>4 DEF TaskInv, OwnInv, InCall
<1>11. ASSUME NEW u \in Task, u # t
       PROVE  TaskInv(u)'
  <2>1. OwnInv(u) /\ Same(u)
    BY <1>8, <1>11 DEF RInv, TaskInv, OnlyTask
  <2>2. OwnInv(u)'
    BY <1>2, <1>5, <2>1, OwnSame DEF OnlyOff
  <2>3. pc[u] \notin {"write", "writing"} \cup Reading
    BY <1>10, <1>11, Bystander
  <2>4. RoomFor(u)' /\ ByteFor(u)'
    BY <2>1, <2>3, FreeOfBoth
  <2>5. QED
    BY <2>2, <2>4 DEF TaskInv
<1>12. RInv'
  BY <1>2, <1>5, <1>6, <1>9, <1>11 DEF RInv
<1>13. QED
  BY <1>2, <1>12, RingAlone

\* An interrupt handler changes the ring and wakes a task.
AllSame == \A u \in Task : Same(u)

\* Handlers change what no task has of its own.
LEMMA HandlerStep ==
  ASSUME RInv, NEW q \in {rq, wq}, waitq' = Woken(q),
         UNCHANGED <<hold, timer, timedOut, pc, limit, bytes, length, roles>>,
         buffer' \in [Position -> Data], head' \in Position, tail' \in Position,
         \A u \in Task : RoomFor(u)' /\ ByteFor(u)'
  PROVE  RInv'
<1>1. q \in Queue
  BY RingAssumption
<1>2. WellLinked' /\ OnlyOff(q)
  BY <1>1, WokenQueue DEF RInv
<1>3. RingTypeOK'
  BY <1>2 DEF RInv, RingTypeOK, BlockingTypeOK, WellLinked, Table
<1>4. ASSUME NEW u \in Task
      PROVE  OwnInv(u)'
  <2>1. OwnInv(u) /\ Same(u)
    BY DEF RInv, TaskInv, Same
  <2>2. QED
    BY <1>2, <2>1, OwnSame DEF OnlyOff
<1>5. QED
  BY <1>2, <1>3, <1>4 DEF RInv, TaskInv

\* A receiver: the handler stores a byte; a task that reads finds it, and its own byte
\* is still at the tail.
LEMMA HandlerWriteKept ==
  ASSUME RInv, Disciplined, NEW d \in Data, HandlerWrite(d)
  PROVE  RInv' /\ Bounded
<1>1. /\ UNCHANGED <<hold, timer, timedOut, pc, limit, bytes, length, roles>>
      /\ waitq' = Woken(rq) /\ Store(<<d>>) /\ ~Full /\ Calling(Interrupt, "write")
  BY DEF HandlerWrite, MayWrite, args, Calling
<1>2. /\ RingTypeOK /\ Used \in 0 .. Size - 1 /\ Used # Size - 1 /\ Size \in Nat \ {0}
      /\ (Empty <=> Used = 0)
  BY <1>1, UsedFacts, PositionFacts DEF RInv
<1> DEFINE ds == <<d>>
<1>3. ds \in Seq(Data) /\ Len(ds) = 1 /\ Len(ds) \in 0 .. Size /\ 1 <= Len(ds) /\ Used + Len(ds) < Size
  BY <1>2
<1>4. Store(ds)
  BY <1>1
<1> HIDE DEF ds
<1>5. buffer' \in [Position -> Data] /\ head' \in Position /\ tail' \in Position
  BY <1>2, <1>3, <1>4, StoreTypes
<1>6. RingTypeOK'
  <2>1. WellLinked'
    BY <1>1, RingAssumption, WokenQueue DEF RInv
  <2>2. QED
    BY <1>1, <1>2, <1>5, <2>1 DEF RingTypeOK, BlockingTypeOK, WellLinked, Table
<1>7. Contents' = Contents \o ds /\ Used' = Used + 1
  BY <1>2, <1>3, <1>4, <1>6, Stored
<1>8. ~(Empty')
  <2>1. Used' # 0
    BY <1>2, <1>7
  <2>2. QED
    BY <1>6, <2>1, UsedNext
<1>9. ASSUME NEW u \in Task
      PROVE  RoomFor(u)' /\ ByteFor(u)'
  <2>1. pc[u] # "writing" /\ ByteFor(u)
    BY <1>1, HandlerFree DEF RInv, TaskInv
  <2>2. RoomFor(u)'
    BY <1>1, <2>1 DEF RoomFor
  <2>3. CASE pc[u] # "advance"
    BY <1>1, <1>8, <2>2, <2>3 DEF ByteFor, Empty
  <2>4. CASE pc[u] = "advance"
    <3>1. ~Empty /\ bytes[u] = <<buffer[tail]>> /\ tail' = tail
      BY <2>1, <2>4, <1>4 DEF ByteFor, Store
    <3>2. buffer'[tail] = buffer[tail]
      <4>1. Contents \in Seq(Data) /\ Contents # <<>> /\ Head(Contents) = buffer[tail]
        BY <1>2, <3>1, FirstByte, ContentsFacts
      <4>2. Head(Contents') = buffer'[tail']
        <5>1. tail' \in 0 .. Size - 1 /\ Used' \in Nat /\ 1 \in 1 .. Used'
          BY <1>2, <1>5, <1>7, PositionFacts
        <5>2. Contents' = Bytes(buffer', tail', Used')
          BY DEF Contents, Bytes
        <5>3. /\ Contents' \in Seq(Data) /\ Len(Contents') = Used'
              /\ Contents'[1] = buffer'[(tail' + 1 - 1) % Size]
          BY <1>5, <5>1, <5>2, BytesFacts, PositionFacts
        <5>4. tail' + 1 - 1 = tail' /\ tail' % Size = tail'
          <6> DEFINE l == tail'
          <6>1. l \in 0 .. Size - 1
            BY <5>1
          <6> HIDE DEF l
          <6>2. l + 1 - 1 = l /\ l % Size = l
            BY <1>2, <6>1, ModSmall
          <6>3. QED
            BY <6>2 DEF l
        <5>5. QED
          BY <5>1, <5>3, <5>4
      <4>3. Head(Contents \o ds) = Head(Contents)
        BY <4>1, <1>3
      <4>4. QED
        BY <1>7, <3>1, <4>1, <4>2, <4>3
    <3>3. QED
      BY <1>1, <1>8, <2>2, <2>4, <3>1, <3>2 DEF ByteFor, Empty
  <2>5. QED
    BY <2>2, <2>3, <2>4
<1>10. RInv'
  BY <1>1, <1>5, <1>9, HandlerStep
<1>11. Kept
  <2>1. \A u \in Task : ~Accepted(u)
    BY <1>1 DEF Accepted
  <2>2. Contents \in Seq(Data)
    BY <1>2, ContentsFacts
  <2>3. Len(Contents') > Len(Contents) /\ IsPrefix(Contents, Contents')
    BY <1>3, <1>7, <2>2, GrownSequence
  <2>4. QED
    BY <2>1, <2>3 DEF Kept
<1>12. QED
  BY <1>4, <1>10, <1>11 DEF Bounded, Store

\* A transmitter: the handler takes a byte, and a task that writes finds room.
LEMMA HandlerReadKept ==
  ASSUME RInv, Disciplined, HandlerRead
  PROVE  RInv' /\ Bounded
<1>1. /\ UNCHANGED <<hold, timer, timedOut, pc, limit, bytes, length, roles>>
      /\ waitq' = Woken(wq) /\ Consume(1) /\ ~Empty /\ Calling(Interrupt, "read")
  BY DEF HandlerRead, args, Calling
<1>2. /\ RingTypeOK /\ Used \in 0 .. Size - 1 /\ Size \in Nat \ {0} /\ 1 \in 1 .. Used /\ 1 \in 0 .. Size
  BY <1>1, UsedFacts, PositionFacts, FirstByte DEF RInv
<1>3. buffer' \in [Position -> Data] /\ head' \in Position /\ tail' \in Position
  BY <1>1, <1>2, ConsumeTypes
<1>4. RingTypeOK'
  <2>1. WellLinked'
    BY <1>1, RingAssumption, WokenQueue DEF RInv
  <2>2. QED
    BY <1>1, <1>2, <1>3, <2>1 DEF RingTypeOK, BlockingTypeOK, WellLinked, Table
<1>5. Used' = Used - 1
  BY <1>1, <1>2, <1>4, Consumed
<1>6. ~(Full')
  <2>1. Used' # Size - 1
    BY <1>2, <1>5
  <2>2. QED
    BY <1>4, <2>1, UsedNext
<1>7. ASSUME NEW u \in Task
      PROVE  RoomFor(u)' /\ ByteFor(u)'
  <2>1. pc[u] \notin Reading
    BY <1>1, HandlerFree
  <2>2. QED
    BY <1>1, <1>6, <2>1 DEF RoomFor, ByteFor, Reading
<1>8. RInv'
  BY <1>1, <1>3, <1>7, HandlerStep
<1>9. HandedOut
  BY <1>1 DEF HandedOut
<1>10. QED
  BY <1>1, <1>2, <1>8, <1>9, ConsumeStep

\* What the scheduler and the timer do leaves the ring, and what a task is doing, alone.
Outside(t) ==
  /\ UNCHANGED <<pc, limit, ring, args>>
  /\ \A u \in Task : u # t => Same(u) /\ \A q \in Queue : AsleepOn(u, q)' <=> AsleepOn(u, q)

\* The rest is to show of the task concerned.
LEMMA OutsideStep ==
  ASSUME RInv, NEW t \in Task, Outside(t), WellLinked', BlockingTypeOK(Steps)',
         SleepsThere(t)', TimerThere(t)', RoomFor(t)', ByteFor(t)'
  PROVE  RInv' /\ Bounded
<1>1. UNCHANGED <<pc, limit, ring, buffer, head, tail, bytes, length, roles>>
  BY DEF Outside, ring, args
<1>2. RingTypeOK'
  BY <1>1 DEF RInv, RingTypeOK
<1>3. TaskInv(t)'
  <2>1. InCall(t) /\ Given(t)
    BY DEF RInv, TaskInv, OwnInv
  <2>2. InCall(t)' /\ Given(t)'
    BY <1>1, <2>1 DEF InCall, Given, Calling
  <2>3. QED
    BY <2>2 DEF TaskInv, OwnInv
<1>4. ASSUME NEW u \in Task, u # t
      PROVE  TaskInv(u)'
  <2>1. /\ TaskInv(u) /\ OwnInv(u) /\ Same(u)
        /\ \A q \in Queue : AsleepOn(u, q)' <=> AsleepOn(u, q)
    BY <1>4 DEF RInv, TaskInv, Outside
  <2>2. OwnInv(u)'
    BY <1>1, <2>1, OwnSame
  <2>3. Awake(u)' => Awake(u)
    BY <2>1 DEF Awake, Asleep, Same
  <2>4. RoomFor(u)' /\ ByteFor(u)'
    BY <1>1, <2>1, <2>3, AwakeSame
  <2>5. QED
    BY <2>2, <2>4 DEF TaskInv
<1>5. RInv'
  BY <1>1, <1>2, <1>3, <1>4 DEF RInv
<1>6. QED
  BY <1>1, <1>5, RingAlone

\* A task that the scheduler links is not awake, before or after.
LEMMA LinkedKept ==
  ASSUME RInv, NEW t \in Task, Linked(t), UNCHANGED <<ring, args>>
  PROVE  RInv' /\ Bounded
<1> DEFINE q == hold[t]
           g == Unlinked(waitq, t)
<1>1. /\ BlockingTypeOK(Steps) /\ Table(waitq, Queue, Task) /\ TaskInv(t)
  BY DEF RInv, RingTypeOK, WellLinked
<1>2. /\ q \in Queue /\ waitq' = AddTail(g, q, t) /\ hold' = [hold EXCEPT ![t] = None]
      /\ UNCHANGED <<timer, timedOut, pc, limit, ring, buffer, head, tail, bytes, length, roles>>
  BY <1>1 DEF Linked, BlockingTypeOK, ring, args
<1> HIDE DEF q, g
<1>3. Table(g, Queue, Task) /\ Drops(g, waitq, Queue, t)
  BY <1>1, UnlinkedTable DEF g
<1>4. Off(g, Queue, t)
  BY <1>3 DEF Drops, Off
<1>5. Table(waitq', Queue, Task) /\ Adds(waitq', g, Queue, q, t)
  BY <1>2, <1>3, <1>4, AddTailTable
<1>6. /\ WellLinked'
      /\ \A u \in Task, r \in Queue : u # t => (AsleepOn(u, r)' <=> AsleepOn(u, r))
      /\ \A r \in Queue : AsleepOn(t, r)' <=> r = q
  BY <1>3, <1>5 DEF WellLinked, AsleepOn, Adds, Drops
<1>7. BlockingTypeOK(Steps)'
  BY <1>1, <1>2, <1>5 DEF BlockingTypeOK, Table
<1>8. Outside(t)
  BY <1>1, <1>2, <1>6 DEF Outside, Same, BlockingTypeOK, args
<1>9. hold'[t] = None /\ None \notin Queue
  BY <1>1, <1>2, BlockingAssumption DEF BlockingTypeOK
<1>10. SleepsThere(t)'
  <2>1. SleepsThere(t)
    BY <1>1 DEF TaskInv, OwnInv
  <2>2. (q = rq /\ pc[t] = "reading") \/ (q = wq /\ pc[t] \in Waiting)
    BY <1>2, <2>1 DEF SleepsThere, q
  <2>3. QED
    BY <1>2, <1>6, <1>9, <2>2 DEF SleepsThere
<1>11. TimerThere(t)'
  BY <1>1, <1>2 DEF TaskInv, OwnInv, TimerThere
<1>12. RoomFor(t)' /\ ByteFor(t)'
  <2>1. ~(Awake(t)')
    BY <1>2, <1>6 DEF Awake, Asleep
  <2>2. QED
    BY <1>1, <1>2, <2>1 DEF TaskInv, RoomFor, ByteFor, Empty
<1>13. QED
  BY <1>6, <1>7, <1>8, <1>10, <1>11, <1>12, OutsideStep

\* The timer interrupt only marks a timer.
LEMMA TimerISRKept ==
  ASSUME RInv, NEW t \in Task, TimerISR(t), UNCHANGED <<ring, args>>
  PROVE  RInv' /\ Bounded
<1>1. BlockingTypeOK(Steps) /\ WellLinked /\ TaskInv(t)
  BY DEF RInv, RingTypeOK
<1>2. /\ timer[t] = "set" /\ timer' = [timer EXCEPT ![t] = "due"]
      /\ UNCHANGED <<waitq, hold, timedOut, pc, limit, ring, buffer, head, tail, bytes, length, roles>>
  BY DEF TimerISR, ring, args
<1>3. BlockingTypeOK(Steps)'
  BY <1>1, <1>2 DEF BlockingTypeOK
<1>4. WellLinked' /\ \A u \in Task, q \in Queue : AsleepOn(u, q)' <=> AsleepOn(u, q)
  BY <1>1, <1>2 DEF WellLinked, AsleepOn
<1>5. Outside(t)
  BY <1>1, <1>2, <1>4 DEF Outside, Same, BlockingTypeOK, args
<1>6. SleepsThere(t)' /\ TimerThere(t)'
  BY <1>1, <1>2, <1>4 DEF TaskInv, OwnInv, SleepsThere, TimerThere
<1>7. RoomFor(t)' /\ ByteFor(t)'
  <2>1. Awake(t)' <=> Awake(t)
    BY <1>2, <1>4 DEF Awake, Asleep
  <2>2. QED
    BY <1>1, <1>2, <2>1 DEF TaskInv, RoomFor, ByteFor, Full, Empty
<1>8. QED
  BY <1>3, <1>4, <1>5, <1>6, <1>7, OutsideStep

\* A timeout wakes a task that is told so, and that does not then count on the ring.
LEMMA TimeoutWakeKept ==
  ASSUME RInv, NEW t \in Task, TimeoutWake(t), UNCHANGED <<ring, args>>
  PROVE  RInv' /\ Bounded
<1>1. BlockingTypeOK(Steps) /\ Table(waitq, Queue, Task) /\ TaskInv(t)
  BY DEF RInv, RingTypeOK, WellLinked
<1>0. /\ timer[t] = "due" /\ timer' = [timer EXCEPT ![t] = "off"]
      /\ timedOut' = [timedOut EXCEPT ![t] = "timedout"] /\ waitq' = Unlinked(waitq, t)
      /\ UNCHANGED <<hold, limit, ring, buffer, head, tail, bytes, length, roles>>
      /\ pc' = Roused(t)
  BY DEF TimeoutWake, ring, args
<1>2. /\ timer[t] = "due" /\ timer' = [timer EXCEPT ![t] = "off"]
      /\ timedOut' = [timedOut EXCEPT ![t] = "timedout"] /\ waitq' = Unlinked(waitq, t)
      /\ UNCHANGED <<hold, pc, limit, ring, buffer, head, tail, bytes, length, roles>>
  <2>1. pc[t] # "away"
    BY <1>0, <1>1 DEF TaskInv, OwnInv, TimerThere, Protected, Waiting
  <2>2. pc' = pc
    BY <1>0, <1>1, <2>1, RousedInCall DEF BlockingTypeOK
  <2>3. QED
    BY <1>0, <2>2
<1>3. Table(waitq', Queue, Task) /\ Drops(waitq', waitq, Queue, t)
  BY <1>1, <1>2, UnlinkedTable
<1>4. BlockingTypeOK(Steps)'
  BY <1>1, <1>2, <1>3 DEF BlockingTypeOK, Table
<1>5. /\ WellLinked'
      /\ \A u \in Task, q \in Queue : u # t => (AsleepOn(u, q)' <=> AsleepOn(u, q))
      /\ \A q \in Queue : ~AsleepOn(t, q)'
  BY <1>3 DEF WellLinked, AsleepOn, Drops
<1>6. Outside(t)
  BY <1>1, <1>2, <1>5 DEF Outside, Same, BlockingTypeOK, args
<1>7. timer'[t] = "off" /\ timedOut'[t] = "timedout" /\ limit[t] = "ticks"
  BY <1>1, <1>2 DEF BlockingTypeOK, TaskInv, OwnInv, TimerThere
<1>8. SleepsThere(t)' /\ TimerThere(t)'
  BY <1>1, <1>2, <1>5, <1>7 DEF TaskInv, OwnInv, SleepsThere, TimerThere
<1>9. RoomFor(t)' /\ ByteFor(t)'
  BY <1>1, <1>2, <1>7 DEF TaskInv, RoomFor, ByteFor, Empty
<1>10. QED
  BY <1>4, <1>5, <1>6, <1>8, <1>9, OutsideStep
-----------------------------------------------------------------------------
(* The theorems.                                                           *)

\* At the start the ring is empty and nobody calls.
LEMMA RingStart ==
  ASSUME RingInit
  PROVE  RInv
<1>1. /\ waitq = [q \in Queue |-> <<>>] /\ hold = [t \in Task |-> None]
      /\ timer = [t \in Task |-> "off"] /\ timedOut = [t \in Task |-> "running"]
      /\ pc = [t \in Task |-> "user"] /\ limit = [t \in Task |-> "zero"]
      /\ head = 0 /\ tail = 0 /\ bytes = [t \in Task |-> <<>>]
      /\ length = [t \in Task |-> 0] /\ roles \in Roles
      /\ None \notin Queue /\ Size \in Nat \ {0}
  BY BlockingAssumption, PositionFacts DEF RingInit, BlockingInit
<1>2. PICK d \in Data : buffer = [s \in Position |-> d]
  BY DEF RingInit
<1>3. 0 \in Position /\ 0 \in 0 .. Size
  BY PositionFacts
<1>4. waitq \in [Queue -> Seq(Task)] /\ bytes \in [Task -> Seq(Data)]
  BY <1>1
<1>5. RingTypeOK
  BY <1>1, <1>2, <1>3, <1>4 DEF RingTypeOK, BlockingTypeOK, Timeout
<1>6. \A q \in Queue, t \in Task : ~AsleepOn(t, q)
  BY <1>1 DEF AsleepOn, Contains
<1>7. WellLinked
  BY <1>1, <1>4 DEF WellLinked, Table, Once
<1>8. ASSUME NEW t \in Task
      PROVE  TaskInv(t)
  <2>1. pc[t] = "user" /\ timer[t] = "off" /\ hold[t] = None
    BY <1>1
  <2>2. QED
    BY <1>1, <1>6, <2>1
       DEF TaskInv, OwnInv, InCall, Reading, SleepsThere, TimerThere, Given, RoomFor, ByteFor
<1>9. QED
  BY <1>1, <1>5, <1>7, <1>8 DEF RInv

\* All the steps together.
LEMMA RingStep ==
  ASSUME RInv, Disciplined, [RingNext]_ringVars
  PROVE  RInv' /\ Bounded
<1>1. CASE UNCHANGED ringVars
  <2>1. /\ UNCHANGED <<waitq, hold, timer, timedOut, pc, limit>>
        /\ UNCHANGED <<ring, buffer, head, tail, bytes, length, roles>>
    BY <1>1 DEF ringVars, blocking, ring, args
  <2>2. RingTypeOK' /\ WellLinked' /\ (roles \in Roles)'
    BY <2>1 DEF RInv, RingTypeOK, BlockingTypeOK, WellLinked
  <2>3. ASSUME NEW u \in Task
        PROVE  TaskInv(u)'
    <3>1. TaskInv(u) /\ OwnInv(u) /\ Same(u) /\ \A q \in Queue : AsleepOn(u, q)' <=> AsleepOn(u, q)
      BY <2>1 DEF RInv, TaskInv, Same, AsleepOn
    <3>2. Awake(u)' => Awake(u)
      BY <3>1 DEF Awake, Asleep, Same
    <3>3. OwnInv(u)' /\ RoomFor(u)' /\ ByteFor(u)'
      BY <2>1, <3>1, <3>2, OwnSame, AwakeSame
    <3>4. QED
      BY <3>3 DEF TaskInv
  <2>4. QED
    BY <2>1, <2>2, <2>3, RingAlone DEF RInv
<1>2. CASE \E d \in Data : HandlerWrite(d)
  BY <1>2, HandlerWriteKept
<1>3. CASE HandlerRead
  BY <1>3, HandlerReadKept
<1>4. ASSUME NEW t \in Task,
             \/ \E d \in Data, timeout \in Timeout : Write(t, d, timeout)
             \/ \E timeout \in Timeout : Read(t, timeout)
             \/ \E ds \in Blocks, timeout \in Timeout : WriteBuffer(t, ds, timeout)
      PROVE  RInv' /\ Bounded
  BY <1>4, WriteKept, ReadKept, WriteBufferKept
<1>5. ASSUME NEW t \in Task, NEW op \in DOMAIN Again,
             \/ \E n \in 1 .. Size, timeout \in Timeout : BlockRead(t, op, n, timeout)
             \/ DrainTest(t, op) \/ DrainWoken(t, op)
      PROVE  RInv' /\ Bounded
  BY <1>5, BlockReadKept, DrainStep
<1>6. ASSUME NEW t \in Task,
             \/ WriteTest(t) \/ WriteWoken(t) \/ WakeOther(t)
             \/ ReadTest(t) \/ ReadSleep(t) \/ ReadWoken(t) \/ ReadCopy(t) \/ ReadAdvance(t)
             \/ FillTest(t) \/ FillWoken(t)
      PROVE  RInv' /\ Bounded
  BY <1>6, WriteStep, WakeOtherKept, ReadTestKept, ReadSleepKept, ReadWokenKept, ReadCopyKept,
     ReadAdvanceKept, FillStep
<1>7. ASSUME NEW t \in Task, (Linked(t) \/ TimerISR(t) \/ TimeoutWake(t)) /\ UNCHANGED <<ring, args>>
      PROVE  RInv' /\ Bounded
  BY <1>7, LinkedKept, TimerISRKept, TimeoutWakeKept
<1>8. QED
  BY <1>1, <1>2, <1>3, <1>4, <1>5, <1>6, <1>7 DEF RingNext

\* The invariant, of a disciplined ring.
THEOREM RingInvariance ==
  ASSUME Disciplined
  PROVE  RingSpec => []RInv
<1>1. RingInit => RInv
  BY RingStart
<1>2. RInv /\ [RingNext]_ringVars => RInv'
  BY RingStep
<1>3. QED
  BY <1>1, <1>2, PTL DEF RingSpec

\* A task that RING_write has put to sleep, and that the reading handler has let
\* through, still finds room when it gets to run.
THEOREM RoomWhenWokenAlways ==
  ASSUME Disciplined
  PROVE  RingSpec => []RoomWhenWoken
<1>1. ASSUME RInv
      PROVE  RoomWhenWoken
  <2>1. ASSUME NEW t \in Task, At(t, "writing"), timedOut[t] = "running"
        PROVE  ~Full
    BY <1>1, <2>1, RunningFacts DEF At, TaskInv, RoomFor, Awake, Asleep
  <2>2. QED
    BY <1>1, <2>1 DEF RInv, RoomWhenWoken
<1>2. QED
  BY <1>1, RingInvariance, PTL

\* The ring is a bounded queue, whatever its size.
THEOREM BoundedQueueAlways ==
  ASSUME Disciplined
  PROVE  RingSpec => BoundedQueue
<1>1. RInv /\ [RingNext]_ringVars => [Bounded]_ringVars
  BY RingStep
<1>2. QED
  BY <1>1, RingInvariance, PTL DEF RingSpec, BoundedQueue, Bounded

-----------------------------------------------------------------------------
(* What the three share: queues, timers and what a task is doing.             *)

CallSteps == {"test", "testFlags", "sync", "syncing"}

TimerInItsCall ==
  \A t \in Task :
    timer[t] # "off" /\ Untimed(t) => pc[t] \in CallSteps /\ limit[t] = "ticks"

\* timedOut is about the call a task is in.
TimeoutTold ==
  \A t \in Task : pc[t] \in CallSteps =>
    /\ timedOut[t] = "zero" => limit[t] = "zero"
    /\ timedOut[t] = "timedout" /\ Untimed(t) => limit[t] = "ticks"

\* A task sleeps on the queue of the object it has called.
SleepsInItsCall ==
  \A t \in Task :
    /\ AsleepOn(t, sem) => pc[t] = "test"
    /\ AsleepOn(t, cluster) => pc[t] = "testFlags"
    /\ AsleepOn(t, sync) => pc[t] = "syncing"

SyncWithoutTimer ==
  \A t \in Task : pc[t] \in {"sync", "syncing"} /\ Untimed(t) => limit[t] # "ticks"

FlagsByUsers == \A t \in Task : pc[t] = "testFlags" => <<t, "flags">> \in uses

CallsInv ==
  /\ BlockingTypeOK(CallSteps)
  /\ Table(waitq, Queue, Task)
  /\ NoneHeld
  /\ TimerInItsCall
  /\ TimeoutTold
  /\ SleepsInItsCall
  /\ SyncWithoutTimer
  /\ FlagsByUsers

\* The queues of the three objects are different.
LEMMA ThreeQueues ==
  /\ sem \in Queue /\ cluster \in Queue /\ sync \in Queue
  /\ sem # cluster /\ cluster # sync /\ sem # sync
  /\ \A q \in Queue : q \in {sem, cluster, sync}
<1>1. /\ Queue = {sem, cluster, sync} /\ Cardinality(Queue) = 3
  BY ObjectsAssumption
<1>2. ASSUME NEW a, NEW b, Queue = {a} \cup {b} PROVE FALSE
  <2>1. IsFiniteSet({a}) /\ Cardinality({a}) = 1
    BY FS_Singleton
  <2>2. Cardinality({a} \cup {b}) = IF b \in {a} THEN 1 ELSE 2
    BY <2>1, FS_AddElement
  <2>3. QED
    BY <1>1, <1>2, <2>2
<1>3. sem # cluster
  <2>1. SUFFICES ASSUME sem = cluster PROVE Queue = {sem} \cup {sync}
    BY <1>2
  <2>2. QED
    BY <1>1, <2>1
<1>4. cluster # sync
  <2>1. SUFFICES ASSUME cluster = sync PROVE Queue = {sem} \cup {sync}
    BY <1>2
  <2>2. QED
    BY <1>1, <2>1
<1>5. sem # sync
  <2>1. SUFFICES ASSUME sem = sync PROVE Queue = {sem} \cup {cluster}
    BY <1>2
  <2>2. QED
    BY <1>1, <2>1
<1>6. QED
  BY <1>1, <1>3, <1>4, <1>5

\* A task that runs sleeps nowhere.
LEMMA RunnerIsAwake ==
  ASSUME NEW t \in Task, Runs(t)
  PROVE  /\ \A q \in Queue : ~AsleepOn(t, q)
         /\ \A u \in Task : timer[u] # "due"
BY DEF Runs, Ready, Asleep, Settled

\* Tasks have at most been taken off queues.
OnlyTakenOff ==
  /\ Table(waitq', Queue, Task)
  /\ \A q \in Queue : \A y : Contains(waitq'[q], y) => Contains(waitq[q], y)

LEMMA SameQueuesShrink ==
  ASSUME Table(waitq, Queue, Task), UNCHANGED waitq
  PROVE  OnlyTakenOff
BY DEF OnlyTakenOff

\* A call begins.
LEMMA BeginKeepsCalls ==
  ASSUME CallsInv, NEW t \in Task, NEW step \in CallSteps \ {"syncing"},
         NEW timeout \in Timeout, Begin(t, step, timeout), UNCHANGED uses,
         step = "sync" /\ Untimed(t) => timeout # "ticks",
         step = "testFlags" => <<t, "flags">> \in uses
  PROVE  CallsInv'
<1>1. /\ pc[t] = "user" /\ UNCHANGED <<waitq, hold>>
      /\ timedOut' = [timedOut EXCEPT ![t] = IF timeout = "zero" THEN "zero" ELSE "running"]
      /\ timer' = IF timeout = "ticks" THEN [timer EXCEPT ![t] = "set"] ELSE timer
      /\ limit' = [limit EXCEPT ![t] = timeout]
      /\ pc' = [pc EXCEPT ![t] = step]
  BY DEF Begin, Armed
<1>2. BlockingTypeOK(CallSteps)
  BY DEF CallsInv
<1>3. BlockingTypeOK(CallSteps)'
  BY <1>1, <1>2 DEF BlockingTypeOK, Timeout
<1>4. Table(waitq', Queue, Task) /\ NoneHeld'
  BY <1>1 DEF CallsInv, NoneHeld
<1>5. TimerInItsCall'
  BY <1>1, <1>2 DEF CallsInv, TimerInItsCall, Untimed, BlockingTypeOK, CallSteps
<1>6. TimeoutTold'
  BY <1>1, <1>2 DEF CallsInv, TimeoutTold, Untimed, BlockingTypeOK, CallSteps
<1>7. SleepsInItsCall'
  BY <1>1, <1>2 DEF CallsInv, SleepsInItsCall, AsleepOn, BlockingTypeOK
<1>8. SyncWithoutTimer' /\ FlagsByUsers'
  BY <1>1, <1>2 DEF CallsInv, SyncWithoutTimer, FlagsByUsers, Untimed, BlockingTypeOK, CallSteps
<1>9. QED
  BY <1>3, <1>4, <1>5, <1>6, <1>7, <1>8 DEF CallsInv

\* A call returns, having woken others perhaps.
LEMMA ReturnKeepsCalls ==
  ASSUME CallsInv, NEW t \in Task, Runs(t), pc[t] \in CallSteps, Return(t), OnlyTakenOff,
         UNCHANGED uses
  PROVE  CallsInv'
<1>1. /\ UNCHANGED <<hold, timedOut, limit>>
      /\ timer' = IF limit[t] = "ticks"
                    THEN [timer EXCEPT ![t] = IF timer[t] = "set" THEN "off" ELSE timer[t]]
                    ELSE timer
      /\ pc' = [pc EXCEPT ![t] = "user"]
  BY DEF Return, Restored, Cancelled
<1>2. BlockingTypeOK(CallSteps) /\ timer[t] # "due" /\ \A q \in Queue : ~AsleepOn(t, q)
  BY RunnerIsAwake DEF CallsInv
<1>3. BlockingTypeOK(CallSteps)'
  BY <1>1, <1>2 DEF BlockingTypeOK, OnlyTakenOff, Table
<1>4. Table(waitq', Queue, Task) /\ NoneHeld'
  BY <1>1 DEF CallsInv, NoneHeld, OnlyTakenOff
<1>5. TimerInItsCall'
  <2>1. Untimed(t) => timer'[t] = "off"
    BY <1>1, <1>2 DEF CallsInv, TimerInItsCall, BlockingTypeOK
  <2>2. QED
    BY <1>1, <1>2, <2>1 DEF CallsInv, TimerInItsCall, Untimed, BlockingTypeOK
<1>6. TimeoutTold' /\ SyncWithoutTimer' /\ FlagsByUsers'
  BY <1>1, <1>2 DEF CallsInv, TimeoutTold, SyncWithoutTimer, FlagsByUsers, Untimed,
                   BlockingTypeOK, CallSteps
<1>7. SleepsInItsCall'
  BY <1>1, <1>2, ThreeQueues DEF CallsInv, SleepsInItsCall, AsleepOn, BlockingTypeOK, OnlyTakenOff
<1>8. QED
  BY <1>3, <1>4, <1>5, <1>6, <1>7 DEF CallsInv

\* A task goes to sleep on queue q.
Sleeps(t, q) == waitq' = AddTail(Unlinked(waitq, t), q, t)

LEMMA SleepingQueues ==
  ASSUME Table(waitq, Queue, Task), NEW t \in Task, NEW q \in Queue, Sleeps(t, q)
  PROVE  /\ Table(waitq', Queue, Task)
         /\ \A r \in Queue : \A y : Contains(waitq'[r], y) <=>
              IF y = t THEN r = q ELSE Contains(waitq[r], y)
<1> DEFINE off == Unlinked(waitq, t)
<1>1. Table(off, Queue, Task) /\ Drops(off, waitq, Queue, t)
  BY UnlinkedTable
<1>2. Off(off, Queue, t)
  BY <1>1 DEF Off, Drops
<1>3. waitq' = AddTail(off, q, t)
  BY DEF Sleeps
<1> HIDE DEF off
<1>4. Table(waitq', Queue, Task) /\ Adds(waitq', off, Queue, q, t)
  BY <1>1, <1>2, <1>3, AddTailTable
<1>5. QED
  BY <1>1, <1>4 DEF Drops, Adds

LEMMA SleepKeepsCalls ==
  ASSUME CallsInv, NEW t \in Task, NEW q \in Queue, Sleeps(t, q),
         UNCHANGED <<hold, timer, timedOut, limit, uses>>,
         \/ q = sem /\ pc[t] = "test" /\ pc' = pc
         \/ q = cluster /\ pc[t] = "testFlags" /\ pc' = pc
         \/ q = sync /\ pc[t] = "sync" /\ pc' = [pc EXCEPT ![t] = "syncing"]
  PROVE  CallsInv'
<1>1. BlockingTypeOK(CallSteps) /\ Table(waitq, Queue, Task)
  BY DEF CallsInv
<1>2. /\ Table(waitq', Queue, Task)
      /\ \A r \in Queue : \A y : Contains(waitq'[r], y) <=>
           IF y = t THEN r = q ELSE Contains(waitq[r], y)
  BY <1>1, SleepingQueues
<1>3. BlockingTypeOK(CallSteps)'
  BY <1>1, <1>2 DEF BlockingTypeOK, Table, CallSteps
<1>4. NoneHeld' /\ TimerInItsCall' /\ TimeoutTold' /\ SyncWithoutTimer' /\ FlagsByUsers'
  BY <1>1 DEF CallsInv, NoneHeld, TimerInItsCall, TimeoutTold, SyncWithoutTimer,
              FlagsByUsers, Untimed, BlockingTypeOK, CallSteps
<1>5. SleepsInItsCall'
  <2>1. pc \in [Task -> {"user", "away"} \cup CallSteps]
    BY <1>1 DEF BlockingTypeOK
  <2>2. ASSUME NEW u \in Task, u # t
        PROVE  /\ AsleepOn(u, sem)' => pc'[u] = "test"
               /\ AsleepOn(u, cluster)' => pc'[u] = "testFlags"
               /\ AsleepOn(u, sync)' => pc'[u] = "syncing"
    <3>1. pc'[u] = pc[u]
      BY <2>1, <2>2
    <3>2. QED
      BY <1>2, <2>2, <3>1, ThreeQueues DEF CallsInv, SleepsInItsCall, AsleepOn
  <2>3. /\ AsleepOn(t, sem)' => pc'[t] = "test"
        /\ AsleepOn(t, cluster)' => pc'[t] = "testFlags"
        /\ AsleepOn(t, sync)' => pc'[t] = "syncing"
    BY <1>2, <2>1, ThreeQueues DEF AsleepOn
  <2>4. QED
    BY <2>2, <2>3 DEF SleepsInItsCall
<1>6. QED
  BY <1>2, <1>3, <1>4, <1>5 DEF CallsInv

\* Those of a queue are woken that are not in X.
LEMMA SiftedQueues ==
  ASSUME Table(waitq, Queue, Task), NEW p \in Queue, NEW X,
         waitq' = [waitq EXCEPT ![p] = Sifted(waitq[p], X)]
  PROVE  /\ Table(waitq', Queue, Task)
         /\ \A q \in Queue : \A y :
              Contains(waitq'[q], y) <=> Contains(waitq[q], y) /\ (q # p \/ y \in X)
<1> DEFINE g == [waitq EXCEPT ![p] = Sifted(waitq[p], X)]
<1>1. /\ Table(g, Queue, Task)
      /\ \A q \in Queue : \A y :
           Contains(g[q], y) <=> Contains(waitq[q], y) /\ (q # p \/ y \in X)
  BY SiftedTable
<1>2. waitq' = g
  OBVIOUS
<1> HIDE DEF g
<1>3. QED
  BY <1>1, <1>2

\* Tasks are woken, and nothing else happens to them.
LEMMA WakeKeepsCalls ==
  ASSUME CallsInv, OnlyTakenOff, UNCHANGED <<hold, timer, timedOut, pc, limit, uses>>
  PROVE  CallsInv'
<1>1. BlockingTypeOK(CallSteps)'
  BY DEF CallsInv, BlockingTypeOK, OnlyTakenOff, Table
<1>2. NoneHeld' /\ TimerInItsCall' /\ TimeoutTold' /\ SyncWithoutTimer' /\ FlagsByUsers'
  BY DEF CallsInv, NoneHeld, TimerInItsCall, TimeoutTold, SyncWithoutTimer, FlagsByUsers, Untimed
<1>3. SleepsInItsCall'
  BY ThreeQueues DEF CallsInv, SleepsInItsCall, AsleepOn, OnlyTakenOff
<1>4. QED
  BY <1>1, <1>2, <1>3 DEF CallsInv, OnlyTakenOff

\* A woken caller of KRN_sync returns, and leaves a timer behind only if it may.
LEMMA LeavesKeepsCalls ==
  ASSUME CallsInv, NEW t \in Task, Leaves(t), UNCHANGED uses
  PROVE  CallsInv'
<1>1. /\ pc[t] = "syncing" /\ pc' = [pc EXCEPT ![t] = "user"]
      /\ UNCHANGED <<waitq, hold, timer, timedOut, limit>>
      /\ \A q \in Queue : ~AsleepOn(t, q)
  BY RunnerIsAwake DEF Leaves
<1>2. BlockingTypeOK(CallSteps) /\ (Untimed(t) => timer[t] = "off")
  BY <1>1 DEF CallsInv, TimerInItsCall, SyncWithoutTimer
<1>3. BlockingTypeOK(CallSteps)' /\ Table(waitq', Queue, Task) /\ NoneHeld'
  BY <1>1, <1>2 DEF CallsInv, BlockingTypeOK, NoneHeld
<1>4. TimerInItsCall' /\ TimeoutTold' /\ SyncWithoutTimer' /\ FlagsByUsers'
  BY <1>1, <1>2 DEF CallsInv, TimerInItsCall, TimeoutTold, SyncWithoutTimer,
                   FlagsByUsers, Untimed, BlockingTypeOK, CallSteps
<1>5. SleepsInItsCall'
  BY <1>1, <1>2, ThreeQueues DEF CallsInv, SleepsInItsCall, AsleepOn, BlockingTypeOK
<1>6. QED
  BY <1>3, <1>4, <1>5 DEF CallsInv

\* A timer expires.
LEMMA TimerISRKeepsCalls ==
  ASSUME CallsInv, NEW t \in Task, TimerISR(t), UNCHANGED uses
  PROVE  CallsInv'
<1>1. /\ UNCHANGED <<waitq, hold, timedOut, pc, limit>>
      /\ timer[t] = "set" /\ timer' = [timer EXCEPT ![t] = "due"]
  BY DEF TimerISR
<1>2. BlockingTypeOK(CallSteps)' /\ Table(waitq', Queue, Task) /\ NoneHeld'
  BY <1>1 DEF CallsInv, BlockingTypeOK, NoneHeld
<1>3. TimerInItsCall'
  BY <1>1 DEF CallsInv, TimerInItsCall, Untimed, BlockingTypeOK
<1>4. TimeoutTold' /\ SyncWithoutTimer' /\ SleepsInItsCall' /\ FlagsByUsers'
  BY <1>1 DEF CallsInv, TimeoutTold, SyncWithoutTimer, FlagsByUsers, Untimed,
              SleepsInItsCall, AsleepOn
<1>5. QED
  BY <1>2, <1>3, <1>4 DEF CallsInv

\* Taking a task off its queue.
LEMMA UnlinkedShrinks ==
  ASSUME CallsInv, NEW t \in Task, waitq' = Unlinked(waitq, t)
  PROVE  /\ OnlyTakenOff
         /\ \A q \in Queue : \A y : Contains(waitq'[q], y) <=> Contains(waitq[q], y) /\ y # t
<1>1. Table(waitq', Queue, Task) /\ Drops(waitq', waitq, Queue, t)
  BY UnlinkedTable DEF CallsInv
<1>2. QED
  BY <1>1 DEF OnlyTakenOff, Drops

\* The timer task wakes a task whose time is out.
LEMMA TimeoutWakeKeepsCalls ==
  ASSUME CallsInv, NEW t \in Task, TimeoutWake(t), UNCHANGED uses
  PROVE  CallsInv' /\ (pc[t] \in {"sync", "syncing"} => ~Untimed(t))
<1>1. /\ UNCHANGED <<hold, limit>> /\ waitq' = Unlinked(waitq, t)
      /\ timer[t] = "due" /\ timer' = [timer EXCEPT ![t] = "off"]
      /\ timedOut' = [timedOut EXCEPT ![t] = "timedout"]
      /\ pc' = [pc EXCEPT ![t] = IF pc[t] = "away" THEN "user" ELSE pc[t]]
  BY DEF TimeoutWake, Roused
<1>2. OnlyTakenOff
  BY <1>1, UnlinkedShrinks
<1>3. /\ BlockingTypeOK(CallSteps)
      /\ Untimed(t) => limit[t] = "ticks" /\ pc[t] \notin {"sync", "syncing"}
  BY <1>1 DEF CallsInv, TimerInItsCall, SyncWithoutTimer
<1>4. BlockingTypeOK(CallSteps)'
  BY <1>1, <1>2, <1>3 DEF BlockingTypeOK, OnlyTakenOff, Table
<1>5. \A u \in Task : pc'[u] = pc[u] \/ (pc[u] = "away" /\ pc'[u] = "user")
  BY <1>1, <1>3 DEF BlockingTypeOK
<1>6. NoneHeld' /\ SyncWithoutTimer' /\ FlagsByUsers'
  BY <1>1, <1>5 DEF CallsInv, NoneHeld, SyncWithoutTimer, FlagsByUsers, Untimed
<1>7. TimerInItsCall'
  BY <1>1, <1>3, <1>5 DEF CallsInv, TimerInItsCall, Untimed, BlockingTypeOK, CallSteps
<1>8. TimeoutTold'
  BY <1>1, <1>3, <1>5 DEF CallsInv, TimeoutTold, Untimed, BlockingTypeOK, CallSteps
<1>9. SleepsInItsCall'
  BY <1>1, <1>2, <1>5, ThreeQueues DEF CallsInv, SleepsInItsCall, AsleepOn, OnlyTakenOff
<1>10. QED
  BY <1>2, <1>3, <1>4, <1>6, <1>7, <1>8, <1>9 DEF CallsInv, OnlyTakenOff

\* A task goes to sleep elsewhere, or is resumed by force.
LEMMA LeaveKeepsCalls ==
  ASSUME CallsInv, NEW t \in Task, Leave(t), UNCHANGED uses
  PROVE  CallsInv'
<1>1. /\ UNCHANGED <<waitq, hold, timer, timedOut, limit>>
      /\ pc[t] = "user" /\ pc' = [pc EXCEPT ![t] = "away"]
  BY DEF Leave
<1>2. BlockingTypeOK(CallSteps)
  BY DEF CallsInv
<1>3. BlockingTypeOK(CallSteps)' /\ Table(waitq', Queue, Task) /\ NoneHeld'
  BY <1>1, <1>2 DEF CallsInv, BlockingTypeOK, NoneHeld
<1>4. /\ TimerInItsCall' /\ TimeoutTold' /\ SyncWithoutTimer' /\ FlagsByUsers'
      /\ SleepsInItsCall'
  BY <1>1, <1>2 DEF CallsInv, TimerInItsCall, TimeoutTold, SyncWithoutTimer, FlagsByUsers,
                   Untimed, SleepsInItsCall, AsleepOn, BlockingTypeOK, CallSteps
<1>5. QED
  BY <1>3, <1>4 DEF CallsInv

LEMMA ResumeKeepsCalls ==
  ASSUME CallsInv, NEW t \in Task, Resume(t), UNCHANGED uses
  PROVE  CallsInv'
<1>1. /\ UNCHANGED <<timer, timedOut, limit>> /\ waitq' = Unlinked(waitq, t)
      /\ hold' = [hold EXCEPT ![t] = None]
      /\ pc' = [pc EXCEPT ![t] = IF pc[t] = "away" THEN "user" ELSE pc[t]]
  BY DEF Resume, Roused
<1>2. OnlyTakenOff
  BY <1>1, UnlinkedShrinks
<1>3. BlockingTypeOK(CallSteps)
  BY DEF CallsInv
<1>4. BlockingTypeOK(CallSteps)'
  BY <1>1, <1>2, <1>3 DEF BlockingTypeOK, OnlyTakenOff, Table
<1>5. NoneHeld'
  BY <1>1, <1>3 DEF CallsInv, NoneHeld, BlockingTypeOK
<1>6. TimerInItsCall' /\ TimeoutTold' /\ SyncWithoutTimer' /\ FlagsByUsers'
  BY <1>1, <1>3 DEF CallsInv, TimerInItsCall, TimeoutTold, SyncWithoutTimer, FlagsByUsers,
                   Untimed, BlockingTypeOK, CallSteps
<1>7. SleepsInItsCall'
  BY <1>1, <1>2, <1>3, ThreeQueues DEF CallsInv, SleepsInItsCall, AsleepOn, OnlyTakenOff,
                                   BlockingTypeOK
<1>8. QED
  BY <1>2, <1>4, <1>5, <1>6, <1>7 DEF CallsInv, OnlyTakenOff
-----------------------------------------------------------------------------
(* Mailboxes and pools.                                                       *)

BoxInv ==
  /\ value \in 0 .. Modulus - 1
  /\ testPar \in [Task -> Amount]
  /\ BoxTypeOK
  /\ OneOwner

\* A list without repetition is not longer than there are items.
LEMMA InjectiveLength ==
  ASSUME NEW s \in Seq(Item), IsInjective(s)
  PROVE  Len(s) <= Cardinality(Item) /\ Cardinality(Item) \in Nat
<1> Len(s) \in Nat
  OBVIOUS
<1>1. IsFiniteSet(Item) /\ IsFiniteSet(1 .. Len(s)) /\ Cardinality(1 .. Len(s)) = Len(s)
  BY MailboxAssumption, FS_Interval
<1>2. s \in Injection(1 .. Len(s), Item)
  BY DEF Injection, IsInjective
<1>3. QED
  BY <1>1, <1>2, FS_Injection, FS_CardinalityType

\* The free list of a pool holds each item once when KRN_initPool is done.
LEMMA StockedList ==
  ASSUME NEW s \in SetToSeqs(Stocked)
  PROVE  /\ s \in Seq(Item) /\ IsInjective(s) /\ Len(s) = Initial
         /\ \A x : Contains(s, x) <=> x \in Stocked
<1> DEFINE n == Cardinality(Stocked)
<1>1. IsFiniteSet(Stocked) /\ n \in Nat /\ Initial = n
  BY MailboxAssumption, FS_Subset, FS_CardinalityType
<1>2. s \in [1 .. n -> Stocked] /\ \A i, j \in 1 .. n : i # j => s[i] # s[j]
  BY DEF SetToSeqs
<1>3. s \in Injection(1 .. n, Stocked)
  BY <1>2 DEF Injection, IsInjective
<1>4. Cardinality(1 .. n) = n
  BY <1>1, FS_Interval
<1> HIDE DEF n
<1>5. s \in Surjection(1 .. n, Stocked)
  BY <1>1, <1>3, <1>4, FS_Injection DEF n
<1>6. s \in Seq(Stocked) /\ Len(s) = n
  BY <1>1, <1>2
<1>7. \A x : Contains(s, x) <=> x \in Stocked
  BY <1>2, <1>5, <1>6 DEF Surjection, Contains
<1>8. s \in Seq(Item)
  BY <1>6, MailboxAssumption
<1>9. QED
  BY <1>1, <1>2, <1>6, <1>7, <1>8 DEF IsInjective

LEMMA SmallModulo ==
  ASSUME NEW m \in Nat, NEW n \in 0 .. m - 1
  PROVE  n % m = n
OBVIOUS

\* Items are put by whoever owns them.
LEMMA PutKeepsBox ==
  ASSUME BoxInv, NEW x \in Item, owner[x] # None, Put(x)
  PROVE  BoxInv'
<1>1. /\ items \in Seq(Item) /\ owner \in [Item -> Task \cup {Handler, None}]
      /\ value = Len(items) /\ IsInjective(items)
      /\ \A y \in Item : Contains(items, y) <=> owner[y] = None
  BY DEF BoxInv, BoxTypeOK, OneOwner
<1>2. /\ items' = Append(items, x) /\ owner' = [owner EXCEPT ![x] = None]
      /\ value' = (value + 1) % Modulus /\ testPar' = testPar
  BY DEF Put, SetSemaphore
<1>3. ~Contains(items, x)
  BY <1>1
<1>4. items' \in Seq(Item) /\ Len(items') = Len(items) + 1
  BY <1>1, <1>2
<1>5. IsInjective(items')
  BY <1>1, <1>2, <1>3 DEF IsInjective, Contains
<1>6. value' = Len(items') /\ value' \in 0 .. Modulus - 1
  <2>1. Len(items') < Modulus /\ Modulus \in Nat
    BY <1>4, <1>5, InjectiveLength, MailboxAssumption, SemaphoreAssumption
  <2>2. value + 1 = Len(items') /\ value + 1 \in 0 .. Modulus - 1
    BY <1>1, <1>4, <2>1
  <2>3. (value + 1) % Modulus = value + 1
    BY <2>1, <2>2, SmallModulo
  <2>4. QED
    BY <1>2, <2>2, <2>3
<1>7. \A y : Contains(items', y) <=> Contains(items, y) \/ y = x
  BY <1>1, <1>2 DEF Contains
<1>8. owner' \in [Item -> Task \cup {Handler, None}]
  BY <1>1, <1>2
<1>9. \A y \in Item : Contains(items', y) <=> owner'[y] = None
  BY <1>1, <1>2, <1>7
<1>10. QED
  BY <1>2, <1>4, <1>5, <1>6, <1>8, <1>9 DEF BoxInv, BoxTypeOK, OneOwner

\* The value covers one, and so there is an item to take.
LEMMA TakeKeepsBox ==
  ASSUME BoxInv, NEW by \in Task \cup {Handler}, Take(by),
         1 <= value, value' = value - 1, testPar' = testPar
  PROVE  BoxInv'
<1>1. /\ items \in Seq(Item) /\ owner \in [Item -> Task \cup {Handler, None}]
      /\ value = Len(items) /\ IsInjective(items)
      /\ \A y \in Item : Contains(items, y) <=> owner[y] = None
  BY DEF BoxInv, BoxTypeOK, OneOwner
<1>2. items # <<>> /\ Len(items) >= 1
  BY <1>1
<1>3. items' = Tail(items) /\ owner' = [owner EXCEPT ![Head(items)] = by]
  BY <1>2 DEF Take
<1>4. items' \in Seq(Item) /\ Len(items') = Len(items) - 1 /\ Head(items) \in Item
  BY <1>1, <1>2, <1>3
<1>5. Head(items) = items[1] /\ \A i \in 1 .. Len(items) - 1 : items'[i] = items[i + 1]
  BY <1>1, <1>2, <1>3
<1>6. IsInjective(items')
  <2>1. DOMAIN items' = 1 .. Len(items) - 1 /\ DOMAIN items = 1 .. Len(items)
    BY <1>1, <1>4
  <2>2. ASSUME NEW i \in 1 .. Len(items) - 1, NEW j \in 1 .. Len(items) - 1,
               items'[i] = items'[j]
        PROVE  i = j
    <3>1. i + 1 \in 1 .. Len(items) /\ j + 1 \in 1 .. Len(items)
      BY <1>1
    <3>2. items[i + 1] = items[j + 1]
      BY <1>5, <2>2
    <3>3. i + 1 = j + 1
      BY <1>1, <2>1, <3>1, <3>2 DEF IsInjective
    <3>4. QED
      BY <3>3
  <2>3. QED
    BY <2>1, <2>2 DEF IsInjective
<1>7. \A y : Contains(items', y) <=> Contains(items, y) /\ y # Head(items)
  <2>1. ASSUME NEW y, Contains(items', y)
        PROVE  Contains(items, y) /\ y # Head(items)
    <3>1. PICK i \in 1 .. Len(items) - 1 : items[i + 1] = y
      BY <2>1, <1>4, <1>5 DEF Contains
    <3>2. i + 1 \in 1 .. Len(items) /\ 1 \in 1 .. Len(items) /\ i + 1 # 1
      BY <1>1, <1>2
    <3>3. QED
      BY <1>1, <1>5, <3>1, <3>2 DEF Contains, IsInjective
  <2>2. ASSUME NEW y, Contains(items, y), y # Head(items)
        PROVE  Contains(items', y)
    <3>1. PICK i \in 1 .. Len(items) : items[i] = y
      BY <2>2 DEF Contains
    <3>2. i - 1 \in 1 .. Len(items) - 1
      BY <1>5, <2>2, <3>1
    <3>3. items'[i - 1] = y
      BY <1>5, <3>1, <3>2
    <3>4. QED
      BY <1>4, <3>2, <3>3 DEF Contains
  <2>3. QED
    BY <2>1, <2>2
<1>8. by # None
  BY MailboxAssumption
<1>9. \A y \in Item : Contains(items', y) <=> owner'[y] = None
  BY <1>1, <1>3, <1>4, <1>7, <1>8
<1>10. owner' \in [Item -> Task \cup {Handler, None}]
  BY <1>1, <1>3
<1>11. value' \in 0 .. Modulus - 1
  BY SemaphoreAssumption DEF BoxInv
<1>12. QED
  BY <1>1, <1>4, <1>6, <1>9, <1>10, <1>11 DEF BoxInv, BoxTypeOK, OneOwner

\* What one of them hands to another is not on the list.
LEMMA PassKeepsBox ==
  ASSUME BoxInv, NEW x \in Item, owner[x] # None, NEW to \in Task \cup {Handler}, Pass(x, to)
  PROVE  BoxInv'
<1>1. /\ owner' = [owner EXCEPT ![x] = to] /\ UNCHANGED <<value, testPar, items>>
      /\ to # None
  BY MailboxAssumption DEF Pass, vars
<1>2. owner \in [Item -> Task \cup {Handler, None}]
  BY DEF BoxInv, BoxTypeOK
<1>3. QED
  BY <1>1, <1>2 DEF BoxInv, BoxTypeOK, OneOwner
-----------------------------------------------------------------------------
(* Event flags.                                                               *)

FlagsInv ==
  /\ FlagsTypeOK
  /\ \A t \in Task : AsleepOn(t, cluster) => ~flgTest(flags, call[t])

\* With fewer flags set no test passes that did not pass before.
LEMMA FewerFlags ==
  ASSUME NEW fs, NEW gs \in SUBSET fs, NEW c \in Call, flgTest(gs, c)
  PROVE  flgTest(fs, c)
BY DEF flgTest

LEMMA FlagsUndisturbed ==
  ASSUME FlagsInv, NEW gs \in SUBSET flags, flags' = gs, UNCHANGED call,
         \A y : Contains(waitq'[cluster], y) => Contains(waitq[cluster], y)
  PROVE  FlagsInv'
<1>1. FlagsTypeOK /\ FlagsTypeOK'
  BY DEF FlagsInv, FlagsTypeOK
<1>2. ASSUME NEW t \in Task, AsleepOn(t, cluster)' PROVE ~flgTest(flags', call'[t])
  <2>1. ~flgTest(flags, call[t]) /\ call[t] \in Call /\ call' = call
    BY <1>1, <1>2 DEF FlagsInv, FlagsTypeOK, AsleepOn
  <2>2. QED
    BY <2>1, FewerFlags
<1>3. QED
  BY <1>1, <1>2 DEF FlagsInv

\* Flags are set or toggled, and those whose test passes now are woken.
LEMMA ScheduleKeepsFlags ==
  ASSUME CallsInv, FlagsInv, NEW new \in SUBSET Flag, flagSchedule(new)
  PROVE  /\ FlagsInv' /\ OnlyTakenOff
         /\ \A y : Contains(waitq'[sync], y) <=> Contains(waitq[sync], y)
<1> DEFINE X == {t \in Task : ~flgTest(new, call[t])}
<1>1. /\ flags' = new /\ call' = call
      /\ waitq' = [waitq EXCEPT ![cluster] = Sifted(waitq[cluster], X)]
  BY DEF flagSchedule, FlagsUnwoken
<1> HIDE DEF X
<1>0. /\ Table(waitq, Queue, Task) /\ cluster \in Queue
      /\ waitq' = [waitq EXCEPT ![cluster] = Sifted(waitq[cluster], X)]
  BY <1>1, ThreeQueues DEF CallsInv
<1>2. /\ Table(waitq', Queue, Task)
      /\ \A q \in Queue : \A y :
           Contains(waitq'[q], y) <=> Contains(waitq[q], y) /\ (q # cluster \/ y \in X)
  BY <1>0, SiftedQueues
<1>3. FlagsTypeOK'
  BY <1>1 DEF FlagsInv, FlagsTypeOK
<1>4. \A t \in Task : AsleepOn(t, cluster)' => ~flgTest(flags', call'[t])
  <2>1. ASSUME NEW t \in Task, AsleepOn(t, cluster)' PROVE ~flgTest(flags', call'[t])
    <3>1. t \in X
      BY <1>2, <2>1, ThreeQueues DEF AsleepOn
    <3>2. QED
      BY <1>1, <3>1 DEF X
  <2>2. QED
    BY <2>1
<1>5. QED
  BY <1>2, <1>3, <1>4, ThreeQueues DEF FlagsInv, OnlyTakenOff

\* A caller whose test fails goes to sleep.
LEMMA SleepKeepsFlags ==
  ASSUME CallsInv, FlagsInv, NEW t \in Task, TestFlagsSleeps(t)
  PROVE  FlagsInv'
<1>1. /\ Sleeps(t, cluster) /\ UNCHANGED flagVars
      /\ ~flgTest(flags, call[t])
  BY DEF TestFlagsSleeps, SleepOn, Sleeps, Passes, flagVars
<1>2. \A y : Contains(waitq'[cluster], y) => y = t \/ Contains(waitq[cluster], y)
  BY <1>1, SleepingQueues, ThreeQueues DEF CallsInv
<1>3. QED
  BY <1>1, <1>2 DEF FlagsInv, FlagsTypeOK, flagVars, AsleepOn

\* A call that begins tests for something else; its caller is awake.
LEMMA TestKeepsFlags ==
  ASSUME CallsInv, FlagsInv, NEW t \in Task, NEW c \in Call, NEW timeout \in Timeout,
         TestFlags(t, c, timeout)
  PROVE  FlagsInv'
<1>1. /\ UNCHANGED <<waitq, flags>> /\ call' = [call EXCEPT ![t] = c] /\ pc[t] = "user"
  BY DEF TestFlags, Begin
<1>2. ~AsleepOn(t, cluster)
  BY <1>1 DEF CallsInv, SleepsInItsCall
<1>3. QED
  BY <1>1, <1>2 DEF FlagsInv, FlagsTypeOK, AsleepOn
-----------------------------------------------------------------------------
(* Synchronisation objects.                                                   *)

SyncInv == SyncTypeOK /\ CountsSleepers

\* Nobody has got into the midst of KRN_sync, or been told of a timeout there.
SyncersStay ==
  /\ UNCHANGED uses
  /\ \A t \in Task : pc'[t] = "syncing" => pc[t] = "syncing" /\ timedOut'[t] = timedOut[t]

LEMMA SyncUndisturbed ==
  ASSUME SyncInv, SyncersStay, UNCHANGED syncVars,
         \A y : Contains(waitq'[sync], y) <=> Contains(waitq[sync], y)
  PROVE  SyncInv'
<1>1. UNCHANGED <<count, arrived, result, uses>>
  BY DEF syncVars, SyncersStay
<1>2. ASSUME NEW t \in Task, Contains(arrived, t), Untimed(t) \/ pc'[t] = "syncing"
      PROVE  AsleepOn(t, sync)' \/ (~Untimed(t) /\ timedOut'[t] = "timedout")
  BY <1>2 DEF SyncInv, CountsSleepers, SyncersStay, AsleepOn
<1>3. QED
  BY <1>1, <1>2 DEF SyncInv, SyncTypeOK, CountsSleepers, AsleepOn, Untimed

\* One more has arrived, and sleeps.
LEMMA ArriveKeepsSync ==
  ASSUME CallsInv, SyncInv, NEW t \in Task, Arrive(t), UNCHANGED uses
  PROVE  SyncInv'
<1>1. /\ ~(count <= 1) /\ count' = count - 1 /\ arrived' = Append(arrived, t)
      /\ pc' = [pc EXCEPT ![t] = "syncing"]
      /\ UNCHANGED <<result, timedOut>> /\ Sleeps(t, sync)
  BY DEF Arrive, LastCaller, Sleeps
<1>2. count \in 1 .. Reset /\ arrived \in Seq(Task) /\ Reset \in Nat \ {0}
  BY SyncAssumption DEF SyncInv, SyncTypeOK
<1>3. arrived' \in Seq(Task) /\ Len(arrived') = Len(arrived) + 1
  BY <1>1, <1>2
<1>4. \A y : Contains(arrived', y) <=> Contains(arrived, y) \/ y = t
  BY <1>1, <1>2 DEF Contains
<1>5. \A y : Contains(waitq'[sync], y) <=> y = t \/ Contains(waitq[sync], y)
  BY <1>1, SleepingQueues, ThreeQueues DEF CallsInv
<1>6. count' \in 1 .. Reset /\ count' + Len(arrived') = Reset
  BY <1>1, <1>2, <1>3 DEF SyncInv, CountsSleepers
<1>7. SyncTypeOK'
  BY <1>1, <1>3, <1>6 DEF SyncInv, SyncTypeOK
<1>8. ASSUME NEW u \in Task
      PROVE  /\ AsleepOn(u, sync)' => Contains(arrived', u)
             /\ Contains(arrived', u) /\ (Untimed(u) \/ pc'[u] = "syncing") =>
                  AsleepOn(u, sync)' \/ (~Untimed(u) /\ timedOut'[u] = "timedout")
  <2>1. CASE u = t
    BY <1>4, <1>5, <2>1 DEF AsleepOn
  <2>2. CASE u # t
    <3>1. pc'[u] = pc[u]
      BY <1>1, <2>2 DEF CallsInv, BlockingTypeOK
    <3>2. QED
      BY <1>1, <1>4, <1>5, <2>2, <3>1 DEF SyncInv, CountsSleepers, AsleepOn
  <2>3. QED
    BY <2>1, <2>2
<1>9. QED
  BY <1>6, <1>7, <1>8 DEF SyncInv, CountsSleepers, Untimed

\* The last caller lets all others go.
LEMMA OpenQueues ==
  ASSUME CallsInv, waitq' = [waitq EXCEPT ![sync] = <<>>]
  PROVE  /\ OnlyTakenOff
         /\ \A y : ~Contains(waitq'[sync], y)
         /\ \A y : Contains(waitq'[cluster], y) <=> Contains(waitq[cluster], y)
<1>1. waitq \in [Queue -> Seq(Task)] /\ Once(waitq, Queue)
  BY DEF CallsInv, Table
<1>2. waitq' \in [Queue -> Seq(Task)] /\ waitq'[sync] = <<>>
  BY <1>1, ThreeQueues
<1>3. \A q \in Queue \ {sync} : waitq'[q] = waitq[q]
  BY <1>1
<1>4. \A y : ~Contains(waitq'[sync], y)
  BY <1>2 DEF Contains
<1>5. Once(waitq', Queue)
  BY <1>1, <1>2, <1>3 DEF Once
<1>6. \A q \in Queue : \A y : Contains(waitq'[q], y) => Contains(waitq[q], y)
  BY <1>3, <1>4
<1>7. QED
  BY <1>2, <1>3, <1>4, <1>5, <1>6, ThreeQueues DEF OnlyTakenOff, Table

LEMMA OpenKeepsSync ==
  ASSUME CallsInv, SyncInv, NEW t \in Task, Open(t)
  PROVE  SyncInv'
<1>1. /\ count' = Reset /\ arrived' = <<>> /\ waitq' = [waitq EXCEPT ![sync] = <<>>]
      /\ result' = [result EXCEPT ![t] = Returned(t)]
  BY DEF Open, WokenAll
<1>2. Returned(t) \in {"NULL", "task"} /\ Reset \in 1 .. Reset /\ Reset + 0 = Reset
  BY SyncAssumption DEF Returned
<1>3. arrived' \in Seq(Task) /\ Len(arrived') = 0 /\ \A y : ~Contains(arrived', y)
  BY <1>1 DEF Contains
<1>4. SyncTypeOK'
  BY <1>1, <1>2, <1>3 DEF SyncInv, SyncTypeOK
<1>5. \A u \in Task : ~AsleepOn(u, sync)'
  BY <1>1, OpenQueues DEF AsleepOn
<1>6. QED
  BY <1>1, <1>2, <1>3, <1>4, <1>5 DEF SyncInv, CountsSleepers

LEMMA LeavesKeepsSync ==
  ASSUME CallsInv, SyncInv, NEW t \in Task, Leaves(t), UNCHANGED uses
  PROVE  SyncInv'
<1>1. /\ UNCHANGED <<waitq, timedOut, count, arrived>>
      /\ result' = [result EXCEPT ![t] = Returned(t)]
      /\ pc' = [pc EXCEPT ![t] = "user"]
  BY DEF Leaves
<1>2. Returned(t) \in {"NULL", "task"}
  BY DEF Returned
<1>3. SyncTypeOK'
  BY <1>1, <1>2 DEF SyncInv, SyncTypeOK
<1>4. \A u \in Task : pc'[u] = "syncing" => pc[u] = "syncing"
  BY <1>1 DEF CallsInv, BlockingTypeOK
<1>5. QED
  BY <1>1, <1>3, <1>4 DEF SyncInv, CountsSleepers, AsleepOn, Untimed

\* A timeout takes its task off the queue, and it stays counted.
LEMMA TimeoutWakeKeepsSync ==
  ASSUME CallsInv, SyncInv, NEW t \in Task, TimeoutWake(t), UNCHANGED <<syncVars, uses>>
  PROVE  SyncInv'
<1>1. /\ waitq' = Unlinked(waitq, t) /\ timedOut' = [timedOut EXCEPT ![t] = "timedout"]
      /\ pc' = [pc EXCEPT ![t] = IF pc[t] = "away" THEN "user" ELSE pc[t]]
      /\ UNCHANGED <<count, arrived, result>>
  BY DEF TimeoutWake, Roused, syncVars
<1>2. pc[t] \in {"sync", "syncing"} => ~Untimed(t)
  BY TimeoutWakeKeepsCalls
<1>3. \A y : Contains(waitq'[sync], y) <=> Contains(waitq[sync], y) /\ y # t
  BY <1>1, UnlinkedShrinks, ThreeQueues
<1>4. BlockingTypeOK(CallSteps)
  BY DEF CallsInv
<1>5. ASSUME NEW u \in Task, Contains(arrived, u), Untimed(u) \/ pc'[u] = "syncing"
      PROVE  AsleepOn(u, sync)' \/ (~Untimed(u) /\ timedOut'[u] = "timedout")
  <2>1. CASE u = t
    <3>1. Untimed(t) => pc[t] = "syncing"
      BY <1>5, <2>1 DEF SyncInv, CountsSleepers, CallsInv, SleepsInItsCall
    <3>2. QED
      BY <1>1, <1>2, <1>4, <1>5, <2>1, <3>1 DEF BlockingTypeOK
  <2>2. CASE u # t
    <3>1. pc'[u] = pc[u] /\ timedOut'[u] = timedOut[u]
      BY <1>1, <1>4, <2>2 DEF BlockingTypeOK
    <3>2. QED
      BY <1>3, <1>5, <2>2, <3>1 DEF SyncInv, CountsSleepers, AsleepOn
  <2>3. QED
    BY <2>1, <2>2
<1>6. \A u \in Task : AsleepOn(u, sync)' => AsleepOn(u, sync)
  BY <1>3 DEF AsleepOn
<1>7. QED
  BY <1>1, <1>5, <1>6 DEF SyncInv, SyncTypeOK, CountsSleepers, Untimed
-----------------------------------------------------------------------------
(* The steps of the whole.                                                    *)

OInv == CallsInv /\ BoxInv /\ FlagsInv /\ SyncInv /\ uses \in Scenarios

\* Flags and barrier when something else has happened.
Undisturbed ==
  /\ \A y : Contains(waitq'[cluster], y) => Contains(waitq[cluster], y)
  /\ \A y : Contains(waitq'[sync], y) <=> Contains(waitq[sync], y)
  /\ SyncersStay

LEMMA OthersUndisturbed ==
  ASSUME OInv, Undisturbed, UNCHANGED <<flagVars, syncVars>>
  PROVE  FlagsInv' /\ SyncInv'
<1>1. FlagsInv'
  BY FlagsUndisturbed DEF OInv, Undisturbed, flagVars
<1>2. SyncInv'
  BY SyncUndisturbed DEF OInv, Undisturbed
<1>3. QED
  BY <1>1, <1>2

\* Tasks that do what they do stay where they are.
LEMMA SameTasksStay ==
  ASSUME UNCHANGED <<timedOut, pc, uses>>
  PROVE  SyncersStay
BY DEF SyncersStay

\* A task that begins or ends another call, or goes elsewhere.
LEMMA OtherTaskStays ==
  ASSUME CallsInv, NEW t \in Task, NEW v, v # "syncing", pc' = [pc EXCEPT ![t] = v],
         \A u \in Task \ {t} : timedOut'[u] = timedOut[u], UNCHANGED uses
  PROVE  SyncersStay
<1>1. pc'[t] # "syncing" /\ \A u \in Task \ {t} : pc'[u] = pc[u]
  BY DEF CallsInv, BlockingTypeOK
<1>2. QED
  BY <1>1 DEF SyncersStay

LEMMA BeginStays ==
  ASSUME CallsInv, NEW t \in Task, NEW step \in CallSteps \ {"syncing"}, NEW timeout,
         Begin(t, step, timeout), UNCHANGED uses
  PROVE  SyncersStay
<1>1. pc' = [pc EXCEPT ![t] = step] /\ step # "syncing"
  BY DEF Begin
<1>2. \A u \in Task \ {t} : timedOut'[u] = timedOut[u]
  BY DEF Begin, Armed, CallsInv, BlockingTypeOK
<1>3. QED
  BY <1>1, <1>2, OtherTaskStays

LEMMA ReturnStays ==
  ASSUME CallsInv, NEW t \in Task, Return(t), UNCHANGED uses
  PROVE  SyncersStay
<1>1. pc' = [pc EXCEPT ![t] = "user"] /\ timedOut' = timedOut
  BY DEF Return
<1>2. QED
  BY <1>1, OtherTaskStays

LEMMA SameQueues ==
  ASSUME CallsInv, UNCHANGED waitq, SyncersStay
  PROVE  Undisturbed /\ OnlyTakenOff
BY SameQueuesShrink DEF CallsInv, Undisturbed

LEMMA BoxUndisturbed ==
  ASSUME BoxInv, UNCHANGED <<value, testPar, boxVars>>
  PROVE  BoxInv'
BY DEF BoxInv, BoxTypeOK, OneOwner, boxVars

\* KRN_putMbox, KRN_returnPool: who sleeps for an item is woken.
LEMMA PutStep ==
  ASSUME OInv, NEW x \in Item, owner[x] # None, Put(x), UNCHANGED uses
  PROVE  CallsInv' /\ BoxInv' /\ Undisturbed
<1> DEFINE X == {u \in Task : testPar[u] > value'}
<1>1. /\ UNCHANGED <<hold, timer, timedOut, pc, limit>>
      /\ waitq' = [waitq EXCEPT ![sem] = Sifted(waitq[sem], X)]
  BY DEF Put, SetSemaphore, Unwoken
<1> HIDE DEF X
<1>2. Table(waitq, Queue, Task) /\ sem \in Queue
  BY ThreeQueues DEF OInv, CallsInv
<1>3. /\ Table(waitq', Queue, Task)
      /\ \A q \in Queue : \A y :
           Contains(waitq'[q], y) <=> Contains(waitq[q], y) /\ (q # sem \/ y \in X)
  BY <1>1, <1>2, SiftedQueues
<1>4. OnlyTakenOff /\ Undisturbed
  BY <1>1, <1>3, ThreeQueues, SameTasksStay DEF OnlyTakenOff, Undisturbed
<1>5. CallsInv'
  BY <1>1, <1>4, WakeKeepsCalls DEF OInv
<1>6. BoxInv'
  BY PutKeepsBox DEF OInv
<1>7. QED
  BY <1>4, <1>5, <1>6

\* KRN_getMbox, KRN_takePool by a task.
LEMMA GetStep ==
  ASSUME OInv, NEW t \in Task, NEW timeout \in Timeout, Get(t, timeout), UNCHANGED uses
  PROVE  CallsInv' /\ BoxInv' /\ Undisturbed
<1>1. /\ Begin(t, "test", timeout) /\ UNCHANGED <<waitq, value, boxVars>>
      /\ testPar' = [testPar EXCEPT ![t] = 1]
  BY DEF Get, TestSemaphore, Begin
<1>2. CallsInv'
  BY <1>1, BeginKeepsCalls DEF OInv, CallSteps
<1>3. BoxInv'
  BY <1>1, MailboxAssumption DEF OInv, BoxInv, BoxTypeOK, OneOwner, boxVars
<1>4. SyncersStay
  BY <1>1, BeginStays DEF OInv, CallSteps
<1>5. QED
  BY <1>1, <1>2, <1>3, <1>4, SameQueues DEF OInv

LEMMA GotStep ==
  ASSUME OInv, NEW t \in Task, Got(t), UNCHANGED uses
  PROVE  CallsInv' /\ BoxInv' /\ Undisturbed
<1>1. /\ Runs(t) /\ pc[t] = "test" /\ Return(t) /\ UNCHANGED <<waitq, testPar>>
      /\ testPar[t] <= value /\ value' = value - testPar[t] /\ Take(t)
  BY DEF Got, Claim, Testing, Suffices
<1>2. testPar[t] = 1
  BY MailboxAssumption DEF OInv, BoxInv
<1>3. OnlyTakenOff /\ Undisturbed
  BY <1>1, SameQueues, ReturnStays DEF OInv
<1>4. CallsInv'
  BY <1>1, <1>3, ReturnKeepsCalls DEF OInv, CallSteps
<1>5. BoxInv'
  BY <1>1, <1>2, TakeKeepsBox DEF OInv
<1>6. QED
  BY <1>3, <1>4, <1>5

LEMMA NotGotStep ==
  ASSUME OInv, NEW t \in Task, NotGot(t), UNCHANGED uses
  PROVE  CallsInv' /\ BoxInv' /\ Undisturbed
<1>1. UNCHANGED <<value, testPar, boxVars>> /\ Runs(t) /\ pc[t] = "test"
  BY DEF NotGot, Fail, Block, Testing
<1>2. BoxInv'
  BY <1>1, BoxUndisturbed DEF OInv
<1>3. CASE Fail(t)
  <2>1. Return(t) /\ UNCHANGED waitq
    BY <1>3 DEF Fail
  <2>2. OnlyTakenOff /\ Undisturbed
    BY <2>1, SameQueues, ReturnStays DEF OInv
  <2>3. QED
    BY <1>1, <1>2, <2>1, <2>2, ReturnKeepsCalls DEF OInv, CallSteps
<1>4. CASE Block(t)
  <2>1. Sleeps(t, sem) /\ UNCHANGED <<hold, timer, timedOut, pc, limit>>
    BY <1>4 DEF Block, SleepOn, Sleeps
  <2>2. CallsInv'
    BY <1>1, <2>1, SleepKeepsCalls, ThreeQueues DEF OInv
  <2>3. \A r \in Queue : \A y : Contains(waitq'[r], y) <=>
          IF y = t THEN r = sem ELSE Contains(waitq[r], y)
    BY <2>1, SleepingQueues, ThreeQueues DEF OInv, CallsInv
  <2>4. \A q \in Queue : ~Contains(waitq[q], t)
    BY <1>1, RunnerIsAwake DEF AsleepOn
  <2>5. Undisturbed
    BY <2>1, <2>3, <2>4, ThreeQueues, SameTasksStay DEF Undisturbed
  <2>6. QED
    BY <1>2, <2>2, <2>5
<1>5. QED
  BY <1>3, <1>4 DEF NotGot

LEMMA PassStep ==
  ASSUME OInv, NEW x \in Item, owner[x] # None, NEW to \in Task \cup {Handler}, Pass(x, to),
         UNCHANGED uses
  PROVE  CallsInv' /\ BoxInv' /\ Undisturbed
<1>1. UNCHANGED <<waitq, hold, timer, timedOut, pc, limit>>
  BY DEF Pass, vars, blocking
<1>2. OnlyTakenOff /\ Undisturbed
  BY <1>1, SameQueues, SameTasksStay DEF OInv
<1>3. CallsInv'
  BY <1>1, <1>2, WakeKeepsCalls DEF OInv
<1>4. QED
  BY <1>2, <1>3, PassKeepsBox DEF OInv

LEMMA GetNowStep ==
  ASSUME OInv, GetNow, UNCHANGED uses
  PROVE  CallsInv' /\ BoxInv' /\ Undisturbed
<1>1. /\ UNCHANGED <<waitq, hold, timer, timedOut, pc, limit, testPar>>
      /\ 1 <= value /\ value' = value - 1 /\ Take(Handler)
  BY DEF GetNow, TestNow, blocking
<1>2. OnlyTakenOff /\ Undisturbed
  BY <1>1, SameQueues, SameTasksStay DEF OInv
<1>3. CallsInv'
  BY <1>1, <1>2, WakeKeepsCalls DEF OInv
<1>4. QED
  BY <1>1, <1>2, <1>3, TakeKeepsBox DEF OInv

LEMMA UseMailboxKeepsOInv ==
  ASSUME OInv, UseMailbox
  PROVE  OInv'
<1>1. UNCHANGED <<flagVars, syncVars, uses>>
  BY DEF UseMailbox
<1>2. ASSUME NEW x \in Item, owner[x] \in Task \cup {Handler}
      PROVE  owner[x] # None
  BY <1>2, MailboxAssumption
<1>3. ASSUME NEW t \in Task, BoxStep(t) PROVE CallsInv' /\ BoxInv' /\ Undisturbed
  <2>1. ASSUME NEW x \in Item, PutByTask(t, x) PROVE CallsInv' /\ BoxInv' /\ Undisturbed
    BY <1>1, <1>2, <2>1, PutStep DEF PutByTask
  <2>2. ASSUME NEW timeout \in Timeout, Get(t, timeout)
        PROVE  CallsInv' /\ BoxInv' /\ Undisturbed
    BY <1>1, <2>2, GetStep
  <2>3. CASE Got(t)
    BY <1>1, <2>3, GotStep
  <2>4. CASE NotGot(t)
    BY <1>1, <2>4, NotGotStep
  <2>5. ASSUME NEW x \in Item, NEW to \in Task \cup {Handler}, owner[x] = t, Pass(x, to)
        PROVE  CallsInv' /\ BoxInv' /\ Undisturbed
    BY <1>1, <1>2, <2>5, PassStep
  <2>6. QED
    BY <1>3, <2>1, <2>2, <2>3, <2>4, <2>5 DEF BoxStep
<1>4. ASSUME BoxByHandler PROVE CallsInv' /\ BoxInv' /\ Undisturbed
  <2>1. ASSUME NEW x \in Item, PutByHandler(x) PROVE CallsInv' /\ BoxInv' /\ Undisturbed
    BY <1>1, <1>2, <2>1, PutStep DEF PutByHandler
  <2>2. ASSUME NEW x \in Item, NEW to \in Task, owner[x] = Handler, Pass(x, to)
        PROVE  CallsInv' /\ BoxInv' /\ Undisturbed
    BY <1>1, <1>2, <2>2, PassStep
  <2>3. CASE GetNow
    BY <1>1, <2>3, GetNowStep
  <2>4. QED
    BY <1>4, <2>1, <2>2, <2>3 DEF BoxByHandler
<1>5. CallsInv' /\ BoxInv' /\ Undisturbed
  BY <1>3, <1>4 DEF UseMailbox
<1>6. QED
  BY <1>1, <1>5, OthersUndisturbed DEF OInv

\* KRN_testFlags by a task, first and after each wake.
LEMMA FlagsStepKeepsOInv ==
  ASSUME OInv, NEW t \in Task, FlagsStep(t), <<t, "flags">> \in uses,
         UNCHANGED <<value, testPar, boxVars, syncVars, uses>>
  PROVE  OInv'
<1>1. BoxInv'
  BY BoxUndisturbed DEF OInv
<1>2. ASSUME NEW c \in Call, NEW timeout \in Timeout, TestFlags(t, c, timeout)
      PROVE  OInv'
  <2>1. Begin(t, "testFlags", timeout) /\ UNCHANGED waitq
    BY <1>2 DEF TestFlags, Begin
  <2>2. CallsInv'
    BY <2>1, BeginKeepsCalls DEF OInv, CallSteps
  <2>3. FlagsInv'
    BY <1>2, TestKeepsFlags DEF OInv
  <2>4. SyncInv'
    BY <2>1, BeginStays, SyncUndisturbed DEF OInv, CallSteps
  <2>5. QED
    BY <1>1, <2>2, <2>3, <2>4 DEF OInv
<1>3. CASE TestFlagsEnds(t)
  <2>1. /\ Runs(t) /\ pc[t] = "testFlags" /\ Return(t) /\ UNCHANGED <<waitq, call>>
        /\ flags' \in SUBSET flags
    BY <1>3 DEF TestFlagsEnds, TestingFlags, Remaining
  <2>2. OnlyTakenOff /\ Undisturbed
    BY <2>1, SameQueues, ReturnStays DEF OInv
  <2>3. CallsInv'
    BY <2>1, <2>2, ReturnKeepsCalls DEF OInv, CallSteps
  <2>4. FlagsInv'
    BY <2>1, <2>2, FlagsUndisturbed DEF OInv, Undisturbed
  <2>5. SyncInv'
    BY <2>2, SyncUndisturbed DEF OInv, Undisturbed
  <2>6. QED
    BY <1>1, <2>3, <2>4, <2>5 DEF OInv
<1>4. CASE TestFlagsSleeps(t)
  <2>1. /\ Runs(t) /\ pc[t] = "testFlags" /\ Sleeps(t, cluster)
        /\ UNCHANGED <<hold, timer, timedOut, pc, limit>>
    BY <1>4 DEF TestFlagsSleeps, TestingFlags, SleepOn, Sleeps
  <2>2. CallsInv'
    BY <2>1, SleepKeepsCalls, ThreeQueues DEF OInv
  <2>3. FlagsInv'
    BY <1>4, SleepKeepsFlags DEF OInv
  <2>4. \A r \in Queue : \A y : Contains(waitq'[r], y) <=>
          IF y = t THEN r = cluster ELSE Contains(waitq[r], y)
    BY <2>1, SleepingQueues, ThreeQueues DEF OInv, CallsInv
  <2>5. \A y : Contains(waitq'[sync], y) <=> Contains(waitq[sync], y)
    BY <2>1, <2>4, RunnerIsAwake, ThreeQueues DEF AsleepOn
  <2>6. SyncInv'
    BY <2>1, <2>5, SyncUndisturbed, SameTasksStay DEF OInv
  <2>7. QED
    BY <1>1, <2>2, <2>3, <2>6 DEF OInv
<1>5. QED
  BY <1>2, <1>3, <1>4 DEF FlagsStep

\* KRN_setFlags and its like, by tasks and handlers.
LEMMA FlagsByAnyoneKeepsOInv ==
  ASSUME OInv, FlagsByAnyone, UNCHANGED <<value, testPar, boxVars, syncVars, uses>>
  PROVE  OInv'
<1>1. BoxInv'
  BY BoxUndisturbed DEF OInv
<1>2. ASSUME NEW new \in SUBSET Flag, flagSchedule(new) PROVE OInv'
  <2>1. /\ FlagsInv' /\ OnlyTakenOff
        /\ \A y : Contains(waitq'[sync], y) <=> Contains(waitq[sync], y)
    BY <1>2, ScheduleKeepsFlags DEF OInv
  <2>2. UNCHANGED <<hold, timer, timedOut, pc, limit>>
    BY <1>2 DEF flagSchedule
  <2>3. CallsInv'
    BY <2>1, <2>2, WakeKeepsCalls DEF OInv
  <2>4. SyncInv'
    BY <2>1, <2>2, SyncUndisturbed, SameTasksStay DEF OInv
  <2>5. QED
    BY <1>1, <2>1, <2>3, <2>4 DEF OInv
<1>3. ASSUME NEW gs \in SUBSET flags, flags' = gs, UNCHANGED <<blocking, call>>
      PROVE  OInv'
  <2>1. UNCHANGED <<waitq, hold, timer, timedOut, pc, limit>>
    BY <1>3 DEF blocking
  <2>2. OnlyTakenOff /\ Undisturbed
    BY <2>1, SameQueues, SameTasksStay DEF OInv
  <2>3. CallsInv'
    BY <2>1, <2>2, WakeKeepsCalls DEF OInv
  <2>4. FlagsInv'
    BY <1>3, <2>2, FlagsUndisturbed DEF OInv, Undisturbed
  <2>5. SyncInv'
    BY <2>2, SyncUndisturbed DEF OInv, Undisturbed
  <2>6. QED
    BY <1>1, <2>3, <2>4, <2>5 DEF OInv
<1>4. flags \subseteq Flag
  BY DEF OInv, FlagsInv, FlagsTypeOK
<1>5. ASSUME NEW c \in Call, TestFlagsNow(c) PROVE OInv'
  BY <1>3, <1>5 DEF TestFlagsNow
<1>6. ASSUME NEW mask \in SUBSET Flag, SetFlags(mask) PROVE OInv'
  BY <1>2, <1>4, <1>6 DEF SetFlags
<1>7. ASSUME NEW mask \in SUBSET Flag, ToggleFlags(mask) PROVE OInv'
  BY <1>2, <1>4, <1>7 DEF ToggleFlags
<1>8. ASSUME NEW mask \in SUBSET Flag, ClearFlags(mask) PROVE OInv'
  BY <1>3, <1>8 DEF ClearFlags
<1>9. QED
  BY <1>5, <1>6, <1>7, <1>8 DEF FlagsByAnyone

\* KRN_sync.
LEMMA SyncStepKeepsOInv ==
  ASSUME OInv, NEW t \in Task, NEW timeouts \in SUBSET Timeout, SyncStep(t, timeouts),
         Untimed(t) => "ticks" \notin timeouts,
         UNCHANGED <<value, testPar, boxVars, flagVars, uses>>
  PROVE  OInv'
<1>1. BoxInv'
  BY BoxUndisturbed DEF OInv
<1>2. ASSUME \A y : Contains(waitq'[cluster], y) => Contains(waitq[cluster], y)
      PROVE  FlagsInv'
  BY <1>2, FlagsUndisturbed DEF OInv, flagVars
<1>3. ASSUME NEW timeout \in timeouts, Sync(t, timeout) PROVE OInv'
  <2>1. /\ Begin(t, "sync", timeout) /\ UNCHANGED <<waitq, syncVars>>
        /\ timeout \in Timeout /\ (Untimed(t) => timeout # "ticks")
    BY <1>3 DEF Sync, Begin
  <2>2. CallsInv'
    BY <2>1, BeginKeepsCalls DEF OInv, CallSteps
  <2>3. FlagsInv'
    BY <1>2, <2>1
  <2>4. SyncInv'
    BY <2>1, BeginStays, SyncUndisturbed DEF OInv, CallSteps
  <2>5. QED
    BY <1>1, <2>2, <2>3, <2>4 DEF OInv
<1>4. CASE Arrive(t)
  <2>1. /\ Runs(t) /\ pc[t] = "sync" /\ Sleeps(t, sync) /\ pc' = [pc EXCEPT ![t] = "syncing"]
        /\ UNCHANGED <<hold, timer, timedOut, limit>>
    BY <1>4 DEF Arrive, Sleeps
  <2>2. CallsInv'
    BY <2>1, SleepKeepsCalls, ThreeQueues DEF OInv
  <2>3. \A r \in Queue : \A y : Contains(waitq'[r], y) <=>
          IF y = t THEN r = sync ELSE Contains(waitq[r], y)
    BY <2>1, SleepingQueues, ThreeQueues DEF OInv, CallsInv
  <2>4. FlagsInv'
    BY <1>2, <2>3, ThreeQueues
  <2>5. SyncInv'
    BY <1>4, ArriveKeepsSync DEF OInv
  <2>6. QED
    BY <1>1, <2>2, <2>4, <2>5 DEF OInv
<1>5. CASE Open(t)
  <2>1. Runs(t) /\ pc[t] = "sync" /\ Return(t) /\ waitq' = [waitq EXCEPT ![sync] = <<>>]
    BY <1>5 DEF Open, WokenAll
  <2>2. /\ OnlyTakenOff
        /\ \A y : Contains(waitq'[cluster], y) <=> Contains(waitq[cluster], y)
    BY <2>1, OpenQueues DEF OInv
  <2>3. CallsInv'
    BY <2>1, <2>2, ReturnKeepsCalls DEF OInv, CallSteps
  <2>4. SyncInv'
    BY <1>5, OpenKeepsSync DEF OInv
  <2>5. QED
    BY <1>1, <1>2, <2>2, <2>3, <2>4 DEF OInv
<1>6. CASE Leaves(t)
  <2>1. UNCHANGED waitq
    BY <1>6 DEF Leaves
  <2>2. FlagsInv'
    BY <1>2, <2>1
  <2>3. CallsInv' /\ SyncInv'
    BY <1>6, LeavesKeepsCalls, LeavesKeepsSync DEF OInv
  <2>4. QED
    BY <1>1, <2>2, <2>3 DEF OInv
<1>7. QED
  BY <1>3, <1>4, <1>5, <1>6 DEF SyncStep

\* Timers, resumptions and other objects.
LEMMA UseOtherKeepsOInv ==
  ASSUME OInv, UseOther
  PROVE  OInv'
<1>1. BoxInv' /\ UNCHANGED <<flagVars, syncVars, uses>>
  BY BoxUndisturbed DEF OInv, UseOther
<1>2. ASSUME CallsInv', Undisturbed PROVE OInv'
  BY <1>1, <1>2, OthersUndisturbed DEF OInv
<1>3. ASSUME NEW t \in Task, waitq' = Unlinked(waitq, t), pc[t] # "syncing", SyncersStay
      PROVE  Undisturbed
  <2>1. ~Contains(waitq[sync], t)
    BY <1>3 DEF OInv, CallsInv, SleepsInItsCall, AsleepOn
  <2>2. QED
    BY <1>3, <2>1, UnlinkedShrinks, ThreeQueues DEF OInv, Undisturbed
<1>4. ASSUME NEW t \in Task, TimerISR(t) PROVE OInv'
  <2>1. UNCHANGED <<waitq, timedOut, pc>>
    BY <1>4 DEF TimerISR
  <2>2. QED
    BY <1>1, <1>2, <1>4, <2>1, TimerISRKeepsCalls, SameQueues, SameTasksStay DEF OInv
<1>5. ASSUME NEW t \in Task, TimeoutWake(t) PROVE OInv'
  <2>1. CallsInv' /\ SyncInv'
    BY <1>1, <1>5, TimeoutWakeKeepsCalls, TimeoutWakeKeepsSync DEF OInv
  <2>2. waitq' = Unlinked(waitq, t)
    BY <1>5 DEF TimeoutWake
  <2>3. FlagsInv'
    BY <1>1, <2>2, UnlinkedShrinks, FlagsUndisturbed, ThreeQueues DEF OInv, flagVars
  <2>4. QED
    BY <1>1, <2>1, <2>3 DEF OInv
<1>6. ASSUME NEW t \in Task, Leave(t) PROVE OInv'
  <2>1. UNCHANGED <<waitq, timedOut>> /\ pc' = [pc EXCEPT ![t] = "away"]
    BY <1>6 DEF Leave
  <2>2. SyncersStay
    BY <1>1, <2>1, OtherTaskStays DEF OInv
  <2>3. QED
    BY <1>1, <1>2, <1>6, <2>1, <2>2, LeaveKeepsCalls, SameQueues DEF OInv
<1>7. ASSUME NEW t \in Task, pc[t] # "syncing", Resume(t) PROVE OInv'
  <2>1. /\ waitq' = Unlinked(waitq, t) /\ timedOut' = timedOut
        /\ pc' = [pc EXCEPT ![t] = IF pc[t] = "away" THEN "user" ELSE pc[t]]
    BY <1>7 DEF Resume, Roused
  <2>2. SyncersStay
    BY <1>1, <1>7, <2>1 DEF OInv, CallsInv, BlockingTypeOK, SyncersStay
  <2>3. QED
    BY <1>1, <1>2, <1>3, <1>7, <2>1, <2>2, ResumeKeepsCalls DEF OInv
<1>8. QED
  BY <1>4, <1>5, <1>6, <1>7 DEF UseOther

LEMMA StutterKeepsOInv ==
  ASSUME OInv, UNCHANGED objectVars
  PROVE  OInv'
<1>1. /\ UNCHANGED <<waitq, hold, timer, timedOut, pc, limit>>
      /\ UNCHANGED <<value, testPar, boxVars>> /\ UNCHANGED <<flagVars, syncVars, uses>>
  BY DEF objectVars, vars, blocking
<1>2. OnlyTakenOff /\ Undisturbed
  BY <1>1, SameQueues, SameTasksStay DEF OInv
<1>3. CallsInv'
  BY <1>1, <1>2, WakeKeepsCalls DEF OInv
<1>4. BoxInv' /\ FlagsInv' /\ SyncInv'
  BY <1>1, <1>2, BoxUndisturbed, OthersUndisturbed DEF OInv
<1>5. QED
  BY <1>1, <1>3, <1>4 DEF OInv

LEMMA NextKeepsOInv ==
  ASSUME OInv, [ObjectsNext]_objectVars
  PROVE  OInv'
<1>1. CASE UNCHANGED objectVars
  BY <1>1, StutterKeepsOInv
<1>2. CASE UseMailbox
  BY <1>2, UseMailboxKeepsOInv
<1>3. CASE UseFlags
  BY <1>3, FlagsStepKeepsOInv, FlagsByAnyoneKeepsOInv DEF UseFlags
<1>4. CASE UseSync
  <2>1. /\ {"zero", "forever"} \in SUBSET Timeout /\ "ticks" \notin {"zero", "forever"}
        /\ Timeout \in SUBSET Timeout
    BY DEF Timeout
  <2>2. PICK t \in Task :
          \/ <<t, "sync">> \in uses /\ SyncStep(t, {"zero", "forever"})
          \/ <<t, "timedSync">> \in uses /\ SyncStep(t, Timeout)
    BY <1>4 DEF UseSync
  <2>3. QED
    BY <1>4, <2>1, <2>2, SyncStepKeepsOInv DEF UseSync, Untimed
<1>5. CASE UseOther
  BY <1>5, UseOtherKeepsOInv
<1>6. QED
  BY <1>1, <1>2, <1>3, <1>4, <1>5 DEF ObjectsNext

\* At the start nobody calls or sleeps, a pool is full, a mailbox is empty.
LEMMA InitOInv == ObjectsInit => OInv
<1>1. SUFFICES ASSUME ObjectsInit PROVE OInv
  OBVIOUS
<1>2. /\ waitq = [q \in Queue |-> <<>>] /\ hold = [t \in Task |-> None]
      /\ timer = [t \in Task |-> "off"] /\ timedOut = [t \in Task |-> "running"]
      /\ pc = [t \in Task |-> "user"] /\ limit = [t \in Task |-> "zero"]
      /\ value = Initial /\ testPar \in [Task -> Amount]
  BY <1>1 DEF ObjectsInit, Init, BlockingInit
<1>3. \A q \in Queue : \A x : ~Contains(waitq[q], x)
  BY <1>2 DEF Contains
<1>4. waitq \in [Queue -> Seq(Task)]
  BY <1>2
<1>5. Table(waitq, Queue, Task)
  BY <1>2, <1>4 DEF Table, Once
<1>6. BlockingTypeOK(CallSteps)
  BY <1>2, <1>4 DEF BlockingTypeOK, Timeout
<1>7. /\ NoneHeld /\ TimerInItsCall /\ TimeoutTold /\ SyncWithoutTimer /\ FlagsByUsers
  BY <1>2 DEF NoneHeld, TimerInItsCall, TimeoutTold, SyncWithoutTimer, FlagsByUsers, CallSteps
<1>8. SleepsInItsCall
  BY <1>3, ThreeQueues DEF SleepsInItsCall, AsleepOn
<1>9. BoxInv
  <2>1. /\ items \in SetToSeqs(Stocked)
        /\ owner = [x \in Item |-> IF x \in Stocked THEN None ELSE Handler]
    BY <1>1 DEF ObjectsInit, BoxInit
  <2>2. /\ items \in Seq(Item) /\ IsInjective(items) /\ Len(items) = Initial
        /\ \A x : Contains(items, x) <=> x \in Stocked
    BY <2>1, StockedList
  <2>3. owner \in [Item -> Task \cup {Handler, None}]
    BY <2>1
  <2>4. \A x \in Item : Contains(items, x) <=> owner[x] = None
    BY <2>1, <2>2, MailboxAssumption
  <2>5. QED
    BY <1>2, <2>2, <2>3, <2>4, SemaphoreAssumption DEF BoxInv, BoxTypeOK, OneOwner
<1>10. FlagsInv
  <2>1. flags = {} /\ call \in [Task -> Call]
    BY <1>1 DEF ObjectsInit, FlagsInit
  <2>2. QED
    BY <1>3, <2>1, ThreeQueues DEF FlagsInv, FlagsTypeOK, AsleepOn
<1>11. SyncInv
  <2>1. count = Reset /\ arrived = <<>> /\ result = [t \in Task |-> "task"]
    BY <1>1 DEF ObjectsInit, SyncInit
  <2>2. arrived \in Seq(Task) /\ Len(arrived) = 0 /\ \A y : ~Contains(arrived, y)
    BY <2>1 DEF Contains
  <2>3. SyncTypeOK
    BY <2>1, <2>2, SyncAssumption DEF SyncTypeOK
  <2>4. count + Len(arrived) = Reset
    BY <2>1, <2>2, SyncAssumption
  <2>5. \A t \in Task : ~AsleepOn(t, sync)
    BY <1>3, ThreeQueues DEF AsleepOn
  <2>6. QED
    BY <2>2, <2>3, <2>4, <2>5 DEF SyncInv, CountsSleepers
<1>12. QED
  BY <1>1, <1>5, <1>6, <1>7, <1>8, <1>9, <1>10, <1>11 DEF OInv, CallsInv, ObjectsInit
-----------------------------------------------------------------------------
(* The theorems.                                                              *)

\* The invariant holds of the objects in any use.
THEOREM ObjectsInvariance ==
  ObjectsSpec => []OInv
<1>1. OInv /\ [ObjectsNext]_objectVars => OInv'
  BY NextKeepsOInv
<1>2. QED
  BY <1>1, InitOInv, PTL DEF ObjectsSpec

\* The count of a mailbox or pool is the length of its list, and an item is on the
\* list or with one owner, whatever tasks and handlers put, get and pass on
\* (src/kernel/mailbox.c, pools.c).
THEOREM OneOwnerAlways ==
  ObjectsSpec => []OneOwner
<1>1. OInv => OneOwner
  BY DEF OInv, BoxInv
<1>2. QED
  BY <1>1, ObjectsInvariance, PTL

\* No task sleeps at a cluster of event flags whose flags pass its test
\* (src/kernel/efc.c).
THEOREM FlagsNotMissedAlways ==
  ObjectsSpec => []FlagsNotMissed
<1>1. OInv => FlagsNotMissed
  BY DEF OInv, CallsInv, SleepsInItsCall, FlagsInv, FlagsNotMissed
<1>2. QED
  BY <1>1, ObjectsInvariance, PTL

\* The callers of a synchronisation object that have come since it last opened make
\* up its number with those missing, the sleepers are among them, and only those
\* whose timeout has run out are not asleep (src/kernel/sync.c).
THEOREM CountsSleepersAlways ==
  ObjectsSpec => []CountsSleepers
<1>1. OInv => CountsSleepers
  BY DEF OInv, SyncInv
<1>2. QED
  BY <1>1, ObjectsInvariance, PTL

\* No call leaves its timer behind, whatever objects a task goes on to use, but for
\* that of a sleeper at a synchronisation object (_KRN_restoreIPLWithTimeout).
THEOREM NoTimerOutlivesCallAlways ==
  ObjectsSpec => []NoTimerOutlivesCall
<1>1. OInv => NoTimerOutlivesCall
  <2>1. SUFFICES ASSUME OInv PROVE NoTimerOutlivesCall
    OBVIOUS
  <2>2. ObjectsTypeOK
    BY <2>1 DEF OInv, CallsInv, BoxInv, FlagsInv, SyncInv, ObjectsTypeOK, CallSteps
  <2>3. \A t \in Task : timer[t] # "off" /\ Untimed(t) =>
          pc[t] \notin {"user", "away"} /\ limit[t] = "ticks"
    BY <2>1 DEF OInv, CallsInv, TimerInItsCall, CallSteps
  <2>4. QED
    BY <2>2, <2>3 DEF NoTimerOutlivesCall
<1>2. QED
  BY <1>1, ObjectsInvariance, PTL

\* A call at the event flags or at the barrier is ended by one of three steps.
LEMMA CallEnds ==
  ASSUME OInv, ObjectsNext, NEW t \in Task,
         pc[t] \in {"testFlags", "sync", "syncing"}, pc'[t] = "user"
  PROVE  \/ pc[t] = "testFlags" /\ TestFlagsEnds(t)
         \/ pc[t] = "sync" /\ Open(t)
         \/ pc[t] = "syncing" /\ Leaves(t)
<1>1. pc \in [Task -> {"user", "away"} \cup CallSteps]
  BY DEF OInv, CallsInv, BlockingTypeOK
<1>2. CASE UseMailbox
  <2>1. ASSUME NEW u \in Task, BoxStep(u), pc' # pc
        PROVE  pc[u] \in {"user", "test"} /\ \E v : pc' = [pc EXCEPT ![u] = v]
    <3>1. ASSUME NEW timeout \in Timeout, Get(u, timeout)
          PROVE  pc[u] \in {"user", "test"} /\ \E v : pc' = [pc EXCEPT ![u] = v]
      BY <3>1 DEF Get, TestSemaphore, Begin
    <3>2. ASSUME Got(u) \/ NotGot(u)
          PROVE  pc[u] \in {"user", "test"} /\ \E v : pc' = [pc EXCEPT ![u] = v]
      BY <2>1, <3>2 DEF Got, NotGot, Claim, Fail, Block, Testing, Return, SleepOn
    <3>3. QED
      BY <2>1, <3>1, <3>2 DEF BoxStep, PutByTask, Put, SetSemaphore, Pass, vars, blocking
  <2>2. ASSUME BoxByHandler PROVE pc' = pc
    BY <2>2 DEF BoxByHandler, PutByHandler, Put, SetSemaphore, Pass, vars, blocking,
                GetNow, TestNow
  <2>3. QED
    BY <1>1, <1>2, <2>1, <2>2 DEF UseMailbox
<1>3. CASE UseFlags
  <2>1. ASSUME NEW u \in Task, FlagsStep(u)
        PROVE  pc[t] = "testFlags" /\ TestFlagsEnds(t)
    <3>1. ASSUME NEW c \in Call, NEW timeout \in Timeout, TestFlags(u, c, timeout) PROVE FALSE
      BY <1>1, <3>1 DEF TestFlags, Begin
    <3>2. CASE TestFlagsEnds(u)
      BY <1>1, <3>2 DEF TestFlagsEnds, TestingFlags, Return
    <3>3. CASE TestFlagsSleeps(u)
      BY <3>3 DEF TestFlagsSleeps, SleepOn
    <3>4. QED
      BY <2>1, <3>1, <3>2, <3>3 DEF FlagsStep
  <2>2. ASSUME FlagsByAnyone PROVE pc' = pc
    BY <2>2 DEF FlagsByAnyone, TestFlagsNow, SetFlags, ToggleFlags, ClearFlags,
                flagSchedule, blocking
  <2>3. QED
    BY <1>3, <2>1, <2>2 DEF UseFlags
<1>4. CASE UseSync
  <2>1. PICK u \in Task : \E timeouts : SyncStep(u, timeouts)
    BY <1>4 DEF UseSync
  <2>2. ASSUME NEW timeout, Sync(u, timeout) PROVE FALSE
    BY <1>1, <2>2 DEF Sync, Begin
  <2>3. CASE Arrive(u)
    BY <1>1, <2>3 DEF Arrive
  <2>4. CASE Open(u)
    BY <1>1, <2>4 DEF Open, Return
  <2>5. CASE Leaves(u)
    BY <1>1, <2>5 DEF Leaves
  <2>6. QED
    BY <2>1, <2>2, <2>3, <2>4, <2>5 DEF SyncStep
<1>5. CASE UseOther
  BY <1>1, <1>5 DEF UseOther, TimerISR, TimeoutWake, Leave, Resume, Roused
<1>6. QED
  BY <1>2, <1>3, <1>4, <1>5 DEF ObjectsNext

\* Whoever tests event flags leaves no timer of KRN_sync behind.
FlagsUntimed ==
  \A scenario \in Scenarios, t \in Task :
    <<t, "flags">> \in scenario => <<t, "timedSync">> \notin scenario

\* The flags KRN_testFlags returns tell whether the test passed, and flags are
\* cleared only by a test that did (src/kernel/efc.c), where no timer that KRN_sync
\* left behind strikes in the call.
THEOREM ResultTellsAlways ==
  ASSUME FlagsUntimed
  PROVE  ObjectsSpec => ResultTells
<1>1. ASSUME OInv, [ObjectsNext]_objectVars, NEW t \in Task,
             ~UNCHANGED <<blocking, flagVars>>, pc[t] = "testFlags", pc'[t] = "user"
      PROVE  IF flgTest(flags, call[t])
               THEN flags' = IF call[t].clear THEN flags \ call[t].mask ELSE flags
               ELSE timedOut[t] # "running" /\ limit[t] # "forever" /\ flags' = flags
  <2>1. ObjectsNext
    BY <1>1 DEF objectVars, vars
  <2>2. TestFlagsEnds(t)
    BY <1>1, <2>1, CallEnds
  <2>3. timedOut[t] # "running" => limit[t] # "forever"
    BY <1>1 DEF OInv, CallsInv, TimeoutTold, FlagsByUsers, FlagsUntimed, Untimed,
                BlockingTypeOK, CallSteps
  <2>4. QED
    BY <2>2, <2>3 DEF TestFlagsEnds, Passes, Remaining
<1>2. OInv /\ [ObjectsNext]_objectVars =>
        [ \A t \in Task : pc[t] = "testFlags" /\ pc'[t] = "user" =>
            IF flgTest(flags, call[t])
              THEN flags' = IF call[t].clear THEN flags \ call[t].mask ELSE flags
              ELSE timedOut[t] # "running" /\ limit[t] # "forever" /\ flags' = flags
        ]_<<blocking, flagVars>>
  BY <1>1
<1>3. QED
  BY <1>2, ObjectsInvariance, PTL DEF ObjectsSpec, ResultTells

\* Who returns from KRN_sync is the last, or has been woken and is told what by.
LEMMA SyncEnds ==
  ASSUME OInv, ObjectsNext, NEW t \in Task, pc[t] \in {"sync", "syncing"}, pc'[t] = "user"
  PROVE  /\ pc[t] = "sync" => Len(arrived) = Reset - 1
         /\ pc[t] = "syncing" /\ result'[t] = "task" => ~Contains(arrived, t)
<1>1. (pc[t] = "sync" /\ Open(t)) \/ (pc[t] = "syncing" /\ Leaves(t))
  <2>1. pc[t] \in {"testFlags", "sync", "syncing"} /\ pc[t] # "testFlags"
    OBVIOUS
  <2>2. QED
    BY <2>1, CallEnds
<1>2. Runs(t) /\ result' = [result EXCEPT ![t] = Returned(t)]
  BY <1>1 DEF Open, Leaves
<1>3. ASSUME pc[t] = "syncing", result'[t] = "task" PROVE ~Contains(arrived, t)
  <2>1. timedOut[t] # "timedout"
    BY <1>2, <1>3 DEF Returned, OInv, SyncInv, SyncTypeOK
  <2>2. ~AsleepOn(t, sync)
    BY <1>2, RunnerIsAwake, ThreeQueues
  <2>3. QED
    BY <1>3, <2>1, <2>2 DEF OInv, SyncInv, CountsSleepers
<1>4. ASSUME pc[t] = "sync" PROVE Len(arrived) = Reset - 1
  <2>1. count <= 1 /\ count \in 1 .. Reset /\ Reset \in Nat \ {0}
    BY <1>1, <1>4, SyncAssumption DEF Open, LastCaller, OInv, SyncInv, SyncTypeOK
  <2>2. Len(arrived) \in Nat /\ count + Len(arrived) = Reset
    BY DEF OInv, SyncInv, SyncTypeOK, CountsSleepers
  <2>3. QED
    BY <2>1, <2>2
<1>5. QED
  BY <1>3, <1>4

\* Nobody opens a synchronisation object before as many have called as it was made
\* for, and a sleeper who is told that it has synchronised has (src/kernel/sync.c).
THEOREM NoneEarlyAlways ==
  ObjectsSpec => NoneEarly
<1> DEFINE
  A == \A t \in Task : pc'[t] = "user" =>
         /\ pc[t] = "sync" => Len(arrived) = Reset - 1
         /\ pc[t] = "syncing" /\ result'[t] = "task" => ~Contains(arrived, t)
<1>1. OInv /\ ObjectsNext => A
  BY SyncEnds
<1>2. OInv /\ [ObjectsNext]_objectVars => [A]_<<blocking, syncVars>>
  <2>1. UNCHANGED objectVars => UNCHANGED <<blocking, syncVars>>
    BY DEF objectVars, vars
  <2>2. QED
    BY <1>1, <2>1
<1>3. QED
  BY <1>2, ObjectsInvariance, PTL DEF ObjectsSpec, NoneEarly
=============================================================================
