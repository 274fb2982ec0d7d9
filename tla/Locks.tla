------------------------------- MODULE Locks --------------------------------
(***************************************************************************)
(* Locks (src/kernel/lock.c): a semaphore of initial value 1 that its users *)
(* test and set by 1, and a task unlocks what it has locked.                *)
(***************************************************************************)
EXTENDS Semaphores

\* How KRN_initLock and the calls use the semaphore: one unit, given at the start.
LockConstants == Amount = {1} /\ Initial = 1 /\ Modulus > 1

VARIABLE holders  \* tasks between KRN_lock and KRN_unlock

lockVars == <<vars, holders>>

LockInit == Init /\ holders = {}

\* KRN_lock: the call, and the ends of its wait.  A task that locked again
\* what it holds would wait for itself.
Lock(t, timeout) ==
  /\ t \notin holders
  /\ TestSemaphore(t, 1, timeout)
  /\ UNCHANGED holders

Locked(t) ==
  /\ Claim(t)
  /\ holders' = holders \cup {t}

NotLocked(t) ==
  /\ Fail(t) \/ Block(t)
  /\ UNCHANGED holders

\* KRN_unlock
Unlock(t) ==
  /\ Runs(t) /\ pc[t] = "user"
  /\ t \in holders
  /\ SetSemaphore(1)
  /\ holders' = holders \ {t}

LockNext ==
  \/ \E t \in Task :
       \/ \E timeout \in Timeout : Lock(t, timeout)
       \/ Locked(t) \/ NotLocked(t) \/ Unlock(t)
  \/ Around /\ UNCHANGED <<value, testPar, holders>>

LockSpec == LockInit /\ [][LockNext]_lockVars

\* For tasks of one priority, which the scheduler lets take turns (RoundRobin of
\* module SchedulerLive): a task that is ready again and again gets to run its
\* call.  Timers expire, and the timer task runs.  Nothing obliges a task to
\* unlock, or to come back from elsewhere.
LockLiveSpec ==
  /\ LockSpec
  /\ \A t \in Task :
       /\ SF_lockVars(Locked(t) \/ NotLocked(t))
       /\ WF_lockVars(TimerISR(t) /\ UNCHANGED <<value, testPar, holders>>)
       /\ WF_lockVars(TimeoutWake(t) /\ UNCHANGED <<value, testPar, holders>>)
-----------------------------------------------------------------------------
\* Two tasks never hold the lock together, whatever their priorities, timeouts
\* and preemptions; and a lock that is free is never out of the semaphore.
MutualExclusion ==
  /\ \A t, u \in holders : t = u
  /\ value = IF holders = {} THEN 1 ELSE 0
=============================================================================
