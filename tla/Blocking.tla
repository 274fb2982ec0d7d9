------------------------------ MODULE Blocking ------------------------------
(***************************************************************************)
(* What the kernel's blocking calls share: a task arms a timer, raises the  *)
(* IPL, and sleeps on the wait queue of an object until the object or the   *)
(* timer wakes it (src/kernel/krn.xml, hibernate.c, timeout.c, timtask.c).  *)
(*                                                                          *)
(* Each section with the IPL raised is one step.  Which task may take it is *)
(* what module Scheduler proves of the scheduler (HighestRuns): one that no *)
(* ready task outranks; peers take turns at any point.  The timer task is   *)
(* alone at the highest priority, so that no other task runs while expired  *)
(* timers are waiting for it.  Interrupt handlers run between any two steps.*)
(***************************************************************************)
EXTENDS Integers, Queues

CONSTANTS
  Task,      \* tasks of the application
  Priority,  \* their priorities
  Queue,     \* wait queues of the objects they call
  None       \* no queue

ASSUME BlockingAssumption ==
  /\ Priority \in [Task -> Int]
  /\ None \notin Queue

VARIABLES
  waitq,     \* the tasks asleep on each queue
  hold,      \* queue a task still has to be put on by the scheduler
  timer,     \* the timer in the stack frame of a task's call
  timedOut,  \* the timedOut field of the task control blocks
  pc,        \* what a task is doing
  limit      \* timeout argument of its call

blocking == <<waitq, hold, timer, timedOut, pc, limit>>

\* timeout == 0, > 0, < 0
Timeout == {"zero", "ticks", "forever"}

\* "user": outside the calls modelled; "away": asleep on some other object.
BlockingTypeOK(Steps) ==
  /\ waitq \in [Queue -> Seq(Task)]
  /\ hold \in [Task -> Queue \cup {None}]
  /\ timer \in [Task -> {"off", "set", "due"}]
  /\ timedOut \in [Task -> {"running", "timedout", "zero"}]
  /\ pc \in [Task -> {"user", "away"} \cup Steps]
  /\ limit \in [Task -> Timeout]

BlockingInit ==
  /\ waitq = [q \in Queue |-> <<>>]
  /\ hold = [t \in Task |-> None]
  /\ timer = [t \in Task |-> "off"]
  /\ timedOut = [t \in Task |-> "running"]
  /\ pc = [t \in Task |-> "user"]
  /\ limit = [t \in Task |-> "zero"]

-----------------------------------------------------------------------------
AsleepOn(t, q) == Contains(waitq[q], t)
Asleep(t) == \E q \in Queue : AsleepOn(t, q)
Ready(t)  == pc[t] # "away" /\ ~Asleep(t)

\* Neither the timer task nor a schedule event has anything left to do.
Settled == \A t \in Task : timer[t] # "due" /\ hold[t] = None

Runs(t) ==
  /\ Settled
  /\ Ready(t)
  /\ \A u \in Task : Ready(u) => Priority[u] <= Priority[t]

-----------------------------------------------------------------------------
(* Parts of a task's call.                                                 *)

\* Mutated form of Armed: timedOut is left as the last call left it.
ArmedAsIs(t, timeout) == timedOut

\* The start of _KRN_raiseIPLWithTimeout, at background IPL.
Armed(t, timeout) ==
  [timedOut EXCEPT ![t] = IF timeout = "zero" THEN "zero" ELSE "running"]

\* A call begins; its timer is running before the IPL is raised.
Begin(t, step, timeout) ==
  /\ Runs(t) /\ pc[t] = "user"
  /\ timedOut' = Armed(t, timeout)
  /\ timer' = IF timeout = "ticks" THEN [timer EXCEPT ![t] = "set"] ELSE timer
  /\ limit' = [limit EXCEPT ![t] = timeout]
  /\ pc' = [pc EXCEPT ![t] = step]
  /\ UNCHANGED <<waitq, hold>>

\* KRN_cancelTimer does nothing to a timer that has expired.
Cancelled(t) == [timer EXCEPT ![t] = IF @ = "set" THEN "off" ELSE @]

\* Mutated form of Restored: the timer is left running.
RestoredArmed(t) == timer

\* _KRN_restoreIPLWithTimeout
Restored(t) == IF limit[t] = "ticks" THEN Cancelled(t) ELSE timer

\* The call returns.
Return(t) ==
  /\ timer' = Restored(t)
  /\ pc' = [pc EXCEPT ![t] = "user"]
  /\ UNCHANGED <<hold, timedOut, limit>>

\* _KRN_hibernateTask, linked at once because an interrupt handler may look for
\* waiting tasks before the schedule event comes.
SleepOn(t, q) ==
  /\ waitq' = AddTail(Unlinked(waitq, t), q, t)
  /\ UNCHANGED <<hold, timer, timedOut, pc, limit>>

\* KRN_wake: the first task on the queue is ready again.
Woken(q) == IF waitq[q] = <<>> THEN waitq ELSE RemoveHead(waitq, q)

\* The schedule event a task asked for when it called _KRN_hibernateTask comes,
\* and links it on its hold queue.
Linked(t) ==
  /\ hold[t] # None
  /\ waitq' = AddTail(Unlinked(waitq, t), hold[t], t)
  /\ hold' = [hold EXCEPT ![t] = None]
  /\ UNCHANGED <<timer, timedOut, pc, limit>>

-----------------------------------------------------------------------------
(* What happens around the calls.                                          *)

\* _KRN_timerISR finds the timer expired and mails it to the timer task.
TimerISR(t) ==
  /\ timer[t] = "set"
  /\ timer' = [timer EXCEPT ![t] = "due"]
  /\ UNCHANGED <<waitq, hold, timedOut, pc, limit>>

\* A task asleep on an object that is not modelled goes on.
Roused(t) == [pc EXCEPT ![t] = IF @ = "away" THEN "user" ELSE @]

\* Mutated forms of TimeoutWake: the task is not told; it stays on its queue.
TimeoutWakeSilent(t) ==
  /\ timer[t] = "due"
  /\ \A u \in Task : hold[u] = None
  /\ timer' = [timer EXCEPT ![t] = "off"]
  /\ waitq' = Unlinked(waitq, t)
  /\ pc' = Roused(t)
  /\ UNCHANGED <<hold, timedOut, limit>>

TimeoutWakeLinked(t) ==
  /\ timer[t] = "due"
  /\ \A u \in Task : hold[u] = None
  /\ timer' = [timer EXCEPT ![t] = "off"]
  /\ timedOut' = [timedOut EXCEPT ![t] = "timedout"]
  /\ pc' = Roused(t)
  /\ UNCHANGED <<waitq, hold, limit>>

\* The timer task calls _KRN_timeoutWake, wherever the task is by then.
TimeoutWake(t) ==
  /\ timer[t] = "due"
  /\ \A u \in Task : hold[u] = None
  /\ timer' = [timer EXCEPT ![t] = "off"]
  /\ timedOut' = [timedOut EXCEPT ![t] = "timedout"]
  /\ waitq' = Unlinked(waitq, t)
  /\ pc' = Roused(t)
  /\ UNCHANGED <<hold, limit>>

\* A task sleeps on an object that is not modelled, KRN_hibernate.
Leave(t) ==
  /\ Runs(t) /\ pc[t] = "user"
  /\ pc' = [pc EXCEPT ![t] = "away"]
  /\ UNCHANGED <<waitq, hold, timer, timedOut, limit>>

\* KRN_resumeWithValue, by an interrupt handler or by the running task: it
\* takes the task off whatever queue it is on, or is about to be put on.
Resume(t) ==
  /\ waitq' = Unlinked(waitq, t)
  /\ hold' = [hold EXCEPT ![t] = None]
  /\ pc' = Roused(t)
  /\ UNCHANGED <<timer, timedOut, limit>>

Around ==
  \E t \in Task : TimerISR(t) \/ TimeoutWake(t) \/ Leave(t) \/ Resume(t)
=============================================================================
