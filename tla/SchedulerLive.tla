--------------------------- MODULE SchedulerLive ---------------------------
(* Progress of the scheduler: every operation of module Scheduler, and the   *)
(* time slice timer.                                                         *)
EXTENDS Scheduler

(* Code inside a kernel call runs on; a task that raised the IPL lowers it.  *)
(* Pending interrupts are held off only while the IPL is raised, hence       *)
(* strong fairness: an interrupt that is possible again and again is taken.  *)
Fairness ==
  /\ WF_vars(ScheduleCall \/ ReleaseSchedule \/ WakeAllNext \/ WakeAllEnd)
  /\ SF_vars(RestoreIPL)
  /\ SF_vars(SchedulerISR)
  /\ SF_vars(SliceExpired)

FairSpec == Spec /\ Fairness

OutRanked(t) ==
  \E s \in Task : priVal[s] > priVal[t] /\ (Ready(s) \/ current = s)

Ahead(s, t, q) == \E i, j \in DOMAIN q : i < j /\ q[i] = s /\ q[j] = t

\* A step that neither starts, removes nor re-prioritises a task, nor sends one
\* that is ready behind a peer, as KRN_resumeWithValue does.
TurnsKept ==
  /\ live' = live /\ priVal' = priVal
  /\ \A p \in Pri, s, t \in Task :
       Ahead(s, t, queue[p]) => ~Ahead(t, s, queue'[p])

\* Round robin: once the tasks keep their turns, none stays ready for ever that
\* nothing outranks without getting the processor, however many peers share its
\* level and whatever they call; so every schedule request that matters to it is
\* served, wherever it was made.
RoundRobin ==
  <>[][TurnsKept]_vars =>
    \A t \in Task : []<>(current = t \/ OutRanked(t) \/ ~Ready(t))
=============================================================================
