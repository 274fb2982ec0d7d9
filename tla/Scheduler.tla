------------------------------ MODULE Scheduler ------------------------------
(***************************************************************************)
(* The MEOS scheduler: ready queues with their "queue in use" flags, the    *)
(* scheduler core, and the operations that move tasks between queues        *)
(* (src/kernel/sched.c, krn.c, wake.c, hibernate.c, priority.c, remove.c    *)
(* and the inline code of krn.xml).                                         *)
(*                                                                          *)
(* One processor.  Code between IRQ_raiseIPL and IRQ_restoreIPL is atomic;  *)
(* what can interleave is an interrupt handler between two such sections,   *)
(* and the schedule event itself, which a task reaches only after it has    *)
(* lowered the IPL (pc = "sched").                                          *)
(***************************************************************************)
EXTENDS Integers, Queues

CONSTANTS
  Task,         \* task control blocks
  StartupTCB,   \* the task KRN_startOS makes of its caller
  TimerTCB,     \* the kernel's timer task, alone at MaxPriority
  WaitQ,        \* queues a task can hibernate on
  MaxPriority,  \* highest priority level
  None          \* the null pointer

Pri     == 0 .. MaxPriority
QueueId == Pri \cup WaitQ

ASSUME SchedulerAssumption ==
  /\ MaxPriority \in Nat \ {0}
  /\ StartupTCB \in Task
  /\ TimerTCB \in Task \ {StartupTCB}
  /\ None \notin Task \cup QueueId
  /\ WaitQ \cap Int = {}

VARIABLES
  live,         \* tasks that have been started and not removed
  queue,        \* queue[p]: ready queue of level p; queue[w]: wait queue w
  priFlags,     \* levels whose "queue in use" flag is set
  priVal,       \* priority of each task
  holdQueue,    \* queue the scheduler will put the task on
  reason,       \* why the task is being descheduled
  current,      \* _KRN_current
  deferred,     \* task whose context is still loaded while idle
  schedNeeded,  \* _KRN_schedNeeded
  ipl,          \* the current task has raised the IPL itself
  pc,           \* "user", or inside KRN_release / a schedule call
  waking        \* the KRN_wakeAll in progress, if any

vars == <<live, queue, priFlags, priVal, holdQueue, reason, current, deferred,
          schedNeeded, ipl, pc, waking>>

Reasons == {"dead", "other", "release", "timeslice"}
Context == {"task", "isr"}
Idle    == [q |-> None, ctx |-> "task", sched |-> FALSE]

TypeOK ==
  /\ live \subseteq Task
  /\ queue \in [QueueId -> Seq(Task)]
  /\ priFlags \subseteq Pri
  /\ priVal \in [Task -> Pri]
  /\ holdQueue \in [Task -> QueueId \cup {None}]
  /\ reason \in [Task -> Reasons]
  /\ current \in Task \cup {None}
  /\ deferred \in Task \cup {None}
  /\ schedNeeded \in BOOLEAN
  /\ ipl \in BOOLEAN
  /\ pc \in [Task -> {"user", "release", "exit", "sched"}]
  /\ waking \in [q : WaitQ \cup {None}, ctx : Context, sched : BOOLEAN]

-----------------------------------------------------------------------------
(* Queue helpers.                                                          *)

LinkedOn(t, q) == Contains(queue[q], t)

Ready(t) == \E p \in Pri : LinkedOn(t, p)

\* Priorities the caller may ask for are clamped below the timer task's level.
Clamp(p) == IF p < 0 THEN 0
            ELSE IF p > MaxPriority - 1 THEN MaxPriority - 1 ELSE p

\* Mutated forms of WakeTask: the hold queue is not reset; the flag is not set.
WakeTaskHeld(t, qs) ==
  /\ queue' = AddTail(qs, priVal[t], t)
  /\ priFlags' = priFlags \cup {priVal[t]}
  /\ UNCHANGED holdQueue

WakeTaskUnflagged(t, qs) ==
  /\ holdQueue' = [holdQueue EXCEPT ![t] = priVal[t]]
  /\ queue' = AddTail(qs, priVal[t], t)
  /\ UNCHANGED priFlags

\* _KRN_wakeTask, from the queues qs the task has already been taken off.
WakeTask(t, qs) ==
  /\ holdQueue' = [holdQueue EXCEPT ![t] = priVal[t]]
  /\ queue' = AddTail(qs, priVal[t], t)
  /\ priFlags' = priFlags \cup {priVal[t]}

\* Mutated form of Preempts: only an idle processor is interrupted.
PreemptsIdle(t) == current = None

\* What _KRN_wakeTask returns: the woken task must preempt.
Preempts(t) == current = None \/ priVal[t] > priVal[current]

-----------------------------------------------------------------------------
(* Who may run: the current task outside any schedule call, or a handler.  *)

Enter(ctx) ==
  /\ waking = Idle
  /\ \/ ctx = "task" /\ current # None /\ pc[current] = "user"
     \/ ctx = "isr" /\ ~ipl

\* Mutated form of Leave: the request is left to the next interrupt.
LeavePending(ctx, sched) ==
  /\ schedNeeded' = (schedNeeded \/ sched)
  /\ UNCHANGED pc

\* KRN_scheduleUnprotect when a reschedule is wanted, else IRQ_restoreIPL.
\* Only a task at background IPL goes on to take the schedule interrupt.
Leave(ctx, sched) ==
  /\ schedNeeded' = (schedNeeded \/ sched)
  /\ pc' = IF sched /\ ctx = "task" /\ ~ipl
             THEN [pc EXCEPT ![current] = "sched"] ELSE pc

(* _KRN_scheduleTaskCore *)

\* Mutated forms of Requeued: the outgoing task always goes to the tail, or
\* always to the head.
RequeuedLast ==
  IF current = None THEN queue
  ELSE IF holdQueue[current] = None THEN Unlinked(queue, current)
  ELSE AddTail(Unlinked(queue, current), holdQueue[current], current)

RequeuedFirst ==
  IF current = None THEN queue
  ELSE IF holdQueue[current] = None THEN Unlinked(queue, current)
  ELSE AddHead(Unlinked(queue, current), holdQueue[current], current)

\* The queues once the outgoing task is back on its hold queue: at the head
\* when it was preempted, at the tail when it yielded, was sliced or sleeps.
Requeued ==
  IF current = None THEN queue
  ELSE LET u == Unlinked(queue, current)
           h == holdQueue[current]
       IN  IF h = None THEN u
           ELSE IF h = priVal[current] /\ reason[current] = "other"
             THEN AddHead(u, h, current)
             ELSE AddTail(u, h, current)

\* Flagged levels that do hold a task: the search from the top stops at the
\* highest, and clears the flag of every empty level it meets before.
Busy == {p \in priFlags : Requeued[p] # <<>>}

\* The task whose context is loaded, be it running or not.
Loaded == IF current = None THEN deferred ELSE current

\* Why the outgoing task was descheduled is of no interest any more.
ClearReason == reason' = [reason EXCEPT ![Loaded] = "other"]

Switch(n) ==
  /\ queue' = RemoveHead(Requeued, n)
  /\ priFlags' = {p \in priFlags : p <= n}
  /\ current' = Head(Requeued[n])
  /\ ClearReason
  /\ deferred' = IF current = current' /\ reason[current] # "dead"
                   THEN deferred ELSE None

GoIdle ==
  /\ queue' = Requeued
  /\ priFlags' = {}
  /\ current' = None
  /\ deferred' = Loaded
  /\ UNCHANGED reason

ScheduleTaskCore ==
  \/ \E n \in Busy : (\A p \in Busy : p <= n) /\ Switch(n)
  \/ Busy = {} /\ GoIdle

-----------------------------------------------------------------------------
(* Schedule events.                                                        *)

\* _KRN_schedulerISR on the way out of an interrupt.
SchedulerISR ==
  /\ waking = Idle
  /\ schedNeeded
  /\ ~ipl
  /\ schedNeeded' = FALSE
  /\ ScheduleTaskCore
  /\ UNCHANGED <<live, priVal, holdQueue, ipl, pc, waking>>

\* The schedule interrupt a task takes itself: nothing to do when a handler's
\* exit has already served the request.
ScheduleCall ==
  /\ waking = Idle
  /\ current # None
  /\ pc[current] = "sched"
  /\ pc' = [pc EXCEPT ![current] = "user"]
  /\ schedNeeded' = FALSE
  /\ IF schedNeeded THEN ScheduleTaskCore
     ELSE UNCHANGED <<queue, priFlags, current, deferred, reason>>
  /\ UNCHANGED <<live, priVal, holdQueue, ipl, waking>>

\* _KRN_timerISR finds the slice used up, or the processor idle.
SliceExpired ==
  /\ Enter("isr")
  /\ reason' = IF current = None THEN reason
               ELSE [reason EXCEPT ![current] = "timeslice"]
  /\ schedNeeded' = TRUE
  /\ UNCHANGED <<live, queue, priFlags, priVal, holdQueue, current, deferred,
                 ipl, pc, waking>>

-----------------------------------------------------------------------------
(* Operations.                                                             *)

RaiseIPL ==
  /\ Enter("task") /\ ~ipl /\ ipl' = TRUE
  /\ UNCHANGED <<live, queue, priFlags, priVal, holdQueue, reason, current,
                 deferred, schedNeeded, pc, waking>>

RestoreIPL ==
  /\ Enter("task") /\ ipl /\ ipl' = FALSE
  /\ UNCHANGED <<live, queue, priFlags, priVal, holdQueue, reason, current,
                 deferred, schedNeeded, pc, waking>>

\* KRN_startTask of a TCB that is not in use.
StartTask(ctx, t, priority) ==
  LET p == IF t = TimerTCB THEN MaxPriority ELSE Clamp(priority)
  IN  /\ Enter(ctx)
      /\ t \notin live \cup {current, deferred}
      /\ live' = live \cup {t}
      /\ priVal' = [priVal EXCEPT ![t] = p]
      /\ reason' = [reason EXCEPT ![t] = "other"]
      /\ holdQueue' = [holdQueue EXCEPT ![t] = p]
      /\ queue' = AddTail(queue, p, t)
      /\ priFlags' = priFlags \cup {p}
      /\ schedNeeded' = TRUE
      /\ pc' = [s \in Task |->
                  IF s = t THEN "user"
                  ELSE IF s = current /\ ctx = "task" /\ ~ipl THEN "sched"
                  ELSE pc[s]]
      /\ UNCHANGED <<current, deferred, ipl, waking>>

\* KRN_release: the reason is stored before the schedule request is made.
Release ==
  /\ Enter("task") /\ ~ipl
  /\ reason' = [reason EXCEPT ![current] = "release"]
  /\ pc' = [pc EXCEPT ![current] = "release"]
  /\ UNCHANGED <<live, queue, priFlags, priVal, holdQueue, current, deferred,
                 schedNeeded, ipl, waking>>

ReleaseSchedule ==
  /\ waking = Idle /\ current # None /\ pc[current] = "release"
  /\ schedNeeded' = TRUE
  /\ pc' = [pc EXCEPT ![current] = "sched"]
  /\ UNCHANGED <<live, queue, priFlags, priVal, holdQueue, reason, current,
                 deferred, ipl, waking>>

\* KRN_hibernate without a timeout.  Only the hold queue changes here: the
\* scheduler links the task when the schedule event comes.
Hibernate(w) ==
  /\ Enter("task") /\ ~ipl
  /\ holdQueue' = [holdQueue EXCEPT ![current] = w]
  /\ Leave("task", TRUE)
  /\ UNCHANGED <<live, queue, priFlags, priVal, reason, current, deferred, ipl,
                 waking>>

\* KRN_wake
Wake(ctx, w) ==
  /\ Enter(ctx)
  /\ IF queue[w] = <<>>
       THEN UNCHANGED <<queue, holdQueue, priFlags, schedNeeded, pc>>
       ELSE LET t == Head(queue[w])
            IN  /\ WakeTask(t, RemoveHead(queue, w))
                /\ Leave(ctx, Preempts(t))
  /\ UNCHANGED <<live, priVal, reason, current, deferred, ipl, waking>>

\* KRN_wakeAll: one iteration of its loop per step, with the IPL raised, so
\* that nothing else runs before the queue is empty.
WakeAllBegin(ctx, w) ==
  /\ Enter(ctx)
  /\ waking' = [q |-> w, ctx |-> ctx, sched |-> FALSE]
  /\ UNCHANGED <<live, queue, priFlags, priVal, holdQueue, reason, current,
                 deferred, schedNeeded, ipl, pc>>

WakeAllNext ==
  LET w == waking.q
      t == Head(queue[w])
  IN  /\ waking # Idle
      /\ queue[w] # <<>>
      /\ WakeTask(t, RemoveHead(queue, w))
      /\ waking' = [waking EXCEPT !.sched = @ \/ Preempts(t)]
      /\ UNCHANGED <<live, priVal, reason, current, deferred, schedNeeded, ipl,
                     pc>>

WakeAllEnd ==
  /\ waking # Idle
  /\ queue[waking.q] = <<>>
  /\ Leave(waking.ctx, waking.sched)
  /\ waking' = Idle
  /\ UNCHANGED <<live, queue, priFlags, priVal, holdQueue, reason, current,
                 deferred, ipl>>

\* KRN_resumeWithValue: whatever the task is doing, it is unlinked and put on
\* its ready queue.
Resume(ctx, t) ==
  /\ Enter(ctx)
  /\ t \in live
  /\ WakeTask(t, Unlinked(queue, t))
  /\ Leave(ctx, Preempts(t))
  /\ UNCHANGED <<live, priVal, reason, current, deferred, ipl, waking>>

\* KRN_priority
Priority(t, priority) ==
  LET p        == Clamp(priority)
      runnable == holdQueue[t] = priVal[t]
      requeue  == runnable /\ t # current
  IN  /\ Enter("task")
      /\ t \in live \ {TimerTCB}
      /\ holdQueue' = IF runnable THEN [holdQueue EXCEPT ![t] = p] ELSE holdQueue
      /\ queue' = IF requeue
                    THEN AddTail(Unlinked(queue, t), p, t)
                    ELSE queue
      /\ priVal' = [priVal EXCEPT ![t] = p]
      /\ priFlags' = priFlags \cup {p}
      /\ Leave("task", TRUE)
      /\ UNCHANGED <<live, reason, current, deferred, ipl, waking>>

\* KRN_removeTask of another task.
RemoveOther(t) ==
  /\ Enter("task")
  /\ t \in live \ {current, TimerTCB}
  /\ live' = live \ {t}
  /\ queue' = Unlinked(queue, t)
  /\ UNCHANGED <<priFlags, priVal, holdQueue, reason, current, deferred,
                 schedNeeded, ipl, pc, waking>>

\* KRN_removeTask of the caller: a null hold queue and a schedule request,
\* then the reason, then the schedule call.
RemoveSelf ==
  /\ Enter("task") /\ ~ipl
  /\ current # TimerTCB
  /\ live' = live \ {current}
  /\ holdQueue' = [holdQueue EXCEPT ![current] = None]
  /\ schedNeeded' = TRUE
  /\ pc' = [pc EXCEPT ![current] = "exit"]
  /\ UNCHANGED <<queue, priFlags, priVal, reason, current, deferred, ipl, waking>>

RemoveSelfSchedule ==
  /\ waking = Idle /\ current # None /\ pc[current] = "exit"
  /\ reason' = [reason EXCEPT ![current] = "dead"]
  /\ schedNeeded' = TRUE
  /\ pc' = [pc EXCEPT ![current] = "sched"]
  /\ UNCHANGED <<live, queue, priFlags, priVal, holdQueue, current, deferred,
                 ipl, waking>>

-----------------------------------------------------------------------------
\* The state KRN_startOS leaves: its caller runs as the only task.
Init ==
  /\ live = {StartupTCB}
  /\ queue = [q \in QueueId |-> <<>>]
  /\ priFlags = {0}
  /\ priVal = [t \in Task |-> 0]
  /\ holdQueue = [t \in Task |-> IF t = StartupTCB THEN 0 ELSE None]
  /\ reason = [t \in Task |-> "other"]
  /\ current = StartupTCB
  /\ deferred = None
  /\ schedNeeded = FALSE
  /\ ipl = FALSE
  /\ pc = [t \in Task |-> "user"]
  /\ waking = Idle

Interrupt ==
  \/ SliceExpired
  \/ \E w \in WaitQ : Wake("isr", w) \/ WakeAllBegin("isr", w)
  \/ \E t \in Task : Resume("isr", t)
  \/ \E t \in Task, p \in -1 .. MaxPriority : StartTask("isr", t, p)

TaskStep ==
  \/ RaiseIPL \/ RestoreIPL
  \/ Release \/ ReleaseSchedule
  \/ \E w \in WaitQ :
       Hibernate(w) \/ Wake("task", w) \/ WakeAllBegin("task", w)
  \/ \E t \in Task : Resume("task", t) \/ RemoveOther(t)
  \/ \E t \in Task, p \in -1 .. MaxPriority :
       Priority(t, p) \/ StartTask("task", t, p)
  \/ RemoveSelf \/ RemoveSelfSchedule

Next ==
  \/ SchedulerISR \/ ScheduleCall
  \/ WakeAllNext \/ WakeAllEnd
  \/ Interrupt
  \/ TaskStep

Spec == Init /\ [][Next]_vars
-----------------------------------------------------------------------------
(* Properties.                                                             *)

\* No task is ever linked on two queues, or twice on one: DQ_remove knows only
\* one pair of links, so a second linkage corrupts both lists.
LinkedOnce == Once(queue, QueueId)

\* A started task that is not running is always on the queue it waits for, and
\* a removed one is on none: no interleaving of hibernation, wakes, priority
\* changes and schedule events loses a task or leaves a dead one behind.
NoTaskLost ==
  \A t \in Task \ {current} :
    IF t \in live THEN holdQueue[t] # None /\ LinkedOn(t, holdQueue[t])
    ELSE \A q \in QueueId : ~LinkedOn(t, q)

\* The scheduler's search looks only at flagged levels, and preemption puts the
\* outgoing task back without setting a flag: every occupied level must be
\* flagged, and so must the level the running task will return to.
FlagsCover ==
  /\ \A p \in Pri : queue[p] # <<>> => p \in priFlags
  /\ current # None => \/ priVal[current] \in priFlags
                       \/ holdQueue[current] \notin Pri

\* Whenever no schedule event is outstanding, no ready task outranks the one
\* that runs, and the processor idles only when no task is ready.
HighestRuns ==
  waking = Idle /\ ~schedNeeded =>
    \A t \in Task \ {current} :
      Ready(t) => current # None /\ priVal[t] <= priVal[current]

\* A task that has given up the processor runs no further code of its own until
\* it has been made ready again.
BlockedDoesNotRun ==
  current # None /\ pc[current] \in {"user", "release"} =>
    holdQueue[current] = priVal[current]

\* While idle some task's context is still loaded (asserted in sched.c).
IdleHasContext == current = None => deferred # None

\* The reason a task was descheduled for is used up by that descheduling; kept
\* longer, it would cost the task its place at a later preemption.
ReasonUsedUp == \A t \in Task \ {current, deferred} : reason[t] = "other"

\* A running task that neither yields, nor sleeps, nor uses up its slice loses
\* the processor only to a task of higher priority, and is then first in line
\* at its level.
PreemptedKeepsPlace ==
  [][ (current # None /\ current' # current /\ reason[current] = "other"
        /\ holdQueue[current] = priVal[current])
      => /\ current' # None
         /\ priVal[current'] > priVal[current]
         /\ Head(queue'[priVal[current]]) = current ]_vars

=============================================================================
