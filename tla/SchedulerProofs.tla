-------------------------- MODULE SchedulerProofs --------------------------
(* Proofs that the scheduler keeps its safety properties, whatever the tasks, *)
(* the wait queues and the number of priority levels.                         *)
EXTENDS Scheduler, QueueLemmas

-----------------------------------------------------------------------------
\* A started task waits on the ready queue of its own level or on none.
OwnLevel == \A t \in live : holdQueue[t] \in Pri => holdQueue[t] = priVal[t]

\* The running task has a queue to go back to unless it removes itself, and is
\* on no wait queue yet; only an idle processor keeps another context loaded.
CurrentHeld ==
  current # None =>
    /\ current \in live <=> holdQueue[current] # None
    /\ \A w \in WaitQ : ~LinkedOn(current, w)
    /\ deferred = None

\* A running task that is to leave its level is on its way to the scheduler.
OnItsWay ==
  current # None =>
    \/ holdQueue[current] = priVal[current]
    \/ schedNeeded /\ pc[current] \in {"sched", "exit"}

TopRuns ==
  \A t \in Task \ {current} :
    Ready(t) => current # None /\ priVal[t] <= priVal[current]

HighestSoFar == ~schedNeeded /\ ~waking.sched => TopRuns

WakingQueue == waking = Idle \/ waking.q \in WaitQ

\* The inductive invariant.
IInv ==
  /\ TypeOK
  /\ LinkedOnce
  /\ NoTaskLost
  /\ FlagsCover
  /\ IdleHasContext
  /\ ReasonUsedUp
  /\ OwnLevel
  /\ CurrentHeld
  /\ OnItsWay
  /\ HighestSoFar
  /\ WakingQueue

-----------------------------------------------------------------------------
(* What the queues hold.                                                     *)

\* What the assumption on the constants says of levels, queues and the null
\* pointer; the priority _KRN_prepareTask clamps to is always a level.
LEMMA Constants ==
  /\ 0 \in Pri /\ Pri \subseteq Int /\ Pri \subseteq QueueId /\ WaitQ \subseteq QueueId
  /\ None \notin Task /\ None \notin QueueId /\ Pri \cap WaitQ = {}
  /\ \A p \in -1 .. MaxPriority : Clamp(p) \in Pri
  /\ MaxPriority \in Pri
BY SchedulerAssumption DEF Pri, QueueId, Clamp

\* The scheduler's ready and wait queues are a well linked table.
LEMMA QueueTable == ASSUME TypeOK, LinkedOnce PROVE Table(queue, QueueId, Task)
BY DEF TypeOK, LinkedOnce, Table

\* A task other than the running one that is linked anywhere has been started
\* and is where its hold queue says; on a ready queue, that is its own level.
LEMMA WhereLinked ==
  ASSUME IInv, NEW t \in Task \ {current}, NEW q \in QueueId, LinkedOn(t, q)
  PROVE  t \in live /\ holdQueue[t] = q /\ (q \in Pri => priVal[t] = q)
<1>1. t \in live
  BY DEF IInv, NoTaskLost
<1>2. holdQueue[t] \in QueueId /\ LinkedOn(t, holdQueue[t])
  BY <1>1 DEF IInv, NoTaskLost, TypeOK
<1>3. holdQueue[t] = q
  BY <1>2, QueueTable, TableOneQueue DEF IInv, LinkedOn
<1>4. QED
  BY <1>1, <1>3 DEF IInv, OwnLevel

\* The scheduler's first step: every task but the running one stays where it
\* is, and that one is back on its hold queue, in front if it was preempted.
LEMMA RequeuedTask ==
  ASSUME IInv
  PROVE  /\ Table(Requeued, QueueId, Task)
         /\ \A q \in QueueId : \A y \in Task :
              Contains(Requeued[q], y) <=>
                IF y = current THEN holdQueue[y] = q ELSE Contains(queue[q], y)
         /\ current # None /\ holdQueue[current] # None
              /\ holdQueue[current] = priVal[current] /\ reason[current] = "other"
            => Head(Requeued[priVal[current]]) = current
<1> DEFINE u == Unlinked(queue, current)
           h == holdQueue[current]
<1>0. Table(queue, QueueId, Task)
  BY QueueTable DEF IInv
<1>1. CASE current = None
  BY <1>0, <1>1, Constants DEF Requeued
<1>2. CASE current # None
  <2>1. current \in Task /\ h \in QueueId \cup {None}
    BY <1>2 DEF IInv, TypeOK
  <2>2. Table(u, QueueId, Task) /\ Drops(u, queue, QueueId, current)
    BY <1>0, UnlinkedTable
  <2>3. Off(u, QueueId, current)
    BY <2>2 DEF Drops, Off
  <2>4. Requeued = IF h = None THEN u
                   ELSE IF h = priVal[current] /\ reason[current] = "other"
                     THEN AddHead(u, h, current)
                     ELSE AddTail(u, h, current)
    BY <1>2 DEF Requeued
  <2> HIDE DEF u, h
  <2>5. CASE h = None
    BY <2>1, <2>2, <2>4, <2>5, Constants DEF h, Drops
  <2>6. CASE h # None /\ h = priVal[current] /\ reason[current] = "other"
    <3>1. Requeued = AddHead(u, h, current) /\ h \in QueueId
      BY <2>1, <2>4, <2>6
    <3>2. /\ Table(Requeued, QueueId, Task) /\ Adds(Requeued, u, QueueId, h, current)
          /\ Head(Requeued[h]) = current
      BY <2>1, <2>2, <2>3, <3>1, AddHeadTable
    <3>3. QED
      BY <3>2, <2>2, <2>6 DEF h, Adds, Drops
  <2>7. CASE h # None /\ ~(h = priVal[current] /\ reason[current] = "other")
    <3>1. Requeued = AddTail(u, h, current) /\ h \in QueueId
      BY <2>1, <2>4, <2>7
    <3>2. Table(Requeued, QueueId, Task) /\ Adds(Requeued, u, QueueId, h, current)
      BY <2>1, <2>2, <2>3, <3>1, AddTailTable
    <3>3. QED
      BY <3>2, <2>2, <2>7 DEF h, Adds, Drops
  <2>8. QED
    BY <2>5, <2>6, <2>7
<1>3. QED
  BY <1>1, <1>2

\* On the requeued table every started task is where its hold queue says, no
\* other is linked, and every occupied level is flagged.
LEMMA RequeuedWhere ==
  ASSUME IInv
  PROVE  /\ \A t \in live : holdQueue[t] \in QueueId /\ Contains(Requeued[holdQueue[t]], t)
         /\ \A t \in Task, q \in QueueId : Contains(Requeued[q], t) =>
              t \in live /\ holdQueue[t] = q /\ (q \in Pri => priVal[t] = q)
         /\ \A p \in Pri : Requeued[p] # <<>> => p \in priFlags
<1>1. ASSUME NEW t \in live
      PROVE  holdQueue[t] \in QueueId /\ Contains(Requeued[holdQueue[t]], t)
  <2>0. t \in Task /\ t # None
    BY Constants DEF IInv, TypeOK
  <2>1. t \in Task /\ holdQueue[t] # None
    <3>1. CASE t = current
      BY <2>0, <3>1 DEF IInv, CurrentHeld
    <3>2. CASE t # current
      BY <2>0, <3>2 DEF IInv, NoTaskLost
    <3>3. QED
      BY <2>0, <3>1, <3>2
  <2>2. holdQueue[t] \in QueueId
    BY <2>1 DEF IInv, TypeOK
  <2>3. CASE t = current
    BY <2>1, <2>2, <2>3, RequeuedTask
  <2>4. CASE t # current
    <3>1. LinkedOn(t, holdQueue[t])
      BY <2>1, <2>4 DEF IInv, NoTaskLost
    <3>2. QED
      BY <2>1, <2>2, <2>4, <3>1, RequeuedTask DEF LinkedOn
  <2>5. QED
    BY <2>2, <2>3, <2>4
<1>2. ASSUME NEW t \in Task, NEW q \in QueueId, Contains(Requeued[q], t)
      PROVE  t \in live /\ holdQueue[t] = q /\ (q \in Pri => priVal[t] = q)
  <2>1. CASE t = current
    <3>1. holdQueue[t] = q
      BY <1>2, <2>1, RequeuedTask
    <3>2. t \in live
      BY <2>1, <3>1, Constants DEF IInv, CurrentHeld
    <3>3. QED
      BY <3>1, <3>2 DEF IInv, OwnLevel
  <2>2. CASE t # current
    <3>1. LinkedOn(t, q)
      BY <1>2, <2>2, RequeuedTask DEF LinkedOn
    <3>2. QED
      BY <2>2, <3>1, WhereLinked
  <2>3. QED
    BY <2>1, <2>2
<1>3. ASSUME NEW p \in Pri, Requeued[p] # <<>>
      PROVE  p \in priFlags
  <2>1. p \in QueueId
    BY Constants
  <2>2. PICK t \in Task : Contains(Requeued[p], t)
    BY <1>3, <2>1, RequeuedTask, TableMembers
  <2>3. CASE t = current
    <3>1. holdQueue[t] = p /\ priVal[t] = p /\ current # None
      BY <1>2, <2>1, <2>2, <2>3, Constants
    <3>2. QED
      BY <2>3, <3>1 DEF IInv, FlagsCover
  <2>4. CASE t # current
    <3>1. Contains(queue[p], t)
      BY <2>1, <2>2, <2>4, RequeuedTask
    <3>2. queue[p] # <<>>
      BY <2>1, <3>1, QueueTable, TableMembers DEF IInv
    <3>3. QED
      BY <3>2 DEF IInv, FlagsCover
  <2>5. QED
    BY <2>3, <2>4
<1>4. QED
  BY <1>1, <1>2, <1>3

\* Once the core has cleared the reason of the loaded context, no task has one.
LEMMA ClearedReason ==
  ASSUME IInv, ClearReason
  PROVE  reason' \in [Task -> Reasons] /\ \A t \in Task : reason'[t] = "other"
<1>1. \A t \in Task : t # Loaded => reason[t] = "other"
  BY Constants DEF IInv, ReasonUsedUp, CurrentHeld, TypeOK, Loaded
<1>2. QED
  BY <1>1 DEF IInv, TypeOK, ClearReason, Reasons

\* What the scheduler core establishes, whichever task it finds.
CoreDone ==
  /\ Table(queue, QueueId, Task)
  /\ priFlags \subseteq Pri
  /\ current \in Task \cup {None}
  /\ deferred \in Task \cup {None}
  /\ reason \in [Task -> Reasons]
  /\ NoTaskLost /\ FlagsCover /\ IdleHasContext /\ ReasonUsedUp /\ CurrentHeld
  /\ current # None => holdQueue[current] = priVal[current]
  /\ TopRuns

\* Switching to the head of the highest flagged level that is not empty.
LEMMA SwitchDone ==
  ASSUME IInv, UNCHANGED <<live, priVal, holdQueue>>,
         NEW n \in Busy, \A p \in Busy : p <= n, Switch(n)
  PROVE  CoreDone'
<1> DEFINE new == Head(Requeued[n])
<1>1. n \in priFlags /\ n \in Pri /\ n \in QueueId /\ Requeued[n] # <<>>
  BY Constants DEF Busy, IInv, TypeOK
<1>2. queue' = RemoveHead(Requeued, n) /\ current' = new
  BY DEF Switch
<1>3. /\ Table(queue', QueueId, Task) /\ Drops(queue', Requeued, QueueId, new)
      /\ new \in Task /\ Contains(Requeued[n], new)
  BY <1>1, <1>2, RequeuedTask, RemoveHeadTable
<1> HIDE DEF new
<1>4. \A q \in QueueId : \A t : Contains(queue'[q], t) <=> (Contains(Requeued[q], t) /\ t # new)
  BY <1>3 DEF Drops
<1>5. \A t \in Task, q \in QueueId : Contains(Requeued[q], t) =>
        t \in live /\ holdQueue[t] = q /\ (q \in Pri => priVal[t] = q)
  BY RequeuedWhere
<1>6. new \in live /\ holdQueue[new] = n /\ priVal[new] = n
  BY <1>1, <1>3, <1>5
<1>7. current' # None /\ current' \in Task
  BY <1>2, <1>3, Constants
<1>8. priFlags' \subseteq Pri
  BY DEF Switch, IInv, TypeOK
<1>9. /\ reason' \in [Task -> Reasons] /\ \A t \in Task : reason'[t] = "other"
  BY ClearedReason DEF Switch
<1>10. deferred' = None
  <2>1. CASE current = None
    BY <1>2, <1>7, <2>1 DEF Switch
  <2>2. CASE current # None
    BY <2>2 DEF Switch, IInv, CurrentHeld
  <2>3. QED
    BY <2>1, <2>2
<1>11. NoTaskLost'
  <2>1. ASSUME NEW t \in Task, t # new, t \in live
        PROVE  holdQueue[t] # None /\ Contains(queue'[holdQueue[t]], t)
    <3>1. holdQueue[t] \in QueueId /\ Contains(Requeued[holdQueue[t]], t)
      BY <2>1, RequeuedWhere
    <3>2. QED
      BY <1>4, <2>1, <3>1, Constants
  <2>2. ASSUME NEW t \in Task, t \notin live, NEW q \in QueueId
        PROVE  ~Contains(queue'[q], t)
    BY <1>4, <1>5, <2>2
  <2>3. QED
    BY <1>2, <2>1, <2>2 DEF NoTaskLost, LinkedOn
<1>12. FlagsCover'
  <2>1. ASSUME NEW p \in Pri, queue'[p] # <<>>
        PROVE  p \in priFlags'
    <3>1. PICK t \in Task : Contains(queue'[p], t)
      BY <1>3, <2>1, TableMembers, Constants
    <3>2. Requeued[p] # <<>>
      BY SMTT(30), <1>4, <3>1, RequeuedTask, TableMembers, Constants
    <3>3. p \in priFlags /\ p \in Busy
      BY <3>2, RequeuedWhere DEF Busy
    <3>4. QED
      BY <3>3 DEF Switch
  <2>2. n \in priFlags'
    BY <1>1, Constants DEF Switch
  <2>3. QED
    BY <1>2, <1>6, <2>1, <2>2 DEF FlagsCover
<1>13. TopRuns'
  <2>1. ASSUME NEW t \in Task, t # new, NEW p \in Pri, Contains(queue'[p], t)
        PROVE  priVal[t] <= n
    <3>1. Contains(Requeued[p], t) /\ priVal[t] = p
      BY <1>4, <1>5, <2>1, Constants
    <3>2. p \in Busy
      BY <3>1, RequeuedTask, RequeuedWhere, TableMembers, Constants DEF Busy
    <3>3. QED
      BY <3>1, <3>2
  <2>2. QED
    BY <1>2, <1>6, <1>7, <2>1 DEF TopRuns, Ready, LinkedOn
<1>14. CurrentHeld'
  <2>1. ASSUME NEW w \in WaitQ PROVE ~Contains(queue'[w], new)
    BY <1>4, Constants
  <2>2. QED
    BY <1>1, <1>2, <1>6, <1>10, <2>1, Constants DEF CurrentHeld, LinkedOn
<1>15. QED
  BY <1>2, <1>3, <1>6, <1>7, <1>8, <1>9, <1>10, <1>11, <1>12, <1>13, <1>14
     DEF CoreDone, IdleHasContext, ReasonUsedUp

\* Going idle when no flagged level holds a task.
LEMMA GoIdleDone ==
  ASSUME IInv, UNCHANGED <<live, priVal, holdQueue>>, Busy = {}, GoIdle
  PROVE  CoreDone'
<1>1. /\ queue' = Requeued /\ priFlags' = {} /\ current' = None
      /\ deferred' = Loaded /\ UNCHANGED reason
  BY DEF GoIdle
<1>2. \A p \in Pri : Requeued[p] = <<>>
  BY RequeuedWhere DEF Busy
<1>3. ASSUME NEW p \in Pri, NEW t \in Task PROVE ~Contains(Requeued[p], t)
  <2>1. p \in QueueId /\ Requeued[p] = <<>> /\ Table(Requeued, QueueId, Task)
    BY <1>2, RequeuedTask, Constants
  <2>2. QED
    BY <2>1, TableMembers
<1>4. Loaded \in Task
  BY DEF Loaded, IInv, TypeOK, IdleHasContext
<1>5. NoTaskLost'
  <2>1. ASSUME NEW t \in Task, t \in live
        PROVE  holdQueue[t] # None /\ Contains(Requeued[holdQueue[t]], t)
    BY <2>1, RequeuedWhere, Constants
  <2>2. ASSUME NEW t \in Task, t \notin live, NEW q \in QueueId
        PROVE  ~Contains(Requeued[q], t)
    BY <2>2, RequeuedWhere
  <2>3. QED
    BY <1>1, <2>1, <2>2 DEF NoTaskLost, LinkedOn
<1>6. FlagsCover'
  BY <1>1, <1>2 DEF FlagsCover
<1>7. ReasonUsedUp'
  BY <1>1, <1>4, Constants DEF ReasonUsedUp, IInv, CurrentHeld, Loaded
<1>8. TopRuns'
  BY <1>1, <1>3 DEF TopRuns, Ready, LinkedOn
<1>9. QED
  BY <1>1, <1>4, <1>5, <1>6, <1>7, <1>8, RequeuedTask, Constants
     DEF CoreDone, IdleHasContext, CurrentHeld, IInv, TypeOK

\* _KRN_scheduleTaskCore as a whole.
LEMMA CoreStep ==
  ASSUME IInv, UNCHANGED <<live, priVal, holdQueue>>, ScheduleTaskCore
  PROVE  CoreDone'
BY SwitchDone, GoIdleDone DEF ScheduleTaskCore

-----------------------------------------------------------------------------
(* The operations.                                                           *)

\* The parts of the invariant that are about where tasks are.
Placed ==
  /\ Table(queue, QueueId, Task)
  /\ NoTaskLost /\ FlagsCover /\ OwnLevel /\ CurrentHeld
  /\ IdleHasContext /\ ReasonUsedUp

\* Placement is untouched by a step that moves no task.
LEMMA StayPlaced ==
  ASSUME IInv,
         UNCHANGED <<live, queue, priFlags, priVal, holdQueue, current, deferred>>,
         \A t \in Task \ {current} : reason'[t] = reason[t]
  PROVE  Placed' /\ (TopRuns => TopRuns')
<1>1. Table(queue', QueueId, Task)
  BY QueueTable DEF IInv
<1>2. NoTaskLost' /\ FlagsCover' /\ OwnLevel'
  BY DEF IInv, NoTaskLost, FlagsCover, OwnLevel, LinkedOn
<1>3. CurrentHeld' /\ IdleHasContext' /\ ReasonUsedUp'
  BY DEF IInv, CurrentHeld, IdleHasContext, ReasonUsedUp, LinkedOn
<1>4. TopRuns => TopRuns'
  BY DEF TopRuns, Ready, LinkedOn
<1>5. QED
  BY <1>1, <1>2, <1>3, <1>4 DEF Placed

\* Waking a started task places it on its ready queue and disturbs no other.
LEMMA WakeTaskPlaced ==
  ASSUME IInv, NEW t \in live, NEW qs, Table(qs, QueueId, Task),
         Drops(qs, queue, QueueId, t), WakeTask(t, qs),
         UNCHANGED <<live, priVal, reason, current, deferred>>
  PROVE  /\ Placed'
         /\ priFlags' \subseteq Pri
         /\ holdQueue' \in [Task -> QueueId \cup {None}]
         /\ \A s \in Task : holdQueue'[s] = IF s = t THEN priVal[s] ELSE holdQueue[s]
         /\ TopRuns /\ ~Preempts(t) => TopRuns'
<1>1. t \in Task /\ t # None /\ priVal[t] \in Pri /\ priVal[t] \in QueueId
  BY Constants DEF IInv, TypeOK
<1>2. /\ priFlags' \subseteq Pri
      /\ holdQueue' \in [Task -> QueueId \cup {None}]
      /\ \A s \in Task : holdQueue'[s] = IF s = t THEN priVal[s] ELSE holdQueue[s]
  BY <1>1 DEF IInv, TypeOK, WakeTask
<1>3. Off(qs, QueueId, t)
  BY DEF Drops, Off
<1>4. Table(queue', QueueId, Task) /\ Adds(queue', qs, QueueId, priVal[t], t)
  BY <1>1, <1>3, AddTailTable DEF WakeTask
<1>5. \A q \in QueueId : \A s : s # t => (Contains(queue'[q], s) <=> Contains(queue[q], s))
  BY <1>4 DEF Adds, Drops
<1>6. \A q \in QueueId : Contains(queue'[q], t) <=> q = priVal[t]
  BY <1>4 DEF Adds, Drops
<1>7. NoTaskLost'
  <2>1. ASSUME NEW s \in Task \ {current}, s \in live
        PROVE  holdQueue'[s] # None /\ Contains(queue'[holdQueue'[s]], s)
    <3>1. CASE s = t
      BY <1>1, <1>2, <1>6, <3>1, Constants
    <3>2. CASE s # t
      <4>1. holdQueue[s] \in QueueId /\ Contains(queue[holdQueue[s]], s)
        BY <2>1 DEF IInv, TypeOK, NoTaskLost, LinkedOn
      <4>2. QED
        BY <1>2, <1>5, <2>1, <3>2, <4>1, Constants
    <3>3. QED
      BY <3>1, <3>2
  <2>2. ASSUME NEW s \in Task \ {current}, s \notin live, NEW q \in QueueId
        PROVE  ~Contains(queue'[q], s)
    BY <1>5, <2>2 DEF IInv, NoTaskLost, LinkedOn
  <2>3. QED
    BY <2>1, <2>2 DEF NoTaskLost, LinkedOn
<1>8. FlagsCover'
  <2>1. ASSUME NEW p \in Pri, queue'[p] # <<>>
        PROVE  p \in priFlags'
    <3>1. p \in QueueId
      BY Constants
    <3>2. PICK s \in Task : Contains(queue'[p], s)
      BY <1>4, <2>1, <3>1, TableMembers
    <3>3. CASE s = t
      BY <1>6, <3>1, <3>2, <3>3 DEF WakeTask
    <3>4. CASE s # t
      <4>1. queue[p] # <<>>
        BY <1>5, <3>1, <3>2, <3>4, QueueTable, TableMembers DEF IInv
      <4>2. QED
        BY <4>1 DEF IInv, FlagsCover, WakeTask
    <3>5. QED
      BY <3>3, <3>4
  <2>2. ASSUME current # None
        PROVE  priVal[current] \in priFlags' \/ holdQueue'[current] \notin Pri
    <3>1. current \in Task
      BY <2>2 DEF IInv, TypeOK
    <3>2. CASE current = t
      BY <3>2 DEF WakeTask
    <3>3. CASE current # t
      BY <1>2, <2>2, <3>1, <3>3 DEF IInv, FlagsCover, WakeTask
    <3>4. QED
      BY <3>2, <3>3
  <2>3. QED
    BY <2>1, <2>2 DEF FlagsCover
<1>9. OwnLevel'
  BY <1>2 DEF IInv, TypeOK, OwnLevel
<1>10. CurrentHeld'
  <2>1. ASSUME current # None
        PROVE  /\ current \in live <=> holdQueue'[current] # None
               /\ \A w \in WaitQ : ~Contains(queue'[w], current)
               /\ deferred = None
    <3>1. current \in Task /\ (current \in live <=> holdQueue[current] # None)
          /\ (\A w \in WaitQ : ~Contains(queue[w], current)) /\ deferred = None
      BY <2>1 DEF IInv, TypeOK, CurrentHeld, LinkedOn
    <3>2. CASE current = t
      BY <1>1, <1>2, <1>6, <3>1, <3>2, Constants
    <3>3. CASE current # t
      BY <1>2, <1>5, <3>1, <3>3, Constants
    <3>4. QED
      BY <3>2, <3>3
  <2>2. QED
    BY <2>1 DEF CurrentHeld, LinkedOn
<1>11. IdleHasContext' /\ ReasonUsedUp'
  BY DEF IInv, IdleHasContext, ReasonUsedUp
<1>12. ASSUME TopRuns, ~Preempts(t) PROVE TopRuns'
  <2>1. current # None /\ ~(priVal[t] > priVal[current])
    BY <1>12 DEF Preempts
  <2>2. current \in Task /\ priVal[t] <= priVal[current]
    <3>1. current \in Task
      BY <2>1 DEF IInv, TypeOK
    <3>2. priVal[current] \in Int /\ priVal[t] \in Int
      BY <1>1, <3>1, Constants DEF IInv, TypeOK
    <3>3. QED
      BY <2>1, <3>1, <3>2
  <2>3. ASSUME NEW s \in Task \ {current}, NEW p \in Pri, Contains(queue'[p], s)
        PROVE  priVal[s] <= priVal[current]
    <3>1. CASE s = t
      BY <2>2, <3>1
    <3>2. CASE s # t
      <4>1. LinkedOn(s, p)
        BY <1>5, <2>3, <3>2, Constants DEF LinkedOn
      <4>2. QED
        BY <1>12, <4>1 DEF TopRuns, Ready
    <3>3. QED
      BY <3>1, <3>2
  <2>4. QED
    BY <2>1, <2>3 DEF TopRuns, Ready, LinkedOn
<1>13. QED
  BY <1>2, <1>4, <1>7, <1>8, <1>9, <1>10, <1>11, <1>12 DEF Placed

\* The head of a wait queue is a started task other than the running one.
LEMMA HeadOfWait ==
  ASSUME IInv, NEW w \in WaitQ, queue[w] # <<>>
  PROVE  LET t  == Head(queue[w])
             qs == RemoveHead(queue, w)
         IN  /\ t \in live /\ t # current
             /\ Table(qs, QueueId, Task) /\ Drops(qs, queue, QueueId, t)
<1> DEFINE t == Head(queue[w])
           qs == RemoveHead(queue, w)
<1>1. w \in QueueId /\ Table(queue, QueueId, Task)
  BY Constants, QueueTable DEF IInv
<1>2. /\ Table(qs, QueueId, Task) /\ Drops(qs, queue, QueueId, t)
      /\ t \in Task /\ Contains(queue[w], t)
  BY <1>1, RemoveHeadTable
<1> HIDE DEF t, qs
<1>3. t # current
  BY <1>2, Constants DEF IInv, CurrentHeld, LinkedOn
<1>4. t \in live
  BY <1>1, <1>2, <1>3, WhereLinked DEF LinkedOn
<1>5. QED
  BY <1>2, <1>3, <1>4 DEF t, qs

\* Leaving a critical section adds a request and takes none back.
LEMMA LeaveDone ==
  ASSUME IInv, NEW ctx, NEW s \in BOOLEAN, Leave(ctx, s)
  PROVE  /\ schedNeeded' = (schedNeeded \/ s)
         /\ schedNeeded' \in BOOLEAN
         /\ pc' \in [Task -> {"user", "release", "exit", "sched"}]
         /\ \A t \in Task : pc[t] \in {"sched", "exit"} => pc'[t] \in {"sched", "exit"}
BY DEF IInv, TypeOK, Leave

\* _KRN_wakeTask answers yes or no.
LEMMA PreemptsBoolean == \A t : Preempts(t) \in BOOLEAN
BY DEF Preempts

\* The shape every step is proved in: typing, placement and the rest.
LEMMA Reassemble ==
  ASSUME TypeOK', Placed', OnItsWay', HighestSoFar', WakingQueue'
  PROVE  IInv'
<1>1. LinkedOnce'
  BY DEF Placed, Table, LinkedOnce
<1>2. QED
  BY <1>1 DEF IInv, Placed

\* KRN_startOS establishes the invariant.
LEMMA InitIInv == ASSUME Init PROVE IInv
<1>1. queue \in [QueueId -> Seq(Task)] /\ \A q \in QueueId : queue[q] = <<>>
  BY DEF Init
<1>2. TypeOK
  BY <1>1, SchedulerAssumption, Constants
     DEF Init, TypeOK, Reasons, Context, Idle
<1>3. LinkedOnce
  BY <1>1 DEF LinkedOnce, Once
<1>4. \A q \in QueueId, t \in Task : ~LinkedOn(t, q)
  BY <1>1 DEF LinkedOn, Contains
<1>5. NoTaskLost /\ CurrentHeld
  BY <1>4, SchedulerAssumption, Constants DEF Init, NoTaskLost, CurrentHeld
<1>6. FlagsCover
  BY <1>1, SchedulerAssumption, Constants DEF Init, FlagsCover
<1>7. IdleHasContext /\ ReasonUsedUp /\ OnItsWay
  BY SchedulerAssumption, Constants DEF Init, IdleHasContext, ReasonUsedUp, OnItsWay
<1>8. OwnLevel
  BY SchedulerAssumption DEF Init, OwnLevel
<1>9. TopRuns
  BY <1>4, Constants DEF TopRuns, Ready
<1>10. QED
  BY <1>2, <1>3, <1>5, <1>6, <1>7, <1>8, <1>9 DEF IInv, HighestSoFar, WakingQueue, Init

\* A schedule event.
LEMMA CoreIInv ==
  ASSUME IInv, ScheduleTaskCore, UNCHANGED <<live, priVal, holdQueue, ipl, waking>>,
         schedNeeded' \in BOOLEAN,
         pc' \in [Task -> {"user", "release", "exit", "sched"}]
  PROVE  IInv'
<1>1. CoreDone'
  BY CoreStep
<1>2. TypeOK'
  BY <1>1 DEF CoreDone, IInv, TypeOK, Table
<1>3. Placed'
  BY <1>1 DEF CoreDone, Placed, IInv, OwnLevel
<1>4. OnItsWay' /\ HighestSoFar' /\ WakingQueue'
  BY <1>1 DEF CoreDone, OnItsWay, HighestSoFar, IInv, WakingQueue
<1>5. QED
  BY <1>2, <1>3, <1>4, Reassemble

\* The schedule event at the exit of an interrupt.
LEMMA SchedulerISRStep == ASSUME IInv, SchedulerISR PROVE IInv'
BY CoreIInv DEF SchedulerISR, IInv, TypeOK

\* The schedule event a task takes itself, served already or not.
LEMMA ScheduleCallStep == ASSUME IInv, ScheduleCall PROVE IInv'
<1>1. pc' \in [Task -> {"user", "release", "exit", "sched"}] /\ schedNeeded' = FALSE
  BY DEF ScheduleCall, IInv, TypeOK
<1>2. CASE schedNeeded
  BY <1>1, <1>2, CoreIInv DEF ScheduleCall
<1>3. CASE ~schedNeeded
  <2>1. UNCHANGED <<live, queue, priFlags, priVal, holdQueue, reason, current,
                    deferred, ipl, waking, schedNeeded>>
    BY <1>1, <1>3 DEF ScheduleCall, IInv, TypeOK
  <2>2. Placed' /\ (TopRuns => TopRuns')
    BY <2>1, StayPlaced
  <2>3. TypeOK'
    BY <1>1, <2>1 DEF IInv, TypeOK
  <2>4. OnItsWay' /\ HighestSoFar' /\ WakingQueue'
    BY <1>3, <2>1, <2>2 DEF IInv, OnItsWay, HighestSoFar, WakingQueue
  <2>5. QED
    BY <2>2, <2>3, <2>4, Reassemble
<1>4. QED
  BY <1>2, <1>3

\* Steps that move no task: raising the IPL, leaving a reason, asking for a
\* schedule event.
LEMMA QuietStep ==
  ASSUME IInv,
         UNCHANGED <<live, queue, priFlags, priVal, holdQueue, current, deferred, waking>>,
         \A t \in Task \ {current} : reason'[t] = reason[t],
         reason' \in [Task -> Reasons], ipl' \in BOOLEAN, schedNeeded' \in BOOLEAN,
         pc' \in [Task -> {"user", "release", "exit", "sched"}],
         schedNeeded => schedNeeded',
         current # None /\ pc[current] \in {"sched", "exit"}
           => pc'[current] \in {"sched", "exit"}
  PROVE  IInv'
<1>1. Placed' /\ (TopRuns => TopRuns')
  BY StayPlaced
<1>2. TypeOK'
  BY DEF IInv, TypeOK
<1>3. OnItsWay' /\ HighestSoFar' /\ WakingQueue'
  BY <1>1 DEF IInv, OnItsWay, HighestSoFar, WakingQueue
<1>4. QED
  BY <1>1, <1>2, <1>3, Reassemble

\* The operations that are such steps.
LEMMA QuietSteps ==
  ASSUME IInv,
         RaiseIPL \/ RestoreIPL \/ SliceExpired \/ Release \/ ReleaseSchedule
           \/ RemoveSelfSchedule
  PROVE  IInv'
<1>1. CASE RaiseIPL \/ RestoreIPL
  BY <1>1, QuietStep DEF RaiseIPL, RestoreIPL, IInv, TypeOK
<1>2. CASE SliceExpired
  BY <1>2, QuietStep DEF SliceExpired, IInv, TypeOK, Reasons
<1>3. CASE Release
  BY <1>3, QuietStep DEF Release, Enter, IInv, TypeOK, Reasons
<1>4. CASE ReleaseSchedule
  BY <1>4, QuietStep DEF ReleaseSchedule, IInv, TypeOK, Reasons
<1>5. CASE RemoveSelfSchedule
  BY <1>5, QuietStep DEF RemoveSelfSchedule, IInv, TypeOK, Reasons
<1>6. QED
  BY <1>1, <1>2, <1>3, <1>4, <1>5

\* A woken task in place, the caller leaves its critical section and asks for
\* a schedule event if it was told to.
LEMMA WakeThenLeave ==
  ASSUME IInv, NEW t \in live, NEW qs, Table(qs, QueueId, Task),
         Drops(qs, queue, QueueId, t), WakeTask(t, qs), NEW ctx, Leave(ctx, Preempts(t)),
         UNCHANGED <<live, priVal, reason, current, deferred, ipl, waking>>
  PROVE  IInv'
<1>1. /\ Placed'
      /\ priFlags' \subseteq Pri
      /\ holdQueue' \in [Task -> QueueId \cup {None}]
      /\ \A s \in Task : holdQueue'[s] = IF s = t THEN priVal[s] ELSE holdQueue[s]
      /\ TopRuns /\ ~Preempts(t) => TopRuns'
  BY WakeTaskPlaced
<1>2. /\ schedNeeded' = (schedNeeded \/ Preempts(t))
      /\ schedNeeded' \in BOOLEAN
      /\ pc' \in [Task -> {"user", "release", "exit", "sched"}]
      /\ \A s \in Task : pc[s] \in {"sched", "exit"} => pc'[s] \in {"sched", "exit"}
  BY LeaveDone, PreemptsBoolean
<1>3. TypeOK'
  BY <1>1, <1>2 DEF Placed, Table, IInv, TypeOK
<1>4. OnItsWay'
  BY <1>1, <1>2 DEF IInv, TypeOK, OnItsWay
<1>5. HighestSoFar' /\ WakingQueue'
  BY <1>1, <1>2 DEF IInv, HighestSoFar, WakingQueue
<1>6. QED
  BY <1>1, <1>3, <1>4, <1>5, Reassemble

\* KRN_wake of an empty or an occupied queue.
LEMMA WakeStep ==
  ASSUME IInv, NEW ctx \in Context, NEW w \in WaitQ, Wake(ctx, w) PROVE IInv'
<1>1. CASE queue[w] = <<>>
  BY <1>1, QuietStep DEF Wake, IInv, TypeOK
<1>2. CASE queue[w] # <<>>
  BY <1>2, HeadOfWait, WakeThenLeave DEF Wake
<1>3. QED
  BY <1>1, <1>2

\* KRN_resumeWithValue, of the running task too.
LEMMA ResumeStep ==
  ASSUME IInv, NEW ctx \in Context, NEW t \in Task, Resume(ctx, t) PROVE IInv'
<1> DEFINE qs == Unlinked(queue, t)
<1>1. Table(qs, QueueId, Task) /\ Drops(qs, queue, QueueId, t)
  BY QueueTable, UnlinkedTable DEF IInv
<1>2. t \in live /\ WakeTask(t, qs) /\ Leave(ctx, Preempts(t))
      /\ UNCHANGED <<live, priVal, reason, current, deferred, ipl, waking>>
  BY DEF Resume
<1> HIDE DEF qs
<1>3. QED
  BY <1>1, <1>2, WakeThenLeave

\* KRN_wakeAll: the invariant holds at each turn of its loop.
LEMMA WakeAllSteps ==
  ASSUME IInv,
         \/ \E ctx \in Context, w \in WaitQ : WakeAllBegin(ctx, w)
         \/ WakeAllNext \/ WakeAllEnd
  PROVE  IInv'
<1>1. ASSUME NEW ctx \in Context, NEW w \in WaitQ, WakeAllBegin(ctx, w)
      PROVE  IInv'
  <2>1. Placed' /\ (TopRuns => TopRuns')
    BY <1>1, StayPlaced DEF WakeAllBegin
  <2>2. TypeOK'
    BY <1>1 DEF WakeAllBegin, IInv, TypeOK
  <2>3. OnItsWay' /\ HighestSoFar' /\ WakingQueue'
    BY <1>1, <2>1 DEF WakeAllBegin, Enter, Idle, IInv, OnItsWay, HighestSoFar, WakingQueue
  <2>4. QED
    BY <2>1, <2>2, <2>3, Reassemble
<1>2. ASSUME WakeAllNext PROVE IInv'
  <2> DEFINE w  == waking.q
             t  == Head(queue[w])
             qs == RemoveHead(queue, w)
  <2>1. w \in WaitQ /\ queue[w] # <<>>
    BY <1>2 DEF WakeAllNext, IInv, WakingQueue
  <2>2. t \in live /\ Table(qs, QueueId, Task) /\ Drops(qs, queue, QueueId, t)
    BY <2>1, HeadOfWait
  <2>3. WakeTask(t, qs) /\ UNCHANGED <<live, priVal, reason, current, deferred>>
        /\ UNCHANGED <<schedNeeded, ipl, pc>>
        /\ waking' = [waking EXCEPT !.sched = @ \/ Preempts(t)]
    BY <1>2 DEF WakeAllNext
  <2> HIDE DEF t, qs
  <2>4. /\ Placed'
        /\ priFlags' \subseteq Pri
        /\ holdQueue' \in [Task -> QueueId \cup {None}]
        /\ \A s \in Task : holdQueue'[s] = IF s = t THEN priVal[s] ELSE holdQueue[s]
        /\ TopRuns /\ ~Preempts(t) => TopRuns'
    BY <2>2, <2>3, WakeTaskPlaced
  <2>5. /\ waking.sched \in BOOLEAN
        /\ waking' = [q |-> waking.q, ctx |-> waking.ctx,
                      sched |-> waking.sched \/ Preempts(t)]
    BY <2>3 DEF IInv, TypeOK
  <2>6. TypeOK'
    BY <2>3, <2>4, <2>5, PreemptsBoolean DEF Placed, Table, IInv, TypeOK
  <2>7. OnItsWay'
    BY <2>3, <2>4 DEF IInv, TypeOK, OnItsWay
  <2>8. HighestSoFar' /\ WakingQueue'
    BY <2>1, <2>3, <2>4, <2>5 DEF IInv, HighestSoFar, WakingQueue
  <2>9. QED
    BY <2>4, <2>6, <2>7, <2>8, Reassemble
<1>3. ASSUME WakeAllEnd PROVE IInv'
  <2>1. Placed' /\ (TopRuns => TopRuns')
    BY <1>3, StayPlaced DEF WakeAllEnd
  <2>2. /\ schedNeeded' = (schedNeeded \/ waking.sched)
        /\ schedNeeded' \in BOOLEAN
        /\ pc' \in [Task -> {"user", "release", "exit", "sched"}]
        /\ \A s \in Task : pc[s] \in {"sched", "exit"} => pc'[s] \in {"sched", "exit"}
    BY <1>3, LeaveDone DEF WakeAllEnd, IInv, TypeOK
  <2>3. TypeOK'
    BY <1>3, <2>2 DEF WakeAllEnd, IInv, TypeOK, Idle, Context
  <2>4. OnItsWay' /\ HighestSoFar' /\ WakingQueue'
    BY <1>3, <2>1, <2>2
       DEF WakeAllEnd, Idle, IInv, TypeOK, OnItsWay, HighestSoFar, WakingQueue
  <2>5. QED
    BY <2>1, <2>3, <2>4, Reassemble
<1>4. QED
  BY <1>1, <1>2, <1>3

\* The running task names the queue it is to leave for and asks to leave.
LEMMA HibernateStep ==
  ASSUME IInv, NEW w \in WaitQ, Hibernate(w) PROVE IInv'
<1>1. /\ current \in Task /\ current # None /\ w \in QueueId /\ w # None
      /\ w \notin Pri /\ current \in live
  <2>1. current # None /\ pc[current] = "user"
    BY DEF Hibernate, Enter
  <2>2. current \in Task
    BY <2>1 DEF IInv, TypeOK
  <2>3. holdQueue[current] = priVal[current]
    BY <2>1 DEF IInv, OnItsWay
  <2>4. holdQueue[current] \in Pri /\ holdQueue[current] # None
    <3>1. priVal[current] \in Pri
      BY <2>2 DEF IInv, TypeOK
    <3>2. QED
      BY <2>3, <3>1, Constants
  <2>5. current \in live
    BY <2>1, <2>4 DEF IInv, CurrentHeld
  <2>6. QED
    BY <2>1, <2>2, <2>5, Constants
<1>2. /\ schedNeeded' = TRUE
      /\ pc' \in [Task -> {"user", "release", "exit", "sched"}]
      /\ pc'[current] = "sched"
  BY <1>1, LeaveDone DEF Hibernate, Leave, IInv, TypeOK
<1>3. /\ holdQueue' \in [Task -> QueueId \cup {None}]
      /\ \A s \in Task : holdQueue'[s] = IF s = current THEN w ELSE holdQueue[s]
      /\ UNCHANGED <<live, queue, priFlags, priVal, reason, current, deferred,
                     ipl, waking>>
  BY <1>1 DEF Hibernate, IInv, TypeOK
<1>4. TypeOK'
  BY <1>2, <1>3 DEF IInv, TypeOK
<1>5. Table(queue', QueueId, Task)
  BY <1>3, QueueTable DEF IInv
<1>6. NoTaskLost' /\ FlagsCover'
  BY <1>1, <1>3 DEF IInv, NoTaskLost, FlagsCover, LinkedOn
<1>7. OwnLevel' /\ CurrentHeld'
  BY <1>1, <1>3 DEF IInv, TypeOK, OwnLevel, CurrentHeld, LinkedOn
<1>8. IdleHasContext' /\ ReasonUsedUp' /\ WakingQueue'
  BY <1>3 DEF IInv, IdleHasContext, ReasonUsedUp, WakingQueue
<1>9. OnItsWay' /\ HighestSoFar'
  BY <1>2, <1>3 DEF OnItsWay, HighestSoFar
<1>10. QED
  BY <1>4, <1>5, <1>6, <1>7, <1>8, <1>9, Reassemble DEF Placed

\* KRN_removeTask of the caller: it has no queue to go back to.
LEMMA RemoveSelfStep ==
  ASSUME IInv, RemoveSelf PROVE IInv'
<1>1. current \in Task /\ current # None
  BY DEF RemoveSelf, Enter, IInv, TypeOK
<1>2. /\ holdQueue' \in [Task -> QueueId \cup {None}]
      /\ \A s \in Task : holdQueue'[s] = IF s = current THEN None ELSE holdQueue[s]
      /\ pc' \in [Task -> {"user", "release", "exit", "sched"}]
      /\ pc'[current] = "exit"
      /\ schedNeeded' = TRUE /\ live' = live \ {current}
      /\ UNCHANGED <<queue, priFlags, priVal, reason, current, deferred, ipl, waking>>
  BY <1>1 DEF RemoveSelf, IInv, TypeOK
<1>3. TypeOK'
  BY <1>2 DEF IInv, TypeOK
<1>4. Table(queue', QueueId, Task)
  BY <1>2, QueueTable DEF IInv
<1>5. NoTaskLost' /\ FlagsCover'
  BY <1>1, <1>2, Constants DEF IInv, NoTaskLost, FlagsCover, LinkedOn
<1>6. OwnLevel' /\ CurrentHeld'
  BY <1>1, <1>2 DEF IInv, TypeOK, OwnLevel, CurrentHeld, LinkedOn
<1>7. IdleHasContext' /\ ReasonUsedUp' /\ WakingQueue'
  BY <1>2 DEF IInv, IdleHasContext, ReasonUsedUp, WakingQueue
<1>8. OnItsWay' /\ HighestSoFar'
  BY <1>2 DEF OnItsWay, HighestSoFar
<1>9. QED
  BY <1>3, <1>4, <1>5, <1>6, <1>7, <1>8, Reassemble DEF Placed

\* KRN_removeTask of another task: it is taken off whatever queue it is on.
LEMMA RemoveOtherStep ==
  ASSUME IInv, NEW t \in Task, RemoveOther(t) PROVE IInv'
<1>1. /\ t # current /\ t \in live /\ live' = live \ {t}
      /\ queue' = Unlinked(queue, t)
      /\ UNCHANGED <<priFlags, priVal, holdQueue, reason, current, deferred,
                     schedNeeded, ipl, pc, waking>>
  BY DEF RemoveOther
<1>2. Table(queue', QueueId, Task) /\ Drops(queue', queue, QueueId, t)
  BY <1>1, QueueTable, UnlinkedTable DEF IInv
<1>3. \A q \in QueueId : \A s : Contains(queue'[q], s) <=> Contains(queue[q], s) /\ s # t
  BY <1>2 DEF Drops
<1>4. TypeOK'
  BY <1>1, <1>2 DEF Table, IInv, TypeOK
<1>5. NoTaskLost'
  <2>1. ASSUME NEW s \in Task \ {current}, s \in live, s # t
        PROVE  holdQueue[s] # None /\ Contains(queue'[holdQueue[s]], s)
    <3>1. holdQueue[s] \in QueueId /\ Contains(queue[holdQueue[s]], s)
      BY <2>1 DEF IInv, TypeOK, NoTaskLost, LinkedOn
    <3>2. QED
      BY <1>3, <2>1, <3>1, Constants
  <2>2. ASSUME NEW s \in Task \ {current}, s \notin live \/ s = t, NEW q \in QueueId
        PROVE  ~Contains(queue'[q], s)
    BY <1>3, <2>2 DEF IInv, NoTaskLost, LinkedOn
  <2>3. QED
    BY <1>1, <2>1, <2>2 DEF NoTaskLost, LinkedOn
<1>6. FlagsCover'
  <2>1. ASSUME NEW p \in Pri, queue'[p] # <<>> PROVE queue[p] # <<>>
    BY <1>2, <1>3, <2>1, QueueTable, TableMembers, Constants DEF IInv
  <2>2. QED
    BY <1>1, <2>1 DEF IInv, FlagsCover
<1>7. OwnLevel' /\ IdleHasContext' /\ ReasonUsedUp' /\ WakingQueue' /\ OnItsWay'
  BY <1>1 DEF IInv, OwnLevel, IdleHasContext, ReasonUsedUp, WakingQueue, OnItsWay
<1>8. CurrentHeld'
  BY <1>1, <1>3, Constants DEF IInv, CurrentHeld, LinkedOn
<1>9. TopRuns => TopRuns'
  <2>1. ASSUME NEW s \in Task, NEW p \in Pri, Contains(queue'[p], s) PROVE Contains(queue[p], s)
    BY <1>3, <2>1, Constants
  <2>2. QED
    BY <1>1, <2>1 DEF TopRuns, Ready, LinkedOn
<1>10. QED
  BY <1>1, <1>2, <1>4, <1>5, <1>6, <1>7, <1>8, <1>9, Reassemble
     DEF Placed, HighestSoFar, IInv

\* KRN_startTask of a control block that is not in use, hence on no queue.
LEMMA StartTaskStep ==
  ASSUME IInv, NEW ctx \in Context, NEW t \in Task, NEW priority \in -1 .. MaxPriority,
         StartTask(ctx, t, priority)
  PROVE  IInv'
<1> DEFINE p == IF t = TimerTCB THEN MaxPriority ELSE Clamp(priority)
<1>0. p \in Pri
  BY Constants
<1>1. /\ t \notin live /\ t # current /\ t # deferred
      /\ live' = live \cup {t}
      /\ priVal' = [priVal EXCEPT ![t] = p]
      /\ reason' = [reason EXCEPT ![t] = "other"]
      /\ holdQueue' = [holdQueue EXCEPT ![t] = p]
      /\ queue' = AddTail(queue, p, t)
      /\ priFlags' = priFlags \cup {p}
      /\ schedNeeded' = TRUE
      /\ pc' = [s \in Task |->
                  IF s = t THEN "user"
                  ELSE IF s = current /\ ctx = "task" /\ ~ipl THEN "sched"
                  ELSE pc[s]]
      /\ UNCHANGED <<current, deferred, ipl, waking>>
  BY DEF StartTask
<1> HIDE DEF p
<1>2. p \in QueueId /\ p # None
  BY <1>0, Constants
<1>3. /\ priVal' \in [Task -> Pri] /\ holdQueue' \in [Task -> QueueId \cup {None}]
      /\ reason' \in [Task -> Reasons]
      /\ \A s \in Task : /\ priVal'[s] = IF s = t THEN p ELSE priVal[s]
                         /\ holdQueue'[s] = IF s = t THEN p ELSE holdQueue[s]
                         /\ reason'[s] = IF s = t THEN "other" ELSE reason[s]
  BY <1>0, <1>1, <1>2 DEF IInv, TypeOK, Reasons
<1>4. Off(queue, QueueId, t)
  BY <1>1 DEF IInv, NoTaskLost, LinkedOn, Off
<1>5. Table(queue', QueueId, Task) /\ Adds(queue', queue, QueueId, p, t)
  BY <1>1, <1>2, <1>4, QueueTable, AddTailTable DEF IInv
<1>6. \A q \in QueueId : \A s :
        Contains(queue'[q], s) <=> Contains(queue[q], s) \/ (q = p /\ s = t)
  BY <1>5 DEF Adds
<1>7. pc' \in [Task -> {"user", "release", "exit", "sched"}]
  BY <1>1 DEF IInv, TypeOK
<1>8. TypeOK'
  BY <1>0, <1>1, <1>3, <1>5, <1>7 DEF Table, IInv, TypeOK
<1>9. NoTaskLost'
  <2>1. ASSUME NEW s \in Task \ {current}, s \in live, s # t
        PROVE  holdQueue'[s] # None /\ Contains(queue'[holdQueue'[s]], s)
    <3>1. holdQueue[s] \in QueueId /\ Contains(queue[holdQueue[s]], s)
      BY <2>1 DEF IInv, TypeOK, NoTaskLost, LinkedOn
    <3>2. QED
      BY <1>3, <1>6, <2>1, <3>1, Constants
  <2>2. holdQueue'[t] # None /\ Contains(queue'[holdQueue'[t]], t)
    BY <1>2, <1>3, <1>6
  <2>3. ASSUME NEW s \in Task \ {current}, s \notin live, s # t, NEW q \in QueueId
        PROVE  ~Contains(queue'[q], s)
    BY <1>6, <2>3 DEF IInv, NoTaskLost, LinkedOn
  <2>4. QED
    BY <1>1, <2>1, <2>2, <2>3 DEF NoTaskLost, LinkedOn
<1>10. FlagsCover'
  <2>1. ASSUME NEW r \in Pri, queue'[r] # <<>>
        PROVE  r \in priFlags'
    <3>1. r \in QueueId
      BY Constants
    <3>2. CASE r = p
      BY <1>1, <3>2
    <3>3. CASE r # p
      <4>1. queue'[r] = queue[r]
        BY <1>1, <3>1, <3>3 DEF AddTail, IInv, TypeOK
      <4>2. QED
        BY <1>1, <2>1, <4>1 DEF IInv, FlagsCover
    <3>4. QED
      BY <3>2, <3>3
  <2>2. ASSUME current # None
        PROVE  priVal'[current] \in priFlags' \/ holdQueue'[current] \notin Pri
    <3>1. /\ current \in Task
          /\ priVal'[current] = priVal[current]
          /\ holdQueue'[current] = holdQueue[current]
      BY <1>1, <1>3, <2>2 DEF IInv, TypeOK
    <3>2. QED
      BY <1>1, <2>2, <3>1 DEF IInv, FlagsCover
  <2>3. QED
    BY <1>1, <2>1, <2>2 DEF FlagsCover
<1>11. OwnLevel'
  BY <1>1, <1>3 DEF IInv, TypeOK, OwnLevel
<1>12. CurrentHeld'
  <2>1. ASSUME current # None
        PROVE  /\ current \in live' <=> holdQueue'[current] # None
               /\ \A w \in WaitQ : ~Contains(queue'[w], current)
               /\ deferred = None
    <3>1. current \in Task /\ holdQueue'[current] = holdQueue[current]
      BY <1>1, <1>3, <2>1 DEF IInv, TypeOK
    <3>2. QED
      BY <1>1, <1>6, <2>1, <3>1, Constants DEF IInv, CurrentHeld, LinkedOn
  <2>2. QED
    BY <1>1, <2>1 DEF CurrentHeld, LinkedOn
<1>13. IdleHasContext' /\ ReasonUsedUp' /\ WakingQueue'
  BY <1>1, <1>3 DEF IInv, IdleHasContext, ReasonUsedUp, WakingQueue
<1>14. OnItsWay'
  <2>1. ASSUME current # None
        PROVE  holdQueue'[current] = priVal'[current] \/ pc'[current] \in {"sched", "exit"}
    BY <1>1, <1>3, <2>1 DEF IInv, TypeOK, OnItsWay
  <2>2. QED
    BY <1>1, <2>1 DEF OnItsWay
<1>15. HighestSoFar'
  BY <1>1 DEF HighestSoFar
<1>16. QED
  BY <1>5, <1>8, <1>9, <1>10, <1>11, <1>12, <1>13, <1>14, <1>15, Reassemble DEF Placed

\* KRN_priority of the caller, of a ready task and of a sleeping one.
LEMMA PriorityStep ==
  ASSUME IInv, NEW t \in Task, NEW priority \in -1 .. MaxPriority, Priority(t, priority)
  PROVE  IInv'
<1> DEFINE p        == Clamp(priority)
           runnable == holdQueue[t] = priVal[t]
           requeue  == runnable /\ t # current
           u        == Unlinked(queue, t)
<1>0. p \in Pri /\ p \in QueueId /\ p # None
  BY Constants
<1>1. /\ t \in live /\ Enter("task")
      /\ holdQueue' = (IF runnable THEN [holdQueue EXCEPT ![t] = p] ELSE holdQueue)
      /\ queue' = (IF requeue THEN AddTail(u, p, t) ELSE queue)
      /\ priVal' = [priVal EXCEPT ![t] = p]
      /\ priFlags' = priFlags \cup {p}
      /\ Leave("task", TRUE)
      /\ UNCHANGED <<live, reason, current, deferred, ipl, waking>>
  BY DEF Priority
<1> HIDE DEF p, u
<1>2. current \in Task /\ current # None /\ holdQueue[current] = priVal[current]
  BY <1>1 DEF Enter, IInv, TypeOK, OnItsWay
<1>3. /\ priVal' \in [Task -> Pri] /\ holdQueue' \in [Task -> QueueId \cup {None}]
      /\ \A s \in Task : /\ priVal'[s] = IF s = t THEN p ELSE priVal[s]
                         /\ holdQueue'[s] = IF s = t /\ runnable THEN p ELSE holdQueue[s]
  BY <1>0, <1>1 DEF IInv, TypeOK
<1>4. Table(queue, QueueId, Task) /\ Table(u, QueueId, Task) /\ Drops(u, queue, QueueId, t)
  BY QueueTable, UnlinkedTable DEF IInv, u
<1>5. /\ Table(queue', QueueId, Task)
      /\ \A q \in QueueId : \A s :
           Contains(queue'[q], s) <=> IF requeue /\ s = t THEN q = p ELSE Contains(queue[q], s)
  <2>1. CASE ~requeue
    BY <1>1, <1>4, <2>1
  <2>2. CASE requeue
    <3>1. Off(u, QueueId, t)
      BY <1>4 DEF Drops, Off
    <3>2. Table(queue', QueueId, Task) /\ Adds(queue', u, QueueId, p, t)
      BY <1>0, <1>1, <1>4, <2>2, <3>1, AddTailTable
    <3>3. QED
      BY <1>4, <2>2, <3>2 DEF Adds, Drops
  <2>3. QED
    BY <2>1, <2>2
<1>6. schedNeeded' = TRUE /\ pc' \in [Task -> {"user", "release", "exit", "sched"}]
      /\ \A s \in Task : pc[s] \in {"sched", "exit"} => pc'[s] \in {"sched", "exit"}
  BY <1>1, LeaveDone
<1>7. TypeOK'
  BY <1>0, <1>1, <1>3, <1>5, <1>6 DEF Table, IInv, TypeOK
<1>8. NoTaskLost'
  <2>1. ASSUME NEW s \in Task \ {current}, s \in live
        PROVE  holdQueue'[s] # None /\ Contains(queue'[holdQueue'[s]], s)
    <3>1. holdQueue[s] \in QueueId /\ Contains(queue[holdQueue[s]], s)
      BY <2>1 DEF IInv, TypeOK, NoTaskLost, LinkedOn
    <3>2. CASE s = t /\ runnable
      BY <1>0, <1>3, <1>5, <2>1, <3>2
    <3>3. CASE ~(s = t /\ runnable)
      BY <1>3, <1>5, <2>1, <3>1, <3>3, Constants
    <3>4. QED
      BY <3>2, <3>3
  <2>2. ASSUME NEW s \in Task \ {current}, s \notin live, NEW q \in QueueId
        PROVE  ~Contains(queue'[q], s)
    BY <1>1, <1>5, <2>2 DEF IInv, NoTaskLost, LinkedOn
  <2>3. QED
    BY <1>1, <2>1, <2>2 DEF NoTaskLost, LinkedOn
<1>9. FlagsCover'
  <2>1. ASSUME NEW r \in Pri, queue'[r] # <<>>
        PROVE  r \in priFlags'
    <3>1. r \in QueueId
      BY Constants
    <3>2. PICK s \in Task : Contains(queue'[r], s)
      BY <1>5, <2>1, <3>1, TableMembers
    <3>3. CASE requeue /\ s = t
      BY <1>1, <1>5, <3>1, <3>2, <3>3
    <3>4. CASE ~(requeue /\ s = t)
      <4>1. queue[r] # <<>>
        BY <1>4, <1>5, <3>1, <3>2, <3>4, TableMembers
      <4>2. QED
        BY <1>1, <4>1 DEF IInv, FlagsCover
    <3>5. QED
      BY <3>3, <3>4
  <2>2. priVal'[current] \in priFlags' \/ holdQueue'[current] \notin Pri
    <3>1. CASE current = t
      BY <1>1, <1>2, <1>3, <3>1
    <3>2. CASE current # t
      BY <1>1, <1>2, <1>3, <3>2 DEF IInv, FlagsCover
    <3>3. QED
      BY <3>1, <3>2
  <2>3. QED
    BY <1>1, <2>1, <2>2 DEF FlagsCover
<1>10. OwnLevel'
  BY <1>1, <1>3 DEF IInv, TypeOK, OwnLevel
<1>11. CurrentHeld'
  <2>1. (current \in live <=> holdQueue'[current] # None) /\ deferred = None
    BY <1>0, <1>1, <1>2, <1>3 DEF IInv, CurrentHeld
  <2>2. ASSUME NEW w \in WaitQ PROVE ~Contains(queue'[w], current)
    BY <1>2, <1>5, Constants DEF IInv, CurrentHeld, LinkedOn
  <2>3. QED
    BY <1>1, <2>1, <2>2 DEF CurrentHeld, LinkedOn
<1>12. IdleHasContext' /\ ReasonUsedUp' /\ WakingQueue'
  BY <1>1 DEF IInv, IdleHasContext, ReasonUsedUp, WakingQueue
<1>13. OnItsWay'
  <2>1. CASE current = t
    BY <1>1, <1>2, <1>3, <2>1 DEF OnItsWay
  <2>2. CASE current # t
    BY <1>1, <1>2, <1>3, <2>2 DEF OnItsWay
  <2>3. QED
    BY <2>1, <2>2
<1>14. HighestSoFar'
  BY <1>6 DEF HighestSoFar
<1>15. QED
  BY <1>5, <1>7, <1>8, <1>9, <1>10, <1>11, <1>12, <1>13, <1>14, Reassemble DEF Placed

-----------------------------------------------------------------------------
(* The theorems.                                                             *)

\* Every step of the scheduler preserves the invariant.
LEMMA NextStep == ASSUME IInv, Next PROVE IInv'
<1>1. CASE SchedulerISR \/ ScheduleCall
  BY <1>1, SchedulerISRStep, ScheduleCallStep
<1>2. CASE RaiseIPL \/ RestoreIPL \/ SliceExpired \/ Release \/ ReleaseSchedule
             \/ RemoveSelfSchedule
  BY <1>2, QuietSteps
<1>3. CASE RemoveSelf
  BY <1>3, RemoveSelfStep
<1>4. CASE \/ \E ctx \in Context, w \in WaitQ : WakeAllBegin(ctx, w)
           \/ WakeAllNext \/ WakeAllEnd
  BY <1>4, WakeAllSteps
<1>5. CASE \E ctx \in Context, w \in WaitQ : Wake(ctx, w)
  BY <1>5, WakeStep
<1>6. CASE \E ctx \in Context, t \in Task : Resume(ctx, t)
  BY <1>6, ResumeStep
<1>7. CASE \E ctx \in Context, t \in Task, p \in -1 .. MaxPriority : StartTask(ctx, t, p)
  BY <1>7, StartTaskStep
<1>8. CASE \E w \in WaitQ : Hibernate(w)
  BY <1>8, HibernateStep
<1>9. CASE \E t \in Task : RemoveOther(t)
  BY <1>9, RemoveOtherStep
<1>10. CASE \E t \in Task, p \in -1 .. MaxPriority : Priority(t, p)
  BY <1>10, PriorityStep
<1>11. "task" \in Context /\ "isr" \in Context
  BY DEF Context
<1>12. QED
  BY <1>1, <1>2, <1>3, <1>4, <1>5, <1>6, <1>7, <1>8, <1>9, <1>10, <1>11
     DEF Next, Interrupt, TaskStep

\* Every reachable state satisfies the inductive invariant.
THEOREM Invariance == Spec => []IInv
<1>1. Init => IInv
  BY InitIInv
<1>2. IInv /\ [Next]_vars => IInv'
  <2>1. CASE Next
    BY <2>1, NextStep
  <2>2. CASE UNCHANGED vars
    BY <2>2 DEF vars, IInv, TypeOK, LinkedOnce, NoTaskLost, FlagsCover, LinkedOn,
       IdleHasContext, ReasonUsedUp, OwnLevel, CurrentHeld, OnItsWay,
       HighestSoFar, TopRuns, Ready, WakingQueue
  <2>3. QED
    BY <2>1, <2>2
<1>3. QED
  BY <1>1, <1>2, PTL DEF Spec

\* The scheduler's data is always well formed.
THEOREM SchedulerTypes == Spec => []TypeOK
<1>1. IInv => TypeOK
  BY DEF IInv
<1>2. QED
  BY <1>1, Invariance, PTL

\* A task is never linked on two queues, nor twice on one, so DQ_remove, told
\* no queue, takes it off the right one.
THEOREM LinkedOnceAlways == Spec => []LinkedOnce
<1>1. IInv => LinkedOnce
  BY DEF IInv
<1>2. QED
  BY <1>1, Invariance, PTL

\* Started tasks that do not run are on the queue they wait for, removed ones
\* on none, through every interleaving of the operations.
THEOREM NoTaskLostAlways == Spec => []NoTaskLost
<1>1. IInv => NoTaskLost
  BY DEF IInv
<1>2. QED
  BY <1>1, Invariance, PTL

\* The scheduler's search of the flagged levels overlooks no ready task.
THEOREM FlagsCoverAlways == Spec => []FlagsCover
<1>1. IInv => FlagsCover
  BY DEF IInv
<1>2. QED
  BY <1>1, Invariance, PTL

\* With no schedule event outstanding, the processor runs a task no ready task
\* outranks, and idles only when none is ready.
THEOREM HighestRunsAlways == Spec => []HighestRuns
<1>1. IInv => HighestRuns
  BY DEF IInv, HighestSoFar, TopRuns, HighestRuns, Idle
<1>2. QED
  BY <1>1, Invariance, PTL

\* A task that has asked to sleep or to end runs no further code of its own.
THEOREM BlockedDoesNotRunAlways == Spec => []BlockedDoesNotRun
<1>1. IInv => BlockedDoesNotRun
  BY DEF IInv, OnItsWay, BlockedDoesNotRun
<1>2. QED
  BY <1>1, Invariance, PTL

\* An idle processor has a loaded context to save, as sched.c asserts.
THEOREM IdleHasContextAlways == Spec => []IdleHasContext
<1>1. IInv => IdleHasContext
  BY DEF IInv
<1>2. QED
  BY <1>1, Invariance, PTL

\* The reason of one descheduling never outlives it to spoil a later one.
THEOREM ReasonUsedUpAlways == Spec => []ReasonUsedUp
<1>1. IInv => ReasonUsedUp
  BY DEF IInv
<1>2. QED
  BY <1>1, Invariance, PTL

\* A schedule event takes the processor from a task that neither yields nor
\* sleeps only for one of higher priority, and puts it first at its level.
LEMMA CorePreempts ==
  ASSUME IInv, ScheduleTaskCore, UNCHANGED priVal,
         current # None, current' # current, reason[current] = "other",
         holdQueue[current] = priVal[current]
  PROVE  /\ current' # None
         /\ priVal[current'] > priVal[current]
         /\ Head(queue'[priVal[current]]) = current
<1> DEFINE p == priVal[current]
<1>1. current \in Task /\ p \in Pri /\ p \in QueueId /\ p # None
  <2>1. current \in Task
    BY DEF IInv, TypeOK
  <2>2. p \in Pri
    BY <2>1 DEF IInv, TypeOK
  <2>3. QED
    BY <2>1, <2>2, Constants
<1>2. Head(Requeued[p]) = current /\ Contains(Requeued[p], current)
  BY <1>1, RequeuedTask
<1>3. Table(Requeued, QueueId, Task)
  BY RequeuedTask
<1>4. Requeued[p] # <<>>
  BY <1>1, <1>2, <1>3, TableMembers
<1>5. p \in Busy
  BY <1>1, <1>4, RequeuedWhere DEF Busy
<1>6. PICK n \in Busy : (\A r \in Busy : r <= n) /\ Switch(n)
  BY <1>5 DEF ScheduleTaskCore
<1>7. n \in Pri /\ n \in QueueId /\ Requeued[n] # <<>> /\ p <= n
  BY <1>5, <1>6, Constants DEF Busy, IInv, TypeOK
<1>8. current' = Head(Requeued[n]) /\ queue' = RemoveHead(Requeued, n)
  BY <1>6 DEF Switch
<1>9. n # p
  BY <1>2, <1>8
<1>10. p < n
  BY <1>1, <1>7, <1>9, Constants
<1>11. queue'[p] = Requeued[p]
  BY <1>1, <1>3, <1>8, <1>9 DEF RemoveHead, Table
<1>12. current' \in Task /\ Contains(Requeued[n], current')
  BY <1>3, <1>7, <1>8, RemoveHeadTable
<1>13. priVal[current'] = n
  BY <1>7, <1>12, RequeuedWhere
<1>14. QED
  BY <1>2, <1>10, <1>11, <1>12, <1>13, Constants

\* A running task that neither yields, sleeps nor uses up its slice is only
\* ever preempted by a higher level, and keeps its turn.
THEOREM PreemptionKeepsTurn == Spec => PreemptedKeepsPlace
<1> DEFINE A == (current # None /\ current' # current /\ reason[current] = "other"
                  /\ holdQueue[current] = priVal[current])
                => /\ current' # None
                   /\ priVal[current'] > priVal[current]
                   /\ Head(queue'[priVal[current]]) = current
<1>1. IInv /\ [Next]_vars => [A]_vars
  <2>1. SUFFICES ASSUME IInv, Next, current' # current, current # None,
                        reason[current] = "other", holdQueue[current] = priVal[current]
                 PROVE  /\ current' # None
                        /\ priVal[current'] > priVal[current]
                        /\ Head(queue'[priVal[current]]) = current
    OBVIOUS
  <2>2. SchedulerISR \/ ScheduleCall
    BY <2>1 DEF Next, Interrupt, TaskStep, SliceExpired, Wake, WakeAllBegin, Resume,
       StartTask, RaiseIPL, RestoreIPL, Release, ReleaseSchedule, Hibernate,
       RemoveOther, Priority, RemoveSelf, RemoveSelfSchedule, WakeAllNext, WakeAllEnd
  <2>3. ScheduleTaskCore /\ UNCHANGED priVal
    BY <2>1, <2>2 DEF SchedulerISR, ScheduleCall
  <2>4. QED
    BY <2>1, <2>3, CorePreempts
<1>2. QED
  BY <1>1, Invariance, PTL DEF Spec, PreemptedKeepsPlace
=============================================================================
