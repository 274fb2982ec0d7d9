----------------------------- MODULE WorkQueues ------------------------------
(***************************************************************************)
(* Work queues (src/kernel/wq.c): descriptors of jobs go from a pool by way *)
(* of a mailbox to the workers, which put them back before they run the     *)
(* job.  A job may queue others, and a task that is no worker may dispatch  *)
(* jobs as well, even in the middle of one.                                 *)
(*                                                                          *)
(* Pool and mailbox are the lists and semaphores of module Mailboxes, where *)
(* every caller tests for 1.  Instances give all tasks one priority, as     *)
(* those of Mailboxes do.                                                   *)
(***************************************************************************)
EXTENDS Blocking, FiniteSets, SequencesExt

CONSTANTS
  Job,         \* the functions that are queued, with their parameters
  NoJob,       \* what is not one of them
  Desc,        \* the descriptors
  pool, mail,  \* wait queues of the pool and the mailbox
  nowhere,     \* stands for no queue: who is there is not ready, and waits for nothing
  Turns,       \* for how many jobs KRN_dispatchWQ is called (by others than workers)
  Outside,     \* timeouts tasks give when they queue a job
  Inside,      \* timeouts jobs give when they queue another
  ImpExp,      \* whether import and export are configured
  Scenarios    \* ways to use a work queue

\* A way to use a work queue: the tasks KRN_initWQ starts, in their order in its
\* array, and the descriptors it puts into the pool; the tasks that queue jobs, the
\* jobs; the tasks, workers or not, that call KRN_dispatchWQ and KRN_removeWQ.
Scenario ==
  [workers : SeqOf(Task, Cardinality(Task)), descs : SUBSET Desc,
   callers : SUBSET Task, jobs : SUBSET Job,
   dispatchers : SUBSET Task, removers : SUBSET Task]

ASSUME WorkQueueAssumption ==
  /\ Queue = {pool, mail, nowhere} /\ Cardinality(Queue) = 3
  /\ IsFiniteSet(Task) /\ IsFiniteSet(Desc)
  /\ NoJob \notin Job /\ None \notin Desc
  /\ Turns \subseteq Int \ {0}
  /\ Outside \subseteq Timeout /\ Inside \subseteq Timeout
  /\ ImpExp \in BOOLEAN
  /\ Scenarios \subseteq Scenario
  /\ \A s \in Scenarios : IsInjective(s.workers)

VARIABLES
  free, spare,  \* the list of the pool and the value of its semaphore
  box, posted,  \* the list of the mailbox and the value of its semaphore
  content,      \* function and parameter in each descriptor
  mine,         \* the descriptor a task has in hand
  asked,        \* the arguments of the call of KRN_queueWQ a task is in
  frames,       \* the calls of KRN_dispatchWQ a task is in, the innermost last
  removal,      \* KRN_removeWQ: "none", "begun" or "returned"
  gone,         \* how many workers it has removed
  use           \* how the work queue is used

wqVars == <<blocking, free, spare, box, posted, content, mine, asked, frames,
            removal, gone, use>>

poolVars == <<free, spare>>
mailVars == <<box, posted>>
removalVars == <<removal, gone, use>>

\* A call of KRN_dispatchWQ with n jobs to come (endless if negative), before the
\* first.
Dispatch(n) == [left |-> n, job |-> NoJob]

\* KRN_initWQ, up to the calls of KRN_getMbox.
WQInit ==
  /\ BlockingInit
  /\ use \in Scenarios
  /\ free = SetToSeq(use.descs) /\ spare = Cardinality(use.descs)
  /\ box = <<>> /\ posted = 0
  /\ content \in [Desc -> {NoJob}]
  /\ mine = [t \in Task |-> None]
  /\ asked = [t \in Task |-> NoJob]
  /\ frames = [t \in Task |-> IF Contains(use.workers, t) THEN <<Dispatch(-1)>> ELSE <<>>]
  /\ removal = "none" /\ gone = 0

-----------------------------------------------------------------------------
\* The job a task is in, if it is not between two of them.
Current(t) == IF frames[t] = <<>> THEN NoJob ELSE Last(frames[t]).job

BetweenJobs(t) == frames[t] # <<>> /\ Current(t) = NoJob

\* The code of a task itself, or of a job it runs, may call something.
InUserCode(t) == Runs(t) /\ pc[t] = "user" /\ ~BetweenJobs(t)

InLine == {content[d] : d \in ToSet(box)}
Begun(t) ==
  ({frames[t][i].job : i \in DOMAIN frames[t]} \ {NoJob})
    \cup (IF pc[t] = "read" THEN {content[mine[t]]} ELSE {})
Running == UNION {Begun(t) : t \in Task}

\* Bounds the model: a job is not queued again before it has run to its end.
Fresh(j) == j \notin InLine \cup Running \cup {asked[t] : t \in Task}

\* What a task does next, with the timer of its call cancelled.
Ends(t, step) ==
  /\ timer' = Restored(t)
  /\ pc' = [pc EXCEPT ![t] = step]
  /\ UNCHANGED <<hold, timedOut, limit>>

Goes(t, step) ==
  /\ pc' = [pc EXCEPT ![t] = step]
  /\ UNCHANGED <<waitq, hold, timer, timedOut, limit>>

-----------------------------------------------------------------------------
(* KRN_queueWQ.                                                            *)

\* The call, as far as the raising of the IPL in KRN_takePool.
QueueWQ(t, j, timeout) ==
  /\ InUserCode(t) /\ t \in use.callers
  /\ Fresh(j)
  /\ timeout \in IF frames[t] = <<>> THEN Outside ELSE Inside
  /\ Begin(t, "take", timeout)
  /\ asked' = [asked EXCEPT ![t] = j]
  /\ UNCHANGED <<poolVars, mailVars, content, mine, frames, removalVars>>

Taking(t) == Runs(t) /\ pc[t] = "take"

Taken(t) ==
  /\ Taking(t) /\ spare >= 1
  /\ spare' = spare - 1
  /\ free' = Tail(free)
  /\ mine' = [mine EXCEPT ![t] = Head(free)]
  /\ Ends(t, "fill")
  /\ UNCHANGED <<waitq, mailVars, content, asked, frames, removalVars>>

NotQueued(t) ==
  /\ Taking(t) /\ spare < 1 /\ timedOut[t] # "running"
  /\ asked' = [asked EXCEPT ![t] = NoJob]
  /\ Ends(t, "user")
  /\ UNCHANGED <<waitq, poolVars, mailVars, content, mine, frames, removalVars>>

WaitForRoom(t) ==
  /\ Taking(t) /\ spare < 1 /\ timedOut[t] = "running"
  /\ SleepOn(t, pool)
  /\ UNCHANGED <<poolVars, mailVars, content, mine, asked, frames, removalVars>>

\* The descriptor is filled in with the IPL down.
Fill(t) ==
  /\ Runs(t) /\ pc[t] = "fill"
  /\ content' = [content EXCEPT ![mine[t]] = asked[t]]
  /\ Goes(t, "put")
  /\ UNCHANGED <<poolVars, mailVars, mine, asked, frames, removalVars>>

\* Mutated form of Posted: nobody is woken.
PostedSilently(d) ==
  /\ box' = Append(box, d)
  /\ posted' = posted + 1
  /\ UNCHANGED waitq

\* KRN_putMbox of descriptor d: every worker that sleeps tests again.
Posted(d) ==
  /\ box' = Append(box, d)
  /\ posted' = posted + 1
  /\ waitq' = [waitq EXCEPT ![mail] = <<>>]

Put(t) ==
  /\ Runs(t) /\ pc[t] = "put"
  /\ Posted(mine[t])
  /\ mine' = [mine EXCEPT ![t] = None]
  /\ asked' = [asked EXCEPT ![t] = NoJob]
  /\ pc' = [pc EXCEPT ![t] = "user"]
  /\ UNCHANGED <<hold, timer, timedOut, limit, poolVars, content, frames, removalVars>>

\* KRN_queueWQ in an interrupt handler, with no timeout: drivers queue their work
\* so, and _KRN_IPM_wqQueue a job from another thread.
QueueByHandler(j) ==
  /\ Fresh(j) /\ spare >= 1
  /\ spare' = spare - 1
  /\ free' = Tail(free)
  /\ content' = [content EXCEPT ![Head(free)] = j]
  /\ Posted(Head(free))
  /\ UNCHANGED <<hold, timer, timedOut, pc, limit, mine, asked, frames, removalVars>>

-----------------------------------------------------------------------------
(* KRN_dispatchWQ.                                                         *)

DispatchWQ(t, n) ==
  /\ InUserCode(t) /\ t \in use.dispatchers
  /\ frames' = [frames EXCEPT ![t] = Append(@, Dispatch(n))]
  /\ UNCHANGED <<blocking, poolVars, mailVars, content, mine, asked, removalVars>>

\* KRN_dispatchOne, from KRN_getMbox on.
GetJob(t) ==
  /\ BetweenJobs(t)
  /\ Begin(t, "get", "forever")
  /\ UNCHANGED <<poolVars, mailVars, content, mine, asked, frames, removalVars>>

Getting(t) == Runs(t) /\ pc[t] = "get"

\* Mutated forms of Got: the job stays on the list; its descriptor is back in the
\* pool before it has been read.
GotCopy(t) ==
  /\ Getting(t) /\ posted >= 1
  /\ posted' = posted - 1
  /\ mine' = [mine EXCEPT ![t] = Head(box)]
  /\ Ends(t, "read")
  /\ UNCHANGED <<waitq, poolVars, box, content, asked, frames, removalVars>>
GotReturned(t) ==
  /\ Getting(t) /\ posted >= 1
  /\ posted' = posted - 1
  /\ box' = Tail(box)
  /\ free' = Append(free, Head(box)) /\ spare' = spare + 1
  /\ mine' = [mine EXCEPT ![t] = Head(box)]
  /\ Ends(t, "read")
  /\ UNCHANGED <<waitq, content, asked, frames, removalVars>>

Got(t) ==
  /\ Getting(t) /\ posted >= 1
  /\ posted' = posted - 1
  /\ box' = Tail(box)
  /\ mine' = [mine EXCEPT ![t] = Head(box)]
  /\ Ends(t, "read")
  /\ UNCHANGED <<waitq, poolVars, content, asked, frames, removalVars>>

WaitForJob(t) ==
  /\ Getting(t) /\ posted < 1
  /\ SleepOn(t, mail)
  /\ UNCHANGED <<poolVars, mailVars, content, mine, asked, frames, removalVars>>

\* Function and parameter are read; the one before is not kept.
Read(t) ==
  /\ Runs(t) /\ pc[t] = "read"
  /\ frames' = [frames EXCEPT ![t] =
       Append(Front(@), [Last(@) EXCEPT !.job = content[mine[t]]])]
  /\ Goes(t, "return")
  /\ UNCHANGED <<poolVars, mailVars, content, mine, asked, removalVars>>

\* KRN_returnPool: every task that sleeps for room tests again.
ReturnPool(t) ==
  /\ Runs(t) /\ pc[t] = "return"
  /\ free' = Append(free, mine[t])
  /\ spare' = spare + 1
  /\ waitq' = [waitq EXCEPT ![pool] = <<>>]
  /\ mine' = [mine EXCEPT ![t] = None]
  /\ pc' = [pc EXCEPT ![t] = "user"]
  /\ UNCHANGED <<hold, timer, timedOut, limit, mailVars, content, asked, frames, removalVars>>

\* The function returns, to the loop of KRN_dispatchWQ or, after the last job, to
\* the code that called it.
Finished(fs) ==
  IF Last(fs).left = 1 THEN Front(fs)
  ELSE Append(Front(fs), Dispatch(IF Last(fs).left > 0 THEN Last(fs).left - 1 ELSE -1))

Finish(t) ==
  /\ InUserCode(t) /\ Current(t) # NoJob
  /\ frames' = [frames EXCEPT ![t] = Finished(@)]
  /\ UNCHANGED <<blocking, poolVars, mailVars, content, mine, asked, removalVars>>

-----------------------------------------------------------------------------
(* KRN_removeWQ.                                                           *)

\* With import and export configured it returns for every local work queue.
RemoveWQ(t) ==
  /\ InUserCode(t) /\ t \in use.removers
  /\ removal = "none"
  /\ IF ImpExp THEN removal' = "returned" /\ UNCHANGED blocking
     ELSE removal' = "begun" /\ Goes(t, "remove")
  /\ UNCHANGED <<poolVars, mailVars, content, mine, asked, frames, gone, use>>

\* The task KRN_removeTask is called for next, which may be the caller.
Worker == use.workers[gone + 1]

Removing(t, step) == Runs(t) /\ pc[t] = step /\ gone + 1 \in DOMAIN use.workers

\* KRN_removeTask in its sections, with whatever runs between them: the timeout of a
\* worker is cancelled if it is in the timer queue,
CancelTimeout(t) ==
  /\ Removing(t, "remove")
  /\ timer' = IF Worker = t THEN timer ELSE Cancelled(Worker)
  /\ pc' = [pc EXCEPT ![t] = "unlist"]
  /\ UNCHANGED <<waitq, hold, timedOut, limit, poolVars, mailVars, content, mine, asked,
                 frames, removalVars>>

\* the worker goes off the list of all tasks,
Unlist(t) ==
  /\ Removing(t, "unlist")
  /\ Goes(t, "unlink")
  /\ UNCHANGED <<poolVars, mailVars, content, mine, asked, frames, removalVars>>

\* and off the queue it is on.  If it is the caller, that is the end of it.
Unlink(t) ==
  /\ Removing(t, "unlink")
  /\ waitq' = AddTail(Unlinked(waitq, Worker), nowhere, Worker)
  /\ pc' = [pc EXCEPT ![t] = "remove"]
  /\ gone' = gone + 1
  /\ UNCHANGED <<hold, timer, timedOut, limit, poolVars, mailVars, content, mine, asked,
                 frames, removal, use>>

Removed(t) ==
  /\ Runs(t) /\ pc[t] = "remove" /\ gone = Len(use.workers)
  /\ removal' = "returned"
  /\ Goes(t, "user")
  /\ UNCHANGED <<poolVars, mailVars, content, mine, asked, frames, gone, use>>

-----------------------------------------------------------------------------
\* A task goes on in the call it is in.
InCall(t) ==
  \/ Taken(t) \/ NotQueued(t) \/ WaitForRoom(t) \/ Fill(t) \/ Put(t)
  \/ GetJob(t) \/ Got(t) \/ WaitForJob(t) \/ Read(t) \/ ReturnPool(t)
  \/ CancelTimeout(t) \/ Unlist(t) \/ Unlink(t) \/ Removed(t)

\* A timeout makes its task ready wherever it is, a removed worker too.
Expire(t) ==
  /\ TimerISR(t) \/ TimeoutWake(t)
  /\ UNCHANGED <<poolVars, mailVars, content, mine, asked, frames, removalVars>>

\* A task that is not removed is resumed by force, and tests again.
Forced(t) ==
  /\ ~AsleepOn(t, nowhere) /\ Resume(t)
  /\ UNCHANGED <<poolVars, mailVars, content, mine, asked, frames, removalVars>>

WQNext ==
  \/ \E t \in Task :
       \/ \E timeout \in Timeout, j \in use.jobs : QueueWQ(t, j, timeout)
       \/ InCall(t) \/ Finish(t) \/ Expire(t) \/ Forced(t)
       \/ \E n \in Turns : DispatchWQ(t, n)
       \/ RemoveWQ(t)
  \/ \E j \in use.jobs : QueueByHandler(j)

WQSpec == WQInit /\ [][WQNext]_wqVars

\* For tasks of one priority, which take turns: whoever is ready in a call of the
\* work queue again and again goes on in it, and the function of a job returns.
\* Timers expire and the timer task runs.  Nobody has to queue anything.
WQLiveSpec ==
  /\ WQSpec
  /\ \A t \in Task :
       SF_wqVars(InCall(t)) /\ SF_wqVars(Finish(t)) /\ WF_wqVars(Expire(t))
-----------------------------------------------------------------------------
(* Properties.                                                             *)

Steps ==
  {"take", "fill", "put", "get", "read", "return", "remove", "unlist", "unlink"}

InHand == {mine[t] : t \in Task} \ {None}

\* Every descriptor is in the pool, in the mailbox or in one hand, and the two
\* semaphores count the lists: however calls of tasks, jobs and handlers, expiries
\* and removals interleave, none is handed out twice and a granted take or get
\* finds one.
Accounted ==
  /\ BlockingTypeOK(Steps)
  /\ spare = Len(free) /\ posted = Len(box)
  /\ IsInjective(free) /\ IsInjective(box)
  /\ \A t, u \in Task : mine[t] = mine[u] /\ mine[t] # None => t = u
  /\ ToSet(free) \cap ToSet(box) = {}
  /\ (ToSet(free) \cup ToSet(box)) \cap InHand = {}
  /\ ToSet(free) \cup ToSet(box) \cup InHand = use.descs

Line == [i \in 1 .. Len(box) |-> content[box[i]]]

Promise == INSTANCE Jobs WITH
  line <- Line,
  running <- Running,
  Capacity <- Cardinality(Desc)

\* Jobs are begun in the order in which they were queued, each once and with the
\* function and parameter it was queued with, although its descriptor is back in
\* the pool, and may be filled in again, before it runs (KRN_dispatchOne).
KeepsOrder == Promise!Spec

\* A job that was queued is begun, as long as nobody removes the work queue: if
\* jobs give up when there is no room (Inside), workers do not wait for each other.
QueuedIsBegun ==
  \A j \in Job : j \in InLine ~> j \in Running \/ removal # "none"

\* "Shuts down a work queue, removing any associated tasks" (krn.xml:1021): the
\* workers are taken off whatever queue they are on.
ShutsDown ==
  removal # "none" ~> \A i \in DOMAIN use.workers : AsleepOn(use.workers[i], nowhere)
=============================================================================
