# A TLA+ model of MEOS

MEOS is a small real-time kernel in C with optional packages (queued I/O, rings,
message queues, a mailer between hardware threads, drivers). It runs on MIPS
processors and, for development, on Linux. This directory holds TLA+ modules
translated from its source, TLC configurations that check them on small
instances, and proofs checked by TLAPS that hold for every value of the
constants. `PROJECT.json` lists the parts, the runs, the mutants that show each
property can fail, and, definition by definition, the source lines modelled.

To check one module: `tlc -config MCScheduler.cfg MCScheduler`. To check its proofs:
`tlapm SchedulerProofs.tla`.

1. [The system](#1-the-system)
2. [What is hard about it](#2-what-is-hard-about-it)
3. [The modules](#3-the-modules)
4. [How the models stand for the code](#4-how-the-models-stand-for-the-code)
5. [The runs](#5-the-runs)
6. [Fairness](#6-fairness)
7. [The proofs](#7-the-proofs)
8. [Where the code and its documents part](#8-where-the-code-and-its-documents-part)
9. [What is not modelled](#9-what-is-not-modelled)
10. [Plan](#10-plan)

## 1. The system

One hardware thread runs one kernel instance. A *task* is a control block
(`KRN_TASK_T`) that is linked on at most one queue: the ready queue of its
priority level, or the wait queue of an object. Interrupt handlers run on top of
the tasks. Mutual exclusion is by the IPL: between `IRQ_raiseIPL` and
`IRQ_restoreIPL` nothing else runs. A schedule is requested by a flag
(`_KRN_schedNeeded`) and taken when the IPL is down, on the way out of an
interrupt or in an interrupt the task raises itself.

| Component (source) | State | Operations | Talks to | What makes it correct |
|---|---|---|---|---|
| Scheduler (`kernel/sched.c`, `krn.c`, `wake.c`, `hibernate.c`, `priority.c`, `krn.xml`) | ready queues, flags of levels in use, per task `priVal`, `holdQueue`, `reason`; `_KRN_current`, `deferred`, `_KRN_schedNeeded` | start, release, hibernate, wake, wakeAll, resume, priority, end of a slice, schedule events | everything | no task lost or linked twice; the highest ready task runs; peers take turns; a preempted task keeps its place |
| Task removal (`kernel/remove.c`) | the same, and the timer queue | remove the caller, remove another | scheduler, timers | a removed task is on no queue and no timer points at it |
| Double linked queues (`dqueues/dq.c`) | circular links | add at head, tail, before, after; remove; move | used by all | an item is on one queue |
| Linear lists (`lists/lst.c`) | singly linked list | add, addHead, removeHead, remove, insert | mailboxes, pools | no item lost |
| Timers (`kernel/timer.c`, `timtask.c`) | delta queue, `lastTimer`, `timerExpire`, compare register, timer mailbox | set, cancel, timer interrupt, timer task | scheduler (slices), every call with a timeout | nothing early, nothing forgotten, the interrupt always armed |
| Time slices (`kernel/timeslice.c`) | `timeSlice`, `sliceExpire` | set the slice | timers, scheduler | a slice ends |
| Blocking calls (`kernel/krn.xml`, `timeout.c`, `hibernate.c`) | `timedOut`, a timer in the caller's stack frame | arm, sleep, time out, return | timers, scheduler | a timeout ends the call it belongs to, and no other |
| Semaphores (`kernel/sem.c`) | value, wait queue, `testPar` | test, set | blocking calls | granted exactly what was set; nobody sleeps over what would suffice |
| Locks (`kernel/lock.c`) | a semaphore of 1 | lock, unlock | semaphores | one holder |
| Mailboxes, pools (`kernel/mailbox.c`, `pools.c`) | a list and a semaphore | put/get, take/return | semaphores, lists | the count is the length of the list; an item has one owner |
| Event flags (`kernel/efc.c`) | flags, wait queue | test any/all with clearing, set, toggle, clear | blocking calls | no event missed, or used twice |
| Synchronisation objects (`kernel/sync.c`) | count, wait queue | sync | blocking calls | nobody passes before all have come |
| Import and export (`kernel/impexp.c`, branches in all objects) | import and export tables, sequence numbers, `ackStatus` | commands, ACKs, NOTIFYs | interprocessor messages | a remote call returns once with the answer to it |
| Work queues (`kernel/wq.c`) | pool of jobs, mailbox, workers | queue a job, dispatch, remove | mailboxes, pools | jobs are begun in order, each once, and no descriptor is lost; no job waits for ever |
| Rings (`rings/ring.c`) | buffer, head, tail, two wait queues | write, read, and in blocks | blocking calls, handlers | bytes are read once and in order |
| QIO (`support/1/qio`) | pending queue, active count, I/O control blocks, their timers | queue, start next, complete, cancel, cancel all, enable, disable | mailboxes, timers, drivers | an operation completes once, with one status |
| Message queues (`mq`, `ipm/mq_*.c`) | virtio descriptor table, available and used rings | put, get, notify | another processor | no buffer lost, no notification missed |
| Interprocessor messages (`ipm/ipm.xml`, `targets/linux/ipm.c`) | channels | send, receive | import and export | delivery in order |
| Interrupt controllers, context switching, memory (`targets/*`) | hardware | raise and restore the IPL, switch | scheduler | - |
| Trees, debugging, statistics, drivers, services, hypervisor, third-party glue, build system, tests | see `PROJECT.json` | | | - |

## 2. What is hard about it

* **Two moments of going to sleep.** `KRN_hibernate` only stores the hold queue;
  the scheduler links the task at the schedule event. A handler that runs between
  the two finds the task on no queue. The objects of sem.c, efc.c and sync.c link
  the task at once for this reason; ring.c does not.
* **A reason, a flag, a context that outlive their use.** The flag of a level is
  cleared only by a search that meets it empty. `reason` is stored before the request
  it explains. While idle the context of a task that is not current stays loaded.
* **All that can proceed are woken, and test again.** So a task that was woken can be
  overtaken, time out, or be resumed by force before it tests.
* **Timers live in stack frames.** A call with a timeout arms a timer it must
  cancel. The expiry travels through a mailbox to the timer task, and may arrive when
  the call has its answer already. `timedOut` belongs to the task, not to the call.
* **Wrapping counts.** The count is 32 bits wide, delays are 64, compare registers
  32; the queue holds differences.
* **Handlers share the objects.** They set, put, wake and write without waiting
  between any two sections of a task's call.

* **Calls made of several sections.** `KRN_removeTask` searches the timer queue, and
  unlinks the task later; `QIO_cancelAll` keeps operations in a queue in its stack
  frame and lets others in between.
* **Three ways for an operation to end.** A queued operation is completed by an
  interrupt, cancelled by a call, or ended by its timeout, in any order; afterwards its
  control block is used again.
* **Messages between threads pass each other.** An answer and a NOTIFY for the same
  client, the requests of two clients, an export and an import cross on their way;
  answers are found by eight-bit numbers.
* **Two processors read each other's indices and flags.** In a message queue no IPL
  excludes the other side: a message may be made available between the look that finds
  none and the flag that asks to be told.
* **Workers that wait for workers.** A job queues jobs, and dispatches others, in the middle of itself.
  Its descriptor is in the pool again before it runs.

`PROJECT.json` lists 40 such places by line, each with the properties that would catch
it going wrong, or with the reason why none does so far.

## 3. The modules

    Queues                      sequences as queues, tables of queues
      |-- QueueLemmas           proved facts about them
      |-- Scheduler             ready queues, schedule events, task operations
      |     |-- SchedulerLive   the same, with fairness
      |     `-- SchedulerProofs
      |-- Timers                delta queue and its interrupt
      |     `-- TimerProofs
      |-- Blocking              what all calls that wait share
      |     |-- Semaphores -----------> Counting   (the abstract semaphore)
      |     |     |-- Locks                ^
      |     |     |-- TaskRemoval          |
      |     |     `-- Mailboxes --.        |
      |     |-- EventFlags -------+-- Objects  (the three used by the same tasks)
      |     |-- Syncs ------------'        |
      |     |-- Rings                      |      (BlockingProofs: Semaphores, Locks, Objects, Rings)
      |     `-- WorkQueues -------------------> Jobs    (a line of jobs, each run once)
      |           `-- WorkQueueProofs |
      |-- ImportExport --------------------'       (a semaphore used from afar)
      |     `-- ImportExportProofs
      |-- QIO -----------------------> Requests    (each operation answered once)
      |     `-- QIOProofs
    MessageQueue --------------------> Courier     (messages in order, each once)
      `-- MessageQueueProofs

An arrow leads from a module to the abstract specification it is shown to implement.

| Module | Source | State and actions |
|---|---|---|
| `Queues` | dq.c, walks in sem.c, efc.c | `AddTail`, `AddHead`, `RemoveHead`, `Unlinked` (`DQ_remove`), `Sifted` (a walk that removes some) on a function from queues to sequences |
| `Scheduler` | sched.c, krn.c, wake.c, hibernate.c, priority.c, remove.c, krn.xml | one variable per kernel variable, with the fields of the control blocks as functions. `ScheduleTaskCore` is `_KRN_scheduleTaskCore`. Calls the code makes in several sections are several actions: `Release`/`ReleaseSchedule`, `RemoveSelf`/`RemoveSelfSchedule`, `WakeAllBegin`/`Next`/`End`, and `Leave` followed by `ScheduleCall` for every call that schedules |
| `SchedulerLive` | the same | every operation of `Scheduler` under fairness (`FairSpec`) |
| `Timers` | timer.c, timtask.c, tmr.c | the clock is unbounded, the count is the clock modulo `Word`. `SetSoftTimer`, `SetImmediate`, `CancelTimer`, `TimerISR`, `TimerTask`; `SetCompare`, `WriteCompare` and `CheckCompare` are `TMR_set` access by access, with the count going by in between. `earliest` and `latest` are history |
| `Blocking` | krn.xml, timeout.c, hibernate.c | `Begin` and `Return` (`_KRN_raiseIPLWithTimeout` and its counterpart), `SleepOn`, `Linked`, `TimerISR`, `TimeoutWake`, `Resume`; `Runs(t)` says who has the processor |
| `Counting` | descriptions in krn.xml, sem.c | the atomic semaphore: `Ask`, `Grant`, `Refuse`, `Expire`, `Give`, `Try` |
| `Semaphores` | sem.c | `TestSemaphore`, then `Claim`, `Fail` or `Block`; `SetSemaphore`, `TestNow` |
| `Locks` | lock.c | the semaphore's steps with `holders` |
| `Mailboxes` | mailbox.c, pools.c | the semaphore's steps with the list; `owner` is history |
| `EventFlags` | efc.c | `TestFlags`, `TestFlagsEnds`, `TestFlagsSleeps`, `SetFlags`, `ToggleFlags`, `ClearFlags` |
| `Syncs` | sync.c | `Sync`, `Arrive`, `Open`, `Leaves`, with every timeout; `arrived` is history |
| `Objects` | - | composes the three: each task uses what `uses`, chosen at the start, allows it (`"timedSync"`: `KRN_sync` with positive timeouts too); timers and control blocks are shared |
| `WorkQueues` | wq.c, mailbox.c, pools.c | one action per section of `KRN_queueWQ` (`QueueWQ`, `Taken`, `Fill`, `Put` ...) and of `KRN_dispatchOne` (`GetJob`, `Got`, `Read`, `ReturnPool`, `Finish`); `frames` is the stack of calls of `KRN_dispatchWQ` a task is in; `RemoveWQ`, then for each worker `CancelTimeout`, `Unlist`, `Unlink`, the sections of `KRN_removeTask`. A removed worker is on the queue `nowhere`, which stands for no queue; a timeout takes it off like any other task |
| `Jobs` | the descriptions in krn.xml | the line of jobs and those that run |
| `Rings` | ring.c | each section of each call is a step; `roles`, chosen at the start, says who calls what |
| `TaskRemoval` | remove.c, timeout.c, sem.c | the three sections of a removal, `Search`, `Unlist`, `Unlink`, between the semaphore's steps by its victim, timers of calls and one of the application (`own`). A removed task is `"away"`, like one asleep elsewhere, and `TimeoutWake` makes either ready |
| `ImportExport` | impexp.c, sem.c | `up` and `down` are the messages between a client and the server. Clients: `Import`, `RequestTest`, `RequestSet`, `RequestAgain`, `ClientReceives` (ACK, NOTIFY); server: `Export`, `ServerReceives` (probe, test, set), and its own tasks |
| `QIO` | qio.c, cancel.c, cancelAll.c, enable.c, disable.c, result.c | `io` is the device with its queues, counts, control blocks and mailbox. `Queue`, `Cancel`, `CancelAll`/`CancelNext`/`CancelEnd`/`Disable`, `Enable`, `DeviceISR`, `TimerISR`, `TimerTask`, `Result` |
| `Requests` | the descriptions in qio.xml | the fate of each operation: waiting, started, answered with one status, taken |
| `MessageQueue` | mq_template.h, mq_host.c, mq_guest.c, rproc.c, wq.c | the two rings, and one action per access to an index or a flag, of the host's task and interrupt and the guest's |
| `Courier` | the descriptions in mq.xml | `Send`, `Receive`, `Return`, `Collect` |
| `MC...` | - | instances for TLC |

## 4. How the models stand for the code

* **A section with the IPL raised is one action**, since nothing interleaves with
  it; `KRN_wakeAll`, which loops inside one, is modelled iteration by iteration with
  everything else held off by `waking`. Unprotected code (`RING_read`,
  `KRN_release`, `KRN_hibernate`) is split at every access to shared state.
* **One processor.** In `Scheduler` only `current` runs, and handlers run when the IPL
  is down. In `Blocking` and above, `Runs(t)` replaces the scheduler by what is
  *proved* of it: with no schedule outstanding no ready task outranks the one that
  runs (`HighestRuns`). Peers may take turns at any step, since a slice may end at
  any time. The timer task is alone at the highest level (`KRN_startOS` puts it there
  and `KRN_priority` cannot put another there), so `Runs` is false of all tasks
  while an expired timer waits for it.
* **A timeout is one of zero, positive, negative**: a running timer may expire at any
  moment. The lengths of delays are the subject of `Timers`.
* **One section that hardware cuts through.** Timers are set, cancelled and expired with the IPL
  raised, but the count goes on. What comes before `TMR_set` is taken at one reading of
  the count; `TMR_set` itself reads the count and the pending interrupt several times, so its write and
  its look are actions of their own, at most `MaxSlip` ticks apart, and whatever else the
  kernel does waits for it (`arming`).
* **A task's own code** is nondeterministic: it calls any operation that is legal
  there.
* `reason`'s uses for tracing are left out; so are names, statistics, stack bounds,
  debug checks, assertions' actions and the alternative build options.
* `RemoveOther` is one step in `Scheduler`, without the search of the timer queue.
  `TaskRemoval` and `WorkQueues` have the sections, with the timers of calls (a timer of the application with the task for parameter
  is in `TaskRemoval` only). There an equal of the remover may run
  between two of them; one it outranks may not, unless it is made ready by force.
* A task with its IPL raised (`ipl` in `Scheduler`) may wake, start and re-prioritise
  others, and the schedule is then deferred to the next interrupt. It does not
  release the processor, sleep or remove itself: the code asserts or documents that.
* **Deferred schedules in the objects.** `KRN_putMbox`, `KRN_setFlags` and `KRN_sync` wake
  with the IPL raised. On MIPS the schedule then comes with the next interrupt, and a
  lower task may run on meanwhile. `Objects` therefore gives all tasks one priority:
  any ready task may run at any time, which covers every order the kernel allows.
* **Left out on purpose in one place.** `Syncs` and `Rings` let nobody resume a task that
  sleeps there with `KRN_resumeWithValue`: the call would go on as if the object had
  woken it. `Rings` forgets the arguments of a call when it returns, to merge equal
  states. `Semaphores`, `EventFlags` and the rest model local objects; `ImportExport`
  has the branches for imported and exported semaphores.
* **Routines that call each other.** In `QIO`, `QIO_start`, `QIO_complete` and
  `_QIO_cancelIO` are called by each other and by all entries, always with the IPL
  raised. They are functions from the state before to the state after, so that an
  action is the composition the code performs. The hardware works through what
  it was given in order, and may never answer; a driver's `cancelFunc` stops it.
* **A union is one variable.** `seqNum` and `ackStatus` share a word (`p2`); so a task that
  reads its status may read a number. That happens in the code and in the model
  alike: the copies of a client begin at any number (`Starts`), since the number of
  a request is the copy's value. The other threads' objects are reached by two queues of
  messages for each client, which keep their order, as ipm.xml requires.
* **Two processors.** In `MessageQueue` each access to shared memory is a step, in
  program order: memory is taken to be sequentially consistent. What one side does to
  memory the other does not look at is part of the step next to it. An interrupt
  is taken when the IPL of its side is low. Only the direction from host to guest
  is there; the guest has one job and one worker, or a task that receives.

## 5. The runs

| Run | Instance | Checks | Shows |
|---|---|---|---|
| `scheduler` | startup, timer and one more task, levels 0-2, one wait queue | `LinkedOnce`, `NoTaskLost`, `FlagsCover`, `HighestRuns`, `BlockedDoesNotRun`, `PreemptedKeepsPlace`, `RoundRobin` | every operation by tasks and handlers, at every point, keeps queues, flags and control blocks consistent; once tasks keep their turns, a ready one nothing outranks gets the processor |
| `timers` | three timers, delays 0, 2, 5, tolerances 0, 2, the count wraps at 16 in the middle and moves by up to a tick between two accesses of `TMR_set` | `DeltasExact`, `ActiveIffQueued`, `InterruptArmed`, `NeverEarly` | timers merged, cancelled and inserted in any order keep their times, none expires early, and the interrupt for the first is always armed; one may expire late (section 8) |
| `semaphores` | one urgent task, two peers, amounts 1 and 2, value modulo 4 | `NoneOverlooked`, `KeepsPromise` | the loop with its sleeping and retesting implements the atomic semaphore |
| `locks` | three peers | `MutualExclusion`, `TimedTestEnds`, `CoveredIsGranted` | one holder, and under fairness calls end |
| `objects` | three tasks at a pool of two; two at two event flags; three at a barrier for two, two of them with positive timeouts; a task that uses all three; one that leaves the barrier for a mailbox while its timer runs | `OneOwner`, `FlagsNotMissed`, `CountsSleepers`, `NoTimerOutlivesCall`, `ResultTells`, `NoneEarly` | the objects alone and together, with handlers using them as well |
| `rings` | three bytes, two values; a receiver, a transmitter, block transfers | `RoomWhenWoken`, `BoundedQueue` | used as the drivers use them, rings are bounded queues |
| `qio` | three operations, two with timeouts, one with a completion function; two tasks; devices of rank 1 and 2, with and without `cancelFunc`, of all power classes | `Consistent`, `PowerFollows`, `Answered`, `EndsInTime` | an operation is answered once, with what happened to it, in whatever order it completes, is cancelled and expires |
| `impexp` | a lock, two clients and the server with a task each, the server's with a timeout; exported before or after it is imported; numbers modulo 3 | `Conserved`, `NoneForgotten`, `KeepsPromise`, `CallsEnd` | from afar it is the same abstract semaphore, whatever passes what on the way |
| `mq` | two descriptors, indices modulo 4; a receiver with timeouts, and one in a callback's work queue | `Consistent`, `InOrder`, `Delivered` | messages and buffers go round in order, and no notification that matters is missed |
| `wq` | four ways to use a work queue: one worker, one descriptor, three jobs that queue each other, with timeouts or none, and a task that removes the work queue; two workers, two descriptors; a task and a worker that dispatch two jobs in the middle of others; two workers removed by a task, or by one of them | `Accounted`, `KeepsOrder`, `QueuedIsBegun` | no descriptor is lost, also when workers are removed in mid-call; jobs are begun once and in order, and none waits for ever although the one who would begin it may be waiting for room himself |
| `wq_default` | the same, with import and export configured | `ShutsDown` is violated | section 8 |
| `removal` | a remover and a victim of one priority, a timer of the application | `StaysRemoved` is violated | section 8 |

**Why the bounds are enough.** *Scheduler*: three tasks on three levels give a running
task, a peer and a higher one, in every arrangement, since priorities change
freely; the timer task, pinned to the top, can be preempted by nobody and preempts
all. One wait queue is enough because a task is on one at a time, and the proof
covers the rest. *Timers*: three timers give a predecessor, the timer in question
and a successor; with `Word` 16 the delay 2 is below a quarter word and 5 is above it, so that the register
is set both to the timer's time and to the code's limit of a quarter word ahead; `MaxLatency` 2 lets several timers become due within one
interrupt's delay; the clock runs from 13 to 21, so that the count wraps while timers are queued, and timers are set at any moment of it, also between the wrap and the next
interrupt. `MaxSlip` 1 lets the count pass, or reach, the time `TMR_set` asks for before it writes it and before it
looks; with `ClockSpeed` 1 putting a missed time off by one tick may miss again. *Semaphores*: two peers contend
below an urgent task; two amounts make a set suffice for one sleeper and not
for another; `Modulus` 4 lets the value wrap. *Objects*: the barrier has more callers
than it waits for, so that rounds overlap. Two have every
timeout and leave timers behind, one has not, so that those who give up and those who stay meet. A task whose
stray timer still runs may set another one in its next call; the model has one timer for each
task, which that call then arms again in place. *Rings*: three slots hold two bytes, so full, empty, part full and wrapped
positions all occur.

*QIO*: three operations are one more than the device takes at most, so that one waits
while others are active, in every order. *Import and export*: one client is being notified while
the other's request is under way; with three numbers a number comes again while older
messages are still queued. *Message queues*: two descriptors and indices modulo four let
both rings fill, empty and wrap, and put one buffer with the guest while another is
available.

*Work queues*: one descriptor and three jobs are the least with which a worker can meet a full pool while it
runs a job (one runs, one waits in line, one is to be queued). With two descriptors and two workers jobs overtake in every way the code
allows. A job is not queued again before it has run (`Fresh`); nested calls are bounded by that.

Deadlock is checked except in `rings`, `impexp`, `wq` and `wq_default`, where the system really
may stop: two tasks of a ring that both wait with a negative timeout for what only the other can do, a task that tests
for units it holds itself, a work queue whose workers are removed.

Runs with `SYMMETRY` check invariants and action properties only, and the refinement
`KeepsPromise`, which states no fairness.

Every property of a passing run has a mutant in `PROJECT.json`: a plausible error in a definition (a
reason that is not reset, a flag not set, a test that is not repeated, a
wrap not noticed) under which TLC finds that property violated.

## 6. Fairness

`SchedulerLive` assumes that code inside a kernel call runs on (weak fairness of the
schedule call and of the steps of `KRN_wakeAll` and `KRN_release`), and strong fairness
of three actions. A task that raised the IPL lowers it again: strong, because others
run in between. A pending schedule interrupt, and the slice timer's interrupt, are
taken if they are possible again and again: they are held off only while the IPL
is up, and hardware keeps them pending. Nothing is assumed of what tasks call, and every operation
is there. `RoundRobin` has a hypothesis of its own, `TurnsKept`: from some time on no task is started, removed or given another
priority, and no ready one is sent behind a peer, as `KRN_resumeWithValue` does. A peer that does so
for ever starves a task: that is what the code does, not a fault of the model.

`LockLiveSpec` assumes, for tasks of one priority, strong fairness of each task's step
inside its call: a task ready again and again gets the processor, which is what
`RoundRobin` shows of the scheduler with time slicing. Timers expire and the timer task
runs (weak). Nobody is obliged to unlock; hence `CoveredIsGranted` speaks of a lock that
stays free. With unequal priorities the property is false of any priority scheduler.

`QIO` assumes that timers expire and the timer task runs (weak), and that a task inside
`QIO_cancelAll` or `QIO_disable` goes on (strong, since the timer task comes first). Nothing is
assumed of the hardware: `EndsInTime` is about a device that never answers.

`WorkQueues` assumes, for tasks of one priority, strong fairness of each task's steps inside a call and of the end of the job
it runs, and weak fairness of timers. Nothing is assumed of what tasks queue. `QueuedIsBegun` needs that jobs
do not wait for room with a negative timeout.

`ImportExport` assumes that messages are delivered and handled and that a task that is ready runs
(weak). Nothing obliges anybody to set what it holds.

`MessageQueue` assumes weak fairness of what each side's task has begun and of its timeouts, and strong
fairness of the two interrupts: a pending one is held off only while a section has the IPL
raised. Nothing obliges the host to send.

## 7. The proofs

All proofs are checked to the last leaf. The assumptions are those the modules state of
their constants: there are a startup task and a different timer task, wait queues are not
levels (`SchedulerAssumption`); priorities are integers (`BlockingAssumption`); the
initial value and the amounts fit in the word (`SemaphoreAssumption`); a lock is a
semaphore of 1 (`LockConstants`); the count's width is a multiple of 4, at least 8
(`TimersAssumption`). Sets of tasks and queues are arbitrary, as is the number
of levels. Only the sums of `ImportExportProofs` need them finite; descriptors and items are finite sets.

**`QueueLemmas`.** What adding, removing and walking do to a table of queues in which no
item is linked twice (`Table`): who is linked where afterwards, and that the table
stays well linked. The library's `RemoveFirst` is defined by a `CHOOSE` of the least
index, so these rest on `MinProperties`; `Sifted` is a recursive
function along the queue, and `WalkExists`, by way of a least counterexample, says that it exists.

**`SchedulerProofs`.** `Spec => []IInv`, then each invariant of the run, then
`Spec => PreemptedKeepsPlace`. None of the invariants is inductive alone. `HighestRuns` says
nothing while a request is outstanding, but a task that is descheduled or woken in that
time must not be forgotten. `IInv` adds:

* `OwnLevel`: a hold queue that is a ready queue is the one of the task's priority
  (so that putting a task back cannot put it on the wrong level);
* `CurrentHeld`: the running task is on no wait queue, its hold queue is null only when it
  is removing itself, and no other context is loaded (it may be linked on its own ready
  queue, when a handler has resumed it);
* `OnItsWay`: a running task whose hold queue is not its level is in a schedule or exit
  call, with a request outstanding. This is what closes the window between
  `KRN_hibernate` and the schedule event;
* `HighestSoFar`: `HighestRuns` strengthened to the middle of a `KRN_wakeAll`;
* `WakingQueue`: `KRN_wakeAll` walks a wait queue.

`ScheduleTaskCore` is handled once (`CoreStep`) for the two actions that contain it, and
waking once (`WakeTaskPlaced`, `WakeThenLeave`) for the four that wake.

**`BlockingProofs`** has four parts. *Semaphores*: `IInv` is `TypeOK`, `WellLinked`, `OneQueue`, `NoneHeld`,
`NoneOverlooked`, `TimerInCall` and `ZeroMeansZero` (`timedOut` is `KRN_ZERO` only in a call with a zero
timeout). `NoneOverlooked` is kept by
`SetSemaphore` because the walk of the queue leaves exactly those whose amount exceeds
the new value (`SiftedTable`); by `Block` because the test and the linking are one
section. `SemaphoreKeepsPromise` is the refinement: the abstract `asking` are the tasks in
the loop, `expired` those of them with `timedOut` set. `Block`, `SetSemaphore`'s wakes,
`TimerISR`, `Resume` and sleeping elsewhere stutter. `Claim` maps to `Grant`, and the abstract
order of priorities follows from `NoneOverlooked`: a higher task that is asking is either
ready, and then it would be running, or asleep, and then the value does not cover it.
`Fail` maps to `Refuse`, where `ZeroMeansZero` tells a zero timeout from an expired one.

*Locks*: each step of a lock is a step of a semaphore (`LockSteps`), so
the semaphore's theorems hold of locks (`LocksAreSemaphores`); `MutualExclusion` is inductive with
`TypeOK` (`LocksExclude`). A lock is a semaphore of 1, which the two theorems assume (`LockConstants`).

*Rings*: `RoomWhenWoken` and `BoundedQueue`, for rings and blocks of any size, any tasks, priorities, timeouts and
interrupt handlers, from `RingAssumption`, `BlockingAssumption` and one hypothesis on who calls what.
`Disciplined`: a task that writes with `RING_write`, or reads with `RING_read`, has its end of the ring for itself, and
at the other end there are only interrupt handlers. Neither call looks at the ring again after it has slept (ring.c:106,
178), and a task at the other end wakes it in a later section than the one that made room, so that
without the hypothesis both properties fail (section 8). The calls that
transfer blocks look again, and `Disciplined` says nothing of who uses them with each other. The
roles of run `rings` are disciplined. The invariant `RInv` says of each task, beside the types:

* `InCall`, `Given`: it is in calls it makes, with something to write where it writes;
* `SleepsThere`: it sleeps, or is about to, on the queue of the call it is in;
* `TimerThere`: it has a timer only in a call that asked for one, and `timedOut` says "running" for as long;
* `RoomFor`: in `RING_write`, once it is awake and its timeout has not run out, there is room. It is what makes
  `RoomWhenWoken` inductive: it is about the moment of waking, not that of running;
* `ByteFor`: in `RING_read`, once it is awake so, there is a byte, and the one copied is still at the tail while
  handlers write.

The contents are a segment of the buffer. `Stored` and `Consumed` say what the loops of the code do to it, wherever
the indices wrap: they append to the segment, or cut off its front. `Bounded` is `BoundedQueue` of one step; each lemma
about a step shows it together with `RInv`.

*Objects*: mailboxes, event flags and synchronisation objects, used by the same tasks in any
combination and with every timeout. `KRN_sync` leaves a timer behind (section 8), which strikes in whatever its
task does next. Four of the five theorems hold with it. `ResultTellsAlways` needs that it does not strike in
`KRN_testFlags`: it assumes that a task that tests event flags does not call `KRN_sync` with a positive timeout
(`FlagsUntimed`, true of run `objects`). Beyond that the proofs use what the modules state of their constants: the queues of the
three objects differ (`ObjectsAssumption`), an owner is not the value that stands for none and the
count holds more than there are items (`MailboxAssumption`), and `EventFlagsAssumption`, `SyncAssumption`. The
invariant `OInv` has one part for what the objects share and one for each:

* `CallsInv`: queues well linked, nobody held off a queue; a task asleep on an object's queue is in a call of
  that object. Of a task that does not call `KRN_sync` with a positive timeout (`Untimed`): a timer runs only in a
  call that asked for one, and `timedOut` is about the call it is in.
* `BoxInv`: the value is the length of the list, and the list has no repetition. A list without repetition
  is not longer than there are items (the pigeonhole theorem of the library), which is
  why the count does not wrap.
* `FlagsInv`: the test of a sleeper does not pass. Setting and toggling walk the queue
  (`SiftedQueues`); clearing is harmless because a test that fails still fails with fewer flags (`FewerFlags`).
* `SyncInv`: those who have arrived and those still missing are as many as the object was made for; whoever sleeps has arrived, and one
  who has arrived and is still in the call sleeps or has timed out.

Each action of one object leaves the parts of the other two alone (`OthersUndisturbed`), so each part is
argued once, for its own actions. `ResultTells` and `NoneEarly` are about the step on which a call returns.

**`WorkQueueProofs`.** `Accounted`, and the refinement `KeepsOrder`, for any number of workers, callers,
descriptors and jobs, any priorities, with handlers that queue and with removal; from `WorkQueueAssumption`, of which
the proofs use that the two queues and `nowhere` differ, that there are finitely many descriptors, and that no job is `NoJob`.
`WInv` adds to `Accounted`:

* `Holding`: a task has a descriptor in hand exactly where the code goes on to use one;
* `Dispatching`: a task that gets, reads or returns one is in a call of `KRN_dispatchWQ`;
* `AskedInv`: a job that a caller is about to queue neither waits nor runs, nobody else is about to queue
  it, and once the descriptor is filled in it says so. This is what ties the call of
  `KRN_queueWQ`, which takes, fills and puts in three sections, to the abstract `Add`, which is one step.

What a task has in hand goes from the head of one list, or to the tail of one (`HeadTaken`, `HandEmptied`); pool
and mailbox play the same part (`PlacedEitherWay`). `Put` and `QueueByHandler` map to `Add`, with room because
a descriptor not yet in the mailbox leaves the mailbox shorter than there are descriptors (`RoomLeft`, the
pigeonhole again); `Got` to `Run`; `Finish` to `End`; all other steps stutter
(`IdleStep`, `QuietStep`). `Read` comes after another
section with the IPL down, and `Fill` of somebody else may come in between: that the two are never
about one descriptor is what `Placed` says.

**`TimerProofs`.** `ActiveIffQueued` is inductive with the types and with what `abstime` is while `TMR_set` puts a missed time off
(`Queueing`), from `TimersAssumption` alone. `DeltasExact`,
`InterruptArmed` and `NeverEarly` are about arithmetic modulo a word, and one thing is assumed of the constants, in the
theorems: `Modest`, the longest delay and tolerance together, in jiffies, are less than half a word. The code's 32-bit
products and signed comparisons are right only within this limit (section 8). Timers may be set at any moment, and the
interrupt may come however late, also laps late. That `TMR_set` looks and writes within less
than an eighth of a word (`MaxSlip`) is in `TimersAssumption`.

The invariant `Timing` adds to `Queueing`, `DeltasExact` and `InterruptArmed`:

* `InReach`: no queued timer may be held back to half a word from now or beyond. Hence a timer that the signed
  comparison of the interrupt takes for due is past its time, whatever laps have gone by since it was (`DueIsPast`).
* `Asked`: while `TMR_set` writes and looks, what it asks for is the count of the first timer or one before it
  (`SettingAsks`); and what it is about to check is what it has written.

`now - then` of the code loses whole laps, and is huge after a wrap, so the sums of the deltas are what they should be only modulo a word: two numbers
that differ by laps are `Same`, and adding, cutting off and taking the low word respect that (`SameSum`, `SameDifference`, `SameWide`).
Nothing is claimed of the order of the queue, of which that is not so (section 8).

The sum of the deltas is a recursive function along the queue (`Total`). `SumsExist` and `TotalIs` say that it exists and
is the only solution of its equations; what putting a timer in, taking one out and cutting off the head do to all
the sums follows (`Inserted`, `Removed`, `Cut`) without induction over the queue in each step; a delta may change
by laps without changing what the sums are (`AlikeTotals`). `SignedIs`, `MatchIs` and `Await` are the facts about the word.

**`MessageQueueProofs`.** `Consistent`, and the refinement `InOrder`, for any number of descriptors and any width of the
indices that the number divides; from `MessageQueueAssumption`. The invariant `MQInv` adds to `Consistent`:

* `SlotsWritten`: the host has written the slot of the available ring, and the guest that of the used ring, that
  its index is about to make visible. This is what makes the order of the two stores matter.
* `SomethingToFetch`: the guest fetches only if there is something, though its look is a step before.
* `OnePlace`: a descriptor is free, being linked, sent, received or returned, in one of these only and only once there.
  So the slot the host writes is not one the guest has still to read: with as many slots as descriptors, a ring
  whose indices are `Size` apart holds all of them, and nothing is left to link.

What is sent and not fetched is a segment of the ring, from the reader's index to the writer's, both modulo
the width of the index. A slot next to the segment makes it longer at one end or shorter at the other whether or not an
index wraps in between, since `Size` divides `Modulus`; the refinement mapping is these segments, as sequences.
Publishing, fetching, returning and collecting are the four steps of the courier, and the rest, with all that concerns
notifications, stutters (`QuietStep`).

**`QIOProofs`.** `Consistent`, `PowerFollows` and the refinement `Answered`, for any operations, tasks and kinds of
device, from `QIOAssumption` and one hypothesis, stated in the theorems. `HandledApart`: operations whose completion
function disposes of them are not cancelled one by one and have no timeout. The code leaves their state active
(qio.c:323), and a timeout or a cancellation would then complete another operation (section 8).

The routines of QIO call each other, so an action is a composition of functions of the device's state, and the invariant is
about that state: `IInv` is `Sound(io, kind)` with the types. `Sound` is `Steady`, which holds also between
`QIO_complete` and `QIO_start`, with `Busy` and the count of what the hardware has. `Steady` has these parts:

* `Blocks`: no operation is linked twice (`Table`), and each control block tells where its operation is; a timer
  runs only for an operation that is on a queue; an answer in the mailbox is final and belongs to no operation that is
  disposed of by its function;
* `Counts`: the active count is the length of the active queue and within the device's rank;
* `Powered`: what `PowerFollows` says.

Each routine is argued once: `Start` moves operations until the device is full (`StartStep`, by `MoveTable`);
`Complete` answers the first active one (`CompleteStep`); `CancelIO` takes a pending one off its queue, or stops and
restarts the device (`TakenOff`, `CancelStep`). The loops of `QIO_cancelAll` are recursive functions along a queue, and are
argued by the least index at which their invariant would fail (`CompleteAllStep`, `CancelEachStep`). Every routine has, beside
what it keeps, its effect on the fate of each operation (`FateOf`): pending, active, or ended with a status
(`Ended`); `Kept` says that this is a step of `Requests`.

**`ImportExportProofs`.** `Conserved`, `NoneForgotten` and the refinement `KeepsPromise`, for any finite numbers of threads
and tasks, any amounts and any width of the sequence numbers; from `ImportExportAssumption` and one hypothesis, stated in
the theorems. `SafeUse` has four parts, and the constants of run `impexp` satisfy it:

* one task of each client thread uses the semaphore: with two, a NOTIFY for one wakes the other and its unit is lost (section 8);
* a client tests with a zero or a negative timeout: a positive one loses what an ACK grants (section 8). Tasks of the
  server's thread have every timeout;
* the semaphore is exported before it is imported, or the client's copy does not begin at 0: else the late ACK of its probe,
  which has the number 0, is taken for that of a test (section 8);
* there are fewer units than numbers, so that the requests a client has out at once have different numbers.

`IInv` says of each client's task, its requests and the messages between its thread and the server:

* `RequestInv`: the requests without an answer, those the answers on their way are for and then those on their way to the server,
  are in the order in which they were sent, oldest first. How old one is, is a distance between its
  number and the next (`Age`), modulo `Wrap`. The units of a set without an ACK, those of the sets sent after it, at least
  one each, and what the task still holds, it had all at once; that bounds the ages by `Initial` (`SetFits`), so that no
  two numbers are the same. A test is the last request, and its caller asleep for it.
* `CallInv`: a task asleep sleeps for the last request it sent, or has been refused and has none out; one awake in a
  test has none out either, and its status is an answer and not a number.
* `ProbeInv`, `NotifyInv`: a refused task has a NOTIFY coming or its thread in the notify mask, and never both; the mask has
  no thread that does not wait; a NOTIFY is the last message to a client that has imported the semaphore. Hence it
  never comes before the ACK of the test it answers, and wakes nobody for nothing.
* `UnitsKept`, with all of this, is `Conserved`. It is a sum over tasks and over the queues of messages. What adds numbers up one by one,
  in any order, counts a set that has as many elements for each number (`AddingIsCounting`), so the
  library's theorems on cardinality give what one number more or another value does to a sum (`PartOfSum`, `TotalKept`).

Each handler is argued as the code has it, for the two ends apart: what a message does to the server's object and mask, with the ACK it
sends and the NOTIFYs that go with a set; what an ACK or a NOTIFY does to the task that waits. In the refinement a
request is decided when the server handles it, though its task learns of it an ACK later: `RequestTest` maps to
`Ask`, handling the test to `Grant` or, for a caller that does not wait, to `Refuse`, handling a set to `Give`. A refusal with a NOTIFY
to come, and the request that is sent again then, stutter. The server's own tasks go through the same steps in one
section each. `Timed` says that a task whose time has run out had a limit, which makes its refusal one of `Counting`.

**Only model-checked**: liveness (`RoundRobin`, `TimedTestEnds`,
`CoveredIsGranted`, `EndsInTime`, `CallsEnd`, `Delivered`, `QueuedIsBegun`), which is out of the prover's reach. `StaysRemoved` of
`TaskRemoval`, `ShutsDown` of `WorkQueues` and `InExpiryOrder` of `Timers` are false of the code (section 8), so there is nothing to prove.
**Only proved**: that an idle processor has a context loaded (`IdleHasContextAlways`), that a reason is used
up (`ReasonUsedUpAlways`), the types of the scheduler and of a semaphore (`SchedulerTypes`, `SemaphoreTypes`), that no
descriptor of a message queue is in two places (`OnePlaceAlways`), and that no timer
outlives a semaphore's call (`TimerInCallAlways`; `NoTimerOutlivesCall` of run `objects` says so of every
object but a synchronisation object called with a positive timeout).

## 8. Where the code and its documents part

Two have a run that TLC refutes.

* `removal`: the search of `KRN_removeTask` is over before the victim is unlinked (remove.c:73). A victim
  that begins to wait in between leaves a timer that brings the removed task back. The search also
  assigns where it means to compare, `t->tfunc = _KRN_timeoutWake` (remove.c:82), and so ends at any
  timer that has the task for parameter. A victim that the remover outranks is safe from the first
  (`OwnTimers = FALSE`, unequal priorities: `StaysRemoved` holds) and not from the second
  (`OwnTimers = TRUE`).
* `wq_default`: `KRN_removeWQ` asserts that the work queue is not imported and then returns if just that is so
  (wq.c:123), as it does in the default configuration: no worker is removed, where krn.xml:1021 says it removes "any
  associated tasks". Without import and export (`ImpExp = FALSE`) `ShutsDown` is violated still: a worker that begins
  a wait with a timeout between two sections of its removal is brought back, as in `removal`, and a job that calls
  `KRN_removeWQ` removes its own worker, so that those after it in the array go on (wq.c:128). With
  `Inside = {"zero"}` and no removers but `p` it holds.

The order of the timer queue has no run of its own, and TLC refutes it on the instance of run `timers` as it stands:

* `InExpiryOrder`: timer.c:75 says that timers are queued in the order of their expiry. `KRN_setSoftTimer` computes
  `now - then` from the count at the last timer interrupt without carrying a wrap since (timer.c:84), as `_KRN_timerISR`
  does (timtask.c:111). A timer set after the wrap and before the next interrupt gets a delta near 2^64, and goes
  behind timers that are due later; it expires with the last of these. Setting and cancelling may also put the
  interrupt off past a whole lap of the count, and `now - then` is then a lap short. The deltas are right modulo the word all the same
  (`DeltasExact`), and no timer is early.

Others are in the modules as the code has them, and a passing run keeps clear of them by a constant. With
that constant changed TLC finds the property violated:

| Where | What the code does | Change | Violated |
|---|---|---|---|
| timer.c:83 | `delay * clockspeed` is a 32-bit product | `timers`: `ClockSpeed = 2`, `MaxSlip = 0`, `StartClock = 0`, `MaxClock = 9` | `NeverEarly` |
| sync.c:146 | `KRN_sync` never cancels the timer of a caller that slept; it strikes in a later call, which says that it has timed out, though it may have no timeout | `objects`: `LeftBehind` with `"flags"` for `"mailbox"` | `ResultTells` |
| ring.c | `RING_read` does not look again after it slept, and `RING_write` wakes in a section of its own: a byte is read that is not there | `rings`: a task that reads and one that writes | `BoundedQueue` |
| ring.c:106 | nor does `RING_write`: the wake of a task that has read comes when the writer has filled the ring again and sleeps in its next call, which goes on into the full ring | `rings`: a task that writes and one that reads with `RING_readBuffer` | `RoomWhenWoken` |
| mq_template.h:809 | `MQ_recv` calls `_KRN_hibernateTask` and lowers the IPL: an interrupt in between finds nobody on the queue | `mq`: `Receivers = {"forever"}` | `Delivered` |
| impexp.c:645 | a NOTIFY wakes every task of the thread that waits for the object, also one whose own ACK is under way: the ACK then finds nobody, and the unit it grants is lost | `impexp`: `Client = {c1}`, `Task = {a, b}`, `Home <- TwoOnOne`, `Timeouts <- Forever`, `Starts <- Exported` | `Conserved` |
| wq.c:163 | a job that queues another waits for a descriptor only a worker puts back, and it is the worker | `wq`: `Inside = {"forever"}` | `QueuedIsBegun` |
| sem.c, impexp.c | a timeout between a request and its ACK loses what the ACK grants | `impexp`: a client with the timeout `"ticks"` | `KeepsPromise` |
| qio.c:323 | a completion function that disposes of the operation leaves `ioState` active: an expiry already on its way completes another operation, or none | `qio`: `Timed` and `Handled` overlap | `Consistent` |

`RING_space` counts a byte more than `RING_full` allows, and `RING_writeBuffer` fills the ring until it is empty:
`BoundedQueue` exempts that step, by name.

Met while modelling, in the modules as the code has it or outside them:

* `KRN_sync` with a zero timeout sleeps until the object opens, and then returns its caller (sync.c:138-146), where
  krn.xml:1525-1529 says it returns at once, and `NULL`. `Syncs` has it as the code does, and `NoneEarly` says of such a
  caller only that it does not come back before the object has opened. A timer that has run out before the caller sleeps is not looked at; a caller that
  timed out stays counted (sync.c:145).
* `RING_read` tests a `timedOut` that only other calls initialise (ring.c:178), and a wake between
  its look at the ring and its sleep is lost (ring.c:174-177).
* `RING_readBuffer` and the other block readers sleep on the *writers'* queue (ring.c:209).
* `RING_write` returns 0 when its timeout runs out between being woken and running (ring.c:107),
  although there is room by then.
* `KRN_dispatchOne` puts the name of the task back and not its parameter (wq.c:49, 53), which
  krn.xml:942 says is the job's for the duration of its execution.
* `KRN_queueWQ` of an imported work queue waits for the ACK whatever its timeout (wq.c:144-160).
* `KRN_setTimeSlice(0)`, a query, moves the end of the slice (timeslice.c:61).
* `KRN_resetImport` and `KRN_resetExport` address the entry after the one meant (impexp.c:329, 354).
* An import that waits is ended by the NOTIFY of the export; the ACK of its probe, number 0, may then
  be taken for that of a test (impexp.c).
* When the timeout of a request numbered 1 runs out before its ACK, the union reads as success.
* `KRN_setSemaphore` of an imported semaphore links its caller but asks for no schedule (sem.c:111-136), so it does not
  wait for the ACK as its comment says.
* The message queue reads the used flags where it should store them (mq_template.h:316); it writes a flag and
  then reads an index without a barrier between them; the host's `MQ_recv` puts up a buffer at each call and does
  not take it back when its time is out.
* The size of a message queue has to divide 2^16 (`Modulus % Size` is assumed).
* The walk over the timer ISRs leaves the last one out (timisr.c:52).

## 9. What is not modelled

* **Planned**: the links of queues and lists (section 10).
* **Import and export** of anything but semaphores and locks. Mailboxes, pools, event flags, synchronisation
  objects and work queues travel by the same requests, ACKs and notify masks.
* **Message queues**: the direction from guest to host, chained messages, `MQ_getFirst`, `MQ_getMore` and
  `MQ_getNext`, the queue as a device.
* **QIO**: loading and unloading drivers, the call that queues and waits.
* **Hardware access and assembly**: context switching, interrupt controllers, device drivers,
  memory. The models take from them that the IPL excludes, that a raised interrupt is taken when
  the IPL permits, and the arithmetic of the compare register.
* **No state of its own**: debugging, tracing, statistics, queries.
* **Elsewhere**: third-party ports, the hypervisor application, boards, build system, tests.
* In modelled parts: initialisation calls are initial states, so an object is not initialised
  again while in use; the state hooks of the scheduler (`schedIn`, `schedOut`); the alternative
  `RING_readBuffer` built without partial reads; `KRN_setTimeSlice`.

## 10. Plan

Done, in this order: Queues, Scheduler, SchedulerLive, Timers, Blocking, Semaphores and Counting,
Locks, Mailboxes, EventFlags, Syncs, Objects, Rings; proofs of the scheduler, of semaphores, of
locks and of the three objects; proofs of work queues and of timers; proofs of message queues, of QIO, of rings and of imported semaphores; QIO and Requests, ImportExport, MessageQueue and Courier, TaskRemoval, WorkQueues and Jobs.

Next:

1. **ImportExport** for event flags, whose requests carry a choice of flags.
2. **Links**: dq.c and lst.c with their pointers, refining Queues.
3. A barrier, as the abstract specification of Syncs.
