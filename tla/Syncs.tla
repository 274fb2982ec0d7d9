------------------------------- MODULE Syncs --------------------------------
(***************************************************************************)
(* Synchronisation objects of one thread (src/kernel/sync.c; the branches   *)
(* for imported and exported objects are left out): a barrier that lets its *)
(* callers go when as many as it was made for have arrived.                 *)
(***************************************************************************)
EXTENDS Blocking

CONSTANTS
  sync,   \* the object's wait queue
  Reset  \* number of callers KRN_initSync was given

ASSUME SyncAssumption ==
  /\ sync \in Queue
  /\ Reset \in Nat \ {0}

VARIABLES
  count,    \* callers still missing
  arrived,  \* who has called, and gone to sleep, since the object last opened
  result    \* what a task's last call returned

syncVars == <<count, arrived, result>>

SyncTypeOK ==
  /\ count \in 1 .. Reset
  /\ arrived \in Seq(Task)
  /\ result \in [Task -> {"NULL", "task"}]

SyncInit ==
  /\ count = Reset
  /\ arrived = <<>>
  /\ result = [t \in Task |-> "task"]

\* KRN_sync as far as the raising of the IPL.
Sync(t, timeout) ==
  /\ Begin(t, "sync", timeout)
  /\ UNCHANGED syncVars

\* Mutated form of LastCaller: one caller early.
TwoMissing == count <= 2

LastCaller == count <= 1

\* A caller that is not the last sleeps; the timeout is not looked at.
Arrive(t) ==
  /\ Runs(t) /\ pc[t] = "sync"
  /\ ~LastCaller
  /\ count' = count - 1
  /\ arrived' = Append(arrived, t)
  /\ waitq' = AddTail(Unlinked(waitq, t), sync, t)
  /\ pc' = [pc EXCEPT ![t] = "syncing"]
  /\ UNCHANGED <<hold, timer, timedOut, limit, result>>

Returned(t) == IF timedOut[t] = "timedout" THEN "NULL" ELSE "task"

\* Mutated form of WokenAll: the others are forgotten.
WokenNone == waitq

WokenAll == [waitq EXCEPT ![sync] = <<>>]

\* The last caller resets the object, wakes the others and goes on.
Open(t) ==
  /\ Runs(t) /\ pc[t] = "sync"
  /\ LastCaller
  /\ count' = Reset
  /\ arrived' = <<>>
  /\ waitq' = WokenAll
  /\ Return(t)
  /\ result' = [result EXCEPT ![t] = Returned(t)]

\* A woken caller returns.  Its timer, if it had one, is left as it is, and may
\* strike in what the task does next.
Leaves(t) ==
  /\ Runs(t) /\ pc[t] = "syncing"
  /\ pc' = [pc EXCEPT ![t] = "user"]
  /\ result' = [result EXCEPT ![t] = Returned(t)]
  /\ UNCHANGED <<waitq, hold, timer, timedOut, limit, count, arrived>>

SyncStep(t, timeouts) ==
  \/ \E timeout \in timeouts : Sync(t, timeout)
  \/ Arrive(t)
  \/ Open(t)
  \/ Leaves(t)
-----------------------------------------------------------------------------
\* Nobody opens the object before as many have called as it was made for, and a
\* sleeper who is told that it has synchronised has: the object has opened since
\* it arrived.  (One that gave up stays counted, sync.c:145, and makes up the number
\* for the others.)
NoneEarly ==
  [][ \A t \in Task : pc'[t] = "user" =>
        /\ pc[t] = "sync" => Len(arrived) = Reset - 1
        /\ pc[t] = "syncing" /\ result'[t] = "task" => ~Contains(arrived, t)
    ]_<<blocking, syncVars>>
=============================================================================
