---------------------------- MODULE TaskRemoval -----------------------------
(***************************************************************************)
(* KRN_removeTask of another task (src/kernel/remove.c), while that task    *)
(* uses a semaphore and timers.  The removal is made of sections with the   *)
(* IPL raised: the search of the timer queue for the task's timeout, its    *)
(* taking off the list of all tasks, and its unlinking from the queue it    *)
(* waits on.  Interrupts come between them, and so does the task itself if  *)
(* one of them makes it ready and it outranks the remover or is its peer.   *)
(*                                                                          *)
(* A removed task is "away": nothing makes it ready but a wake.             *)
(***************************************************************************)
EXTENDS Semaphores

CONSTANTS
  Remover,   \* the task that calls KRN_removeTask
  Victim,    \* the task it removes, another one
  OwnTimers  \* whether a timer of the application has Victim for parameter

VARIABLES
  removal,  \* how far KRN_removeTask has come
  own       \* the application's timer

removalVars == <<vars, removal, own>>

RemovalInit ==
  /\ Init
  /\ removal = "none"
  /\ own = "off"

Removing(from, to) ==
  /\ Runs(Remover) /\ pc[Remover] = "user"
  /\ removal = from /\ removal' = to

\* The search ends at the first timer in the queue with Victim for parameter: the
\* comparison of its function is an assignment, and always true.
Search ==
  /\ Removing("none", "searched")
  /\ \/ timer[Victim] = "set" /\ timer' = Cancelled(Victim) /\ UNCHANGED own
     \/ own = "set" /\ own' = "off" /\ UNCHANGED timer
     \/ timer[Victim] # "set" /\ own = "off" /\ UNCHANGED <<timer, own>>
  /\ UNCHANGED <<waitq, hold, timedOut, pc, limit, value, testPar>>

\* The task goes off the list of all tasks, which only a debugger reads.
Unlist ==
  /\ Removing("searched", "unlisted")
  /\ UNCHANGED <<vars, own>>

\* DQ_remove, from a wait queue or from the queue of its priority; CTX_remove.
Unlink ==
  /\ Removing("unlisted", "removed")
  /\ waitq' = Unlinked(waitq, Victim)
  /\ pc' = [pc EXCEPT ![Victim] = "away"]
  /\ UNCHANGED <<hold, timer, timedOut, limit, value, testPar, own>>

Removed(t) == t = Victim /\ removal = "removed"

\* What else happens: tasks and handlers at the semaphore, timers and resumptions.
Uses ==
  /\ \/ \E t \in Task \ {Remover} :
          \/ \E n \in Amount, timeout \in Timeout : TestSemaphore(t, n, timeout)
          \/ Claim(t) \/ Fail(t) \/ Block(t)
     \/ \E n \in Amount : SetSemaphore(n)
     \/ /\ \/ removal = "none" /\ Leave(Remover)
           \/ Resume(Remover)
           \/ \E t \in Task \ {Remover} :
                \/ TimerISR(t)
                \/ TimeoutWake(t)
                \/ ~Removed(t) /\ (Leave(t) \/ Resume(t))
        /\ UNCHANGED <<value, testPar>>
  /\ UNCHANGED <<removal, own>>

\* The application sets its timer, and it expires.
OwnTimer ==
  /\ OwnTimers
  /\ own' = IF own = "off" THEN "set" ELSE "off"
  /\ UNCHANGED <<vars, removal>>

RemovalNext == Search \/ Unlist \/ Unlink \/ Uses \/ OwnTimer

RemovalSpec == RemovalInit /\ [][RemovalNext]_removalVars
-----------------------------------------------------------------------------
\* "cancel any pending timeouts for task - otherwise a killed task could be
\* re-activated" (remove.c:65): once KRN_removeTask has taken a task off its
\* queue, no timeout of a call it was in makes it ready again.
StaysRemoved == removal = "removed" => pc[Victim] = "away"
=============================================================================
