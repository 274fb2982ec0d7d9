------------------------------ MODULE Objects -------------------------------
(***************************************************************************)
(* The objects of one thread in use by the same tasks: a mailbox or pool, a *)
(* cluster of event flags, a synchronisation object.  They meet in the task *)
(* control block: timedOut and the hold queue of a task serve every call,   *)
(* and a timer left behind by one call would strike in another.             *)
(*                                                                          *)
(* Who uses what is chosen at the start, so that one run compares several   *)
(* ways of using the objects, alone and together.                           *)
(***************************************************************************)
EXTENDS Mailboxes, EventFlags, Syncs, FiniteSets

CONSTANT Scenarios  \* sets of pairs of a task and what it uses

\* "timedSync": KRN_sync with timeouts that run, "sync": with others.
Object == {"mailbox", "flags", "sync", "timedSync", "other"}

ASSUME ObjectsAssumption ==
  /\ Queue = {sem, cluster, sync}
  /\ Cardinality(Queue) = 3
  /\ Scenarios \subseteq SUBSET (Task \X Object)

VARIABLE uses

objectVars == <<vars, boxVars, flagVars, syncVars, uses>>

ObjectsTypeOK ==
  /\ BlockingTypeOK({"test", "testFlags", "sync", "syncing"})
  /\ value \in 0 .. Modulus - 1
  /\ BoxTypeOK
  /\ FlagsTypeOK
  /\ SyncTypeOK

ObjectsInit ==
  /\ Init
  /\ BoxInit
  /\ FlagsInit
  /\ SyncInit
  /\ uses \in Scenarios

InUse(object) == \E t \in Task : <<t, object>> \in uses

UseMailbox ==
  /\ \/ \E t \in Task : <<t, "mailbox">> \in uses /\ BoxStep(t)
     \/ InUse("mailbox") /\ BoxByHandler
  /\ UNCHANGED <<flagVars, syncVars, uses>>

UseFlags ==
  /\ \/ \E t \in Task : <<t, "flags">> \in uses /\ FlagsStep(t)
     \/ InUse("flags") /\ FlagsByAnyone
  /\ UNCHANGED <<value, testPar, boxVars, syncVars, uses>>

UseSync ==
  /\ \E t \in Task :
       \/ <<t, "sync">> \in uses /\ SyncStep(t, {"zero", "forever"})
       \/ <<t, "timedSync">> \in uses /\ SyncStep(t, Timeout)
  /\ UNCHANGED <<value, testPar, boxVars, flagVars, uses>>

\* Nobody resumes a task asleep in KRN_sync: it would be let through.
UseOther ==
  /\ \E t \in Task :
       \/ TimerISR(t)
       \/ TimeoutWake(t)
       \/ <<t, "other">> \in uses /\ Leave(t)
       \/ pc[t] # "syncing" /\ Resume(t)
  /\ UNCHANGED <<value, testPar, boxVars, flagVars, syncVars, uses>>

ObjectsNext == UseMailbox \/ UseFlags \/ UseSync \/ UseOther

ObjectsSpec == ObjectsInit /\ [][ObjectsNext]_objectVars
-----------------------------------------------------------------------------
Untimed(t) == <<t, "timedSync">> \notin uses

\* A synchronisation object counts its callers: those who have come since it last
\* opened, and those still missing, are the number it was made for; who sleeps is one
\* of those who have come, and one of them who does not sleep has timed out.
CountsSleepers ==
  /\ count + Len(arrived) = Reset
  /\ \A t \in Task :
       /\ AsleepOn(t, sync) => Contains(arrived, t)
       /\ Contains(arrived, t) /\ (Untimed(t) \/ pc[t] = "syncing") =>
            AsleepOn(t, sync) \/ (~Untimed(t) /\ timedOut[t] = "timedout")

\* A timer lies in the stack frame of a call: none is left running, or in the
\* timer task's mailbox, when the call has returned, whichever object it was, but
\* for those of sleepers at a synchronisation object (sync.c:146).
NoTimerOutlivesCall ==
  /\ ObjectsTypeOK
  /\ \A t \in Task :
       timer[t] # "off" /\ Untimed(t) => pc[t] \notin {"user", "away"} /\ limit[t] = "ticks"
=============================================================================
