----------------------------- MODULE EventFlags -----------------------------
(***************************************************************************)
(* A cluster of event flags of one thread (src/kernel/efc.c; the branches   *)
(* for imported and exported clusters are left out).                        *)
(*                                                                          *)
(* KRN_setFlags asks for a schedule with the IPL raised: on a MIPS target   *)
(* it comes with the next interrupt, and the caller may run on meanwhile.   *)
(* Instances give all tasks one priority, so that any ready task may run.   *)
(***************************************************************************)
EXTENDS Blocking

CONSTANTS
  cluster,  \* the cluster's wait queue
  Flag,     \* its flags
  Call      \* mask, test and clearFlags of the calls made

ASSUME EventFlagsAssumption ==
  /\ cluster \in Queue
  /\ Call \subseteq [mask : SUBSET Flag, test : {"ANY", "ALL"}, clear : BOOLEAN]
  /\ Call # {}

VARIABLES
  flags,   \* the flags that are set
  call     \* what a task is testing for

flagVars == <<flags, call>>

FlagsTypeOK ==
  /\ flags \subseteq Flag
  /\ call \in [Task -> Call]

FlagsInit ==
  /\ flags = {}
  /\ call \in {f \in [Task -> Call] : \A t, u \in Task : f[t] = f[u]}

\* _KRN_flgTest
flgTest(fs, c) ==
  IF c.test = "ANY" THEN fs \cap c.mask # {} ELSE c.mask \subseteq fs

\* KRN_testFlags as far as the raising of the IPL.
TestFlags(t, c, timeout) ==
  /\ Begin(t, "testFlags", timeout)
  /\ call' = [call EXCEPT ![t] = c]
  /\ UNCHANGED flags

TestingFlags(t) == Runs(t) /\ pc[t] = "testFlags"

\* Mutated form of Remaining: the flags are cleared after a failed test too.
RemainingAnyway(t) == IF call[t].clear THEN flags \ call[t].mask ELSE flags

Passes(t) == flgTest(flags, call[t])

Remaining(t) ==
  IF Passes(t) /\ call[t].clear THEN flags \ call[t].mask ELSE flags

\* The loop of KRN_testFlagsProtected, first and after each wake: the call
\* returns the flags when the test passes or the timeout has run out, or it
\* sleeps.
TestFlagsEnds(t) ==
  /\ TestingFlags(t)
  /\ Passes(t) \/ timedOut[t] # "running"
  /\ flags' = Remaining(t)
  /\ Return(t)
  /\ UNCHANGED <<waitq, call>>

TestFlagsSleeps(t) ==
  /\ TestingFlags(t)
  /\ ~Passes(t)
  /\ timedOut[t] = "running"
  /\ SleepOn(t, cluster)
  /\ UNCHANGED <<flags, call>>

\* KRN_testFlags with the IPL raised or in an interrupt handler.
TestFlagsNow(c) ==
  /\ c.clear /\ flgTest(flags, c)
  /\ flags' = flags \ c.mask
  /\ UNCHANGED <<blocking, call>>

\* Mutated form of FlagsUnwoken: every waiter is tested as if for any flag.
FlagsUnwokenAll(new) ==
  Sifted(waitq[cluster], {t \in Task : ~(call[t].mask \subseteq new)})

\* The tasks flagSchedule leaves asleep.
FlagsUnwoken(new) == Sifted(waitq[cluster], {t \in Task : ~flgTest(new, call[t])})

flagSchedule(new) ==
  /\ flags' = new
  /\ waitq' = [waitq EXCEPT ![cluster] = FlagsUnwoken(new)]
  /\ UNCHANGED <<hold, timer, timedOut, pc, limit, call>>

\* By the running task or in an interrupt handler.
SetFlags(mask)    == flagSchedule(flags \cup mask)
ToggleFlags(mask) == flagSchedule((flags \ mask) \cup (mask \ flags))

\* Clearing wakes nobody.
ClearFlags(mask) ==
  /\ flags' = flags \ mask
  /\ UNCHANGED <<blocking, call>>

FlagsStep(t) ==
  \/ \E c \in Call, timeout \in Timeout : TestFlags(t, c, timeout)
  \/ TestFlagsEnds(t)
  \/ TestFlagsSleeps(t)

FlagsByAnyone ==
  \/ \E c \in Call : TestFlagsNow(c)
  \/ \E mask \in SUBSET Flag :
       SetFlags(mask) \/ ToggleFlags(mask) \/ ClearFlags(mask)
-----------------------------------------------------------------------------
\* A task sleeps only while its test fails, for either kind of test and
\* whatever sets, toggles and clears the flags: no wake is lost.
FlagsNotMissed ==
  \A t \in Task :
    AsleepOn(t, cluster) => pc[t] = "testFlags" /\ ~flgTest(flags, call[t])

\* "Success or failure can be determined from the return value" (krn.xml): the
\* flags returned pass the caller's test, or they fail it and the timeout had
\* run out; flags are cleared only by a test that passed, and then all of the
\* mask at once, so that no event is used up by two callers or by none.
ResultTells ==
  [][ \A t \in Task : pc[t] = "testFlags" /\ pc'[t] = "user" =>
        IF flgTest(flags, call[t])
          THEN flags' = IF call[t].clear THEN flags \ call[t].mask ELSE flags
          ELSE timedOut[t] # "running" /\ limit[t] # "forever" /\ flags' = flags
    ]_<<blocking, flagVars>>
=============================================================================
