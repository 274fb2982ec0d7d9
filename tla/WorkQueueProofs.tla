--------------------------- MODULE WorkQueueProofs ---------------------------
(* Work queues with any tasks, descriptors, jobs and ways to use them: no      *)
(* descriptor is lost or shared, and jobs are begun once and in order.         *)
EXTENDS WorkQueues, QueueLemmas, FiniteSetTheorems

-----------------------------------------------------------------------------
(* Lists without repetition.                                                  *)

LEMMA AppendedList ==
  ASSUME NEW S, NEW s \in Seq(S), IsInjective(s), NEW x \in S, ~Contains(s, x)
  PROVE  /\ Append(s, x) \in Seq(S) /\ Len(Append(s, x)) = Len(s) + 1
         /\ IsInjective(Append(s, x))
         /\ \A y : Contains(Append(s, x), y) <=> Contains(s, y) \/ y = x
         /\ Append(s, x)[Len(s) + 1] = x
         /\ \A i \in 1 .. Len(s) : Append(s, x)[i] = s[i]
<1>1. /\ Append(s, x) \in Seq(S) /\ Len(Append(s, x)) = Len(s) + 1
      /\ Append(s, x)[Len(s) + 1] = x
      /\ \A i \in 1 .. Len(s) : Append(s, x)[i] = s[i]
  OBVIOUS
<1>2. \A y : Contains(Append(s, x), y) <=> Contains(s, y) \/ y = x
  BY <1>1 DEF Contains
<1>3. IsInjective(Append(s, x))
  BY <1>1 DEF IsInjective, Contains
<1>4. QED
  BY <1>1, <1>2, <1>3

LEMMA ShortenedList ==
  ASSUME NEW S, NEW s \in Seq(S), IsInjective(s), Len(s) >= 1
  PROVE  /\ Tail(s) \in Seq(S) /\ Len(Tail(s)) = Len(s) - 1
         /\ Head(s) \in S /\ Contains(s, Head(s))
         /\ IsInjective(Tail(s))
         /\ \A y : Contains(Tail(s), y) <=> Contains(s, y) /\ y # Head(s)
         /\ \A i \in 1 .. Len(s) - 1 : Tail(s)[i] = s[i + 1]
         /\ Head(s) = s[1]
<1>1. /\ Tail(s) \in Seq(S) /\ Len(Tail(s)) = Len(s) - 1 /\ Len(s) \in Nat
      /\ Head(s) = s[1] /\ Head(s) \in S /\ 1 \in 1 .. Len(s)
      /\ \A i \in 1 .. Len(s) - 1 : Tail(s)[i] = s[i + 1]
  OBVIOUS
<1>2. DOMAIN s = 1 .. Len(s) /\ DOMAIN Tail(s) = 1 .. Len(s) - 1
  BY <1>1
<1>3. IsInjective(Tail(s))
  <2>1. ASSUME NEW i \in 1 .. Len(s) - 1, NEW j \in 1 .. Len(s) - 1, Tail(s)[i] = Tail(s)[j]
        PROVE  i = j
    <3>1. i + 1 \in 1 .. Len(s) /\ j + 1 \in 1 .. Len(s) /\ s[i + 1] = s[j + 1]
      BY <1>1, <2>1
    <3>2. i + 1 = j + 1
      BY <1>2, <3>1 DEF IsInjective
    <3>3. QED
      BY <3>2
  <2>2. QED
    BY <1>2, <2>1 DEF IsInjective
<1>4. ASSUME NEW y, Contains(Tail(s), y)
      PROVE  Contains(s, y) /\ y # Head(s)
  <2>1. PICK i \in 1 .. Len(s) - 1 : s[i + 1] = y
    BY <1>1, <1>4 DEF Contains
  <2>2. i + 1 \in 1 .. Len(s) /\ i + 1 # 1
    BY <1>1
  <2>3. QED
    BY <1>1, <1>2, <2>1, <2>2 DEF Contains, IsInjective
<1>5. ASSUME NEW y, Contains(s, y), y # Head(s)
      PROVE  Contains(Tail(s), y)
  <2>1. PICK i \in 1 .. Len(s) : s[i] = y
    BY <1>5 DEF Contains
  <2>2. i - 1 \in 1 .. Len(s) - 1
    BY <1>1, <1>5, <2>1
  <2>3. Tail(s)[i - 1] = y
    BY <1>1, <2>1, <2>2
  <2>4. QED
    BY <1>1, <2>2, <2>3 DEF Contains
<1>6. QED
  BY <1>1, <1>2, <1>3, <1>4, <1>5 DEF Contains

LEMMA IntervalSize ==
  ASSUME NEW n \in Nat
  PROVE  Cardinality(1 .. n) = n
BY FS_Interval

\* A list that lacks something is shorter than there are things.
LEMMA RoomLeft ==
  ASSUME NEW S, IsFiniteSet(S), NEW s \in Seq(S), IsInjective(s), NEW x \in S, ~Contains(s, x)
  PROVE  Len(s) < Cardinality(S)
<1>1. /\ Cardinality(S) \in Nat /\ IsFiniteSet(S \ {x})
      /\ Cardinality(S \ {x}) = Cardinality(S) - 1
  BY FS_CardinalityType, FS_RemoveElement
<1>0. Len(s) \in Nat
  OBVIOUS
<1>2. s \in [1 .. Len(s) -> S \ {x}]
  BY DEF Contains
<1>3. s \in Injection(1 .. Len(s), S \ {x})
  BY <1>2 DEF Injection, IsInjective
<1>4. Cardinality(1 .. Len(s)) = Len(s)
  BY <1>0, IntervalSize
<1>5. Len(s) <= Cardinality(S \ {x})
  BY <1>1, <1>3, <1>4, FS_Injection
<1>6. QED
  BY <1>0, <1>1, <1>5

\* SetToSeq lists every element of a finite set once.
LEMMA ListedSet ==
  ASSUME NEW S, IsFiniteSet(S)
  PROVE  /\ SetToSeq(S) \in Seq(S) /\ Len(SetToSeq(S)) = Cardinality(S)
         /\ IsInjective(SetToSeq(S))
         /\ \A x : Contains(SetToSeq(S), x) <=> x \in S
<1> DEFINE n == Cardinality(S)
           s == SetToSeq(S)
<1>1. n \in Nat /\ ExistsBijection(1 .. n, S)
  BY FS_CardinalityType
<1>2. \E f \in [1 .. n -> S] : IsInjective(f)
  BY <1>1 DEF ExistsBijection, Bijection, Injection
<1>3. s \in [1 .. n -> S] /\ IsInjective(s)
  BY <1>2 DEF SetToSeq
<1>4. Cardinality(1 .. n) = n
  BY <1>1, IntervalSize
<1> HIDE DEF n, s
<1>5. s \in Injection(1 .. n, S)
  BY <1>3 DEF Injection
<1>6. s \in Surjection(1 .. n, S)
  BY <1>4, <1>5, FS_Injection DEF n
<1>7. s \in Seq(S) /\ Len(s) = n
  BY <1>1, <1>3
<1>8. \A x : Contains(s, x) <=> x \in S
  BY <1>3, <1>6, <1>7 DEF Surjection, Contains
<1>9. QED
  BY <1>3, <1>7, <1>8 DEF n, s
-----------------------------------------------------------------------------
(* The invariant.                                                             *)

CallsInv ==
  /\ BlockingTypeOK(Steps) /\ Table(waitq, Queue, Task)
  /\ pc \in [Task -> {"user"} \cup Steps]

DataTypeOK ==
  /\ use \in Scenarios
  /\ content \in [Desc -> Job \cup {NoJob}]
  /\ asked \in [Task -> Job \cup {NoJob}]
  /\ frames \in [Task -> Seq([left : Int, job : Job \cup {NoJob}])]

\* Descriptors on two lists and in the hands of tasks, each once.
Placed(a, b, hands, descs) ==
  /\ a \in Seq(Desc) /\ IsInjective(a)
  /\ b \in Seq(Desc) /\ IsInjective(b)
  /\ hands \in [Task -> Desc \cup {None}]
  /\ \A t, u \in Task : hands[t] = hands[u] /\ hands[t] # None => t = u
  /\ \A x \in Desc : Contains(a, x) => ~Contains(b, x)
  /\ \A t \in Task : ~Contains(a, hands[t]) /\ ~Contains(b, hands[t])
  /\ \A x \in Desc : x \in descs <=>
       Contains(a, x) \/ Contains(b, x) \/ \E t \in Task : hands[t] = x

\* Where the descriptors are.
Places ==
  /\ spare = Len(free) /\ posted = Len(box)
  /\ Placed(free, box, mine, use.descs)

\* A task has a descriptor in hand just where the code needs one.
Holding ==
  \A t \in Task :
    /\ pc[t] \in {"fill", "put", "read", "return"} => mine[t] # None
    /\ pc[t] \in {"user", "take", "get", "remove", "unlist", "unlink"} => mine[t] = None

\* A task that is about to read a descriptor has called KRN_dispatchWQ.
Dispatching ==
  \A t \in Task : pc[t] \in {"get", "read", "return"} => frames[t] # <<>>

\* What tasks are about to queue, they alone have.
AskedInv ==
  \A t \in Task :
    /\ pc[t] \in {"take", "fill", "put"} => asked[t] \in Job
    /\ pc[t] = "put" => content[mine[t]] = asked[t]
    /\ asked[t] # NoJob =>
         /\ pc[t] \in {"take", "fill", "put"}
         /\ asked[t] \notin InLine /\ asked[t] \notin Running
         /\ \A u \in Task : asked[u] = asked[t] => u = t

WInv == CallsInv /\ DataTypeOK /\ Places /\ Holding /\ Dispatching /\ AskedInv

LEMMA ScenarioTypes ==
  ASSUME NEW s \in Scenarios
  PROVE  s.descs \subseteq Desc /\ s.jobs \subseteq Job
BY WorkQueueAssumption DEF Scenario

LEMMA NamedQueues ==
  /\ pool \in Queue /\ mail \in Queue /\ nowhere \in Queue
  /\ NoJob \notin Job /\ None \notin Desc /\ IsFiniteSet(Desc)
BY WorkQueueAssumption

\* The invariant says of the lists and hands what Accounted says.
LEMMA PlacesAccounted == WInv => Accounted
<1>1. SUFFICES ASSUME WInv PROVE Accounted
  OBVIOUS
<1>2. Places
  BY <1>1 DEF WInv
<1>3. /\ \A x : x \in ToSet(free) <=> Contains(free, x)
      /\ \A x : x \in ToSet(box) <=> Contains(box, x)
  <2>1. DOMAIN free = 1 .. Len(free) /\ DOMAIN box = 1 .. Len(box)
    BY <1>2 DEF Places, Placed
  <2>2. QED
    BY <2>1 DEF ToSet, Contains
<1>4. \A x : x \in InHand <=> x # None /\ \E t \in Task : mine[t] = x
  BY DEF InHand
<1>5. ToSet(free) \cap ToSet(box) = {}
  BY <1>2, <1>3 DEF Places, Placed, ToSet, Contains
<1>6. (ToSet(free) \cup ToSet(box)) \cap InHand = {}
  BY <1>2, <1>3, <1>4 DEF Places, Placed
<1>7. ToSet(free) \cup ToSet(box) \cup InHand = use.descs
  <2>1. use.descs \subseteq Desc
    BY <1>1, ScenarioTypes DEF WInv, DataTypeOK
  <2>2. ToSet(free) \cup ToSet(box) \cup InHand \subseteq Desc
    BY <1>2, <1>4 DEF Places, Placed, ToSet
  <2>3. \A x \in Desc : x \in use.descs <=> x \in ToSet(free) \cup ToSet(box) \cup InHand
    BY <1>2, <1>3, <1>4, NamedQueues DEF Places, Placed
  <2>4. QED
    BY <2>1, <2>2, <2>3
<1>8. QED
  BY <1>1, <1>2, <1>5, <1>6, <1>7 DEF Accounted, WInv, CallsInv, Places, Placed
-----------------------------------------------------------------------------
(* What a step that moves no job does to the line of jobs.                    *)

PromiseStep == Promise!Next \/ UNCHANGED Promise!vars

Quiet ==
  /\ UNCHANGED box
  /\ \A i \in 1 .. Len(box) : content'[box[i]] = content[box[i]]
  /\ \A u \in Task : Begun(u)' \subseteq Begun(u)

LEMMA FewerRun ==
  ASSUME \A u \in Task : Begun(u)' \subseteq Begun(u)
  PROVE  Running' \subseteq Running
BY DEF Running

LEMMA QuietStep ==
  ASSUME WInv, Quiet
  PROVE  InLine' = InLine /\ Running' \subseteq Running /\ PromiseStep
<1>1. box \in Seq(Desc) /\ box' = box
  BY DEF WInv, Places, Placed, Quiet
<1>2. InLine' = InLine
  BY <1>1 DEF Quiet, InLine, ToSet
<1>3. Running' \subseteq Running
  BY FewerRun DEF Quiet
<1>4. Line' = Line
  BY <1>1 DEF Quiet, Line
<1>5. ASSUME Running' = Running PROVE PromiseStep
  BY <1>4, <1>5 DEF PromiseStep, Promise!vars
<1>6. ASSUME Running' # Running PROVE PromiseStep
  <2>1. PICK js \in SUBSET Running : js # {} /\ Running' = Running \ js
    <3>1. (Running \ Running') \in SUBSET Running
      OBVIOUS
    <3>2. Running \ Running' # {} /\ Running' = Running \ (Running \ Running')
      BY <1>3, <1>6
    <3>3. QED
      BY <3>1, <3>2
  <2>2. Promise!End(js)
    BY <1>4, <2>1 DEF Promise!End
  <2>3. QED
    BY <2>1, <2>2 DEF PromiseStep, Promise!Next
<1>7. QED
  BY <1>2, <1>3, <1>5, <1>6

\* A task that has begun nothing new.
LEMMA SameBegun ==
  ASSUME NEW u \in Task, frames'[u] = frames[u],
         pc'[u] = "read" => pc[u] = "read" /\ content'[mine'[u]] = content[mine[u]]
  PROVE  Begun(u)' \subseteq Begun(u)
BY DEF Begun

\* A step that leaves all lists and descriptors alone.
LEMMA BookkeepingIsQuiet ==
  ASSUME WInv, UNCHANGED <<poolVars, mailVars, content, mine, frames, use>>,
         \A u \in Task : pc'[u] = "read" => pc[u] = "read"
  PROVE  Quiet /\ Places'
<1>1. \A u \in Task : Begun(u)' \subseteq Begun(u)
  BY SameBegun
<1>2. Quiet
  BY <1>1 DEF Quiet, mailVars
<1>3. Places'
  BY DEF WInv, Places, Placed, poolVars, mailVars
<1>4. QED
  BY <1>2, <1>3

\* Nobody asks for anything new.
LEMMA QuietKeepsAsked ==
  ASSUME WInv, Quiet,
         \A u \in Task :
           /\ asked'[u] \in {asked[u], NoJob}
           /\ pc'[u] \in {"take", "fill", "put"} =>
                pc[u] \in {"take", "fill", "put"} /\ asked'[u] = asked[u]
           /\ pc'[u] = "put" => content'[mine'[u]] = asked[u]
           /\ asked'[u] # NoJob => pc'[u] \in {"take", "fill", "put"}
  PROVE  AskedInv'
<1>1. InLine' = InLine /\ Running' \subseteq Running
  BY QuietStep
<1>2. AskedInv
  BY DEF WInv
<1>3. QED
  BY <1>1, <1>2 DEF AskedInv
-----------------------------------------------------------------------------
(* The wait queues.                                                           *)

\* A step that leaves the wait queues alone.
LEMMA QueuesAlone ==
  ASSUME CallsInv, UNCHANGED <<waitq, hold>>,
         timer' \in [Task -> {"off", "set", "due"}],
         timedOut' \in [Task -> {"running", "timedout", "zero"}],
         pc' \in [Task -> {"user"} \cup Steps], limit' \in [Task -> Timeout]
  PROVE  CallsInv'
BY DEF CallsInv, BlockingTypeOK

LEMMA BeginKeepsCalls ==
  ASSUME CallsInv, NEW t \in Task, NEW step \in Steps, NEW timeout \in Timeout,
         Begin(t, step, timeout)
  PROVE  CallsInv'
<1>1. /\ UNCHANGED <<waitq, hold>>
      /\ timedOut' = [timedOut EXCEPT ![t] = IF timeout = "zero" THEN "zero" ELSE "running"]
      /\ timer' = IF timeout = "ticks" THEN [timer EXCEPT ![t] = "set"] ELSE timer
      /\ limit' = [limit EXCEPT ![t] = timeout]
      /\ pc' = [pc EXCEPT ![t] = step]
  BY DEF Begin, Armed
<1>2. BlockingTypeOK(Steps) /\ pc \in [Task -> {"user"} \cup Steps]
  BY DEF CallsInv
<1>3. QED
  BY <1>1, <1>2, QueuesAlone DEF BlockingTypeOK

LEMMA EndsKeepsCalls ==
  ASSUME CallsInv, NEW t \in Task, NEW step \in {"user"} \cup Steps, Ends(t, step),
         UNCHANGED waitq
  PROVE  CallsInv'
<1>1. /\ UNCHANGED <<waitq, hold, timedOut, limit>>
      /\ timer' = IF limit[t] = "ticks"
                    THEN [timer EXCEPT ![t] = IF timer[t] = "set" THEN "off" ELSE timer[t]]
                    ELSE timer
      /\ pc' = [pc EXCEPT ![t] = step]
  BY DEF Ends, Restored, Cancelled
<1>2. BlockingTypeOK(Steps) /\ pc \in [Task -> {"user"} \cup Steps]
  BY DEF CallsInv
<1>3. QED
  BY <1>1, <1>2, QueuesAlone DEF BlockingTypeOK

LEMMA GoesKeepsCalls ==
  ASSUME CallsInv, NEW t \in Task, NEW step \in {"user"} \cup Steps, Goes(t, step)
  PROVE  CallsInv'
<1>1. UNCHANGED <<waitq, hold, timer, timedOut, limit>> /\ pc' = [pc EXCEPT ![t] = step]
  BY DEF Goes
<1>2. BlockingTypeOK(Steps) /\ pc \in [Task -> {"user"} \cup Steps]
  BY DEF CallsInv
<1>3. QED
  BY <1>1, <1>2, QueuesAlone DEF BlockingTypeOK

\* A task is put on a queue.
LEMMA SleepOnKeepsCalls ==
  ASSUME CallsInv, NEW t \in Task, NEW q \in Queue, SleepOn(t, q)
  PROVE  CallsInv'
<1> DEFINE off == Unlinked(waitq, t)
<1>1. /\ UNCHANGED <<hold, timer, timedOut, pc, limit>>
      /\ waitq' = AddTail(off, q, t)
  BY DEF SleepOn
<1>2. Table(off, Queue, Task) /\ Drops(off, waitq, Queue, t)
  BY UnlinkedTable DEF CallsInv
<1>3. Off(off, Queue, t)
  BY <1>2 DEF Off, Drops
<1> HIDE DEF off
<1>4. Table(waitq', Queue, Task)
  BY <1>1, <1>2, <1>3, AddTailTable
<1>5. QED
  BY <1>1, <1>4 DEF CallsInv, BlockingTypeOK, Table

\* A task is taken off whatever queue it is on.
LEMMA UnlinkedKeepsCalls ==
  ASSUME CallsInv, NEW x, waitq' = Unlinked(waitq, x),
         hold' \in [Task -> Queue \cup {None}],
         timer' \in [Task -> {"off", "set", "due"}],
         timedOut' \in [Task -> {"running", "timedout", "zero"}],
         pc' \in [Task -> {"user"} \cup Steps], UNCHANGED limit
  PROVE  CallsInv'
<1>1. Table(waitq', Queue, Task)
  BY UnlinkedTable DEF CallsInv
<1>2. QED
  BY <1>1 DEF CallsInv, BlockingTypeOK, Table

\* All tasks on a queue are woken.
LEMMA WakingKeepsCalls ==
  ASSUME CallsInv, NEW q \in Queue, waitq' = [waitq EXCEPT ![q] = <<>>],
         pc' \in [Task -> {"user"} \cup Steps],
         UNCHANGED <<hold, timer, timedOut, limit>>
  PROVE  CallsInv'
<1>1. waitq \in [Queue -> Seq(Task)] /\ Once(waitq, Queue)
  BY DEF CallsInv, Table
<1>2. waitq' \in [Queue -> Seq(Task)]
  BY <1>1
<1>3. \A r \in Queue : waitq'[r] = IF r = q THEN <<>> ELSE waitq[r]
  BY <1>1
<1>4. Once(waitq', Queue)
  BY <1>1, <1>3 DEF Once
<1>5. QED
  BY <1>2, <1>4 DEF CallsInv, BlockingTypeOK, Table
-----------------------------------------------------------------------------
(* The steps that move no job and no descriptor.                              *)

\* What such a step may do to a task.
Idles(u) ==
  \/ pc'[u] = pc[u] /\ asked'[u] = asked[u]
  \/ pc[u] = "take" /\ pc'[u] = "user" /\ asked'[u] = NoJob
  \/ pc[u] = "user" /\ pc'[u] = "get" /\ frames[u] # <<>> /\ asked'[u] = asked[u]
  \/ {pc[u], pc'[u]} \subseteq {"user", "remove", "unlist", "unlink"} /\ asked'[u] = asked[u]

LEMMA IdleStep ==
  ASSUME WInv, CallsInv', UNCHANGED <<poolVars, mailVars, content, mine, frames, use>>,
         asked' \in [Task -> Job \cup {NoJob}],
         \A u \in Task : Idles(u)
  PROVE  WInv' /\ PromiseStep
<1>1. Quiet /\ Places'
  <2>1. \A u \in Task :
          pc'[u] = "read" => pc[u] = "read"
    BY DEF Idles
  <2>2. QED
    BY <2>1, BookkeepingIsQuiet
<1>2. DataTypeOK'
  BY DEF WInv, DataTypeOK
<1>3. Holding'
  BY DEF WInv, Holding, Idles
<1>4. Dispatching'
  BY DEF WInv, Dispatching, Idles
<1>5. AskedInv'
  <2>1. ASSUME NEW u \in Task
        PROVE  /\ asked'[u] \in {asked[u], NoJob}
               /\ pc'[u] \in {"take", "fill", "put"} =>
                    pc[u] \in {"take", "fill", "put"} /\ asked'[u] = asked[u]
               /\ pc'[u] = "put" => content'[mine'[u]] = asked[u]
               /\ asked'[u] # NoJob => pc'[u] \in {"take", "fill", "put"}
    BY <2>1 DEF Idles, WInv, AskedInv
  <2>2. QED
    BY <1>1, <2>1, QuietKeepsAsked
<1>6. PromiseStep
  BY <1>1, QuietStep
<1>7. QED
  BY <1>1, <1>2, <1>3, <1>4, <1>5, <1>6 DEF WInv

LEMMA NotQueuedKeeps ==
  ASSUME WInv, NEW t \in Task, NotQueued(t)
  PROVE  WInv' /\ PromiseStep
<1>1. /\ pc[t] = "take" /\ pc' = [pc EXCEPT ![t] = "user"]
      /\ asked' = [asked EXCEPT ![t] = NoJob]
      /\ UNCHANGED <<poolVars, mailVars, content, mine, frames, use>>
  BY DEF NotQueued, Taking, Ends, removalVars
<1>2. CallsInv'
  BY EndsKeepsCalls DEF NotQueued, WInv
<1>3. pc \in [Task -> {"user"} \cup Steps] /\ asked \in [Task -> Job \cup {NoJob}]
  BY DEF WInv, CallsInv, BlockingTypeOK, DataTypeOK
<1>4. \A u \in Task : Idles(u)
  BY <1>1, <1>3 DEF Idles
<1>5. asked' \in [Task -> Job \cup {NoJob}]
  BY <1>1, <1>3
<1>6. QED
  BY <1>1, <1>2, <1>4, <1>5, IdleStep

LEMMA WaitKeeps ==
  ASSUME WInv, NEW t \in Task, WaitForRoom(t) \/ WaitForJob(t)
  PROVE  WInv' /\ PromiseStep
<1>1. UNCHANGED <<poolVars, mailVars, content, mine, frames, use, asked, pc>>
  BY DEF WaitForRoom, WaitForJob, SleepOn, removalVars
<1>2. CallsInv'
  BY SleepOnKeepsCalls, NamedQueues DEF WaitForRoom, WaitForJob, WInv
<1>3. QED
  BY <1>1, <1>2, IdleStep DEF Idles, WInv, DataTypeOK

LEMMA GetJobKeeps ==
  ASSUME WInv, NEW t \in Task, GetJob(t)
  PROVE  WInv' /\ PromiseStep
<1>1. /\ pc[t] = "user" /\ pc' = [pc EXCEPT ![t] = "get"] /\ frames[t] # <<>>
      /\ UNCHANGED <<poolVars, mailVars, content, mine, frames, use, asked>>
  BY DEF GetJob, BetweenJobs, Begin, removalVars
<1>2. CallsInv'
  BY BeginKeepsCalls DEF GetJob, WInv, Steps, Timeout
<1>3. pc \in [Task -> {"user"} \cup Steps] /\ asked \in [Task -> Job \cup {NoJob}]
  BY DEF WInv, CallsInv, BlockingTypeOK, DataTypeOK
<1>4. \A u \in Task : Idles(u)
  BY <1>1, <1>3 DEF Idles
<1>5. QED
  BY <1>1, <1>2, <1>3, <1>4, IdleStep

LEMMA RemoveWQKeeps ==
  ASSUME WInv, NEW t \in Task, RemoveWQ(t)
  PROVE  WInv' /\ PromiseStep
<1>1. /\ pc[t] = "user" /\ pc' \in {pc, [pc EXCEPT ![t] = "remove"]}
      /\ UNCHANGED <<poolVars, mailVars, content, mine, frames, use, asked>>
  BY DEF RemoveWQ, InUserCode, Goes, blocking
<1>2. CallsInv'
  <2>1. CASE Goes(t, "remove")
    BY <2>1, GoesKeepsCalls DEF WInv, Steps
  <2>2. CASE UNCHANGED blocking
    BY <2>2 DEF WInv, CallsInv, BlockingTypeOK, blocking
  <2>3. QED
    BY <2>1, <2>2 DEF RemoveWQ
<1>3. pc \in [Task -> {"user"} \cup Steps] /\ asked \in [Task -> Job \cup {NoJob}]
  BY DEF WInv, CallsInv, BlockingTypeOK, DataTypeOK
<1>4. \A u \in Task : Idles(u)
  BY <1>1, <1>3 DEF Idles
<1>5. QED
  BY <1>1, <1>2, <1>3, <1>4, IdleStep

LEMMA WorkerIsTask ==
  ASSUME WInv, gone + 1 \in DOMAIN use.workers
  PROVE  Worker \in Task
<1>1. use.workers \in SeqOf(Task, Cardinality(Task))
  BY WorkQueueAssumption DEF WInv, DataTypeOK, Scenario
<1>2. PICK n \in 0 .. Cardinality(Task) : use.workers \in [1 .. n -> Task]
  BY <1>1 DEF SeqOf
<1>3. QED
  BY <1>2 DEF Worker

\* The sections of KRN_removeTask.
LEMMA RemovalStep ==
  ASSUME WInv, CallsInv', NEW t \in Task, NEW step \in {"remove", "unlist", "unlink"},
         pc[t] \in {"remove", "unlist", "unlink"}, pc' = [pc EXCEPT ![t] = step],
         UNCHANGED <<poolVars, mailVars, content, mine, frames, use, asked>>
  PROVE  WInv' /\ PromiseStep
<1>1. pc \in [Task -> {"user"} \cup Steps] /\ asked \in [Task -> Job \cup {NoJob}]
  BY DEF WInv, CallsInv, BlockingTypeOK, DataTypeOK
<1>2. \A u \in Task : Idles(u)
  BY <1>1 DEF Idles
<1>3. QED
  BY <1>1, <1>2, IdleStep

LEMMA CancelTimeoutKeeps ==
  ASSUME WInv, NEW t \in Task, CancelTimeout(t)
  PROVE  WInv' /\ PromiseStep
<1>1. /\ pc[t] = "remove" /\ pc' = [pc EXCEPT ![t] = "unlist"]
      /\ timer' \in {timer, Cancelled(Worker)}
      /\ UNCHANGED <<waitq, hold, timedOut, limit>>
      /\ UNCHANGED <<poolVars, mailVars, content, mine, frames, use, asked>>
  BY DEF CancelTimeout, Removing, removalVars
<1>2. BlockingTypeOK(Steps)
  BY DEF WInv, CallsInv
<1>3. timer' \in [Task -> {"off", "set", "due"}]
  BY <1>1, <1>2 DEF Cancelled, BlockingTypeOK
<1>4. pc \in [Task -> {"user"} \cup Steps]
  BY DEF WInv, CallsInv, BlockingTypeOK
<1>5. pc' \in [Task -> {"user"} \cup Steps]
  BY <1>1, <1>4 DEF Steps
<1>6. CallsInv'
  BY <1>1, <1>2, <1>3, <1>5, QueuesAlone DEF WInv, BlockingTypeOK
<1>7. QED
  BY <1>1, <1>6, RemovalStep

LEMMA UnlistKeeps ==
  ASSUME WInv, NEW t \in Task, Unlist(t)
  PROVE  WInv' /\ PromiseStep
<1>1. /\ pc[t] = "unlist" /\ pc' = [pc EXCEPT ![t] = "unlink"]
      /\ UNCHANGED <<poolVars, mailVars, content, mine, frames, use, asked>>
  BY DEF Unlist, Removing, Goes, removalVars
<1>2. CallsInv'
  BY GoesKeepsCalls DEF Unlist, WInv, Steps
<1>3. QED
  BY <1>1, <1>2, RemovalStep

LEMMA UnlinkKeeps ==
  ASSUME WInv, NEW t \in Task, Unlink(t)
  PROVE  WInv' /\ PromiseStep
<1> DEFINE off == Unlinked(waitq, Worker)
<1>1. /\ pc[t] = "unlink" /\ pc' = [pc EXCEPT ![t] = "remove"]
      /\ waitq' = AddTail(off, nowhere, Worker)
      /\ UNCHANGED <<hold, timer, timedOut, limit>>
      /\ UNCHANGED <<poolVars, mailVars, content, mine, frames, use, asked>>
  BY DEF Unlink, Removing
<1>2. Worker \in Task
  BY WorkerIsTask DEF Unlink, Removing
<1>3. Table(off, Queue, Task) /\ Drops(off, waitq, Queue, Worker)
  BY UnlinkedTable DEF WInv, CallsInv
<1>4. Off(off, Queue, Worker)
  BY <1>3 DEF Off, Drops
<1> HIDE DEF off
<1>5. Table(waitq', Queue, Task)
  BY <1>1, <1>2, <1>3, <1>4, AddTailTable, NamedQueues
<1>6. pc \in [Task -> {"user"} \cup Steps] /\ BlockingTypeOK(Steps)
  BY DEF WInv, CallsInv, BlockingTypeOK
<1>7. pc' \in [Task -> {"user"} \cup Steps]
  BY <1>1, <1>6 DEF Steps
<1>8. CallsInv'
  BY <1>1, <1>5, <1>6, <1>7 DEF CallsInv, BlockingTypeOK, Table, Steps
<1>9. QED
  BY <1>1, <1>8, RemovalStep

LEMMA RemovedKeeps ==
  ASSUME WInv, NEW t \in Task, Removed(t)
  PROVE  WInv' /\ PromiseStep
<1>1. /\ pc[t] = "remove" /\ pc' = [pc EXCEPT ![t] = "user"]
      /\ UNCHANGED <<poolVars, mailVars, content, mine, frames, use, asked>>
  BY DEF Removed, Goes
<1>2. CallsInv'
  BY GoesKeepsCalls DEF Removed, WInv
<1>3. pc \in [Task -> {"user"} \cup Steps] /\ asked \in [Task -> Job \cup {NoJob}]
  BY DEF WInv, CallsInv, BlockingTypeOK, DataTypeOK
<1>4. \A u \in Task : Idles(u)
  BY <1>1, <1>3 DEF Idles
<1>5. QED
  BY <1>1, <1>2, <1>3, <1>4, IdleStep

\* No task sleeps on an object that is not modelled.
LEMMA NoneRoused ==
  ASSUME CallsInv, NEW t \in Task
  PROVE  Roused(t) = pc /\ pc \in [Task -> {"user"} \cup Steps]
<1>1. pc \in [Task -> {"user"} \cup Steps] /\ "away" \notin {"user"} \cup Steps
  BY DEF CallsInv, Steps
<1>2. pc[t] = IF pc[t] = "away" THEN "user" ELSE pc[t]
  BY <1>1
<1>3. QED
  BY <1>1, <1>2 DEF Roused

LEMMA ExpireKeeps ==
  ASSUME WInv, NEW t \in Task, Expire(t)
  PROVE  WInv' /\ PromiseStep
<1>1. /\ UNCHANGED <<hold, limit, pc>>
      /\ UNCHANGED <<poolVars, mailVars, content, mine, frames, use, asked>>
  BY NoneRoused DEF Expire, TimerISR, TimeoutWake, removalVars, WInv
<1>2. BlockingTypeOK(Steps) /\ pc \in [Task -> {"user"} \cup Steps]
  BY NoneRoused DEF WInv, CallsInv
<1>3. CallsInv'
  <2>1. CASE TimerISR(t)
    BY <1>1, <1>2, <2>1, QueuesAlone DEF TimerISR, WInv, BlockingTypeOK
  <2>2. CASE TimeoutWake(t)
    BY <1>1, <1>2, <2>2, UnlinkedKeepsCalls DEF TimeoutWake, WInv, BlockingTypeOK
  <2>3. QED
    BY <2>1, <2>2 DEF Expire
<1>4. QED
  BY <1>1, <1>3, IdleStep DEF Idles, WInv, DataTypeOK

LEMMA ForcedKeeps ==
  ASSUME WInv, NEW t \in Task, Forced(t)
  PROVE  WInv' /\ PromiseStep
<1>1. /\ waitq' = Unlinked(waitq, t) /\ hold' = [hold EXCEPT ![t] = None]
      /\ UNCHANGED <<timer, timedOut, limit, pc>>
      /\ UNCHANGED <<poolVars, mailVars, content, mine, frames, use, asked>>
  BY NoneRoused DEF Forced, Resume, removalVars, WInv
<1>2. BlockingTypeOK(Steps) /\ pc \in [Task -> {"user"} \cup Steps]
  BY NoneRoused DEF WInv, CallsInv
<1>3. CallsInv'
  <2>1. hold' \in [Task -> Queue \cup {None}]
    BY <1>1, <1>2 DEF BlockingTypeOK
  <2>2. QED
    BY <1>1, <1>2, <2>1, UnlinkedKeepsCalls DEF WInv, BlockingTypeOK
<1>4. QED
  BY <1>1, <1>3, IdleStep DEF Idles, WInv, DataTypeOK

\* A job that is nowhere yet is about to be queued.
LEMMA QueueWQKeeps ==
  ASSUME WInv, NEW t \in Task, NEW j \in Job, NEW timeout \in Timeout, QueueWQ(t, j, timeout)
  PROVE  WInv' /\ PromiseStep
<1>1. /\ pc[t] = "user" /\ pc' = [pc EXCEPT ![t] = "take"] /\ Fresh(j)
      /\ asked' = [asked EXCEPT ![t] = j]
      /\ UNCHANGED <<poolVars, mailVars, content, mine, frames, use>>
  BY DEF QueueWQ, InUserCode, Begin, removalVars
<1>2. CallsInv'
  BY BeginKeepsCalls DEF QueueWQ, WInv, Steps
<1>3. /\ pc \in [Task -> {"user"} \cup Steps] /\ asked \in [Task -> Job \cup {NoJob}]
      /\ NoJob \notin Job
  BY NamedQueues DEF WInv, CallsInv, BlockingTypeOK, DataTypeOK
<1>4. \A u \in Task : pc'[u] = IF u = t THEN "take" ELSE pc[u]
  BY <1>1, <1>3
<1>5. Quiet /\ Places'
  <2>1. \A u \in Task :
          pc'[u] = "read" => pc[u] = "read"
    BY <1>1, <1>4
  <2>2. QED
    BY <1>1, <2>1, BookkeepingIsQuiet
<1>6. DataTypeOK'
  BY <1>1, <1>3 DEF WInv, DataTypeOK
<1>7. Holding' /\ Dispatching'
  BY <1>1, <1>4 DEF WInv, Holding, Dispatching
<1>8. AskedInv'
  <2>1. InLine' = InLine /\ Running' \subseteq Running
    BY <1>5, QuietStep
  <2>2. \A u \in Task : asked'[u] = IF u = t THEN j ELSE asked[u]
    BY <1>1, <1>3
  <2>3. j \notin InLine /\ j \notin Running /\ \A u \in Task : asked[u] # j
    BY <1>1 DEF Fresh
  <2>4. AskedInv
    BY DEF WInv
  <2>5. QED
    BY <1>1, <1>3, <1>4, <2>1, <2>2, <2>3, <2>4 DEF AskedInv
<1>9. PromiseStep
  BY <1>5, QuietStep
<1>10. QED
  BY <1>2, <1>5, <1>6, <1>7, <1>8, <1>9 DEF WInv
-----------------------------------------------------------------------------
(* The calls of KRN_dispatchWQ a task is in.                                  *)

Frame == [left : Int, job : Job \cup {NoJob}]

LEMMA FrontAndLast ==
  ASSUME NEW S, NEW s \in Seq(S), s # <<>>
  PROVE  /\ Last(s) \in S /\ Last(s) = s[Len(s)] /\ Len(s) \in 1 .. Len(s)
         /\ Front(s) \in Seq(S) /\ Len(Front(s)) = Len(s) - 1
         /\ \A i \in 1 .. Len(s) - 1 : Front(s)[i] = s[i]
<1>1. Len(s) \in Nat \ {0}
  OBVIOUS
<1>2. Last(s) = s[Len(s)] /\ Last(s) \in S /\ Len(s) \in 1 .. Len(s)
  BY <1>1 DEF Last
<1>3. Front(s) \in Seq(S) /\ Len(Front(s)) = Len(s) - 1
      /\ \A i \in 1 .. Len(s) - 1 : Front(s)[i] = s[i]
  <2>1. Front(s) = [i \in 1 .. Len(s) - 1 |-> s[i]]
    BY <1>1 DEF Front
  <2>2. \A i \in 1 .. Len(s) - 1 : s[i] \in S
    BY <1>1
  <2>3. QED
    BY <1>1, <2>1, <2>2
<1>4. QED
  BY <1>2, <1>3

\* The jobs of a list of calls.
JobsOf(fs) == {fs[i].job : i \in DOMAIN fs} \ {NoJob}

LEMMA FrontJobs ==
  ASSUME NEW fs \in Seq(Frame), fs # <<>>
  PROVE  JobsOf(Front(fs)) \subseteq JobsOf(fs)
<1>1. /\ Len(fs) \in Nat /\ DOMAIN fs = 1 .. Len(fs)
      /\ DOMAIN Front(fs) = 1 .. Len(fs) - 1
      /\ \A i \in 1 .. Len(fs) - 1 : Front(fs)[i] = fs[i]
  BY FrontAndLast
<1>2. \A i \in 1 .. Len(fs) - 1 : i \in 1 .. Len(fs)
  BY <1>1
<1>3. QED
  BY <1>1, <1>2 DEF JobsOf

LEMMA AppendJobs ==
  ASSUME NEW fs \in Seq(Frame), NEW f \in Frame
  PROVE  /\ Append(fs, f) \in Seq(Frame) /\ Append(fs, f) # <<>>
         /\ JobsOf(Append(fs, f)) = JobsOf(fs) \cup ({f.job} \ {NoJob})
<1>1. /\ Len(fs) \in Nat /\ DOMAIN fs = 1 .. Len(fs)
      /\ DOMAIN Append(fs, f) = 1 .. Len(fs) + 1
      /\ \A i \in 1 .. Len(fs) : Append(fs, f)[i] = fs[i]
      /\ Append(fs, f)[Len(fs) + 1] = f
      /\ Append(fs, f) \in Seq(Frame) /\ Append(fs, f) # <<>>
  OBVIOUS
<1>2. \A i : i \in 1 .. Len(fs) + 1 <=> i \in 1 .. Len(fs) \/ i = Len(fs) + 1
  BY <1>1
<1>3. QED
  BY <1>1, <1>2 DEF JobsOf

LEMMA DispatchFrame ==
  ASSUME NEW n \in Int
  PROVE  Dispatch(n) \in Frame /\ Dispatch(n).job = NoJob
BY DEF Dispatch, Frame

\* When a function returns its job is no longer in progress.
LEMMA FinishedJobs ==
  ASSUME NEW fs \in Seq(Frame), fs # <<>>
  PROVE  Finished(fs) \in Seq(Frame) /\ JobsOf(Finished(fs)) \subseteq JobsOf(fs)
<1>1. Front(fs) \in Seq(Frame) /\ Last(fs) \in Frame /\ JobsOf(Front(fs)) \subseteq JobsOf(fs)
  BY FrontAndLast, FrontJobs
<1>2. CASE Last(fs).left = 1
  BY <1>1, <1>2 DEF Finished
<1>3. CASE Last(fs).left # 1
  <2> DEFINE n == IF Last(fs).left > 0 THEN Last(fs).left - 1 ELSE -1
  <2>1. n \in Int
    BY <1>1 DEF Frame
  <2> HIDE DEF n
  <2>2. Finished(fs) = Append(Front(fs), Dispatch(n))
    BY <1>3 DEF Finished, n
  <2>3. /\ Append(Front(fs), Dispatch(n)) \in Seq(Frame)
        /\ JobsOf(Append(Front(fs), Dispatch(n))) = JobsOf(Front(fs)) \cup ({NoJob} \ {NoJob})
    BY <1>1, <2>1, DispatchFrame, AppendJobs
  <2>4. QED
    BY <1>1, <2>2, <2>3
<1>4. QED
  BY <1>2, <1>3

\* What a task has begun.
LEMMA BegunOf ==
  ASSUME NEW t \in Task
  PROVE  Begun(t) = JobsOf(frames[t]) \cup (IF pc[t] = "read" THEN {content[mine[t]]} ELSE {})
BY DEF Begun, JobsOf

\* A step that changes nothing but the calls a task is in, and begins nothing.
LEMMA FramesStep ==
  ASSUME WInv, NEW t \in Task, pc[t] = "user", NEW fs \in Seq(Frame),
         JobsOf(fs) \subseteq JobsOf(frames[t]), frames' = [frames EXCEPT ![t] = fs],
         UNCHANGED <<blocking, poolVars, mailVars, content, mine, asked, use>>
  PROVE  WInv' /\ PromiseStep
<1>1. DataTypeOK /\ CallsInv /\ pc \in [Task -> {"user"} \cup Steps]
  BY DEF WInv, CallsInv, BlockingTypeOK
<1>2. CallsInv' /\ DataTypeOK'
  BY <1>1 DEF CallsInv, BlockingTypeOK, blocking, DataTypeOK, Frame
<1>3. \A u \in Task : frames'[u] = IF u = t THEN fs ELSE frames[u]
  BY <1>1 DEF DataTypeOK
<1>4. UNCHANGED <<pc, content, mine, box>>
  BY DEF blocking, mailVars
<1>5. Quiet
  <2>1. ASSUME NEW u \in Task
        PROVE  Begun(u)' \subseteq Begun(u)
    <3>1. CASE u = t
      <4>1. Begun(t)' = JobsOf(fs) /\ Begun(t) = JobsOf(frames[t])
        BY <1>3, <1>4, BegunOf DEF Begun, JobsOf
      <4>2. QED
        BY <3>1, <4>1
    <3>2. CASE u # t
      BY <1>3, <1>4, <3>2, SameBegun
    <3>3. QED
      BY <3>1, <3>2
  <2>2. QED
    BY <1>4, <2>1 DEF Quiet
<1>6. Places' /\ Holding'
  BY <1>4 DEF WInv, Places, Placed, Holding, poolVars, mailVars
<1>7. Dispatching'
  BY <1>3, <1>4 DEF WInv, Dispatching
<1>8. AskedInv'
  <2>1. \A u \in Task : asked[u] # NoJob => pc[u] \in {"take", "fill", "put"}
    BY DEF WInv, AskedInv
  <2>2. \A u \in Task : pc[u] = "put" => content[mine[u]] = asked[u]
    BY DEF WInv, AskedInv
  <2>3. QED
    BY <1>4, <1>5, <2>1, <2>2, QuietKeepsAsked
<1>9. QED
  BY <1>2, <1>5, <1>6, <1>7, <1>8, QuietStep DEF WInv

LEMMA DispatchWQKeeps ==
  ASSUME WInv, NEW t \in Task, NEW n \in Turns, DispatchWQ(t, n)
  PROVE  WInv' /\ PromiseStep
<1>1. frames[t] \in Seq(Frame) /\ n \in Int
  BY WorkQueueAssumption DEF WInv, DataTypeOK, Frame
<1>2. /\ Append(frames[t], Dispatch(n)) \in Seq(Frame)
      /\ JobsOf(Append(frames[t], Dispatch(n))) = JobsOf(frames[t]) \cup ({NoJob} \ {NoJob})
  BY <1>1, DispatchFrame, AppendJobs
<1>3. /\ pc[t] = "user" /\ frames' = [frames EXCEPT ![t] = Append(frames[t], Dispatch(n))]
      /\ UNCHANGED <<blocking, poolVars, mailVars, content, mine, asked, use>>
  BY DEF DispatchWQ, InUserCode, removalVars
<1>4. QED
  BY <1>2, <1>3, FramesStep

LEMMA FinishKeeps ==
  ASSUME WInv, NEW t \in Task, Finish(t)
  PROVE  WInv' /\ PromiseStep
<1>1. frames[t] \in Seq(Frame) /\ frames[t] # <<>>
  BY DEF Finish, Current, WInv, DataTypeOK, Frame
<1>2. Finished(frames[t]) \in Seq(Frame) /\ JobsOf(Finished(frames[t])) \subseteq JobsOf(frames[t])
  BY <1>1, FinishedJobs
<1>3. /\ pc[t] = "user" /\ frames' = [frames EXCEPT ![t] = Finished(frames[t])]
      /\ UNCHANGED <<blocking, poolVars, mailVars, content, mine, asked, use>>
  BY DEF Finish, InUserCode, removalVars
<1>4. QED
  BY <1>2, <1>3, FramesStep
-----------------------------------------------------------------------------
(* A descriptor goes from hand to hand.                                       *)

\* The pool and the mailbox play the same part.
LEMMA PlacedEitherWay ==
  ASSUME NEW a, NEW b, NEW m, NEW ds, Placed(a, b, m, ds)
  PROVE  Placed(b, a, m, ds)
BY DEF Placed

\* A task whose hand is empty takes the head of a list.
LEMMA HeadTaken ==
  ASSUME NEW a, NEW b, NEW m, NEW ds, Placed(a, b, m, ds),
         NEW t \in Task, m[t] = None, Len(a) >= 1
  PROVE  Placed(Tail(a), b, [m EXCEPT ![t] = Head(a)], ds) /\ Head(a) \in Desc
<1> DEFINE m2 == [m EXCEPT ![t] = Head(a)]
<1> USE DEF Placed
<1>1. /\ Tail(a) \in Seq(Desc) /\ Head(a) \in Desc /\ Contains(a, Head(a))
      /\ IsInjective(Tail(a))
      /\ \A y : Contains(Tail(a), y) <=> Contains(a, y) /\ y # Head(a)
  BY ShortenedList
<1>2. \A u \in Task : m2[u] = IF u = t THEN Head(a) ELSE m[u]
  OBVIOUS
<1>3. \A u \in Task : m[u] # Head(a)
  BY <1>1
<1>4. m2 \in [Task -> Desc \cup {None}]
  BY <1>1
<1> HIDE DEF m2
<1>5. \A u, v \in Task : m2[u] = m2[v] /\ m2[u] # None => u = v
  BY <1>2, <1>3
<1>6. \A x \in Desc : Contains(Tail(a), x) => ~Contains(b, x)
  BY <1>1
<1>7. \A u \in Task : ~Contains(Tail(a), m2[u]) /\ ~Contains(b, m2[u])
  BY <1>1, <1>2
<1>8. \A x \in Desc : x \in ds <=>
        Contains(Tail(a), x) \/ Contains(b, x) \/ \E u \in Task : m2[u] = x
  <2>1. SUFFICES ASSUME NEW x \in Desc
                 PROVE  Contains(Tail(a), x) \/ Contains(b, x) \/ (\E u \in Task : m2[u] = x)
                        <=> Contains(a, x) \/ Contains(b, x) \/ \E u \in Task : m[u] = x
    OBVIOUS
  <2>2. x # None
    BY NamedQueues
  <2>3. (\E u \in Task : m2[u] = x) <=> x = Head(a) \/ \E u \in Task : m[u] = x
    BY <1>2, <2>2
  <2>4. QED
    BY <1>1, <2>3
<1>9. QED
  BY <1>1, <1>4, <1>5, <1>6, <1>7, <1>8 DEF m2

\* A task puts what it has in hand at the tail of a list.
LEMMA HandEmptied ==
  ASSUME NEW a, NEW b, NEW m, NEW ds, Placed(a, b, m, ds), NEW t \in Task, m[t] # None
  PROVE  Placed(Append(a, m[t]), b, [m EXCEPT ![t] = None], ds)
<1> DEFINE a2 == Append(a, m[t])
           m2 == [m EXCEPT ![t] = None]
<1> USE DEF Placed
<1>1. m[t] \in Desc /\ ~Contains(a, m[t]) /\ ~Contains(b, m[t]) /\ None \notin Desc
  BY NamedQueues
<1>2. /\ a2 \in Seq(Desc) /\ IsInjective(a2)
      /\ \A y : Contains(a2, y) <=> Contains(a, y) \/ y = m[t]
  BY <1>1, AppendedList
<1>3. \A u \in Task : m2[u] = IF u = t THEN None ELSE m[u]
  OBVIOUS
<1>4. ~Contains(a, None) /\ ~Contains(b, None)
  BY <1>1 DEF Contains
<1>5. m2 \in [Task -> Desc \cup {None}]
      /\ \A u, v \in Task : m2[u] = m2[v] /\ m2[u] # None => u = v
  BY <1>3
<1> HIDE DEF a2, m2
<1>6. \A x \in Desc : Contains(a2, x) => ~Contains(b, x)
  BY <1>1, <1>2
<1>7. \A u \in Task : ~Contains(a2, m2[u]) /\ ~Contains(b, m2[u])
  BY <1>1, <1>2, <1>3, <1>4
<1>8. \A x \in Desc : x \in ds <=>
        Contains(a2, x) \/ Contains(b, x) \/ \E u \in Task : m2[u] = x
  <2>1. SUFFICES ASSUME NEW x \in Desc
                 PROVE  Contains(a2, x) \/ Contains(b, x) \/ (\E u \in Task : m2[u] = x)
                        <=> Contains(a, x) \/ Contains(b, x) \/ \E u \in Task : m[u] = x
    OBVIOUS
  <2>2. (\E u \in Task : m[u] = x) <=> x = m[t] \/ \E u \in Task : m2[u] = x
    BY <1>1, <1>3
  <2>3. QED
    BY <1>2, <2>2
<1>9. QED
  BY <1>2, <1>5, <1>6, <1>7, <1>8 DEF a2, m2

\* An interrupt handler moves one from the pool to the mailbox.
LEMMA FromPoolToBox ==
  ASSUME Places, spare >= 1, spare' = spare - 1, free' = Tail(free),
         posted' = posted + 1, box' = Append(box, Head(free)), UNCHANGED <<mine, use>>
  PROVE  /\ Places' /\ Head(free) \in Desc /\ ~Contains(box, Head(free))
         /\ \A u \in Task : mine[u] # Head(free)
<1> USE DEF Places, Placed
<1>1. /\ free' \in Seq(Desc) /\ Len(free') = Len(free) - 1
      /\ Head(free) \in Desc /\ Contains(free, Head(free)) /\ IsInjective(free')
      /\ \A y : Contains(free', y) <=> Contains(free, y) /\ y # Head(free)
  BY ShortenedList
<1>2. ~Contains(box, Head(free)) /\ \A u \in Task : mine[u] # Head(free)
  BY <1>1
<1>3. /\ box' \in Seq(Desc) /\ Len(box') = Len(box) + 1 /\ IsInjective(box')
      /\ \A y : Contains(box', y) <=> Contains(box, y) \/ y = Head(free)
  BY <1>1, <1>2, AppendedList
<1>4. \A x \in Desc : Contains(free', x) => ~Contains(box', x)
  BY <1>1, <1>3
<1>5. \A u \in Task : ~Contains(free', mine'[u]) /\ ~Contains(box', mine'[u])
  BY <1>1, <1>2, <1>3
<1>6. \A x \in Desc : x \in use'.descs <=>
        Contains(free', x) \/ Contains(box', x) \/ \E u \in Task : mine'[u] = x
  BY <1>1, <1>3
<1>7. QED
  BY <1>1, <1>2, <1>3, <1>4, <1>5, <1>6
-----------------------------------------------------------------------------
(* The steps that do.                                                         *)

LEMMA TakenKeeps ==
  ASSUME WInv, NEW t \in Task, Taken(t)
  PROVE  WInv' /\ PromiseStep
<1>1. /\ pc[t] = "take" /\ pc' = [pc EXCEPT ![t] = "fill"]
      /\ spare >= 1 /\ spare' = spare - 1 /\ free' = Tail(free)
      /\ mine' = [mine EXCEPT ![t] = Head(free)]
      /\ UNCHANGED <<box, posted, content, asked, frames, use>>
  BY DEF Taken, Taking, Ends, mailVars, removalVars
<1>2. /\ pc \in [Task -> {"user"} \cup Steps] /\ mine \in [Task -> Desc \cup {None}]
      /\ Places /\ AskedInv /\ Holding /\ None \notin Desc
  BY NamedQueues DEF WInv, CallsInv, BlockingTypeOK, Places, Placed
<1>3. /\ \A u \in Task : pc'[u] = IF u = t THEN "fill" ELSE pc[u]
      /\ \A u \in Task : mine'[u] = IF u = t THEN Head(free) ELSE mine[u]
  BY <1>1, <1>2
<1>4. Places' /\ Head(free) \in Desc
  <2>1. mine[t] = None
    BY <1>1, <1>2 DEF Holding
  <2>2. /\ Placed(free, box, mine, use.descs) /\ spare = Len(free) /\ Len(free) >= 1
        /\ free \in Seq(Desc)
    BY <1>1, <1>2 DEF Places, Placed
  <2>3. /\ Placed(Tail(free), box, [mine EXCEPT ![t] = Head(free)], use.descs)
        /\ Head(free) \in Desc
    BY <2>1, <2>2, HeadTaken
  <2>4. Len(free') = Len(free) - 1
    BY <1>1, <2>2
  <2>5. QED
    BY <1>1, <1>2, <2>2, <2>3, <2>4 DEF Places
<1>5. CallsInv'
  BY EndsKeepsCalls DEF Taken, WInv, Steps
<1>6. DataTypeOK'
  BY <1>1 DEF WInv, DataTypeOK
<1>7. Holding' /\ Dispatching'
  BY <1>1, <1>2, <1>3, <1>4 DEF WInv, Holding, Dispatching
<1>8. Quiet
  BY <1>1, <1>3, SameBegun DEF Quiet
<1>9. AskedInv'
  BY <1>1, <1>2, <1>3, <1>8, QuietKeepsAsked DEF AskedInv
<1>10. QED
  BY <1>4, <1>5, <1>6, <1>7, <1>8, <1>9, QuietStep DEF WInv

LEMMA FillKeeps ==
  ASSUME WInv, NEW t \in Task, Fill(t)
  PROVE  WInv' /\ PromiseStep
<1>1. /\ pc[t] = "fill" /\ pc' = [pc EXCEPT ![t] = "put"]
      /\ content' = [content EXCEPT ![mine[t]] = asked[t]]
      /\ UNCHANGED <<free, spare, box, posted, mine, asked, frames, use>>
  BY DEF Fill, Goes, poolVars, mailVars, removalVars
<1>2. /\ pc \in [Task -> {"user"} \cup Steps] /\ mine \in [Task -> Desc \cup {None}]
      /\ Places /\ AskedInv /\ Holding /\ DataTypeOK
  BY DEF WInv, CallsInv, BlockingTypeOK, Places, Placed
<1>3. \A u \in Task : pc'[u] = IF u = t THEN "put" ELSE pc[u]
  BY <1>1, <1>2
<1>4. /\ mine[t] \in Desc /\ ~Contains(box, mine[t])
      /\ \A u \in Task : mine[u] = mine[t] => u = t
  BY <1>1, <1>2 DEF Holding, Places, Placed
<1>5. \A d : d # mine[t] => content'[d] = content[d]
  BY <1>1, <1>2 DEF DataTypeOK
<1>6. content'[mine[t]] = asked[t] /\ content' \in [Desc -> Job \cup {NoJob}]
  BY <1>1, <1>2, <1>4 DEF DataTypeOK
<1>7. CallsInv'
  BY GoesKeepsCalls DEF Fill, WInv, Steps
<1>8. Places' /\ DataTypeOK' /\ Holding' /\ Dispatching'
  BY <1>1, <1>2, <1>3, <1>6 DEF WInv, Places, Placed, DataTypeOK, Holding, Dispatching
<1>9. Quiet
  <2>1. \A i \in 1 .. Len(box) : box[i] # mine[t]
    BY <1>4 DEF Contains
  <2>2. \A i \in 1 .. Len(box) : content'[box[i]] = content[box[i]]
    BY <1>5, <2>1
  <2>3. ASSUME NEW u \in Task
        PROVE  Begun(u)' \subseteq Begun(u)
    <3>1. pc'[u] = "read" => u # t /\ pc[u] = "read"
      BY <1>3
    <3>2. pc'[u] = "read" => content'[mine'[u]] = content[mine[u]]
      BY <1>1, <1>4, <1>5, <3>1
    <3>3. Begun(u)' \subseteq Begun(u)
      BY <1>1, <3>1, <3>2, SameBegun
    <3>4. QED
      BY <1>1, <1>3, <3>3
  <2>4. QED
    BY <1>1, <2>2, <2>3 DEF Quiet
<1>10. AskedInv'
  <2>1. ASSUME NEW u \in Task, pc'[u] = "put"
        PROVE  content'[mine'[u]] = asked[u]
    <3>1. CASE u = t
      BY <1>1, <1>6, <3>1
    <3>2. CASE u # t
      BY <1>1, <1>2, <1>3, <1>4, <1>5, <2>1, <3>2 DEF AskedInv
    <3>3. QED
      BY <3>1, <3>2
  <2>2. ASSUME NEW u \in Task
        PROVE  /\ asked'[u] \in {asked[u], NoJob}
               /\ pc'[u] \in {"take", "fill", "put"} =>
                    pc[u] \in {"take", "fill", "put"} /\ asked'[u] = asked[u]
               /\ asked'[u] # NoJob => pc'[u] \in {"take", "fill", "put"}
    BY <1>1, <1>2, <1>3 DEF AskedInv
  <2>3. QED
    BY <1>9, <2>1, <2>2, QuietKeepsAsked
<1>11. QED
  BY <1>7, <1>8, <1>9, <1>10, QuietStep DEF WInv

LEMMA ReadKeeps ==
  ASSUME WInv, NEW t \in Task, Read(t)
  PROVE  WInv' /\ PromiseStep
<1> DEFINE last == [Last(frames[t]) EXCEPT !.job = content[mine[t]]]
           fs == Append(Front(frames[t]), last)
<1>1. /\ pc[t] = "read" /\ pc' = [pc EXCEPT ![t] = "return"]
      /\ frames' = [frames EXCEPT ![t] = fs]
      /\ UNCHANGED <<free, spare, box, posted, content, mine, asked, use>>
  BY DEF Read, Goes, poolVars, mailVars, removalVars
<1>2. /\ pc \in [Task -> {"user"} \cup Steps] /\ mine \in [Task -> Desc \cup {None}]
      /\ Places /\ AskedInv /\ Holding /\ DataTypeOK /\ Dispatching
  BY DEF WInv, CallsInv, BlockingTypeOK, Places, Placed
<1>3. \A u \in Task : pc'[u] = IF u = t THEN "return" ELSE pc[u]
  BY <1>1, <1>2
<1>4. frames[t] \in Seq(Frame) /\ frames[t] # <<>> /\ content[mine[t]] \in Job \cup {NoJob}
  BY <1>1, <1>2 DEF DataTypeOK, Frame, Dispatching, Holding
<1>5. /\ Last(frames[t]) \in Frame /\ Front(frames[t]) \in Seq(Frame)
      /\ JobsOf(Front(frames[t])) \subseteq JobsOf(frames[t])
  BY <1>4, FrontAndLast, FrontJobs
<1>6. last \in Frame /\ last.job = content[mine[t]]
  BY <1>4, <1>5 DEF Frame
<1> HIDE DEF last
<1>7. fs \in Seq(Frame) /\ fs # <<>> /\ JobsOf(fs) \subseteq JobsOf(frames[t]) \cup {content[mine[t]]}
  BY <1>5, <1>6, AppendJobs
<1> HIDE DEF fs
<1>8. \A u \in Task : frames'[u] = IF u = t THEN fs ELSE frames[u]
  BY <1>1, <1>2 DEF DataTypeOK
<1>9. CallsInv'
  BY GoesKeepsCalls DEF Read, WInv, Steps
<1>10. Places' /\ DataTypeOK' /\ Holding' /\ Dispatching'
  <2>1. Places'
    BY <1>1, <1>2 DEF Places, Placed
  <2>2. DataTypeOK'
    BY <1>1, <1>2, <1>7 DEF DataTypeOK, Frame
  <2>3. Holding' /\ Dispatching'
    BY <1>1, <1>2, <1>3, <1>7, <1>8 DEF Holding, Dispatching
  <2>4. QED
    BY <2>1, <2>2, <2>3
<1>11. Quiet
  <2>1. ASSUME NEW u \in Task
        PROVE  Begun(u)' \subseteq Begun(u)
    <3>1. CASE u = t
      <4>1. Begun(t)' = JobsOf(fs)
        BY <1>3, <1>8 DEF Begun, JobsOf
      <4>2. Begun(t) = JobsOf(frames[t]) \cup {content[mine[t]]}
        BY <1>1, BegunOf
      <4>3. QED
        BY <1>1, <1>7, <3>1, <4>1, <4>2
    <3>2. CASE u # t
      BY <1>1, <1>3, <1>8, <3>2, SameBegun
    <3>3. QED
      BY <3>1, <3>2
  <2>2. QED
    BY <1>1, <2>1 DEF Quiet
<1>12. AskedInv'
  BY <1>1, <1>2, <1>3, <1>11, QuietKeepsAsked DEF AskedInv
<1>13. QED
  BY <1>9, <1>10, <1>11, <1>12, QuietStep DEF WInv

LEMMA ReturnPoolKeeps ==
  ASSUME WInv, NEW t \in Task, ReturnPool(t)
  PROVE  WInv' /\ PromiseStep
<1>1. /\ pc[t] = "return" /\ pc' = [pc EXCEPT ![t] = "user"]
      /\ spare' = spare + 1 /\ free' = Append(free, mine[t])
      /\ mine' = [mine EXCEPT ![t] = None]
      /\ waitq' = [waitq EXCEPT ![pool] = <<>>]
      /\ UNCHANGED <<hold, timer, timedOut, limit, box, posted, content, asked, frames, use>>
  BY DEF ReturnPool, mailVars, removalVars
<1>2. /\ pc \in [Task -> {"user"} \cup Steps] /\ mine \in [Task -> Desc \cup {None}]
      /\ Places /\ AskedInv /\ Holding
  BY DEF WInv, CallsInv, BlockingTypeOK, Places, Placed
<1>3. /\ \A u \in Task : pc'[u] = IF u = t THEN "user" ELSE pc[u]
      /\ \A u \in Task : mine'[u] = IF u = t THEN None ELSE mine[u]
  BY <1>1, <1>2
<1>4. Places'
  <2>1. mine[t] # None
    BY <1>1, <1>2 DEF Holding
  <2>2. Placed(Append(free, mine[t]), box, [mine EXCEPT ![t] = None], use.descs)
    BY <1>2, <2>1, HandEmptied DEF Places
  <2>3. free \in Seq(Desc) /\ mine[t] \in Desc
    BY <1>2, <2>1 DEF Places, Placed
  <2>4. Len(free') = Len(free) + 1
    BY <1>1, <2>3
  <2>5. QED
    BY <1>1, <1>2, <2>2, <2>4 DEF Places
<1>5. CallsInv'
  BY <1>1, <1>2, WakingKeepsCalls, NamedQueues DEF WInv
<1>6. DataTypeOK' /\ Holding' /\ Dispatching'
  BY <1>1, <1>2, <1>3 DEF WInv, DataTypeOK, Holding, Dispatching
<1>7. Quiet
  BY <1>1, <1>3, SameBegun DEF Quiet
<1>8. AskedInv'
  BY <1>1, <1>2, <1>3, <1>7, QuietKeepsAsked DEF AskedInv
<1>9. QED
  BY <1>4, <1>5, <1>6, <1>7, <1>8, QuietStep DEF WInv
-----------------------------------------------------------------------------
(* The line of jobs.                                                          *)

LEMMA LineProperties ==
  ASSUME WInv
  PROVE  /\ Line \in Seq(Job \cup {NoJob}) /\ Len(Line) = Len(box) /\ Len(box) \in Nat
         /\ \A i \in 1 .. Len(box) : Line[i] = content[box[i]]
         /\ \A j : j \in InLine <=> \E i \in 1 .. Len(box) : Line[i] = j
<1>1. /\ box \in Seq(Desc) /\ Len(box) \in Nat /\ DOMAIN box = 1 .. Len(box)
      /\ content \in [Desc -> Job \cup {NoJob}]
  BY DEF WInv, Places, Placed, DataTypeOK
<1>2. \A i \in 1 .. Len(box) : box[i] \in Desc /\ content[box[i]] \in Job \cup {NoJob}
  BY <1>1
<1>3. /\ Line \in Seq(Job \cup {NoJob}) /\ Len(Line) = Len(box)
      /\ \A i \in 1 .. Len(box) : Line[i] = content[box[i]]
  BY <1>1, <1>2 DEF Line
<1>4. \A j : j \in InLine <=> \E i \in 1 .. Len(box) : Line[i] = j
  BY <1>1, <1>3 DEF InLine, ToSet
<1>5. QED
  BY <1>1, <1>3, <1>4

\* A descriptor is appended to the mailbox: its job is last in line.
LEMMA LineAppended ==
  ASSUME WInv, NEW d \in Desc, box' = Append(box, d),
         \A i \in 1 .. Len(box) : content'[box[i]] = content[box[i]]
  PROVE  Line' = Append(Line, content'[d]) /\ InLine' = InLine \cup {content'[d]}
<1>1. /\ Line \in Seq(Job \cup {NoJob}) /\ Len(Line) = Len(box) /\ Len(box) \in Nat
      /\ \A i \in 1 .. Len(box) : Line[i] = content[box[i]]
      /\ \A j : j \in InLine <=> \E i \in 1 .. Len(box) : Line[i] = j
  BY LineProperties
<1>2. box \in Seq(Desc)
  BY DEF WInv, Places, Placed
<1>3. /\ Len(box') = Len(box) + 1 /\ box'[Len(box) + 1] = d
      /\ \A i \in 1 .. Len(box) : box'[i] = box[i]
      /\ DOMAIN box' = 1 .. Len(box) + 1
  BY <1>2
<1>4. Line' = [i \in 1 .. Len(box) + 1 |-> content'[box'[i]]]
  BY <1>3 DEF Line
<1>5. \A i \in 1 .. Len(box) + 1 : i \in 1 .. Len(box) \/ i = Len(box) + 1
  BY <1>1
<1>6. Append(Line, content'[d])
        = [i \in 1 .. Len(box) + 1 |-> IF i = Len(box) + 1 THEN content'[d] ELSE Line[i]]
  BY <1>1
<1>7. Line' = Append(Line, content'[d])
  BY <1>1, <1>3, <1>4, <1>5, <1>6
<1>8. InLine' = InLine \cup {content'[d]}
  <2>1. \A j : j \in InLine' <=> \E i \in 1 .. Len(box) + 1 : content'[box'[i]] = j
    BY <1>3 DEF InLine, ToSet
  <2>2. \A j : (\E i \in 1 .. Len(box) + 1 : content'[box'[i]] = j)
               <=> (\E i \in 1 .. Len(box) : Line[i] = j) \/ j = content'[d]
    BY <1>1, <1>3, <1>5
  <2>3. QED
    BY <1>1, <2>1, <2>2
<1>9. QED
  BY <1>7, <1>8

\* A job is queued that nobody has: there is room for it.
LEMMA JobAdded ==
  ASSUME WInv, NEW d \in Desc, NEW j \in Job, ~Contains(box, d), box' = Append(box, d),
         content'[d] = j, \A i \in 1 .. Len(box) : content'[box[i]] = content[box[i]],
         j \notin InLine, j \notin Running, Running' = Running
  PROVE  InLine' = InLine \cup {j} /\ PromiseStep
<1>1. Line' = Append(Line, j) /\ InLine' = InLine \cup {j}
  BY LineAppended
<1>2. Len(box) < Cardinality(Desc)
  BY RoomLeft, NamedQueues DEF WInv, Places, Placed
<1>3. Len(Line) < Cardinality(Desc) /\ \A i \in 1 .. Len(Line) : Line[i] # j
  BY <1>2, LineProperties
<1>4. Promise!Add(j)
  BY <1>1, <1>3 DEF Promise!Add
<1>5. QED
  BY <1>1, <1>4 DEF PromiseStep, Promise!Next

\* Tasks that have begun the same jobs in front of a step and after it.
LEMMA SameRunning ==
  ASSUME \A u \in Task : Begun(u)' = Begun(u)
  PROVE  Running' = Running
BY DEF Running

LEMMA PutKeeps ==
  ASSUME WInv, NEW t \in Task, Put(t)
  PROVE  WInv' /\ PromiseStep
<1>1. /\ pc[t] = "put" /\ pc' = [pc EXCEPT ![t] = "user"]
      /\ posted' = posted + 1 /\ box' = Append(box, mine[t])
      /\ mine' = [mine EXCEPT ![t] = None] /\ asked' = [asked EXCEPT ![t] = NoJob]
      /\ waitq' = [waitq EXCEPT ![mail] = <<>>]
      /\ UNCHANGED <<hold, timer, timedOut, limit, free, spare, content, frames, use>>
  BY DEF Put, Posted, poolVars, removalVars
<1>2. /\ pc \in [Task -> {"user"} \cup Steps] /\ mine \in [Task -> Desc \cup {None}]
      /\ asked \in [Task -> Job \cup {NoJob}] /\ NoJob \notin Job
      /\ Places /\ AskedInv /\ Holding
  BY NamedQueues DEF WInv, CallsInv, BlockingTypeOK, Places, Placed, DataTypeOK
<1>3. /\ \A u \in Task : pc'[u] = IF u = t THEN "user" ELSE pc[u]
      /\ \A u \in Task : mine'[u] = IF u = t THEN None ELSE mine[u]
      /\ \A u \in Task : asked'[u] = IF u = t THEN NoJob ELSE asked[u]
  BY <1>1, <1>2
<1>4. mine[t] \in Desc /\ ~Contains(box, mine[t]) /\ mine[t] # None
  BY <1>1, <1>2 DEF Holding, Places, Placed
<1>5. /\ asked[t] \in Job /\ content[mine[t]] = asked[t]
      /\ asked[t] \notin InLine /\ asked[t] \notin Running
      /\ \A u \in Task : asked[u] = asked[t] => u = t
  BY <1>1, <1>2 DEF AskedInv
<1>6. Places'
  <2>1. Placed(Append(box, mine[t]), free, [mine EXCEPT ![t] = None], use.descs)
    BY <1>2, <1>4, HandEmptied, PlacedEitherWay DEF Places
  <2>2. Placed(free, Append(box, mine[t]), [mine EXCEPT ![t] = None], use.descs)
    BY <2>1, PlacedEitherWay
  <2>3. box \in Seq(Desc)
    BY <1>2 DEF Places, Placed
  <2>4. Len(box') = Len(box) + 1
    BY <1>1, <1>4, <2>3
  <2>5. QED
    BY <1>1, <1>2, <2>2, <2>4 DEF Places
<1>7. CallsInv'
  BY <1>1, <1>2, WakingKeepsCalls, NamedQueues DEF WInv
<1>8. DataTypeOK' /\ Holding' /\ Dispatching'
  BY <1>1, <1>2, <1>3 DEF WInv, DataTypeOK, Holding, Dispatching
<1>9. Running' = Running
  <2>1. ASSUME NEW u \in Task
        PROVE  Begun(u)' = Begun(u)
    BY <1>1, <1>3 DEF Begun
  <2>2. QED
    BY <2>1, SameRunning
<1>10. InLine' = InLine \cup {asked[t]} /\ PromiseStep
  BY <1>1, <1>4, <1>5, <1>9, JobAdded
<1>11. AskedInv'
  BY <1>1, <1>2, <1>3, <1>5, <1>9, <1>10 DEF AskedInv
<1>12. QED
  BY <1>6, <1>7, <1>8, <1>10, <1>11 DEF WInv

LEMMA QueueByHandlerKeeps ==
  ASSUME WInv, NEW j \in Job, QueueByHandler(j)
  PROVE  WInv' /\ PromiseStep
<1> DEFINE d == Head(free)
<1>1. /\ Fresh(j) /\ spare >= 1 /\ spare' = spare - 1 /\ free' = Tail(free)
      /\ posted' = posted + 1 /\ box' = Append(box, d)
      /\ content' = [content EXCEPT ![d] = j]
      /\ waitq' = [waitq EXCEPT ![mail] = <<>>]
      /\ UNCHANGED <<hold, timer, timedOut, pc, limit, mine, asked, frames, use>>
  BY DEF QueueByHandler, Posted, removalVars
<1>2. /\ Places' /\ d \in Desc /\ ~Contains(box, d) /\ \A u \in Task : mine[u] # d
  BY <1>1, FromPoolToBox DEF WInv
<1> HIDE DEF d
<1>3. /\ DataTypeOK /\ AskedInv /\ NoJob \notin Job /\ pc \in [Task -> {"user"} \cup Steps]
  BY NamedQueues DEF WInv, CallsInv, BlockingTypeOK
<1>4. /\ content' \in [Desc -> Job \cup {NoJob}] /\ content'[d] = j
      /\ \A x : x # d => content'[x] = content[x]
  BY <1>1, <1>2, <1>3 DEF DataTypeOK
<1>5. j \notin InLine /\ j \notin Running /\ \A u \in Task : asked[u] # j
  BY <1>1 DEF Fresh
<1>6. CallsInv'
  BY <1>1, <1>3, WakingKeepsCalls, NamedQueues DEF WInv
<1>7. DataTypeOK' /\ Holding' /\ Dispatching'
  BY <1>1, <1>3, <1>4 DEF WInv, DataTypeOK, Holding, Dispatching
<1>8. Running' = Running
  <2>1. \A u \in Task : content'[mine[u]] = content[mine[u]]
    BY <1>2, <1>4
  <2>2. ASSUME NEW u \in Task
        PROVE  Begun(u)' = Begun(u)
    BY <1>1, <2>1 DEF Begun
  <2>3. QED
    BY <2>2, SameRunning
<1>9. InLine' = InLine \cup {j} /\ PromiseStep
  <2>1. \A i \in 1 .. Len(box) : box[i] # d
    BY <1>2 DEF Contains
  <2>2. \A i \in 1 .. Len(box) : content'[box[i]] = content[box[i]]
    BY <1>4, <2>1
  <2>3. QED
    BY <1>1, <1>2, <1>4, <1>5, <1>8, <2>2, JobAdded
<1>10. AskedInv'
  <2>1. \A u \in Task : content'[mine[u]] = content[mine[u]]
    BY <1>2, <1>4
  <2>2. QED
    BY <1>1, <1>3, <1>5, <1>8, <1>9, <2>1 DEF AskedInv
<1>11. QED
  BY <1>2, <1>6, <1>7, <1>9, <1>10 DEF WInv

\* A worker takes a descriptor out of the mailbox: the first job in line is begun.
LEMMA GotKeeps ==
  ASSUME WInv, NEW t \in Task, Got(t)
  PROVE  WInv' /\ PromiseStep
<1>1. /\ pc[t] = "get" /\ pc' = [pc EXCEPT ![t] = "read"]
      /\ posted >= 1 /\ posted' = posted - 1 /\ box' = Tail(box)
      /\ mine' = [mine EXCEPT ![t] = Head(box)]
      /\ UNCHANGED <<free, spare, content, asked, frames, use>>
  BY DEF Got, Getting, Ends, poolVars, removalVars
<1>2. /\ pc \in [Task -> {"user"} \cup Steps] /\ mine \in [Task -> Desc \cup {None}]
      /\ Places /\ AskedInv /\ Holding /\ None \notin Desc
      /\ box \in Seq(Desc) /\ Len(box) >= 1 /\ IsInjective(box)
  BY <1>1, NamedQueues DEF WInv, CallsInv, BlockingTypeOK, Places, Placed
<1>3. /\ \A u \in Task : pc'[u] = IF u = t THEN "read" ELSE pc[u]
      /\ \A u \in Task : mine'[u] = IF u = t THEN Head(box) ELSE mine[u]
  BY <1>1, <1>2
<1>4. /\ Head(box) = box[1] /\ 1 \in 1 .. Len(box) /\ Len(Tail(box)) = Len(box) - 1
      /\ \A i \in 1 .. Len(box) - 1 : Tail(box)[i] = box[i + 1] /\ i + 1 \in 1 .. Len(box)
  BY <1>2
<1>5. Places' /\ Head(box) \in Desc
  <2>1. mine[t] = None
    BY <1>1, <1>2 DEF Holding
  <2>2. Placed(box, free, mine, use.descs)
    BY <1>2, PlacedEitherWay DEF Places
  <2>3. /\ Placed(Tail(box), free, [mine EXCEPT ![t] = Head(box)], use.descs)
        /\ Head(box) \in Desc
    BY <1>2, <2>1, <2>2, HeadTaken
  <2>4. Placed(free, Tail(box), [mine EXCEPT ![t] = Head(box)], use.descs)
    BY <2>3, PlacedEitherWay
  <2>5. QED
    BY <1>1, <1>2, <1>4, <2>3, <2>4 DEF Places
<1>6. CallsInv'
  BY EndsKeepsCalls DEF Got, WInv, Steps
<1>7. DataTypeOK' /\ Dispatching'
  BY <1>1, <1>2, <1>3 DEF WInv, DataTypeOK, Dispatching
<1>8. Holding'
  BY <1>1, <1>2, <1>3, <1>5 DEF Holding
<1>9. Line # <<>> /\ Head(Line) = content[Head(box)]
  BY <1>2, <1>4, LineProperties
<1>10. Line' = Tail(Line)
  <2>1. /\ Line \in Seq(Job \cup {NoJob}) /\ Len(Line) = Len(box) /\ Len(box) \in Nat
        /\ \A i \in 1 .. Len(box) : Line[i] = content[box[i]]
    BY LineProperties
  <2>2. /\ Tail(Line) \in Seq(Job \cup {NoJob}) /\ Len(Tail(Line)) = Len(box) - 1
        /\ \A i \in 1 .. Len(box) - 1 : Tail(Line)[i] = Line[i + 1]
    BY <1>2, <2>1
  <2>3. Line' = [i \in 1 .. Len(box) - 1 |-> content[Tail(box)[i]]]
    BY <1>1, <1>4 DEF Line
  <2>4. \A i \in 1 .. Len(box) - 1 : content[Tail(box)[i]] = Tail(Line)[i]
    BY <1>4, <2>1, <2>2
  <2>5. Line' = [i \in 1 .. Len(box) - 1 |-> Tail(Line)[i]]
    BY <2>3, <2>4
  <2>6. Tail(Line) \in [1 .. Len(box) - 1 -> Job \cup {NoJob}]
    BY <2>2, LenProperties
  <2>7. QED
    BY <2>5, <2>6
<1>11. Running' = Running \cup {content[Head(box)]}
  <2>1. Begun(t)' = Begun(t) \cup {content[Head(box)]}
    BY <1>1, <1>3 DEF Begun
  <2>2. \A u \in Task : u # t => Begun(u)' = Begun(u)
    BY <1>1, <1>3 DEF Begun
  <2>3. QED
    BY <2>1, <2>2 DEF Running
<1>12. PromiseStep
  <2>1. Promise!Run
    BY <1>9, <1>10, <1>11 DEF Promise!Run
  <2>2. QED
    BY <2>1 DEF PromiseStep, Promise!Next
<1>13. AskedInv'
  <2>1. content[Head(box)] \in InLine
    BY <1>4, LineProperties
  <2>2. InLine' \subseteq InLine
    <3>1. DOMAIN box = 1 .. Len(box) /\ DOMAIN Tail(box) = 1 .. Len(box) - 1
      BY <1>2
    <3>2. ToSet(Tail(box)) \subseteq ToSet(box)
      BY <1>4, <3>1 DEF ToSet
    <3>3. QED
      BY <1>1, <3>2 DEF InLine
  <2>3. QED
    BY <1>1, <1>2, <1>3, <1>11, <2>1, <2>2 DEF AskedInv
<1>14. QED
  BY <1>5, <1>6, <1>7, <1>8, <1>12, <1>13 DEF WInv
-----------------------------------------------------------------------------
(* The theorems.                                                              *)

LEMMA NextKeepsWInv ==
  ASSUME WInv, [WQNext]_wqVars
  PROVE  WInv' /\ PromiseStep
<1>1. CASE UNCHANGED wqVars
  <2>1. UNCHANGED <<waitq, hold, timer, timedOut, pc, limit, free, spare, box, posted, content,
                    mine, asked, frames, use>>
    BY <1>1 DEF wqVars, blocking
  <2>2. CallsInv'
    BY <2>1 DEF WInv, CallsInv, BlockingTypeOK
  <2>3. asked' \in [Task -> Job \cup {NoJob}]
    BY <2>1 DEF WInv, DataTypeOK
  <2>4. \A u \in Task : Idles(u)
    BY <2>1 DEF Idles
  <2>5. QED
    BY <2>1, <2>2, <2>3, <2>4, IdleStep DEF poolVars, mailVars
<1>2. use.jobs \subseteq Job
  BY ScenarioTypes DEF WInv, DataTypeOK
<1>3. ASSUME NEW t \in Task, NEW timeout \in Timeout, NEW j \in use.jobs, QueueWQ(t, j, timeout)
      PROVE  WInv' /\ PromiseStep
  BY <1>2, <1>3, QueueWQKeeps
<1>4. ASSUME NEW t \in Task, InCall(t) PROVE WInv' /\ PromiseStep
  BY <1>4, TakenKeeps, NotQueuedKeeps, WaitKeeps, FillKeeps, PutKeeps, GetJobKeeps, GotKeeps,
     ReadKeeps, ReturnPoolKeeps, CancelTimeoutKeeps,
     UnlistKeeps, UnlinkKeeps, RemovedKeeps DEF InCall
<1>5. ASSUME NEW t \in Task, Finish(t) \/ Expire(t) \/ Forced(t) \/ RemoveWQ(t)
      PROVE  WInv' /\ PromiseStep
  BY <1>5, FinishKeeps, ExpireKeeps, ForcedKeeps, RemoveWQKeeps
<1>6. ASSUME NEW t \in Task, NEW n \in Turns, DispatchWQ(t, n) PROVE WInv' /\ PromiseStep
  BY <1>6, DispatchWQKeeps
<1>7. ASSUME NEW j \in use.jobs, QueueByHandler(j) PROVE WInv' /\ PromiseStep
  BY <1>2, <1>7, QueueByHandlerKeeps
<1>8. QED
  BY <1>1, <1>3, <1>4, <1>5, <1>6, <1>7 DEF WQNext

\* At the start every descriptor is in the pool, and no job is anywhere.
LEMMA InitWInv == WQInit => WInv /\ Promise!Init
<1>1. SUFFICES ASSUME WQInit PROVE WInv /\ Promise!Init
  OBVIOUS
<1>2. /\ waitq = [q \in Queue |-> <<>>] /\ hold = [t \in Task |-> None]
      /\ timer = [t \in Task |-> "off"] /\ timedOut = [t \in Task |-> "running"]
      /\ pc = [t \in Task |-> "user"] /\ limit = [t \in Task |-> "zero"]
      /\ use \in Scenarios /\ free = SetToSeq(use.descs) /\ spare = Cardinality(use.descs)
      /\ box = <<>> /\ posted = 0 /\ content \in [Desc -> {NoJob}]
      /\ mine = [t \in Task |-> None] /\ asked = [t \in Task |-> NoJob]
      /\ frames = [t \in Task |->
           IF Contains(use.workers, t) THEN <<Dispatch(-1)>> ELSE <<>>]
  BY <1>1 DEF WQInit, BlockingInit
<1>3. CallsInv
  <2>1. waitq \in [Queue -> Seq(Task)]
    BY <1>2
  <2>2. Once(waitq, Queue)
    BY <1>2 DEF Once
  <2>3. QED
    BY <1>2, <2>1, <2>2 DEF CallsInv, BlockingTypeOK, Table, Timeout
<1>4. \A t \in Task : frames[t] \in Seq(Frame) /\ JobsOf(frames[t]) = {}
  <2>1. SUFFICES ASSUME NEW t \in Task
                 PROVE  frames[t] \in Seq(Frame) /\ JobsOf(frames[t]) = {}
    OBVIOUS
  <2>2. CASE frames[t] = <<>>
    BY <2>2 DEF JobsOf
  <2>3. CASE frames[t] = <<Dispatch(-1)>>
    BY <2>3, DispatchFrame DEF JobsOf
  <2>4. QED
    BY <1>2, <2>2, <2>3
<1>5. DataTypeOK
  <2>1. content \in [Desc -> Job \cup {NoJob}] /\ asked \in [Task -> Job \cup {NoJob}]
    BY <1>2
  <2>2. frames \in [Task -> Seq(Frame)]
    BY <1>2, <1>4
  <2>3. QED
    BY <1>2, <2>1, <2>2 DEF DataTypeOK, Frame
<1>6. Places
  <2>1. use.descs \subseteq Desc /\ IsFiniteSet(use.descs)
    BY <1>2, ScenarioTypes, NamedQueues, FS_Subset
  <2>2. /\ free \in Seq(use.descs) /\ Len(free) = Cardinality(use.descs) /\ IsInjective(free)
        /\ \A x : Contains(free, x) <=> x \in use.descs
    BY <1>2, <2>1, ListedSet
  <2>3. free \in Seq(Desc) /\ ~Contains(free, None)
    BY <2>1, <2>2, NamedQueues
  <2>4. box \in Seq(Desc) /\ IsInjective(box) /\ \A x : ~Contains(box, x)
    BY <1>2 DEF IsInjective, Contains
  <2>5. Placed(free, box, mine, use.descs)
    BY <1>2, <2>2, <2>3, <2>4, NamedQueues DEF Placed
  <2>6. QED
    BY <1>2, <2>2, <2>5 DEF Places
<1>7. Holding /\ Dispatching
  BY <1>2 DEF Holding, Dispatching
<1>8. Running = {}
  <2>1. \A t \in Task : Begun(t) = {}
    BY <1>2, <1>4, BegunOf
  <2>2. QED
    BY <2>1 DEF Running
<1>9. AskedInv
  BY <1>2, NamedQueues DEF AskedInv
<1>10. Line = <<>>
  BY <1>2 DEF Line
<1>11. QED
  BY <1>3, <1>5, <1>6, <1>7, <1>8, <1>9, <1>10 DEF WInv, Promise!Init

\* The inductive invariant holds in every reachable state.
THEOREM WorkQueueInvariance == WQSpec => []WInv
<1>1. WInv /\ [WQNext]_wqVars => WInv'
  BY NextKeepsWInv
<1>2. QED
  BY <1>1, InitWInv, PTL DEF WQSpec

\* Every descriptor KRN_initWQ put into the pool is in the pool, in the mailbox or
\* in one hand, and the semaphores count the lists, with any number of workers,
\* descriptors and priorities, whoever queues, dispatches or removes.
THEOREM AccountedAlways == WQSpec => []Accounted
<1>1. WInv => Accounted
  BY PlacesAccounted
<1>2. QED
  BY <1>1, WorkQueueInvariance, PTL

\* KRN_queueWQ and KRN_dispatchWQ implement the line of module Jobs: jobs are begun
\* once, in the order in which they were queued, with what they were queued with.
THEOREM JobsKeepOrder == WQSpec => KeepsOrder
<1>1. WInv /\ [WQNext]_wqVars => [Promise!Next]_(Promise!vars)
  BY NextKeepsWInv DEF PromiseStep
<1>2. QED
  BY <1>1, InitWInv, WorkQueueInvariance, PTL DEF WQSpec, KeepsOrder, Promise!Spec
=============================================================================
