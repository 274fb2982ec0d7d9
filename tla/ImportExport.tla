---------------------------- MODULE ImportExport ----------------------------
(***************************************************************************)
(* A semaphore, or lock, of one hardware thread used by the tasks of others *)
(* (src/kernel/impexp.c, and the parts of sem.c for imported and exported   *)
(* semaphores).  A client task that tests or sets the semaphore sleeps on   *)
(* the wait queue of its thread's own copy until an ACK with the sequence   *)
(* number of its request, or a NOTIFY, wakes it.  Threads share nothing but *)
(* two queues of messages for each pair; messages arrive in order.          *)
(*                                                                          *)
(* Each section with the IPL raised, and each handling of a message, is one *)
(* step.  The tasks of a thread take turns at any point.                    *)
(***************************************************************************)
EXTENDS Integers, FiniteSets, FiniteSetsExt, Queues

CONSTANTS
  Client, Server,  \* hardware threads
  Task, Home,      \* tasks, and the threads they belong to
  Amount,          \* units a task tests for, or sets
  Timeouts,        \* timeouts each task tests with
  Initial,         \* units there are
  Wrap,            \* number of sequence numbers, 256 in the code
  Starts           \* whether the semaphore is exported before the clients
                   \* begin, and the value their own copies begin with

Thread == Client \cup {Server}

ASSUME ImportExportAssumption ==
  /\ Server \notin Client /\ IsFiniteSet(Client) /\ IsFiniteSet(Task)
  /\ Home \in [Task -> Thread]
  /\ Amount \subseteq Nat \ {0} /\ Amount # {}
  /\ Timeouts \in [Task -> SUBSET {"zero", "ticks", "forever"}]
  /\ Initial \in Nat /\ Wrap \in Nat \ {0, 1}
  /\ Starts \subseteq [exported : BOOLEAN, first : 0 .. Wrap - 1]

VARIABLES
  value, notifyMask, exported,  \* the server's semaphore and its export entry
  counter,   \* the value of the clients' copies: a counter of requests
  import,    \* how far the clients have got with KRN_import
  waitq,     \* the queues of tasks, of the semaphore and its copies
  pc,        \* what each task is doing
  want, limit, timedOut,  \* the arguments of its test; the timedOut field
  p2,        \* seqNum and ackStatus, a union
  held,      \* units it has been granted and not set again
  up, down   \* messages to and from the server

server == <<value, notifyMask, exported>>
call   == <<want, limit, timedOut>>
vars   == <<server, counter, import, waitq, pc, call, p2, held, up, down>>

\* ackStatus of a task whose test was refused and that waits for a NOTIFY.
Parked == Wrap

Request  == [cmd : {"import", "test", "set"}, seq : 0 .. Wrap - 1,
             wait : BOOLEAN, n : Amount \cup {0}]
Response == [type : {"ack"}, to : Request, ok : BOOLEAN] \cup [type : {"notify"}]

TypeOK ==
  /\ value \in Nat /\ notifyMask \subseteq Client /\ exported \in BOOLEAN
  /\ counter \in [Client -> 0 .. Wrap - 1]
  /\ import \in [Client -> {"no", "probing", "done"}]
  /\ waitq \in [Thread -> Seq(Task)]
  /\ pc \in [Task -> {"user", "import", "test"}]
  /\ want \in [Task -> Amount] /\ limit \in [Task -> {"zero", "ticks", "forever"}]
  /\ timedOut \in [Task -> BOOLEAN]
  /\ p2 \in [Task -> 0 .. Wrap] /\ held \in [Task -> Nat]
  /\ up \in [Client -> Seq(Request)] /\ down \in [Client -> Seq(Response)]
-----------------------------------------------------------------------------
(* Clients.                                                                *)

Asleep(t) == Contains(waitq[Home[t]], t)

\* _KRN_waitOnSequence
WaitOnSequence(t, cmd, seq, wait, n) ==
  /\ waitq' = AddTail(Unlinked(waitq, t), Home[t], t)
  /\ p2' = [p2 EXCEPT ![t] = seq]
  /\ up' = [up EXCEPT ![Home[t]] =
              Append(@, [cmd |-> cmd, seq |-> seq, wait |-> wait, n |-> n])]

\* The number of a request is the value of the copy, which counts it.
WaitOnCount(t, cmd, wait, n) ==
  /\ WaitOnSequence(t, cmd, counter[Home[t]], wait, n)
  /\ counter' = [counter EXCEPT ![Home[t]] = (@ + 1) % Wrap]

\* KRN_import: a probe with a number of its own, and the return, whatever the
\* answer was.
Import(t) ==
  /\ pc[t] = "user" /\ Home[t] \in Client /\ import[Home[t]] = "no"
  /\ WaitOnSequence(t, "import", 0, TRUE, 0)
  /\ import' = [import EXCEPT ![Home[t]] = "probing"]
  /\ pc' = [pc EXCEPT ![t] = "import"]
  /\ UNCHANGED <<server, counter, call, held, down>>

Imported(t) ==
  /\ pc[t] = "import" /\ ~Asleep(t)
  /\ import' = [import EXCEPT ![Home[t]] = "done"]
  /\ pc' = [pc EXCEPT ![t] = "user"]
  /\ UNCHANGED <<server, counter, waitq, call, p2, held, up, down>>

\* KRN_testSemaphore, up to the IPL being raised.
Test(t, n, timeout) ==
  /\ pc[t] = "user"
  /\ pc' = [pc EXCEPT ![t] = "test"]
  /\ want' = [want EXCEPT ![t] = n]
  /\ limit' = [limit EXCEPT ![t] = timeout]
  /\ timedOut' = [timedOut EXCEPT ![t] = timeout = "zero"]

\* _KRN_testImportedSemaphore: the first request is sent; then whenever the task
\* runs again it has been granted what it wants, has no time left, or asks again.
RequestTest(t, n, timeout) ==
  /\ Home[t] \in Client /\ import[Home[t]] = "done"
  /\ Test(t, n, timeout)
  /\ WaitOnCount(t, "test", timeout # "zero", n)
  /\ UNCHANGED <<server, import, held, down>>

Return(t, units) ==
  /\ pc' = [pc EXCEPT ![t] = "user"]
  /\ held' = [held EXCEPT ![t] = @ + units]
  /\ UNCHANGED <<counter, import, call, p2, up, down, notifyMask, exported>>

Woken(t) == pc[t] = "test" /\ Home[t] \in Client /\ ~Asleep(t)

Granted(t) ==
  /\ Woken(t) /\ p2[t] = 1
  /\ Return(t, want[t])
  /\ UNCHANGED <<value, waitq>>

\* Mutated form of Refused: a NOTIFY is taken for a refusal.
RefusedNotified(t) ==
  /\ Woken(t) /\ p2[t] # 1
  /\ Return(t, 0)
  /\ UNCHANGED <<value, waitq>>

Refused(t) ==
  /\ Woken(t) /\ p2[t] # 1 /\ timedOut[t]
  /\ Return(t, 0)
  /\ UNCHANGED <<value, waitq>>

RequestAgain(t) ==
  /\ Woken(t) /\ p2[t] # 1 /\ ~timedOut[t]
  /\ WaitOnCount(t, "test", TRUE, want[t])
  /\ UNCHANGED <<server, import, pc, call, held, down>>

\* KRN_setSemaphore of an imported semaphore.  No schedule event is asked for, so
\* the caller goes on, linked on the wait queue.
RequestSet(t, n) ==
  /\ pc[t] = "user" /\ Home[t] \in Client /\ import[Home[t]] = "done"
  /\ n <= held[t]
  /\ WaitOnCount(t, "set", FALSE, n)
  /\ held' = [held EXCEPT ![t] = @ - n]
  /\ UNCHANGED <<server, import, pc, call, down>>

\* The timer of a test expires: _KRN_timeoutWake.
Timeout(t) ==
  /\ pc[t] = "test" /\ limit[t] = "ticks" /\ ~timedOut[t]
  /\ timedOut' = [timedOut EXCEPT ![t] = TRUE]
  /\ waitq' = Unlinked(waitq, t)
  /\ UNCHANGED <<server, counter, import, pc, want, limit, p2, held, up, down>>

\* Mutated form of Ack: a task is left to wait whether it is willing to or not.
AckParks(c) ==
  LET m == Head(down[c])
      i == SelectInSeq(waitq[c], LAMBDA t : p2[t] = m.to.seq)
      t == waitq[c][i]
  IN  /\ down[c] # <<>> /\ m.type = "ack"
      /\ IF i = 0 THEN UNCHANGED <<waitq, p2>>
         ELSE IF m.ok
           THEN waitq' = Unlinked(waitq, t) /\ p2' = [p2 EXCEPT ![t] = 1]
         ELSE p2' = [p2 EXCEPT ![t] = Parked] /\ UNCHANGED waitq

\* _KRN_IPM_ack: the first task with the sequence number is told.
Ack(c) ==
  LET m == Head(down[c])
      i == SelectInSeq(waitq[c], LAMBDA t : p2[t] = m.to.seq)
      t == waitq[c][i]
  IN  /\ down[c] # <<>> /\ m.type = "ack"
      /\ IF i = 0 THEN UNCHANGED <<waitq, p2>>
         ELSE IF m.ok \/ ~m.to.wait
           THEN /\ waitq' = Unlinked(waitq, t)
                /\ p2' = [p2 EXCEPT ![t] = IF m.ok THEN 1 ELSE 0]
         ELSE /\ p2' = [p2 EXCEPT ![t] = Parked]
              /\ UNCHANGED waitq

\* _KRN_IPM_notify: all tasks are woken, whatever they sleep for; nothing is done
\* before the object is imported.
Notify(c) ==
  /\ down[c] # <<>> /\ Head(down[c]).type = "notify"
  /\ IF import[c] = "no" THEN UNCHANGED <<waitq, p2>>
     ELSE /\ waitq' = [waitq EXCEPT ![c] = <<>>]
          /\ p2' = [t \in Task |-> IF Contains(waitq[c], t) THEN 0 ELSE p2[t]]

ClientReceives(c) ==
  /\ Ack(c) \/ Notify(c)
  /\ down' = [down EXCEPT ![c] = Tail(@)]
  /\ UNCHANGED <<server, counter, import, pc, call, held, up>>
-----------------------------------------------------------------------------
(* The server.                                                             *)

\* _KRN_notify, _KRN_IPM_ACKorNACK
Notified(C) ==
  [c \in Client |-> IF c \in C THEN Append(down[c], [type |-> "notify"]) ELSE down[c]]

Answered(responses, c, request, ok) ==
  [responses EXCEPT ![c] = Append(@, [type |-> "ack", to |-> request, ok |-> ok])]

\* KRN_export
Export ==
  /\ ~exported
  /\ exported' = TRUE
  /\ down' = Notified(Client)
  /\ UNCHANGED <<value, notifyMask, counter, import, waitq, pc, call, p2, held, up>>

\* Mutated form of SetSemaphore: the mask is not cleared.
SetSemaphoreAgain(n) ==
  /\ value' = value + n
  /\ waitq' = [waitq EXCEPT ![Server] =
                 Sifted(@, {t \in Task : want[t] > value + n})]
  /\ UNCHANGED <<notifyMask, exported>>

\* KRN_setSemaphore of the exported semaphore; Notified(notifyMask) goes with it.
SetSemaphore(n) ==
  /\ value' = value + n
  /\ waitq' = [waitq EXCEPT ![Server] =
                 Sifted(@, {t \in Task : want[t] > value + n})]
  /\ notifyMask' = {}
  /\ UNCHANGED exported

\* Mutated form of SemTest: a client that waits is not put into the mask.
SemTestUnmasked(c, m) ==
  /\ UNCHANGED <<notifyMask, exported, waitq>>
  /\ IF value >= m.n
       THEN value' = value - m.n /\ down' = Answered(down, c, m, TRUE)
       ELSE down' = Answered(down, c, m, FALSE) /\ UNCHANGED value

\* _KRN_IPM_semTest, _KRN_IPM_semSet, _KRN_IPM_importProbe
SemTest(c, m) ==
  /\ UNCHANGED <<exported, waitq>>
  /\ IF value >= m.n
       THEN value' = value - m.n /\ down' = Answered(down, c, m, TRUE)
                                 /\ UNCHANGED notifyMask
       ELSE /\ notifyMask' = IF m.wait THEN notifyMask \cup {c} ELSE notifyMask
            /\ down' = Answered(down, c, m, FALSE)
            /\ UNCHANGED value

SemSet(c, m) ==
  /\ SetSemaphore(m.n)
  /\ down' = Answered(Notified(notifyMask), c, m, TRUE)

ImportProbe(c, m) ==
  /\ down' = Answered(down, c, m, exported)
  /\ UNCHANGED <<server, waitq>>

ServerReceives(c) ==
  LET m == Head(up[c])
  IN  /\ up[c] # <<>>
      /\ up' = [up EXCEPT ![c] = Tail(@)]
      /\ \/ m.cmd = "test" /\ SemTest(c, m)
         \/ m.cmd = "set" /\ SemSet(c, m)
         \/ m.cmd = "import" /\ ImportProbe(c, m)
      /\ UNCHANGED <<counter, import, pc, call, p2, held>>

\* The server's own tasks: KRN_testSemaphore, KRN_testSemaphoreProtected and
\* KRN_setSemaphore.
LocalTest(t, n, timeout) ==
  /\ Home[t] = Server
  /\ Test(t, n, timeout)
  /\ UNCHANGED <<server, counter, import, waitq, p2, held, up, down>>

LocalSection(t) ==
  /\ pc[t] = "test" /\ Home[t] = Server /\ ~Asleep(t)
  /\ \/ /\ value >= want[t]
        /\ value' = value - want[t]
        /\ Return(t, want[t])
        /\ UNCHANGED waitq
     \/ /\ value < want[t] /\ timedOut[t]
        /\ Return(t, 0)
        /\ UNCHANGED <<value, waitq>>
     \/ /\ value < want[t] /\ ~timedOut[t]
        /\ waitq' = AddTail(waitq, Server, t)
        /\ UNCHANGED <<server, counter, import, pc, call, p2, held, up, down>>

LocalSet(t, n) ==
  /\ pc[t] = "user" /\ Home[t] = Server /\ n <= held[t]
  /\ SetSemaphore(n)
  /\ down' = Notified(notifyMask)
  /\ held' = [held EXCEPT ![t] = @ - n]
  /\ UNCHANGED <<counter, import, pc, call, p2, up>>
-----------------------------------------------------------------------------
Init ==
  /\ \E s \in Starts :
       exported = s.exported /\ counter = [c \in Client |-> s.first]
  /\ value = Initial /\ notifyMask = {}
  /\ import = [c \in Client |-> "no"]
  /\ waitq = [h \in Thread |-> <<>>]
  /\ pc = [t \in Task |-> "user"]
  /\ want = [t \in Task |-> Min(Amount)] /\ limit = [t \in Task |-> "forever"]
  /\ timedOut = [t \in Task |-> FALSE]
  /\ p2 = [t \in Task |-> 0] /\ held = [t \in Task |-> 0]
  /\ up = [c \in Client |-> <<>>] /\ down = [c \in Client |-> <<>>]

Continue(t) ==
  \/ Imported(t)
  \/ Granted(t) \/ Refused(t) \/ RequestAgain(t)
  \/ LocalSection(t)

Next ==
  \/ \E t \in Task :
       \/ Import(t) \/ Continue(t) \/ Timeout(t)
       \/ \E n \in Amount :
            \/ \E timeout \in Timeouts[t] :
                 RequestTest(t, n, timeout) \/ LocalTest(t, n, timeout)
            \/ RequestSet(t, n) \/ LocalSet(t, n)
  \/ \E c \in Client : ClientReceives(c) \/ ServerReceives(c)
  \/ Export

\* Messages are delivered and handled, and a task that is ready runs.  Nothing
\* obliges a task to call anything, or to set what it holds.
Fairness ==
  /\ \A t \in Task : WF_vars(Continue(t))
  /\ \A c \in Client : WF_vars(ClientReceives(c)) /\ WF_vars(ServerReceives(c))

Spec == Init /\ [][Next]_vars /\ Fairness
-----------------------------------------------------------------------------
(* Properties.                                                             *)

\* The ACK for a task's present request is on the way and ends its call.
Ending(t, ok) ==
  \E i \in 1 .. Len(down[Home[t]]) :
    LET m == down[Home[t]][i]
    IN  /\ m.type = "ack" /\ m.ok = ok /\ (ok \/ ~m.to.wait)
        /\ m.to.cmd = "test" /\ m.to.seq = p2[t]

\* The task has been granted what it wants but has not got it yet.
OnTheWay(t) ==
  /\ pc[t] = "test" /\ Home[t] \in Client
  /\ IF Asleep(t) THEN Ending(t, TRUE) ELSE p2[t] = 1

Sum(f, S) == MapThenSumSet(LAMBDA x : f[x], S)

\* "ackStatus will be one of 1: semaphore test succeeded, 0: semaphore test
\* failed" (sem.c:312): units the server hands out reach the task that asked for
\* them, and no task is told of units that were not handed out.
UnitsKept ==
  Initial = value + Sum(held, Task)
            + Sum(want, {t \in Task : OnTheWay(t)})
            + Sum([c \in Client |->
                     FoldLeft(LAMBDA s, m : IF m.cmd = "set" THEN s + m.n ELSE s, 0, up[c])],
                  Client)

\* Whatever the order in which requests of several threads, their answers and
\* notifications pass each other, no unit is lost or made, so that a lock has one
\* holder in all threads together.
Conserved == TypeOK /\ Once(waitq, Thread) /\ UnitsKept

Pending(t, cmd) ==
  LET c == Home[t]
  IN  \/ \E i \in 1 .. Len(up[c]) : up[c][i].cmd = cmd /\ up[c][i].seq = p2[t]
      \/ \E i \in 1 .. Len(down[c]) :
           LET m == down[c][i]
           IN  m.type = "ack" /\ m.to.cmd = cmd /\ m.to.seq = p2[t]

NotifyComes(c) == \E i \in 1 .. Len(down[c]) : down[c][i].type = "notify"

\* Nothing that sleeps is forgotten: its request or the answer is on the way, or it
\* has been refused and the server will notify its thread, or does so already.
NoneForgotten ==
  \A t \in Task :
    pc[t] # "user" /\ Asleep(t) =>
      IF Home[t] = Server THEN value < want[t]
      ELSE IF p2[t] # Parked THEN Pending(t, pc[t])
      ELSE \/ NotifyComes(Home[t])
           \/ pc[t] = "test" /\ Home[t] \in notifyMask
           \/ pc[t] = "import" /\ ~exported

\* Tasks of different threads, by messages, see one counting semaphore: a request
\* is decided when the server handles it, granted only when the value covers it
\* and refused only when it does not and the caller does not wait.
Asking ==
  {t \in Task : pc[t] = "test" /\ ~(Home[t] \in Client /\
     (OnTheWay(t) \/ IF Asleep(t) THEN Ending(t, FALSE) ELSE timedOut[t]))}
Promise == INSTANCE Counting WITH
  Priority <- [t \in Task |-> 0], Modulus <- Initial + 1,
  asking <- Asking, expired <- {t \in Asking : timedOut[t] /\ limit[t] = "ticks"}
KeepsPromise == Promise!Spec

\* A probe is answered once the semaphore is exported, a test that does not wait
\* is answered, and one that waits is not left waiting for units that are there.
CallsEnd ==
  \A t \in Task :
    (\/ pc[t] = "import" /\ exported
     \/ pc[t] = "test" /\ (timedOut[t] \/ want[t] <= value))
    ~> pc[t] = "user" \/ (~timedOut[t] /\ value < want[t])
=============================================================================
