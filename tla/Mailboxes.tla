----------------------------- MODULE Mailboxes ------------------------------
(***************************************************************************)
(* Mailboxes and pools (src/kernel/mailbox.c, pools.c): a list of items and *)
(* a semaphore that counts them.  A pool is a mailbox that starts full and  *)
(* gets its items back; putting and taking are the same code in both.  The  *)
(* list and the count change in one section with the IPL raised.            *)
(*                                                                          *)
(* The semaphore is set with the IPL already raised, and then a MIPS target *)
(* leaves the schedule to the next interrupt: a task may run on for a while *)
(* although a woken one outranks it.  Instances give all tasks the same     *)
(* priority, so that any ready task may run at any time.                    *)
(***************************************************************************)
EXTENDS Semaphores

CONSTANTS
  Item,     \* the items
  Stocked,  \* those KRN_initPool puts on the free list
  Handler   \* owner of the items interrupt handlers hold

ASSUME MailboxAssumption ==
  /\ IsFiniteSet(Item) /\ Stocked \subseteq Item
  /\ Amount = {1} /\ Initial = Cardinality(Stocked)
  /\ Modulus > Cardinality(Item)
  /\ Handler \notin Task /\ None \notin Task \cup {Handler}

VARIABLES
  items,  \* the linked list of the mailbox, or free list of the pool
  owner   \* who last took the item out

boxVars == <<items, owner>>

BoxTypeOK ==
  /\ items \in Seq(Item)
  /\ owner \in [Item -> Task \cup {Handler, None}]

BoxInit ==
  /\ items \in SetToSeqs(Stocked)
  /\ owner = [x \in Item |-> IF x \in Stocked THEN None ELSE Handler]

\* KRN_putMbox, KRN_returnPool
Put(x) ==
  /\ items' = Append(items, x)
  /\ SetSemaphore(1)
  /\ owner' = [owner EXCEPT ![x] = None]

PutByTask(t, x) == Runs(t) /\ pc[t] = "user" /\ owner[x] = t /\ Put(x)
PutByHandler(x) == owner[x] = Handler /\ Put(x)

\* KRN_getMbox, KRN_takePool: the call, and the ends of its wait.
Get(t, timeout) ==
  /\ TestSemaphore(t, 1, timeout)
  /\ UNCHANGED boxVars

\* Mutated form of Take: the item is left on the list.
TakeCopy(by) ==
  /\ items # <<>>
  /\ UNCHANGED items
  /\ owner' = [owner EXCEPT ![Head(items)] = by]

\* LST_removeHead: NULL from an empty list.
Take(by) ==
  IF items = <<>> THEN UNCHANGED boxVars
  ELSE items' = Tail(items) /\ owner' = [owner EXCEPT ![Head(items)] = by]

Got(t) == Claim(t) /\ Take(t)

NotGot(t) ==
  /\ Fail(t) \/ Block(t)
  /\ UNCHANGED boxVars

GetNow == TestNow(1) /\ Take(Handler)

\* A task hands an item it holds to another, or to a handler.
Pass(x, to) ==
  /\ owner' = [owner EXCEPT ![x] = to]
  /\ UNCHANGED <<vars, items>>

BoxStep(t) ==
  \/ \E x \in Item : PutByTask(t, x)
  \/ \E timeout \in Timeout : Get(t, timeout)
  \/ Got(t)
  \/ NotGot(t)
  \/ \E x \in Item, to \in Task \cup {Handler} : owner[x] = t /\ Pass(x, to)

BoxByHandler ==
  \/ \E x \in Item : PutByHandler(x)
  \/ \E x \in Item, to \in Task : owner[x] = Handler /\ Pass(x, to)
  \/ GetNow
-----------------------------------------------------------------------------
\* The semaphore counts the list, so that a granted KRN_getMbox or KRN_takePool
\* always finds an item, however calls, expiries and interrupts interleave; an item
\* is on the list once, or with one owner: none is handed out twice, none is lost.
OneOwner ==
  /\ value = Len(items)
  /\ IsInjective(items)
  /\ \A x \in Item : Contains(items, x) <=> owner[x] = None
=============================================================================
